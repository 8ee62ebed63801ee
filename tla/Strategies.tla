----------------------------- MODULE Strategies -----------------------------
(***************************************************************************)
(* The four strategies as functions of the frame they look at: the setup   *)
(* that entry_signal recognises on the last closed bar, the levels of      *)
(* custom_entry_price, and what confirm_signal discards.                   *)
(*                                                                         *)
(* A frame is a record of the indicator values the strategy reads.  Prices *)
(* and the ATR are whole numbers of a unit small enough for the fractions  *)
(* the code takes of them.  Each strategy has a branch for BUY and a       *)
(* branch for SELL, which the code writes separately and so does this      *)
(* module: that they are mirror images is a property, not a definition.    *)
(***************************************************************************)
EXTENDS Integers, SequencesExt

CONSTANTS
    ATR,            \* atr of the last bar
    Centre          \* a price far above the ATR, about which frames are mirrored

ASSUME PriceAssumption == ATR \in Nat \ {0} /\ Centre \in Nat /\ Centre > 10 * ATR

Actions == {"BUY", "SELL"}
Other(action) == IF action = "BUY" THEN "SELL" ELSE "BUY"

Highest(S) == CHOOSE x \in S : \A y \in S : y <= x
Lowest(S) == CHOOSE x \in S : \A y \in S : x <= y
Distance(x, y) == IF x >= y THEN x - y ELSE y - x

\* The distance of the stop is kept within half an ATR and three.
Clamp(distance) == Highest({ATR \div 2, Lowest({3 * ATR, distance})})

\* LevelSet: entry_limit, stop_loss, take_profit.  A level that is not positive, or
\* two that coincide, make the constructor raise.
LevelSet(entry, stop, target) == [entry |-> entry, stop |-> stop, target |-> target]

LevelSetValid(levels) ==
    /\ levels.entry > 0 /\ levels.stop > 0 /\ levels.target > 0
    /\ Cardinality({levels.entry, levels.stop, levels.target}) = 3

-----------------------------------------------------------------------------
\* S1, trend pullback.  bars are the last touch_lookback_bars, with the zone between
\* ema21 and ema50; swings the swing points of the last 50 bars.

S1Bar == [open : Int, close : Int, low : Int, high : Int, ema21 : Int, ema50 : Int, rsi : Int]
S1Swing == [price : Int, is_high : BOOLEAN]

S1Frame(f) ==
    /\ f \in [bars : Seq(S1Bar), ema200 : Int, adx : Int, swings : SUBSET S1Swing,
             supertrend : {"", "UP", "DOWN"}, bias : {"", "UP", "DOWN"}]
    /\ Len(f.bars) > 1 /\ IsFiniteSet(f.swings)
    /\ \A i \in DOMAIN f.bars : (f.bars[i].ema21 + f.bars[i].ema50) % 2 = 0

S1Trend(f, action) ==
    LET last == Last(f.bars)
    IN  /\ action = "BUY" => last.close > f.ema200 /\ last.ema50 > f.ema200
        /\ action = "SELL" => last.close < f.ema200 /\ last.ema50 < f.ema200
        /\ f.adx >= 20

\* Mutant of S1Touched: the short side looks at the near edge of the wrong bar end.
S1Touched_LowEdge(f, action) ==
    {bar \in ToSet(f.bars) :
        \/ action = "BUY" /\ bar.low <= Highest({bar.ema21, bar.ema50})
        \/ action = "SELL" /\ bar.high >= Highest({bar.ema21, bar.ema50})}

\* The bars that reached the pullback zone.
S1Touched(f, action) ==
    {bar \in ToSet(f.bars) :
        \/ action = "BUY" /\ bar.low <= Highest({bar.ema21, bar.ema50})
        \/ action = "SELL" /\ bar.high >= Lowest({bar.ema21, bar.ema50})}

S1Engulfing(f, action) ==
    LET curr == Last(f.bars)
        prev == f.bars[Len(f.bars) - 1]
    IN  IF action = "BUY"
        THEN /\ curr.close > prev.open /\ curr.open < prev.close
             /\ curr.close > curr.open /\ prev.close < prev.open
        ELSE /\ curr.close < prev.open /\ curr.open > prev.close
             /\ curr.close < curr.open /\ prev.close > prev.open

S1Pullback(f, action) ==
    LET last == Last(f.bars)
    IN  /\ \E bar \in S1Touched(f, action) :
            IF action = "BUY" THEN bar.rsi \in 35..55 ELSE bar.rsi \in (100 - 55)..(100 - 35)
        /\ \/ action = "BUY" /\ last.close > last.ema21
           \/ action = "SELL" /\ last.close < last.ema21
           \/ S1Engulfing(f, action)

\* The opt-in confirmations: the direction of the supertrend and the bias of the
\* higher timeframe, each "" where it is not asked or not injected.
S1Confirmations(f, action) ==
    /\ f.supertrend # "" => f.supertrend = (IF action = "BUY" THEN "UP" ELSE "DOWN")
    /\ f.bias # "" => IF action = "BUY" THEN f.bias = "UP" ELSE f.bias = "DOWN"

S1Setup(f, action) ==
    S1Trend(f, action) /\ S1Pullback(f, action) /\ S1Confirmations(f, action)

SwingsBelow(f, price) == {s.price : s \in {p \in f.swings : ~p.is_high /\ p.price < price}}
SwingsAbove(f, price) == {s.price : s \in {p \in f.swings : p.is_high /\ p.price > price}}

S1Levels(f, action) ==
    LET last == Last(f.bars)
        mid == (last.ema21 + last.ema50) \div 2
    IN  IF action = "BUY"
        THEN LET entry == Highest({last.ema21, mid})
                 lows == SwingsBelow(f, entry)
                 candidate == IF lows # {} THEN Highest(lows) - ATR \div 4 ELSE entry - ATR
                 dist == Clamp(entry - candidate)
             IN  LevelSet(entry, entry - dist, entry + 2 * dist)
        ELSE LET entry == Lowest({last.ema21, mid})
                 highs == SwingsAbove(f, entry)
                 candidate == IF highs # {} THEN Lowest(highs) + ATR \div 4 ELSE entry + ATR
                 dist == Clamp(candidate - entry)
             IN  LevelSet(entry, entry + dist, entry - 2 * dist)

\* A stop that the clamp or the rounding moved inside the structure is discarded.
S1Confirms(f, levels) ==
    IF levels.entry > levels.stop
    THEN LET lows == SwingsBelow(f, levels.entry)
         IN  lows # {} => levels.stop <= Highest(lows)
    ELSE LET highs == SwingsAbove(f, levels.entry)
         IN  highs # {} => levels.stop >= Lowest(highs)

-----------------------------------------------------------------------------
\* S2, range mean reversion.  width_start and width_end are the Donchian widths of
\* the stability window; confirms the sides its opt-in confirmations allow.

S2Frame(f) ==
    /\ f \in [adx : Int, close : Int, band_low : Int, band_high : Int, rsi : Int,
             width_start : Int, width_end : Int, confirms : SUBSET Actions]
    /\ (f.band_low + f.band_high) % 2 = 0

S2BandStable(f) ==
    /\ f.width_start > 0
    /\ 100 * Distance(f.width_end, f.width_start) < 30 * f.width_start

S2Entry(f, action) ==
    IF action = "BUY"
    THEN /\ f.close >= f.band_low - ATR \div 2 /\ f.close <= f.band_low + ATR \div 2
         /\ f.rsi < 35
         /\ f.close >= f.band_low
    ELSE /\ f.close >= f.band_high - ATR \div 2 /\ f.close <= f.band_high + ATR \div 2
         /\ f.rsi > 65
         /\ f.close <= f.band_high

S2Setup(f, action) ==
    /\ f.adx < 20
    /\ S2BandStable(f)
    /\ S2Entry(f, action)
    /\ action \in f.confirms

\* The middle of the band, or further where that is less than 1.5 R.
S2Levels(f, action) ==
    LET mid == (f.band_high + f.band_low) \div 2
    IN  IF action = "BUY"
        THEN LevelSet(f.band_low, f.band_low - ATR,
                      IF 2 * (mid - f.band_low) < 3 * ATR
                      THEN f.band_low + (3 * ATR) \div 2 ELSE mid)
        ELSE LevelSet(f.band_high, f.band_high + ATR,
                      IF 2 * (f.band_high - mid) < 3 * ATR
                      THEN f.band_high - (3 * ATR) \div 2 ELSE mid)

-----------------------------------------------------------------------------
\* S3, scalper on the fast EMA.

S3Frame(f) ==
    f \in [ema_fast : Int, ema_mid : Int, ema_fast_prev : Int, vwap : Int, low : Int, high : Int,
           close : Int, rsi_prev : Int, rsi : Int, volume_ok : BOOLEAN]

S3Setup(f, action) ==
    /\ IF action = "BUY"
       THEN /\ f.ema_fast > f.ema_mid /\ f.ema_fast > f.ema_fast_prev
            /\ f.low <= f.ema_fast /\ f.low > f.ema_mid /\ f.close > f.ema_fast
            /\ f.close > f.vwap
            /\ f.rsi_prev <= 45 /\ f.rsi > f.rsi_prev
       ELSE /\ f.ema_fast < f.ema_mid /\ f.ema_fast < f.ema_fast_prev
            /\ f.high >= f.ema_fast /\ f.high < f.ema_mid /\ f.close < f.ema_fast
            /\ f.close < f.vwap
            /\ f.rsi_prev >= 55 /\ f.rsi < f.rsi_prev
    /\ f.volume_ok

\* k = 1.2 and rr_target = 1.8.
S3Levels(f, action) ==
    LET dist == Clamp((12 * ATR) \div 10)
    IN  IF action = "BUY"
        THEN LevelSet(f.ema_fast, f.ema_fast - dist, f.ema_fast + (18 * dist) \div 10)
        ELSE LevelSet(f.ema_fast, f.ema_fast + dist, f.ema_fast - (18 * dist) \div 10)

-----------------------------------------------------------------------------
\* S4, liquidity sweep, break of structure, order block or gap.

Directions == {"bullish", "bearish"}
S4Event == [idx : Nat, direction : Directions]
S4Sweep == [idx : Nat, side : {"low", "high"}, level : Int]
S4Zone == [idx : Nat, direction : Directions, bottom : Int, top : Int]

\* The detectors of smc.py find at most one of a kind on a bar; two breaks whose last
\* opposing candle is the same one have the same block.
OnePerBar(S) == \A x, y \in S : x.idx = y.idx => x = y

S4Frame(f) ==
    /\ f \in [window : Nat, events : SUBSET S4Event, sweeps : SUBSET S4Sweep,
             blocks : SUBSET S4Zone, gaps : SUBSET S4Zone]
    /\ \A S \in {f.events, f.sweeps, f.blocks, f.gaps} : IsFiniteSet(S)
    /\ \A d \in Directions, S \in {f.events, f.blocks, f.gaps} :
        OnePerBar({x \in S : x.direction = d})
    /\ \A side \in {"low", "high"} : OnePerBar({s \in f.sweeps : s.side = side})

Newest(S) == CHOOSE x \in S : \A y \in S : y.idx <= x.idx

Direction(action) == IF action = "BUY" THEN "bullish" ELSE "bearish"
SweepSide(action) == IF action = "BUY" THEN "low" ELSE "high"

S4Breaks(f, action) == {e \in f.events : e.direction = Direction(action)}

S4Sweeps(f, action) ==
    LET break == Newest(S4Breaks(f, action))
    IN  {s \in f.sweeps : /\ s.side = SweepSide(action)
                          /\ s.idx \in (break.idx - f.window)..break.idx}

\* The newest zone of this direction at or before the break: order blocks first.
S4Zones(f, action) ==
    LET break == Newest(S4Breaks(f, action))
        dir(S) == {z \in S : z.direction = Direction(action) /\ z.idx <= break.idx}
    IN  IF dir(f.blocks) # {} THEN dir(f.blocks) ELSE dir(f.gaps)

S4Setup(f, action) ==
    /\ S4Breaks(f, action) # {}
    /\ S4Sweeps(f, action) # {}
    /\ S4Zones(f, action) # {}

S4Levels(f, action) ==
    LET zone == Newest(S4Zones(f, action))
        sweep == Newest(S4Sweeps(f, action)).level
    IN  IF action = "BUY"
        THEN LET dist == Clamp(zone.top - (sweep - ATR \div 4))
             IN  LevelSet(zone.top, zone.top - dist, zone.top + (18 * dist) \div 10)
        ELSE LET dist == Clamp((sweep + ATR \div 4) - zone.bottom)
             IN  LevelSet(zone.bottom, zone.bottom + dist, zone.bottom - (18 * dist) \div 10)

-----------------------------------------------------------------------------
\* The strategies together, as generate_candidate calls them.

\* What the indicators deliver, in a unit in which the middles that the code computes are
\* whole numbers.
Frame(strategy, f) ==
    CASE strategy = "s1" -> S1Frame(f)
      [] strategy = "s2" -> S2Frame(f)
      [] strategy = "s3" -> S3Frame(f)
      [] strategy = "s4" -> S4Frame(f)

Setup(strategy, f, action) ==
    CASE strategy = "s1" -> S1Setup(f, action)
      [] strategy = "s2" -> S2Setup(f, action)
      [] strategy = "s3" -> S3Setup(f, action)
      [] strategy = "s4" -> S4Setup(f, action)

\* entry_signal tries BUY first; "" is None.
EntrySignal(strategy, f) ==
    IF Setup(strategy, f, "BUY") THEN "BUY"
    ELSE IF Setup(strategy, f, "SELL") THEN "SELL" ELSE ""

Levels(strategy, f, action) ==
    CASE strategy = "s1" -> S1Levels(f, action)
      [] strategy = "s2" -> S2Levels(f, action)
      [] strategy = "s3" -> S3Levels(f, action)
      [] strategy = "s4" -> S4Levels(f, action)

\* S2 to S4 discard what the rounding left below their own ratio, in tenths.
RatioAtLeast(levels, tenths) ==
    /\ levels.entry # levels.stop
    /\ 10 * Distance(levels.target, levels.entry)
        >= tenths * Distance(levels.entry, levels.stop)

ConfirmSignal(strategy, f, levels) ==
    CASE strategy = "s1" -> S1Confirms(f, levels)
      [] strategy = "s2" -> RatioAtLeast(levels, 15)
      [] strategy \in {"s3", "s4"} -> RatioAtLeast(levels, 18)

-----------------------------------------------------------------------------
\* The frame seen upside down.

Flip(price) == 2 * Centre - price
FlipDirection(d) ==
    CASE d = "bullish" -> "bearish" [] d = "bearish" -> "bullish"
      [] d = "UP" -> "DOWN" [] d = "DOWN" -> "UP" [] d = "" -> ""
      [] d = "low" -> "high" [] d = "high" -> "low"

FlipBar(b) ==
    [b EXCEPT !.open = Flip(@), !.close = Flip(@), !.high = Flip(b.low), !.low = Flip(b.high),
              !.ema21 = Flip(@), !.ema50 = Flip(@), !.rsi = 100 - @]

FlipZone(z) ==
    [z EXCEPT !.direction = FlipDirection(@), !.top = Flip(z.bottom), !.bottom = Flip(z.top)]

Mirror(strategy, f) ==
    CASE strategy = "s1" ->
            [f EXCEPT !.bars = [i \in DOMAIN @ |-> FlipBar(@[i])], !.ema200 = Flip(@),
                      !.swings = {[price |-> Flip(s.price), is_high |-> ~s.is_high] : s \in @},
                      !.supertrend = FlipDirection(@), !.bias = FlipDirection(@)]
      [] strategy = "s2" ->
            [f EXCEPT !.close = Flip(@), !.rsi = 100 - @, !.band_low = Flip(f.band_high),
                      !.band_high = Flip(f.band_low), !.confirms = {Other(a) : a \in @}]
      [] strategy = "s3" ->
            [f EXCEPT !.ema_fast = Flip(@), !.ema_mid = Flip(@), !.ema_fast_prev = Flip(@),
                      !.vwap = Flip(@), !.close = Flip(@), !.low = Flip(f.high),
                      !.high = Flip(f.low), !.rsi_prev = 100 - @, !.rsi = 100 - @]
      [] strategy = "s4" ->
            [f EXCEPT !.events = {[e EXCEPT !.direction = FlipDirection(@)] : e \in @},
                      !.sweeps = {[s EXCEPT !.side = FlipDirection(@), !.level = Flip(@)] : s \in @},
                      !.blocks = {FlipZone(z) : z \in @}, !.gaps = {FlipZone(z) : z \in @}]

FlipLevels(levels) ==
    LevelSet(Flip(levels.entry), Flip(levels.stop), Flip(levels.target))
=============================================================================
