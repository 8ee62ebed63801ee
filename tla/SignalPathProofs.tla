-------------------------- MODULE SignalPathProofs --------------------------
(***************************************************************************)
(* What is published, for any frames, calendars, instruments and profiles. *)
(*                                                                         *)
(* Every property of a published signal is decided at some stage of the    *)
(* scan and must survive until the end of it: RunInv says, stage by stage, *)
(* what has been established so far.  The regime decides nothing by        *)
(* itself, because the memory may hold RANGE up to an ADX of 25: that S2   *)
(* stays below 20 comes from its setup, and that a trend strategy does     *)
(* not run in a range from the gate.                                       *)
(*                                                                         *)
(* That neither side is favoured is a fact about the operators: the first  *)
(* part compares the two branches of each strategy, of the level engine    *)
(* and of the score on a frame and on its mirror image.                    *)
(***************************************************************************)
EXTENDS SignalPath, FoldLemmas

AfterSize == {"candidate", "passed", "graded", "published"}
AfterRound == {"rounded", "confirmed", "clean", "scored"} \cup AfterSize
AfterGate == {"passed", "graded", "published"}
Stages == {"idle", "strategies", "looked", "priced"} \cup AfterRound

LevelShape == [entry : Int, stop : Int, target : Int]

Names == {"s1", "s2", "s3", "s4"}

\* The regime of the scan, whatever the memory held.
Begun ==
    /\ {"tf", "adx", "crisis", "regime", "table", "rest"} \subseteq DOMAIN run
    /\ run.adx \in Nat /\ run.table \in Tables /\ run.rest \in Seq(Names)
    /\ run.regime = "TREND" => ~run.crisis /\ run.adx >= 20
    /\ run.regime = "RANGE" => ~run.crisis

\* The calendar does not block the strategy.
Chosen ==
    /\ run.rest # <<>>
    /\ Strategy = "s2" => ~HighImpactWithin(Events, 12)

Looked ==
    /\ {"frame", "action"} \subseteq DOMAIN run
    /\ run.frame \in Frames[Strategy]
    /\ "adx" \in DOMAIN run.frame => run.frame.adx = run.adx
    /\ \/ run.action = ""
       \/ run.action \in Actions /\ Setup(Strategy, run.frame, run.action)

\* There is a setup; S2 has one only where the ADX is low.
Suits ==
    /\ "action" \in DOMAIN run /\ run.action \in Actions
    /\ Strategy = "s2" => run.adx < 20

Priced ==
    /\ "levels" \in DOMAIN run /\ run.levels \in LevelShape
    /\ run.levels.entry >= Tick /\ run.levels.stop >= Tick /\ run.levels.target >= Tick

\* GR-02 to GR-04 hold of the rounded levels.
Rounded ==
    /\ "levels" \in DOMAIN run /\ run.levels \in LevelShape
    /\ DirectionHolds(run.levels, run.action)
    /\ RatioHolds(run.levels, 15)
    /\ WithinAtr(run.levels, ATR)

\* The position loses no more than its budget at the stop.
Sized ==
    /\ {"risk", "risked"} \subseteq DOMAIN run
    /\ run.risk \in 1..20 /\ run.risked \in Nat
    /\ run.risked <= Budget(run.risk) /\ 50 * run.risked <= Equity

\* GR-07 and GR-08 have passed.
Gated ==
    /\ ~Blackout(Events)
    /\ run.regime = RequiredRegime(Strategy)

RunInv ==
    /\ "at" \in DOMAIN run /\ run.at \in Stages
    /\ run.at # "idle" => Begun
    /\ run.at \notin {"idle", "strategies"} => Chosen
    /\ run.at = "looked" => Looked
    /\ run.at \in {"priced"} \cup AfterRound => Suits
    /\ run.at = "priced" => Priced
    /\ run.at \in AfterRound => Rounded
    /\ run.at \in AfterSize => Sized
    /\ run.at \in AfterGate => Gated
    /\ run.at = "published" => run.scaled <= run.risked
-----------------------------------------------------------------------------
\* Least and greatest prices, upright and upside down.

LEMMA HighestIs ==
    ASSUME NEW S \in SUBSET Int, NEW m \in S, \A y \in S : y <= m
    PROVE  Highest(S) = m
<1> DEFINE x == Highest(S)
<1>1. x \in S /\ \A y \in S : y <= x
  BY DEF Highest
<1>2. x \in Int /\ m \in Int /\ x <= m /\ m <= x
  BY <1>1
<1> HIDE DEF x
<1>3. x = m
  BY <1>2
<1> QED
  BY <1>3 DEF x

LEMMA LowestIs ==
    ASSUME NEW S \in SUBSET Int, NEW m \in S, \A y \in S : m <= y
    PROVE  Lowest(S) = m
<1> DEFINE x == Lowest(S)
<1>1. x \in S /\ \A y \in S : x <= y
  BY DEF Lowest
<1>2. x \in Int /\ m \in Int /\ x <= m /\ m <= x
  BY <1>1
<1> HIDE DEF x
<1>3. x = m
  BY <1>2
<1> QED
  BY <1>3 DEF x

LEMMA OfTwo ==
    ASSUME NEW a \in Int, NEW b \in Int
    PROVE  /\ Highest({a, b}) = IF a <= b THEN b ELSE a
           /\ Lowest({a, b}) = IF a <= b THEN a ELSE b
<1> DEFINE S == {a, b}
<1>1. S \in SUBSET Int /\ a \in S /\ b \in S /\ \A y \in S : y = a \/ y = b
  OBVIOUS
<1>2. CASE a <= b
  <2>1. (\A y \in S : y <= b) /\ (\A y \in S : a <= y)
    BY <1>1, <1>2
  <2> HIDE DEF S
  <2>2. Highest(S) = b /\ Lowest(S) = a
    BY <1>1, <2>1, HighestIs, LowestIs
  <2> QED
    BY <1>2, <2>2 DEF S
<1>3. CASE ~(a <= b)
  <2>1. (\A y \in S : y <= a) /\ (\A y \in S : b <= y)
    BY <1>1, <1>3
  <2> HIDE DEF S
  <2>2. Highest(S) = a /\ Lowest(S) = b
    BY <1>1, <2>1, HighestIs, LowestIs
  <2> QED
    BY <1>3, <2>2 DEF S
<1> QED
  BY <1>2, <1>3

LEMMA PricesAreWhole == ATR \in Nat \ {0} /\ Centre \in Nat /\ Tick \in Nat \ {0}
BY PriceAssumption, TickAssumption

LEMMA FlipType ==
    ASSUME NEW x \in Int
    PROVE  Flip(x) \in Int /\ Flip(Flip(x)) = x
BY PricesAreWhole DEF Flip

LEMMA HighestFact ==
    ASSUME NEW S \in SUBSET Int, IsFiniteSet(S), S # {}
    PROVE  Highest(S) \in S /\ \A y \in S : y <= Highest(S)
<1>1. PICK m \in S : \A y \in S : y <= m
  BY MaxFact
<1>2. Highest(S) = m
  BY <1>1, HighestIs
<1> QED
  BY <1>1, <1>2

\* The lowest price upside down is the highest one.
LEMMA LowestFlipped ==
    ASSUME NEW S \in SUBSET Int, IsFiniteSet(S), S # {}
    PROVE  /\ Highest(S) \in S
           /\ Lowest({Flip(x) : x \in S}) = Flip(Highest(S))
<1> DEFINE T == {Flip(x) : x \in S}
            m == Highest(S)
<1>1. m \in S /\ \A y \in S : y <= m
  BY HighestFact
<1>2. T \in SUBSET Int /\ Flip(m) \in T
  BY <1>1, FlipType
<1>3. \A y \in T : Flip(m) <= y
  <2> HIDE DEF m
  <2>1. \A x \in S : Flip(m) <= Flip(x)
    BY <1>1, PricesAreWhole DEF Flip
  <2> QED
    BY <2>1
<1> HIDE DEF T, m
<1>4. Lowest(T) = Flip(m)
  BY <1>2, <1>3, LowestIs
<1> QED
  BY <1>1, <1>4 DEF T, m

LEMMA HighestFlipped ==
    ASSUME NEW S \in SUBSET Int, IsFiniteSet(S), S # {}
    PROVE  /\ Lowest(S) \in S
           /\ Highest({Flip(x) : x \in S}) = Flip(Lowest(S))
<1> DEFINE T == {Flip(x) : x \in S}
            m == Highest(T)
<1>1. T \in SUBSET Int /\ T # {}
  BY FlipType
<1>2. IsFiniteSet(T)
  <2> DEFINE f == [x \in S |-> Flip(x)]
  <2>1. f \in [S -> Int]
    BY FlipType
  <2>2. T = {f[x] : x \in S}
    OBVIOUS
  <2> HIDE DEF f
  <2>3. IsFiniteSet({f[x] : x \in S})
    BY <2>1, ImageIsFinite
  <2> QED
    BY <2>2, <2>3
<1>3. m \in T /\ \A y \in T : y <= m
  <2> HIDE DEF T
  <2> QED
    BY <1>1, <1>2, HighestFact
<1>4. PICK x \in S : m = Flip(x)
  BY <1>3
<1>5. \A y \in S : x <= y
  <2>1. \A y \in S : Flip(y) <= Flip(x)
    BY <1>3, <1>4
  <2> QED
    BY <2>1, PricesAreWhole DEF Flip
<1>6. Lowest(S) = x
  BY <1>5, LowestIs
<1> QED
  BY <1>4, <1>6

LEMMA ClampType ==
    ASSUME NEW d \in Int
    PROVE  Clamp(d) \in Int
<1>1. ATR \div 2 \in Int /\ 3 * ATR \in Int
  BY PricesAreWhole
<1>2. Lowest({3 * ATR, d}) \in Int
  BY <1>1, OfTwo
<1> DEFINE low == Lowest({3 * ATR, d})
            half == ATR \div 2
<1> HIDE DEF low, half
<1>3. Highest({half, low}) \in Int
  BY <1>1, <1>2, OfTwo DEF low, half
<1> QED
  BY <1>3 DEF Clamp, low, half

-----------------------------------------------------------------------------
\* The rounding.

LEMMA QuotientIs ==
    ASSUME NEW n \in Int, NEW d \in Nat \ {0}, NEW q \in Int, NEW r \in Int,
           0 <= r, r < d, n = (d * q) + r
    PROVE  n \div d = q /\ n % d = r
<1> DEFINE p == n \div d
            s == n % d
<1>1. p \in Int /\ s \in Int /\ 0 <= s /\ s < d /\ n = (d * p) + s
  OBVIOUS
<1> HIDE DEF p, s
<1> DEFINE k == q - p
<1>2. k \in Int /\ d * k = s - r
  BY <1>1
<1> HIDE DEF k
<1>3. ~(k >= 1) /\ ~(k <= -1)
  BY <1>1, <1>2
<1>4. k = 0
  BY <1>2, <1>3
<1>5. p = q
  BY <1>1, <1>4 DEF k
<1>6. s = r
  BY <1>1, <1>5
<1> QED
  BY <1>5, <1>6 DEF p, s

\* Rounding to the tick, with its ties to even, does not favour a side.
LEMMA TickFlipped ==
    ASSUME NEW price \in Int
    PROVE  RoundToTick(Flip(price)) = Flip(RoundToTick(price)) /\ RoundToTick(price) \in Int
<1> DEFINE k == Centre \div Tick
            q == price \div Tick
            r == price % Tick
            odd == q % 2
            other == Flip(price)
<1>1. /\ k \in Int /\ q \in Int /\ r \in Int /\ 0 <= r /\ r < Tick /\ Tick \in Nat \ {0}
      /\ Centre = Tick * k /\ price = (Tick * q) + r
  BY PricesAreWhole, CentreAssumption
<1>2. odd \in {0, 1} /\ (2 * k - q) % 2 = odd /\ (2 * k - q - 1) % 2 = 1 - odd
  <2> HIDE DEF k, q
  <2> QED
    BY <1>1
<1>3. RoundDiv(price, Tick) = IF 2 * r < Tick THEN q ELSE IF 2 * r > Tick THEN q + 1 ELSE q + odd
  BY DEF RoundDiv
<1>4. other \in Int /\ other = 2 * Centre - price
  BY PricesAreWhole DEF Flip
<1> HIDE DEF k, q, r, odd, other
<1>5. RoundDiv(other, Tick) = 2 * k - RoundDiv(price, Tick)
  <2>1. CASE r = 0
    <3>1. other = (Tick * (2 * k - q)) + 0
      BY <1>1, <1>4, <2>1
    <3>2. other \div Tick = 2 * k - q /\ other % Tick = 0
      BY <1>1, <1>4, <3>1, QuotientIs
    <3> QED
      BY <1>1, <1>3, <2>1, <3>2 DEF RoundDiv
  <2>2. CASE r # 0
    <3>1. other = (Tick * (2 * k - q - 1)) + (Tick - r)
      BY <1>1, <1>4
    <3> DEFINE p == 2 * k - q - 1
                s == Tick - r
    <3>2. p \in Int /\ s \in Int /\ 0 <= s /\ s < Tick /\ other = (Tick * p) + s
      BY <1>1, <2>2, <3>1
    <3> HIDE DEF p, s
    <3>3. other \div Tick = p /\ other % Tick = s
      BY <1>1, <1>4, <3>2, QuotientIs
    <3>4. p % 2 = 1 - odd /\ p = 2 * k - q - 1 /\ s = Tick - r
      BY <1>2 DEF p, s
    <3>5. RoundDiv(other, Tick) = IF 2 * s < Tick THEN p ELSE IF 2 * s > Tick THEN p + 1 ELSE p + (1 - odd)
      BY <3>3, <3>4 DEF RoundDiv
    <3> QED
      BY <1>1, <1>2, <1>3, <2>2, <3>4, <3>5
  <2> QED
    BY <2>1, <2>2
<1> DEFINE R == RoundDiv(price, Tick)
<1>6. R \in Int
  BY <1>1, <1>2, <1>3
<1> HIDE DEF R
<1>7. Tick * (2 * k - R) = 2 * Centre - (Tick * R) /\ Tick * R \in Int
  BY <1>1, <1>6
<1> QED
  BY <1>5, <1>7 DEF RoundToTick, Flip, other, R
-----------------------------------------------------------------------------
\* What the two sides of a strategy have in common.

\* The setup and the levels of an action, and of the other one upside down.
Mirrored(s, f, action) ==
    LET g == Mirror(s, f)
    IN  /\ Setup(s, f, action) <=> Setup(s, g, Other(action))
        /\ Setup(s, f, action) =>
            /\ Levels(s, f, action) \in LevelShape
            /\ Levels(s, g, Other(action)) = FlipLevels(Levels(s, f, action))

\* The levels that confirm_signal discards, unless entry and stop fell together.
MirroredConfirm(s, f) ==
    \A levels \in LevelShape :
        levels.entry # levels.stop =>
            (ConfirmSignal(s, f, levels) <=> ConfirmSignal(s, Mirror(s, f), FlipLevels(levels)))

LEMMA LevelsFlipped ==
    ASSUME NEW entry \in Int, NEW stop \in Int, NEW target \in Int
    PROVE  /\ LevelSet(entry, stop, target) \in LevelShape
           /\ FlipLevels(LevelSet(entry, stop, target))
                = LevelSet(2 * Centre - entry, 2 * Centre - stop, 2 * Centre - target)
BY DEF LevelSet, LevelShape, FlipLevels, Flip

LEMMA RatioMirrored ==
    ASSUME NEW levels \in LevelShape, NEW tenths \in Nat
    PROVE  RatioAtLeast(FlipLevels(levels), tenths) <=> RatioAtLeast(levels, tenths)
<1> DEFINE e == levels.entry
            s == levels.stop
            t == levels.target
            there == FlipLevels(levels)
<1>1. e \in Int /\ s \in Int /\ t \in Int /\ Centre \in Int
  BY PricesAreWhole DEF LevelShape
<1>2. there.entry = 2 * Centre - e /\ there.stop = 2 * Centre - s /\ there.target = 2 * Centre - t
  BY DEF FlipLevels, LevelSet, Flip
<1> HIDE DEF e, s, t, there
<1>3. /\ Distance(there.target, there.entry) = Distance(t, e)
      /\ Distance(there.entry, there.stop) = Distance(e, s)
      /\ there.entry # there.stop <=> e # s
  BY <1>1, <1>2 DEF Distance
<1> QED
  BY <1>3 DEF RatioAtLeast, e, s, t, there

-----------------------------------------------------------------------------
\* S2.

LEMMA S2Mirrored ==
    ASSUME NEW f, S2Frame(f), NEW action \in Actions
    PROVE  Mirrored("s2", f, action) /\ MirroredConfirm("s2", f)
<1> DEFINE g == Mirror("s2", f)
            low == f.band_low
            high == f.band_high
            half == ATR \div 2
            far == (3 * ATR) \div 2
            mid == (high + low) \div 2
<1>1. /\ f.adx \in Int /\ f.close \in Int /\ low \in Int /\ high \in Int /\ f.rsi \in Int
      /\ f.width_start \in Int /\ f.width_end \in Int /\ f.confirms \in SUBSET Actions
      /\ (low + high) % 2 = 0
  BY DEF S2Frame
<1>2. /\ g.close = 2 * Centre - f.close /\ g.rsi = 100 - f.rsi
      /\ g.band_low = 2 * Centre - high /\ g.band_high = 2 * Centre - low
      /\ g.confirms = {Other(a) : a \in f.confirms}
      /\ g.adx = f.adx /\ g.width_start = f.width_start /\ g.width_end = f.width_end
  BY DEF S2Frame, Mirror, Flip
<1>3. Centre \in Int /\ ATR \in Int /\ half \in Int /\ far \in Int
  BY PricesAreWhole
<1>4. mid \in Int /\ high + low = 2 * mid /\ (g.band_high + g.band_low) \div 2 = 2 * Centre - mid
  <2>1. mid \in Int /\ high + low = 2 * mid
    BY <1>1
  <2>2. g.band_high + g.band_low = 2 * (2 * Centre - mid)
    <3> HIDE DEF mid
    <3> QED
      BY <1>1, <1>2, <1>3, <2>1
  <2>3. 2 * Centre - mid \in Int
    <3> HIDE DEF mid
    <3> QED
      BY <1>3, <2>1
  <2> QED
    BY <2>1, <2>2, <2>3
<1>5. action \in f.confirms <=> Other(action) \in g.confirms
  BY <1>1, <1>2 DEF Actions, Other
<1> HIDE DEF g, half, far, mid
<1>6. S2Entry(f, action) <=> S2Entry(g, Other(action))
  BY <1>1, <1>2, <1>3 DEF S2Entry, Actions, Other, half
<1>7. Setup("s2", f, action) <=> Setup("s2", g, Other(action))
  BY <1>2, <1>5, <1>6 DEF Setup, S2Setup, S2BandStable
<1>8. /\ Levels("s2", f, action) \in LevelShape
      /\ Levels("s2", g, Other(action)) = FlipLevels(Levels("s2", f, action))
  <2>1. CASE action = "BUY"
    <3> DEFINE target == IF 2 * (mid - low) < 3 * ATR THEN low + far ELSE mid
    <3>1. target \in Int /\ low - ATR \in Int
      BY <1>1, <1>3, <1>4
    <3>2. Levels("s2", f, action) = LevelSet(low, low - ATR, target)
      BY <2>1 DEF Levels, S2Levels, mid, far
    <3>3. Levels("s2", g, Other(action)) = LevelSet(2 * Centre - low, 2 * Centre - (low - ATR), 2 * Centre - target)
      <4>1. Levels("s2", g, Other(action))
              = LevelSet(g.band_high, g.band_high + ATR,
                         IF 2 * (g.band_high - (2 * Centre - mid)) < 3 * ATR
                         THEN g.band_high - far ELSE 2 * Centre - mid)
        BY <1>4, <2>1 DEF Levels, S2Levels, Other, far
      <4> QED
        BY <1>1, <1>2, <1>3, <1>4, <4>1
    <3> HIDE DEF target
    <3> QED
      BY <1>1, <3>1, <3>2, <3>3, LevelsFlipped
  <2>2. CASE action = "SELL"
    <3> DEFINE target == IF 2 * (high - mid) < 3 * ATR THEN high - far ELSE mid
    <3>1. target \in Int /\ high + ATR \in Int
      BY <1>1, <1>3, <1>4
    <3>2. Levels("s2", f, action) = LevelSet(high, high + ATR, target)
      BY <2>2 DEF Levels, S2Levels, mid, far
    <3>3. Levels("s2", g, Other(action)) = LevelSet(2 * Centre - high, 2 * Centre - (high + ATR), 2 * Centre - target)
      <4>1. Levels("s2", g, Other(action))
              = LevelSet(g.band_low, g.band_low - ATR,
                         IF 2 * ((2 * Centre - mid) - g.band_low) < 3 * ATR
                         THEN g.band_low + far ELSE 2 * Centre - mid)
        BY <1>4, <2>2 DEF Levels, S2Levels, Other, far
      <4> QED
        BY <1>1, <1>2, <1>3, <1>4, <4>1
    <3> HIDE DEF target
    <3> QED
      BY <1>1, <3>1, <3>2, <3>3, LevelsFlipped
  <2> QED
    BY <2>1, <2>2 DEF Actions
<1>9. MirroredConfirm("s2", f)
  BY RatioMirrored DEF MirroredConfirm, ConfirmSignal
<1> QED
  BY <1>7, <1>8, <1>9 DEF Mirrored, g

-----------------------------------------------------------------------------
\* S3.

LEMMA S3Mirrored ==
    ASSUME NEW f, S3Frame(f), NEW action \in Actions
    PROVE  Mirrored("s3", f, action) /\ MirroredConfirm("s3", f)
<1> DEFINE g == Mirror("s3", f)
            dist == Clamp((12 * ATR) \div 10)
            gain == (18 * dist) \div 10
<1>1. /\ f.ema_fast \in Int /\ f.ema_mid \in Int /\ f.ema_fast_prev \in Int /\ f.vwap \in Int
      /\ f.low \in Int /\ f.high \in Int /\ f.close \in Int /\ f.rsi_prev \in Int /\ f.rsi \in Int
  BY DEF S3Frame
<1>2. /\ g.ema_fast = 2 * Centre - f.ema_fast /\ g.ema_mid = 2 * Centre - f.ema_mid
      /\ g.ema_fast_prev = 2 * Centre - f.ema_fast_prev /\ g.vwap = 2 * Centre - f.vwap
      /\ g.low = 2 * Centre - f.high /\ g.high = 2 * Centre - f.low
      /\ g.close = 2 * Centre - f.close
      /\ g.rsi_prev = 100 - f.rsi_prev /\ g.rsi = 100 - f.rsi /\ g.volume_ok = f.volume_ok
  BY DEF S3Frame, Mirror, Flip
<1>3. Centre \in Int /\ dist \in Int
  BY PricesAreWhole, ClampType
<1> HIDE DEF g, dist
<1>4. gain \in Int
  BY <1>3
<1> HIDE DEF gain
<1>5. Setup("s3", f, action) <=> Setup("s3", g, Other(action))
  BY <1>1, <1>2, <1>3 DEF Setup, S3Setup, Actions, Other
<1>6. CASE action = "BUY"
  <2>1. Levels("s3", f, action) = LevelSet(f.ema_fast, f.ema_fast - dist, f.ema_fast + gain)
    BY <1>6 DEF Levels, S3Levels, dist, gain
  <2>2. Levels("s3", g, Other(action)) = LevelSet(g.ema_fast, g.ema_fast + dist, g.ema_fast - gain)
    BY <1>6 DEF Levels, S3Levels, Other, dist, gain
  <2>3. /\ f.ema_fast - dist \in Int /\ f.ema_fast + gain \in Int
        /\ g.ema_fast + dist = 2 * Centre - (f.ema_fast - dist)
        /\ g.ema_fast - gain = 2 * Centre - (f.ema_fast + gain)
    BY <1>1, <1>2, <1>3, <1>4
  <2>4. /\ Levels("s3", f, action) \in LevelShape
        /\ Levels("s3", g, Other(action)) = FlipLevels(Levels("s3", f, action))
    BY <1>1, <1>2, <2>1, <2>2, <2>3, LevelsFlipped
  <2> QED
    BY <1>5, <2>4, RatioMirrored DEF Mirrored, MirroredConfirm, ConfirmSignal, g
<1>7. CASE action = "SELL"
  <2>1. Levels("s3", f, action) = LevelSet(f.ema_fast, f.ema_fast + dist, f.ema_fast - gain)
    BY <1>7 DEF Levels, S3Levels, dist, gain
  <2>2. Levels("s3", g, Other(action)) = LevelSet(g.ema_fast, g.ema_fast - dist, g.ema_fast + gain)
    BY <1>7 DEF Levels, S3Levels, Other, dist, gain
  <2>3. /\ f.ema_fast + dist \in Int /\ f.ema_fast - gain \in Int
        /\ g.ema_fast - dist = 2 * Centre - (f.ema_fast + dist)
        /\ g.ema_fast + gain = 2 * Centre - (f.ema_fast - gain)
    BY <1>1, <1>2, <1>3, <1>4
  <2>4. /\ Levels("s3", f, action) \in LevelShape
        /\ Levels("s3", g, Other(action)) = FlipLevels(Levels("s3", f, action))
    BY <1>1, <1>2, <2>1, <2>2, <2>3, LevelsFlipped
  <2> QED
    BY <1>5, <2>4, RatioMirrored DEF Mirrored, MirroredConfirm, ConfirmSignal, g
<1> QED
  BY <1>6, <1>7 DEF Actions
-----------------------------------------------------------------------------
\* S4.

LEMMA NewestIs ==
    ASSUME NEW S, \A x \in S : x.idx \in Nat, OnePerBar(S),
           NEW m \in S, \A y \in S : y.idx <= m.idx
    PROVE  Newest(S) = m
<1> DEFINE x == Newest(S)
<1>1. x \in S /\ \A y \in S : y.idx <= x.idx
  BY DEF Newest
<1> HIDE DEF x
<1>2. x.idx \in Nat /\ m.idx \in Nat /\ x.idx <= m.idx /\ m.idx <= x.idx
  BY <1>1
<1>3. x.idx = m.idx
  BY <1>2
<1>4. x = m
  BY <1>1, <1>3 DEF OnePerBar
<1> QED
  BY <1>4 DEF x

LEMMA LatestExists ==
    ASSUME NEW S, IsFiniteSet(S), S # {}, NEW place \in [S -> Nat]
    PROVE  \E m \in S : \A y \in S : place[y] <= place[m]
<1> DEFINE I == {place[x] : x \in S}
<1>1. IsFiniteSet({place[x] : x \in S})
  BY ImageIsFinite
<1>2. I \in SUBSET Int /\ I # {}
  OBVIOUS
<1>3. PICK top \in I : \A i \in I : i <= top
  <2> HIDE DEF I
  <2>1. IsFiniteSet(I)
    BY <1>1 DEF I
  <2> QED
    BY <1>2, <2>1, MaxFact
<1> QED
  BY <1>3

\* The newest of the mirror images is the image of the newest.
LEMMA NewestMirrored ==
    ASSUME NEW S, IsFiniteSet(S), S # {}, \A x \in S : x.idx \in Nat, OnePerBar(S),
           NEW image, \A x \in S : image[x].idx = x.idx
    PROVE  /\ Newest(S) \in S
           /\ Newest({image[x] : x \in S}) = image[Newest(S)]
<1> DEFINE T == {image[x] : x \in S}
            place == [x \in S |-> x.idx]
<1>1. place \in [S -> Nat]
  OBVIOUS
<1>2. PICK m \in S : \A y \in S : place[y] <= place[m]
  <2> HIDE DEF place
  <2> QED
    BY <1>1, LatestExists
<1>3. \A y \in S : y.idx <= m.idx
  BY <1>2
<1>4. Newest(S) = m
  BY <1>3, NewestIs
<1>5. image[m] \in T /\ \A y \in T : y.idx \in Nat /\ y.idx <= image[m].idx
  BY <1>3
<1>6. OnePerBar(T)
  BY DEF OnePerBar
<1> HIDE DEF T
<1>7. Newest(T) = image[m]
  BY <1>5, <1>6, NewestIs
<1> QED
  BY <1>4, <1>7 DEF T

FlippedEvent(e) == [e EXCEPT !.direction = FlipDirection(@)]
FlippedSweep(s) == [s EXCEPT !.side = FlipDirection(@), !.level = Flip(@)]

LEMMA S4Sets ==
    ASSUME NEW f, S4Frame(f), NEW action \in Actions
    PROVE  LET g == Mirror("s4", f) IN
           /\ S4Breaks(g, Other(action)) = {FlippedEvent(e) : e \in S4Breaks(f, action)}
           /\ S4Breaks(f, action) # {} =>
                /\ Newest(S4Breaks(f, action)) \in S4Event
                /\ Newest(S4Breaks(g, Other(action))).idx = Newest(S4Breaks(f, action)).idx
                /\ S4Sweeps(g, Other(action)) = {FlippedSweep(s) : s \in S4Sweeps(f, action)}
                /\ S4Zones(g, Other(action)) = {FlipZone(z) : z \in S4Zones(f, action)}
<1> DEFINE g == Mirror("s4", f)
            E == S4Breaks(f, action)
            break == Newest(E)
<1>1. /\ f.events \in SUBSET S4Event /\ f.sweeps \in SUBSET S4Sweep
      /\ f.blocks \in SUBSET S4Zone /\ f.gaps \in SUBSET S4Zone /\ f.window \in Nat
      /\ IsFiniteSet(f.events)
      /\ OnePerBar(E)
  BY DEF S4Frame, S4Breaks, Direction, Directions
<1>2. /\ g.events = {FlippedEvent(e) : e \in f.events}
      /\ g.sweeps = {FlippedSweep(s) : s \in f.sweeps}
      /\ g.blocks = {FlipZone(z) : z \in f.blocks} /\ g.gaps = {FlipZone(z) : z \in f.gaps}
      /\ g.window = f.window
  BY DEF S4Frame, Mirror, FlippedEvent, FlippedSweep
<1>3. /\ Direction(action) \in Directions /\ SweepSide(action) \in {"low", "high"}
      /\ Direction(Other(action)) = FlipDirection(Direction(action))
      /\ SweepSide(Other(action)) = FlipDirection(SweepSide(action))
      /\ \A d \in Directions : FlipDirection(d) = FlipDirection(Direction(action)) <=> d = Direction(action)
      /\ \A d \in {"low", "high"} :
            FlipDirection(d) = FlipDirection(SweepSide(action)) <=> d = SweepSide(action)
  BY DEF Actions, Directions, Direction, SweepSide, Other, FlipDirection
<1>4. /\ \A e \in S4Event : /\ FlippedEvent(e).idx = e.idx
                            /\ FlippedEvent(e).direction = FlipDirection(e.direction)
      /\ \A s \in S4Sweep : /\ FlippedSweep(s).idx = s.idx
                            /\ FlippedSweep(s).side = FlipDirection(s.side)
      /\ \A z \in S4Zone : /\ FlipZone(z).idx = z.idx
                           /\ FlipZone(z).direction = FlipDirection(z.direction)
  BY DEF S4Event, S4Sweep, S4Zone, FlippedEvent, FlippedSweep, FlipZone
<1>5. S4Breaks(g, Other(action)) = {FlippedEvent(e) : e \in E}
  <2>1. \A e \in f.events : FlippedEvent(e).direction = Direction(Other(action)) <=> e.direction = Direction(action)
    BY <1>1, <1>3, <1>4 DEF S4Event
  <2> QED
    BY <1>2, <2>1 DEF S4Breaks
<1>6. ASSUME E # {}
      PROVE  /\ break \in E /\ break \in S4Event
             /\ Newest(S4Breaks(g, Other(action))).idx = break.idx
  <2> DEFINE image == [e \in E |-> FlippedEvent(e)]
  <2>1. E \in SUBSET S4Event /\ IsFiniteSet(E)
    BY <1>1, FS_Subset DEF S4Breaks
  <2>2. /\ \A e \in E : e.idx \in Nat /\ image[e].idx = e.idx
        /\ {image[e] : e \in E} = {FlippedEvent(e) : e \in E}
    BY <1>4, <2>1 DEF S4Event
  <2> HIDE DEF image, E
  <2>3. break \in E /\ Newest({image[e] : e \in E}) = image[break]
    BY <1>1, <1>6, <2>1, <2>2, NewestMirrored
  <2> QED
    BY <1>5, <2>1, <2>2, <2>3
<1> DEFINE i == break.idx
<1>7. ASSUME E # {}
      PROVE  /\ S4Sweeps(g, Other(action)) = {FlippedSweep(s) : s \in S4Sweeps(f, action)}
             /\ S4Zones(g, Other(action)) = {FlipZone(z) : z \in S4Zones(f, action)}
  <2>1. /\ S4Sweeps(f, action) =
             {s \in f.sweeps : s.side = SweepSide(action) /\ s.idx \in (i - f.window)..i}
        /\ S4Sweeps(g, Other(action)) =
             {s \in g.sweeps : s.side = SweepSide(Other(action)) /\ s.idx \in (i - f.window)..i}
    BY <1>2, <1>6, <1>7 DEF S4Sweeps
  <2>2. \A s \in f.sweeps : FlippedSweep(s).side = SweepSide(Other(action)) <=> s.side = SweepSide(action)
    BY <1>1, <1>3, <1>4 DEF S4Sweep
  <2>3. S4Sweeps(g, Other(action)) = {FlippedSweep(s) : s \in S4Sweeps(f, action)}
    <3> HIDE DEF g, E, break, i
    <3> QED
      BY <1>1, <1>2, <1>4, <2>1, <2>2
  <2> DEFINE Here(S) == {z \in S : z.direction = Direction(action) /\ z.idx <= i}
              There(S) == {z \in S : z.direction = Direction(Other(action)) /\ z.idx <= i}
  <2>4. ASSUME NEW S \in SUBSET S4Zone
        PROVE  There({FlipZone(z) : z \in S}) = {FlipZone(z) : z \in Here(S)}
    <3>1. \A z \in S : FlipZone(z).direction = Direction(Other(action)) <=> z.direction = Direction(action)
      BY <1>3, <1>4 DEF S4Zone
    <3> HIDE DEF g, E, break, i
    <3> QED
      BY <1>4, <3>1
  <2>5. /\ S4Zones(f, action) = IF Here(f.blocks) # {} THEN Here(f.blocks) ELSE Here(f.gaps)
        /\ S4Zones(g, Other(action)) = IF There(g.blocks) # {} THEN There(g.blocks) ELSE There(g.gaps)
    BY <1>6, <1>7 DEF S4Zones
  <2>6. /\ There(g.blocks) = {FlipZone(z) : z \in Here(f.blocks)}
        /\ There(g.gaps) = {FlipZone(z) : z \in Here(f.gaps)}
    <3> HIDE DEF Here, There, g
    <3> QED
      BY <1>1, <1>2, <2>4
  <2>7. S4Zones(g, Other(action)) = {FlipZone(z) : z \in S4Zones(f, action)}
    <3> HIDE DEF Here, There, g
    <3> QED
      BY <2>5, <2>6
  <2> QED
    BY <2>3, <2>7
<1> QED
  BY <1>5, <1>6, <1>7
LEMMA S4Mirrored ==
    ASSUME NEW f, S4Frame(f), NEW action \in Actions
    PROVE  Mirrored("s4", f, action) /\ MirroredConfirm("s4", f)
<1> DEFINE g == Mirror("s4", f)
            E == S4Breaks(f, action)
            W == S4Sweeps(f, action)
            Z == S4Zones(f, action)
            buffer == ATR \div 4
<1>1. /\ S4Breaks(g, Other(action)) = {FlippedEvent(e) : e \in E}
      /\ E # {} => /\ S4Sweeps(g, Other(action)) = {FlippedSweep(s) : s \in W}
                   /\ S4Zones(g, Other(action)) = {FlipZone(z) : z \in Z}
  BY S4Sets
<1>2. Setup("s4", f, action) <=> Setup("s4", g, Other(action))
  <2> HIDE DEF g, E, W, Z
  <2>1. E # {} <=> S4Breaks(g, Other(action)) # {}
    BY <1>1
  <2>2. E # {} => /\ W # {} <=> S4Sweeps(g, Other(action)) # {}
                  /\ Z # {} <=> S4Zones(g, Other(action)) # {}
    BY <1>1
  <2> QED
    BY <2>1, <2>2 DEF Setup, S4Setup, E, W, Z
<1>3. MirroredConfirm("s4", f)
  BY RatioMirrored DEF MirroredConfirm, ConfirmSignal
<1>4. SUFFICES ASSUME Setup("s4", f, action)
               PROVE  /\ Levels("s4", f, action) \in LevelShape
                      /\ Levels("s4", g, Other(action)) = FlipLevels(Levels("s4", f, action))
  BY <1>2, <1>3 DEF Mirrored
<1>5. E # {} /\ W # {} /\ Z # {}
  BY <1>4 DEF Setup, S4Setup
<1>6. /\ W \in SUBSET S4Sweep /\ IsFiniteSet(W) /\ OnePerBar(W)
      /\ Z \in SUBSET S4Zone /\ IsFiniteSet(Z) /\ OnePerBar(Z)
  <2>1. /\ f.sweeps \in SUBSET S4Sweep /\ f.blocks \in SUBSET S4Zone /\ f.gaps \in SUBSET S4Zone
        /\ IsFiniteSet(f.sweeps) /\ IsFiniteSet(f.blocks) /\ IsFiniteSet(f.gaps)
    BY DEF S4Frame
  <2>2. W \in SUBSET {s \in f.sweeps : s.side = SweepSide(action)}
    BY DEF S4Sweeps
  <2>3. OnePerBar({s \in f.sweeps : s.side = SweepSide(action)})
    BY DEF S4Frame, SweepSide
  <2>4. \/ Z \in SUBSET {z \in f.blocks : z.direction = Direction(action)}
        \/ Z \in SUBSET {z \in f.gaps : z.direction = Direction(action)}
    BY DEF S4Zones
  <2>5. /\ OnePerBar({z \in f.blocks : z.direction = Direction(action)})
        /\ OnePerBar({z \in f.gaps : z.direction = Direction(action)})
    BY DEF S4Frame, Direction, Directions
  <2> HIDE DEF W, Z
  <2>6. OnePerBar(W) /\ OnePerBar(Z)
    BY <2>2, <2>3, <2>4, <2>5 DEF OnePerBar
  <2>7. /\ W \in SUBSET f.sweeps
        /\ Z \in SUBSET f.blocks \/ Z \in SUBSET f.gaps
    BY <2>2, <2>4
  <2> QED
    BY <2>1, <2>6, <2>7, FS_Subset
<1> DEFINE sweep == Newest(W)
            zone == Newest(Z)
<1>7. /\ sweep \in S4Sweep
      /\ Newest(S4Sweeps(g, Other(action))).level = Flip(sweep.level)
  <2> DEFINE image == [s \in W |-> FlippedSweep(s)]
  <2>1. /\ \A s \in W : s.idx \in Nat /\ image[s].idx = s.idx
        /\ {image[s] : s \in W} = {FlippedSweep(s) : s \in W}
    BY <1>6 DEF S4Sweep, FlippedSweep
  <2>2. \A s \in W : image[s].level = Flip(s.level)
    BY <1>6 DEF S4Sweep, FlippedSweep
  <2> HIDE DEF image, W, g, E
  <2>3. sweep \in W /\ Newest({image[s] : s \in W}) = image[sweep]
    BY <1>5, <1>6, <2>1, NewestMirrored
  <2>4. Newest(S4Sweeps(g, Other(action))) = image[sweep]
    BY <1>1, <1>5, <2>1, <2>3
  <2> QED
    BY <1>6, <2>2, <2>3, <2>4
<1>8. /\ zone \in S4Zone
      /\ Newest(S4Zones(g, Other(action))).top = Flip(zone.bottom)
      /\ Newest(S4Zones(g, Other(action))).bottom = Flip(zone.top)
  <2> DEFINE image == [z \in Z |-> FlipZone(z)]
  <2>1. /\ \A z \in Z : z.idx \in Nat /\ image[z].idx = z.idx
        /\ {image[z] : z \in Z} = {FlipZone(z) : z \in Z}
    BY <1>6 DEF S4Zone, FlipZone
  <2>2. \A z \in Z : image[z].top = Flip(z.bottom) /\ image[z].bottom = Flip(z.top)
    BY <1>6 DEF S4Zone, FlipZone
  <2> HIDE DEF image, Z, g, E
  <2>3. zone \in Z /\ Newest({image[z] : z \in Z}) = image[zone]
    BY <1>5, <1>6, <2>1, NewestMirrored
  <2>4. Newest(S4Zones(g, Other(action))) = image[zone]
    BY <1>1, <1>5, <2>1, <2>3
  <2> QED
    BY <1>6, <2>2, <2>3, <2>4
<1> DEFINE level == sweep.level
            top == zone.top
            bottom == zone.bottom
            sweep2 == Newest(S4Sweeps(g, Other(action))).level
            zone2 == Newest(S4Zones(g, Other(action)))
<1>9. /\ level \in Int /\ top \in Int /\ bottom \in Int /\ buffer \in Int /\ Centre \in Int
      /\ sweep2 = 2 * Centre - level
      /\ zone2.top = 2 * Centre - bottom /\ zone2.bottom = 2 * Centre - top
  BY <1>7, <1>8, PricesAreWhole DEF S4Sweep, S4Zone, Flip
<1>10. CASE action = "BUY"
  <2> DEFINE dist == Clamp(top - (level - buffer))
              gain == (18 * dist) \div 10
              dist2 == Clamp((sweep2 + buffer) - zone2.bottom)
              gain2 == (18 * dist2) \div 10
  <2>1. Levels("s4", f, action) = LevelSet(top, top - dist, top + gain)
    BY <1>10 DEF Levels, S4Levels
  <2>2. Levels("s4", g, Other(action))
          = LevelSet(zone2.bottom, zone2.bottom + dist2, zone2.bottom - gain2)
    BY <1>10 DEF Levels, S4Levels, Other
  <2> HIDE DEF g, level, top, bottom, sweep2, zone2, buffer
  <2>3. (sweep2 + buffer) - zone2.bottom = top - (level - buffer) /\ top - (level - buffer) \in Int
    BY <1>9
  <2>4. dist2 = dist /\ dist \in Int
    BY <2>3, ClampType
  <2> HIDE DEF dist, dist2
  <2>5. gain2 = gain /\ gain \in Int
    BY <2>4
  <2> HIDE DEF gain, gain2
  <2>6. /\ top - dist \in Int /\ top + gain \in Int
        /\ zone2.bottom + dist2 = 2 * Centre - (top - dist)
        /\ zone2.bottom - gain2 = 2 * Centre - (top + gain)
    BY <1>9, <2>4, <2>5
  <2> QED
    BY <1>9, <2>1, <2>2, <2>6, LevelsFlipped
<1>11. CASE action = "SELL"
  <2> DEFINE dist == Clamp((level + buffer) - bottom)
              gain == (18 * dist) \div 10
              dist2 == Clamp(zone2.top - (sweep2 - buffer))
              gain2 == (18 * dist2) \div 10
  <2>1. Levels("s4", f, action) = LevelSet(bottom, bottom + dist, bottom - gain)
    BY <1>11 DEF Levels, S4Levels
  <2>2. Levels("s4", g, Other(action)) = LevelSet(zone2.top, zone2.top - dist2, zone2.top + gain2)
    BY <1>11 DEF Levels, S4Levels, Other
  <2> HIDE DEF g, level, top, bottom, sweep2, zone2, buffer
  <2>3. zone2.top - (sweep2 - buffer) = (level + buffer) - bottom /\ (level + buffer) - bottom \in Int
    BY <1>9
  <2>4. dist2 = dist /\ dist \in Int
    BY <2>3, ClampType
  <2> HIDE DEF dist, dist2
  <2>5. gain2 = gain /\ gain \in Int
    BY <2>4
  <2> HIDE DEF gain, gain2
  <2>6. /\ bottom + dist \in Int /\ bottom - gain \in Int
        /\ zone2.top - dist2 = 2 * Centre - (bottom + dist)
        /\ zone2.top + gain2 = 2 * Centre - (bottom - gain)
    BY <1>9, <2>4, <2>5
  <2> QED
    BY <1>9, <2>1, <2>2, <2>6, LevelsFlipped
<1> QED
  BY <1>10, <1>11 DEF Actions
-----------------------------------------------------------------------------
\* S1.

LEMMA BarFlipped ==
    ASSUME NEW b \in S1Bar
    PROVE  LET c == FlipBar(b) IN
           /\ b.open \in Int /\ b.close \in Int /\ b.low \in Int /\ b.high \in Int
           /\ b.ema21 \in Int /\ b.ema50 \in Int /\ b.rsi \in Int
           /\ c.open = 2 * Centre - b.open /\ c.close = 2 * Centre - b.close
           /\ c.low = 2 * Centre - b.high /\ c.high = 2 * Centre - b.low
           /\ c.ema21 = 2 * Centre - b.ema21 /\ c.ema50 = 2 * Centre - b.ema50
           /\ c.rsi = 100 - b.rsi
BY DEF S1Bar, FlipBar, Flip

\* The bar reached the zone of the pullback with an RSI that fits.
Reaches(b, action) ==
    IF action = "BUY"
    THEN b.low <= Highest({b.ema21, b.ema50}) /\ b.rsi \in 35..55
    ELSE b.high >= Lowest({b.ema21, b.ema50}) /\ b.rsi \in (100 - 55)..(100 - 35)

LEMMA ReachesFlipped ==
    ASSUME NEW b \in S1Bar, NEW action \in Actions
    PROVE  Reaches(b, action) <=> Reaches(FlipBar(b), Other(action))
<1> DEFINE c == FlipBar(b)
            x == b.ema21
            y == b.ema50
            u == 2 * Centre - x
            v == 2 * Centre - y
<1>1. /\ b.low \in Int /\ b.high \in Int /\ b.rsi \in Int /\ x \in Int /\ y \in Int
      /\ c.low = 2 * Centre - b.high /\ c.high = 2 * Centre - b.low /\ c.rsi = 100 - b.rsi
      /\ c.ema21 = u /\ c.ema50 = v
  BY BarFlipped
<1>2. Centre \in Int
  BY PricesAreWhole
<1> HIDE DEF c, x, y
<1>3. u \in Int /\ v \in Int /\ (x <= y <=> v <= u) /\ u = 2 * Centre - x /\ v = 2 * Centre - y
  BY <1>1, <1>2
<1> HIDE DEF u, v
<1>4. /\ Highest({x, y}) = IF x <= y THEN y ELSE x
      /\ Lowest({x, y}) = IF x <= y THEN x ELSE y
      /\ Highest({u, v}) = IF u <= v THEN v ELSE u
      /\ Lowest({u, v}) = IF u <= v THEN u ELSE v
  BY <1>1, <1>3, OfTwo
<1>5. /\ Lowest({u, v}) = 2 * Centre - Highest({x, y}) /\ Highest({x, y}) \in Int
      /\ Highest({u, v}) = 2 * Centre - Lowest({x, y}) /\ Lowest({x, y}) \in Int
  BY <1>1, <1>2, <1>3, <1>4
<1>6. /\ b.low <= Highest({x, y}) <=> c.high >= Lowest({u, v})
      /\ b.high >= Lowest({x, y}) <=> c.low <= Highest({u, v})
      /\ b.rsi \in 35..55 <=> c.rsi \in (100 - 55)..(100 - 35)
      /\ b.rsi \in (100 - 55)..(100 - 35) <=> c.rsi \in 35..55
  BY <1>1, <1>2, <1>5
<1> QED
  BY <1>1, <1>6 DEF Reaches, Actions, Other, c, x, y

LEMMA SeqIs ==
    ASSUME NEW S, NEW s \in Seq(S)
    PROVE  Len(s) \in Nat /\ DOMAIN s = 1..Len(s) /\ \A i \in 1..Len(s) : s[i] \in S
OBVIOUS

LEMMA MirrorS1 ==
    ASSUME NEW f, S1Frame(f)
    PROVE  LET g == Mirror("s1", f)
               n == Len(f.bars)
           IN  /\ n \in Nat /\ n > 1 /\ \A i \in 1..n : f.bars[i] \in S1Bar
               /\ DOMAIN f.bars = 1..n /\ DOMAIN g.bars = 1..n /\ Len(g.bars) = n
               /\ \A i \in 1..n : g.bars[i] = FlipBar(f.bars[i])
               /\ f.ema200 \in Int /\ g.ema200 = 2 * Centre - f.ema200 /\ g.adx = f.adx
               /\ f.swings \in SUBSET S1Swing /\ IsFiniteSet(f.swings)
               /\ g.swings = {[price |-> Flip(s.price), is_high |-> ~s.is_high] : s \in f.swings}
               /\ f.supertrend \in {"", "UP", "DOWN"} /\ f.bias \in {"", "UP", "DOWN"}
               /\ g.supertrend = FlipDirection(f.supertrend) /\ g.bias = FlipDirection(f.bias)
<1> DEFINE g == Mirror("s1", f)
            n == Len(f.bars)
<1>1. /\ f.bars \in Seq(S1Bar) /\ n > 1
      /\ f.ema200 \in Int
      /\ f.swings \in SUBSET S1Swing /\ IsFiniteSet(f.swings)
      /\ f.supertrend \in {"", "UP", "DOWN"} /\ f.bias \in {"", "UP", "DOWN"}
  BY DEF S1Frame
<1>2. n \in Nat /\ DOMAIN f.bars = 1..n /\ \A i \in 1..n : f.bars[i] \in S1Bar
  <2> HIDE DEF g
  <2>1. f.bars \in Seq(S1Bar)
    BY <1>1
  <2> QED
    BY <2>1, SeqIs
<1>3. /\ g.bars = [i \in DOMAIN f.bars |-> FlipBar(f.bars[i])]
      /\ g.ema200 = Flip(f.ema200) /\ g.adx = f.adx
      /\ g.swings = {[price |-> Flip(s.price), is_high |-> ~s.is_high] : s \in f.swings}
      /\ g.supertrend = FlipDirection(f.supertrend) /\ g.bias = FlipDirection(f.bias)
  BY DEF S1Frame, Mirror
<1> HIDE DEF g, n
<1>4. DOMAIN g.bars = 1..n /\ Len(g.bars) = n /\ \A i \in 1..n : g.bars[i] = FlipBar(f.bars[i])
  BY <1>2, <1>3
<1> QED
  BY <1>1, <1>2, <1>3, <1>4 DEF g, n, Flip

LEMMA S1Setups ==
    ASSUME NEW f, S1Frame(f), NEW action \in Actions
    PROVE  S1Setup(f, action) <=> S1Setup(Mirror("s1", f), Other(action))
<1> DEFINE g == Mirror("s1", f)
            n == Len(f.bars)
            last == f.bars[n]
            prev1 == f.bars[n - 1]
            last2 == FlipBar(last)
            prev2 == FlipBar(prev1)
<1>1. /\ n \in Nat /\ n > 1 /\ \A i \in 1..n : f.bars[i] \in S1Bar
      /\ DOMAIN f.bars = 1..n /\ DOMAIN g.bars = 1..n /\ Len(g.bars) = n
      /\ \A i \in 1..n : g.bars[i] = FlipBar(f.bars[i])
      /\ f.ema200 \in Int /\ g.ema200 = 2 * Centre - f.ema200 /\ g.adx = f.adx
      /\ f.supertrend \in {"", "UP", "DOWN"} /\ f.bias \in {"", "UP", "DOWN"}
      /\ g.supertrend = FlipDirection(f.supertrend) /\ g.bias = FlipDirection(f.bias)
  BY MirrorS1
<1>2. Centre \in Int
  BY PricesAreWhole
<1> HIDE DEF g
<1>3. /\ Last(f.bars) = last /\ Last(g.bars) = last2
      /\ g.bars[Len(g.bars) - 1] = prev2
      /\ last \in S1Bar /\ prev1 \in S1Bar
  <2>1. n \in 1..n /\ n - 1 \in 1..n
    <3>1. n \in Nat /\ n > 1
      BY <1>1
    <3> HIDE DEF n
    <3> QED
      BY <3>1
  <2>2. last \in S1Bar /\ prev1 \in S1Bar /\ g.bars[n] = last2 /\ g.bars[n - 1] = prev2
    <3> HIDE DEF n
    <3> QED
      BY <1>1, <2>1
  <2>3. Last(f.bars) = last
    BY DEF Last
  <2>4. Last(g.bars) = g.bars[n]
    <3> HIDE DEF n
    <3> QED
      BY <1>1 DEF Last
  <2> QED
    BY <1>1, <2>2, <2>3, <2>4
<1>4. /\ last.open \in Int /\ last.close \in Int /\ last.ema21 \in Int /\ last.ema50 \in Int
      /\ last2.open = 2 * Centre - last.open /\ last2.close = 2 * Centre - last.close
      /\ last2.ema21 = 2 * Centre - last.ema21 /\ last2.ema50 = 2 * Centre - last.ema50
      /\ prev1.open \in Int /\ prev1.close \in Int
      /\ prev2.open = 2 * Centre - prev1.open /\ prev2.close = 2 * Centre - prev1.close
  BY <1>3, BarFlipped
<1>5. S1Engulfing(f, action) <=> S1Engulfing(g, Other(action))
  <2>1. f.bars[Len(f.bars) - 1] = prev1
    OBVIOUS
  <2> HIDE DEF n, last, prev1, last2, prev2
  <2> QED
    BY <1>2, <1>3, <1>4, <2>1 DEF S1Engulfing, Actions, Other
<1>6. (\E bar \in S1Touched(f, action) :
          IF action = "BUY" THEN bar.rsi \in 35..55 ELSE bar.rsi \in (100 - 55)..(100 - 35))
      <=> (\E bar \in S1Touched(g, Other(action)) :
          IF Other(action) = "BUY" THEN bar.rsi \in 35..55 ELSE bar.rsi \in (100 - 55)..(100 - 35))
  <2>1. ASSUME NEW h, DOMAIN h.bars = 1..n, NEW a \in Actions
        PROVE  (\E bar \in S1Touched(h, a) :
                    IF a = "BUY" THEN bar.rsi \in 35..55 ELSE bar.rsi \in (100 - 55)..(100 - 35))
               <=> \E i \in 1..n : Reaches(h.bars[i], a)
    BY <2>1 DEF S1Touched, ToSet, Reaches, Actions
  <2>2. Other(action) \in Actions
    BY DEF Actions, Other
  <2>3. (\E i \in 1..n : Reaches(f.bars[i], action)) <=> \E i \in 1..n : Reaches(g.bars[i], Other(action))
    <3> HIDE DEF n, last, prev1, last2, prev2
    <3>1. \A i \in 1..n : Reaches(f.bars[i], action) <=> Reaches(g.bars[i], Other(action))
      <4> SUFFICES ASSUME NEW i \in 1..n
                    PROVE  Reaches(f.bars[i], action) <=> Reaches(g.bars[i], Other(action))
        OBVIOUS
      <4>1. f.bars[i] \in S1Bar /\ g.bars[i] = FlipBar(f.bars[i])
        BY <1>1
      <4> QED
        BY <4>1, ReachesFlipped
    <3> QED
      BY <3>1
  <2> HIDE DEF n
  <2> QED
    BY <1>1, <2>1, <2>2, <2>3
<1> HIDE DEF last, prev1, last2, prev2, n
<1>7. /\ action = "BUY" /\ last.close > last.ema21
         <=> Other(action) = "SELL" /\ last2.close < last2.ema21
      /\ action = "SELL" /\ last.close < last.ema21
         <=> Other(action) = "BUY" /\ last2.close > last2.ema21
  BY <1>2, <1>4 DEF Actions, Other
<1>8. S1Pullback(f, action) <=> S1Pullback(g, Other(action))
  BY <1>3, <1>5, <1>6, <1>7 DEF S1Pullback
<1>9. S1Trend(f, action) <=> S1Trend(g, Other(action))
  <2>1. f.adx >= 20 <=> g.adx >= 20
    BY <1>1
  <2>2. /\ last.close > f.ema200 <=> last2.close < g.ema200
        /\ last.close < f.ema200 <=> last2.close > g.ema200
        /\ last.ema50 > f.ema200 <=> last2.ema50 < g.ema200
        /\ last.ema50 < f.ema200 <=> last2.ema50 > g.ema200
    <3>1. f.ema200 \in Int /\ g.ema200 = 2 * Centre - f.ema200
      BY <1>1
    <3>2. \A x \in Int, y \in Int :
            /\ x > y <=> 2 * Centre - x < 2 * Centre - y
            /\ x < y <=> 2 * Centre - x > 2 * Centre - y
      BY <1>2
    <3> QED
      BY <1>4, <3>1, <3>2
  <2> QED
    BY <1>3, <2>1, <2>2 DEF S1Trend, Actions, Other
<1>10. S1Confirmations(f, action) <=> S1Confirmations(g, Other(action))
  BY <1>1 DEF S1Confirmations, Actions, Other, FlipDirection
<1> QED
  BY <1>8, <1>9, <1>10 DEF S1Setup, g

LEMMA PricesAreFinite ==
    ASSUME NEW T, IsFiniteSet(T), \A s \in T : s.price \in Int
    PROVE  IsFiniteSet({s.price : s \in T})
<1> DEFINE w == [s \in T |-> s.price]
<1>1. w \in [T -> Int] /\ {s.price : s \in T} = {w[s] : s \in T}
  OBVIOUS
<1> HIDE DEF w
<1>2. IsFiniteSet({w[s] : s \in T})
  BY <1>1, ImageIsFinite
<1> QED
  BY <1>1, <1>2

\* The swing points upside down: what was below is above.
LEMMA SwingsFlipped ==
    ASSUME NEW f, S1Frame(f), NEW price \in Int
    PROVE  LET g == Mirror("s1", f)
               low == SwingsBelow(f, price)
               high == SwingsAbove(f, price)
           IN  /\ low \in SUBSET Int /\ IsFiniteSet(low)
               /\ high \in SUBSET Int /\ IsFiniteSet(high)
               /\ SwingsAbove(g, Flip(price)) = {Flip(x) : x \in low}
               /\ SwingsBelow(g, Flip(price)) = {Flip(x) : x \in high}
<1> DEFINE g == Mirror("s1", f)
            low == SwingsBelow(f, price)
            high == SwingsAbove(f, price)
            up(s) == [price |-> Flip(s.price), is_high |-> ~s.is_high]
<1>1. /\ f.swings \in SUBSET S1Swing /\ IsFiniteSet(f.swings)
      /\ g.swings = {up(s) : s \in f.swings}
  BY MirrorS1
<1>2. \A s \in f.swings : s.price \in Int /\ s.is_high \in BOOLEAN
  BY <1>1 DEF S1Swing
<1>3. \A x \in Int : (x < price <=> Flip(x) > Flip(price)) /\ (x > price <=> Flip(x) < Flip(price))
  BY PricesAreWhole DEF Flip
<1> HIDE DEF g
<1>4. \A T \in SUBSET f.swings : IsFiniteSet({s.price : s \in T})
  <2> SUFFICES ASSUME NEW T \in SUBSET f.swings PROVE IsFiniteSet({s.price : s \in T})
    OBVIOUS
  <2>1. IsFiniteSet(T)
    BY <1>1, FS_Subset
  <2>2. \A s \in T : s.price \in Int
    BY <1>2
  <2> QED
    BY <2>1, <2>2, PricesAreFinite
<1>5. low \in SUBSET Int /\ high \in SUBSET Int
  BY <1>2 DEF SwingsBelow, SwingsAbove
<1>6. IsFiniteSet(low) /\ IsFiniteSet(high)
  <2>1. /\ {p \in f.swings : ~p.is_high /\ p.price < price} \in SUBSET f.swings
        /\ {p \in f.swings : p.is_high /\ p.price > price} \in SUBSET f.swings
    OBVIOUS
  <2> QED
    BY <1>4, <2>1 DEF SwingsBelow, SwingsAbove
<1>7. SwingsAbove(g, Flip(price)) = {Flip(x) : x \in low}
  <2>1. ASSUME NEW y \in SwingsAbove(g, Flip(price)) PROVE y \in {Flip(x) : x \in low}
    <3>1. PICK s \in f.swings : up(s).is_high /\ up(s).price > Flip(price) /\ y = up(s).price
      BY <1>1 DEF SwingsAbove
    <3>2. ~s.is_high /\ s.price < price /\ y = Flip(s.price)
      BY <1>2, <1>3, <3>1
    <3>3. s.price \in low
      BY <3>2 DEF SwingsBelow
    <3> QED
      BY <3>2, <3>3
  <2>2. ASSUME NEW x \in low PROVE Flip(x) \in SwingsAbove(g, Flip(price))
    <3>1. PICK s \in f.swings : ~s.is_high /\ s.price < price /\ x = s.price
      BY DEF SwingsBelow
    <3>2. up(s) \in g.swings /\ up(s).is_high /\ up(s).price > Flip(price) /\ up(s).price = Flip(x)
      BY <1>1, <1>2, <1>3, <3>1
    <3> QED
      BY <3>2 DEF SwingsAbove
  <2> QED
    BY <2>1, <2>2
<1>8. SwingsBelow(g, Flip(price)) = {Flip(x) : x \in high}
  <2>1. ASSUME NEW y \in SwingsBelow(g, Flip(price)) PROVE y \in {Flip(x) : x \in high}
    <3>1. PICK s \in f.swings : ~up(s).is_high /\ up(s).price < Flip(price) /\ y = up(s).price
      BY <1>1 DEF SwingsBelow
    <3>2. s.is_high /\ s.price > price /\ y = Flip(s.price)
      BY <1>2, <1>3, <3>1
    <3>3. s.price \in high
      BY <3>2 DEF SwingsAbove
    <3> QED
      BY <3>2, <3>3
  <2>2. ASSUME NEW x \in high PROVE Flip(x) \in SwingsBelow(g, Flip(price))
    <3>1. PICK s \in f.swings : s.is_high /\ s.price > price /\ x = s.price
      BY DEF SwingsAbove
    <3>2. up(s) \in g.swings /\ ~up(s).is_high /\ up(s).price < Flip(price) /\ up(s).price = Flip(x)
      BY <1>1, <1>2, <1>3, <3>1
    <3> QED
      BY <3>2 DEF SwingsBelow
  <2> QED
    BY <2>1, <2>2
<1> QED
  BY <1>5, <1>6, <1>7, <1>8 DEF g

\* The levels of S1, from the entry and the swing points behind it.
BuyLevels(entry, lows) ==
    LET candidate == IF lows # {} THEN Highest(lows) - ATR \div 4 ELSE entry - ATR
        dist == Clamp(entry - candidate)
    IN  LevelSet(entry, entry - dist, entry + 2 * dist)

SellLevels(entry, highs) ==
    LET candidate == IF highs # {} THEN Lowest(highs) + ATR \div 4 ELSE entry + ATR
        dist == Clamp(candidate - entry)
    IN  LevelSet(entry, entry + dist, entry - 2 * dist)

LEMMA SidesOfLevels ==
    ASSUME NEW entry \in Int, NEW S \in SUBSET Int, IsFiniteSet(S)
    PROVE  /\ BuyLevels(entry, S) \in LevelShape
           /\ SellLevels(entry, S) \in LevelShape
           /\ SellLevels(Flip(entry), {Flip(x) : x \in S}) = FlipLevels(BuyLevels(entry, S))
           /\ BuyLevels(Flip(entry), {Flip(x) : x \in S}) = FlipLevels(SellLevels(entry, S))
<1> DEFINE T == {Flip(x) : x \in S}
            quarter == ATR \div 4
            below == IF S # {} THEN Highest(S) - quarter ELSE entry - ATR
            above == IF S # {} THEN Lowest(S) + quarter ELSE entry + ATR
            below2 == IF T # {} THEN Highest(T) - quarter ELSE Flip(entry) - ATR
            above2 == IF T # {} THEN Lowest(T) + quarter ELSE Flip(entry) + ATR
            buy == Clamp(entry - below)
            sell == Clamp(above - entry)
<1>1. /\ Centre \in Int /\ ATR \in Int /\ quarter \in Int /\ Flip(entry) = 2 * Centre - entry
      /\ T # {} <=> S # {}
  <2>1. T # {} <=> S # {}
    OBVIOUS
  <2> QED
    BY <2>1, PricesAreWhole DEF Flip
<1>2. S # {} => /\ Highest(S) \in Int /\ Lowest(S) \in Int
                /\ Lowest(T) = 2 * Centre - Highest(S) /\ Highest(T) = 2 * Centre - Lowest(S)
  <2> HIDE DEF T
  <2>1. S # {} => /\ Highest(S) \in S /\ Lowest(S) \in S
                  /\ Lowest(T) = Flip(Highest(S)) /\ Highest(T) = Flip(Lowest(S))
    BY LowestFlipped, HighestFlipped DEF T
  <2> QED
    BY <2>1 DEF Flip
<1> HIDE DEF T, quarter
<1>3. below \in Int /\ above \in Int /\ above2 = 2 * Centre - below /\ below2 = 2 * Centre - above
  BY <1>1, <1>2
<1> HIDE DEF below, above, below2, above2
<1>4. above2 - Flip(entry) = entry - below /\ Flip(entry) - below2 = above - entry
  BY <1>1, <1>3
<1>5. buy \in Int /\ sell \in Int
  BY <1>3, ClampType
<1>6. /\ BuyLevels(entry, S) = LevelSet(entry, entry - buy, entry + 2 * buy)
      /\ SellLevels(entry, S) = LevelSet(entry, entry + sell, entry - 2 * sell)
  BY DEF BuyLevels, SellLevels, below, above, quarter
<1>7. /\ SellLevels(Flip(entry), T) = LevelSet(Flip(entry), Flip(entry) + buy, Flip(entry) - 2 * buy)
      /\ BuyLevels(Flip(entry), T) = LevelSet(Flip(entry), Flip(entry) - sell, Flip(entry) + 2 * sell)
  BY <1>4 DEF BuyLevels, SellLevels, below2, above2, quarter
<1> HIDE DEF buy, sell
<1>8. /\ entry - buy \in Int /\ entry + 2 * buy \in Int
      /\ entry + sell \in Int /\ entry - 2 * sell \in Int
      /\ 2 * Centre - (entry - buy) = (2 * Centre - entry) + buy
      /\ 2 * Centre - (entry + 2 * buy) = (2 * Centre - entry) - 2 * buy
      /\ 2 * Centre - (entry + sell) = (2 * Centre - entry) - sell
      /\ 2 * Centre - (entry - 2 * sell) = (2 * Centre - entry) + 2 * sell
  BY <1>1, <1>5
<1>9. /\ FlipLevels(BuyLevels(entry, S))
            = LevelSet(2 * Centre - entry, 2 * Centre - (entry - buy), 2 * Centre - (entry + 2 * buy))
      /\ FlipLevels(SellLevels(entry, S))
            = LevelSet(2 * Centre - entry, 2 * Centre - (entry + sell), 2 * Centre - (entry - 2 * sell))
      /\ BuyLevels(entry, S) \in LevelShape /\ SellLevels(entry, S) \in LevelShape
  BY <1>6, <1>8, LevelsFlipped
<1> QED
  BY <1>1, <1>7, <1>8, <1>9 DEF T

LEMMA S1Mirrored ==
    ASSUME NEW f, S1Frame(f), NEW action \in Actions
    PROVE  Mirrored("s1", f, action)
<1> DEFINE g == Mirror("s1", f)
            n == Len(f.bars)
            last == f.bars[n]
            e == last.ema21
            c == last.ema50
            mid == (e + c) \div 2
            buy == Highest({e, mid})
            sell == Lowest({e, mid})
<1>1. n \in Nat /\ n > 1 /\ (\A i \in 1..n : f.bars[i] \in S1Bar) /\ DOMAIN f.bars = 1..n
  BY MirrorS1
<1>2. Last(f.bars) = last /\ last \in S1Bar /\ (e + c) % 2 = 0
  <2>1. n \in 1..n
    <3> HIDE DEF n
    <3> QED
      BY <1>1
  <2>2. \A i \in DOMAIN f.bars : (f.bars[i].ema21 + f.bars[i].ema50) % 2 = 0
    BY DEF S1Frame
  <2> QED
    BY <1>1, <2>1, <2>2 DEF Last
<1>3. Last(g.bars) = FlipBar(last)
  <2> HIDE DEF g
  <2>1. DOMAIN g.bars = 1..n /\ Len(g.bars) = n /\ \A i \in 1..n : g.bars[i] = FlipBar(f.bars[i])
    BY MirrorS1 DEF g
  <2>2. n \in 1..n
    <3> HIDE DEF n
    <3> QED
      BY <1>1
  <2> QED
    BY <2>1, <2>2 DEF Last
<1>4. /\ e \in Int /\ c \in Int
      /\ FlipBar(last).ema21 = 2 * Centre - e /\ FlipBar(last).ema50 = 2 * Centre - c
  BY <1>2, BarFlipped
<1>5. /\ mid \in Int /\ Centre \in Int
      /\ ((2 * Centre - e) + (2 * Centre - c)) \div 2 = 2 * Centre - mid
  <2> HIDE DEF e, c
  <2>1. mid \in Int /\ e + c = 2 * mid /\ Centre \in Int
    BY <1>2, <1>4, PricesAreWhole
  <2> HIDE DEF mid
  <2>2. (2 * Centre - e) + (2 * Centre - c) = 2 * (2 * Centre - mid) /\ 2 * Centre - mid \in Int
    BY <1>4, <2>1
  <2> DEFINE flat == 2 * Centre - mid
  <2> HIDE DEF flat
  <2>3. (2 * flat) \div 2 = flat
    BY <2>2 DEF flat
  <2> QED
    BY <2>1, <2>2, <2>3 DEF flat
<1> HIDE DEF g, n, last, e, c, mid
<1>6. /\ buy \in Int /\ sell \in Int
      /\ Lowest({2 * Centre - e, 2 * Centre - mid}) = Flip(buy)
      /\ Highest({2 * Centre - e, 2 * Centre - mid}) = Flip(sell)
  BY <1>4, <1>5, OfTwo DEF Flip
<1> HIDE DEF buy, sell
<1> DEFINE lows == SwingsBelow(f, buy)
            highs == SwingsAbove(f, sell)
<1>7. /\ S1Levels(f, "BUY") = BuyLevels(buy, lows)
      /\ S1Levels(f, "SELL") = SellLevels(sell, highs)
  BY <1>2 DEF S1Levels, BuyLevels, SellLevels, buy, sell, mid, e, c
<1>8. /\ S1Levels(g, "SELL") = SellLevels(Flip(buy), SwingsAbove(g, Flip(buy)))
      /\ S1Levels(g, "BUY") = BuyLevels(Flip(sell), SwingsBelow(g, Flip(sell)))
  BY <1>3, <1>4, <1>5, <1>6 DEF S1Levels, BuyLevels, SellLevels
<1>9. /\ lows \in SUBSET Int /\ IsFiniteSet(lows) /\ SwingsAbove(g, Flip(buy)) = {Flip(x) : x \in lows}
      /\ highs \in SUBSET Int /\ IsFiniteSet(highs) /\ SwingsBelow(g, Flip(sell)) = {Flip(x) : x \in highs}
  BY <1>6, SwingsFlipped DEF g
<1> HIDE DEF lows, highs
<1>10. /\ S1Levels(f, "BUY") \in LevelShape /\ S1Levels(g, "SELL") = FlipLevels(S1Levels(f, "BUY"))
       /\ S1Levels(f, "SELL") \in LevelShape /\ S1Levels(g, "BUY") = FlipLevels(S1Levels(f, "SELL"))
  BY <1>6, <1>7, <1>8, <1>9, SidesOfLevels
<1>11. S1Setup(f, action) <=> S1Setup(g, Other(action))
  BY S1Setups DEF g
<1> QED
  BY <1>10, <1>11 DEF Mirrored, Setup, Levels, Actions, Other, g

LEMMA S1ConfirmsMirrored ==
    ASSUME NEW f, S1Frame(f)
    PROVE  MirroredConfirm("s1", f)
<1> SUFFICES ASSUME NEW levels \in LevelShape, levels.entry # levels.stop
              PROVE  S1Confirms(f, levels) <=> S1Confirms(Mirror("s1", f), FlipLevels(levels))
  BY DEF MirroredConfirm, ConfirmSignal
<1> DEFINE g == Mirror("s1", f)
            e == levels.entry
            s == levels.stop
            there == FlipLevels(levels)
            lows == SwingsBelow(f, e)
            highs == SwingsAbove(f, e)
            above == SwingsAbove(g, Flip(e))
            below == SwingsBelow(g, Flip(e))
<1>1. e \in Int /\ s \in Int /\ Centre \in Int /\ e # s
  BY PricesAreWhole DEF LevelShape
<1>2. there.entry = Flip(e) /\ there.stop = Flip(s)
  BY DEF FlipLevels, LevelSet
<1> HIDE DEF e, s, there, g
<1>3. /\ lows \in SUBSET Int /\ IsFiniteSet(lows) /\ above = {Flip(x) : x \in lows}
      /\ highs \in SUBSET Int /\ IsFiniteSet(highs) /\ below = {Flip(x) : x \in highs}
  BY <1>1, SwingsFlipped DEF g
<1> HIDE DEF lows, highs, above, below
<1>4. lows # {} => Highest(lows) \in Int /\ Lowest(above) = Flip(Highest(lows))
  BY <1>3, LowestFlipped
<1>5. highs # {} => Lowest(highs) \in Int /\ Highest(below) = Flip(Lowest(highs))
  BY <1>3, HighestFlipped
<1>6. (above # {} <=> lows # {}) /\ (below # {} <=> highs # {})
  BY <1>3
<1>7. e > s <=> ~(Flip(e) > Flip(s))
  BY <1>1 DEF Flip
<1>8. \A x \in Int : (s <= x <=> Flip(s) >= Flip(x)) /\ (s >= x <=> Flip(s) <= Flip(x))
  BY <1>1 DEF Flip
<1>9. CASE e > s
  <2>1. S1Confirms(f, levels) <=> (lows # {} => s <= Highest(lows))
    BY <1>9 DEF S1Confirms, e, s, lows
  <2>2. S1Confirms(g, there) <=> (above # {} => Flip(s) >= Lowest(above))
    BY <1>2, <1>7, <1>9 DEF S1Confirms, above
  <2> QED
    BY <1>4, <1>6, <1>8, <2>1, <2>2 DEF g, there
<1>10. CASE ~(e > s)
  <2>1. S1Confirms(f, levels) <=> (highs # {} => s >= Lowest(highs))
    BY <1>10 DEF S1Confirms, e, s, highs
  <2>2. S1Confirms(g, there) <=> (below # {} => Flip(s) <= Highest(below))
    BY <1>2, <1>7, <1>10 DEF S1Confirms, below
  <2> QED
    BY <1>5, <1>6, <1>8, <2>1, <2>2 DEF g, there
<1> QED
  BY <1>9, <1>10

-----------------------------------------------------------------------------
\* The level engine and the score do not favour a side.

LEMMA EachMirrored ==
    ASSUME NEW s \in Names, NEW f, Frame(s, f), NEW action \in Actions
    PROVE  Mirrored(s, f, action) /\ MirroredConfirm(s, f)
<1>1. CASE s = "s1"
  <2>1. S1Frame(f)
    BY <1>1 DEF Frame
  <2> QED
    BY <1>1, <2>1, S1Mirrored, S1ConfirmsMirrored
<1>2. CASE s = "s2"
  BY <1>2, S2Mirrored DEF Frame
<1>3. CASE s = "s3"
  BY <1>3, S3Mirrored DEF Frame
<1>4. CASE s = "s4"
  BY <1>4, S4Mirrored DEF Frame
<1> QED
  BY <1>1, <1>2, <1>3, <1>4 DEF Names

LEMMA RoundFlipped ==
    ASSUME NEW levels \in LevelShape
    PROVE  /\ RoundLevels(levels) \in LevelShape
           /\ FlipLevels(levels) \in LevelShape
           /\ RoundLevels(FlipLevels(levels)) = FlipLevels(RoundLevels(levels))
<1> DEFINE e == levels.entry
            s == levels.stop
            t == levels.target
<1>1. e \in Int /\ s \in Int /\ t \in Int
  BY DEF LevelShape
<1>2. Flip(e) \in Int /\ Flip(s) \in Int /\ Flip(t) \in Int
  BY <1>1, FlipType
<1>3. /\ RoundToTick(Flip(e)) = Flip(RoundToTick(e)) /\ RoundToTick(e) \in Int
      /\ RoundToTick(Flip(s)) = Flip(RoundToTick(s)) /\ RoundToTick(s) \in Int
      /\ RoundToTick(Flip(t)) = Flip(RoundToTick(t)) /\ RoundToTick(t) \in Int
  BY <1>1, TickFlipped
<1> QED
  BY <1>2, <1>3 DEF RoundLevels, FlipLevels, LevelSet, LevelShape

LEMMA ValidatedMirrored ==
    ASSUME NEW levels \in LevelShape, NEW action \in Actions
    PROVE  /\ Validated(levels, action, ATR, RrMin)
                <=> Validated(FlipLevels(levels), Other(action), ATR, RrMin)
           /\ Validated(levels, action, ATR, RrMin) =>
                RoundLevels(levels).entry # RoundLevels(levels).stop
<1> DEFINE here == RoundLevels(levels)
            there == RoundLevels(FlipLevels(levels))
            e == here.entry
            s == here.stop
            t == here.target
<1>1. here \in LevelShape /\ there = FlipLevels(here)
  BY RoundFlipped
<1> HIDE DEF here, there
<1>2. e \in Int /\ s \in Int /\ t \in Int /\ Centre \in Int
  BY <1>1, PricesAreWhole DEF LevelShape
<1>3. there.entry = 2 * Centre - e /\ there.stop = 2 * Centre - s /\ there.target = 2 * Centre - t
  BY <1>1 DEF FlipLevels, LevelSet, Flip
<1> HIDE DEF e, s, t
<1>4. StopDistance(there) = StopDistance(here) /\ TargetDistance(there) = TargetDistance(here)
  BY <1>2, <1>3 DEF StopDistance, TargetDistance, e, s, t
<1>5. DirectionHolds(here, action) <=> DirectionHolds(there, Other(action))
  BY <1>2, <1>3 DEF DirectionHolds, Actions, Other, e, s, t
<1>6. DirectionHolds(here, action) => e # s
  BY <1>2 DEF DirectionHolds, e, s, t
<1>7. RatioHolds(here, RrMin) <=> RatioHolds(there, RrMin)
  BY <1>4 DEF RatioHolds
<1>8. WithinAtr(here, ATR) <=> WithinAtr(there, ATR)
  BY <1>4 DEF WithinAtr
<1> QED
  BY <1>5, <1>6, <1>7, <1>8 DEF Validated, here, there, e, s

ContextShape ==
    [close : Sides, ema50 : Sides, adx : Int, h4 : Sides \cup {"none"}, macd : Sides,
     rsi : Int, level : [kind : STRING, strength : Nat], gap : Sides, volume : Int,
     session : BOOLEAN, funding : BOOLEAN]

LEMMA BreakdownMirrored ==
    ASSUME NEW ctx \in ContextShape, NEW action \in Actions, NEW event
    PROVE  Breakdown(ctx, action, event) = Breakdown(FlipContext(ctx), Other(action), event)
<1> DEFINE other == FlipContext(ctx)
<1>1. /\ other.close = FlipSide(ctx.close) /\ other.ema50 = FlipSide(ctx.ema50)
      /\ other.h4 = FlipSide(ctx.h4) /\ other.macd = FlipSide(ctx.macd)
      /\ other.gap = FlipSide(ctx.gap) /\ other.rsi = 100 - ctx.rsi
      /\ other.adx = ctx.adx /\ other.volume = ctx.volume
      /\ other.session = ctx.session /\ other.funding = ctx.funding
  BY DEF FlipContext, ContextShape
<1>2. /\ other.level.strength = ctx.level.strength
      /\ other.level.kind = CASE ctx.level.kind = "support" -> "resistance"
                              [] ctx.level.kind = "resistance" -> "support"
                              [] OTHER -> ctx.level.kind
  BY DEF FlipContext, ContextShape
<1>3. \A side \in Sides \cup {"none"} : FlipSide(side) = With(Other(action)) <=> side = With(action)
  BY DEF Sides, FlipSide, With, Other, Actions
<1>4. /\ ctx.close \in Sides /\ ctx.ema50 \in Sides /\ ctx.h4 \in Sides \cup {"none"}
      /\ ctx.macd \in Sides /\ ctx.gap \in Sides /\ ctx.rsi \in Int
  BY DEF ContextShape
<1>5. other.h4 = "none" <=> ctx.h4 = "none"
  BY <1>1, <1>4 DEF FlipSide, Sides
<1> HIDE DEF other
<1>6. /\ (other.close = With(Other(action))) = (ctx.close = With(action))
      /\ (other.ema50 = With(Other(action))) = (ctx.ema50 = With(action))
      /\ (other.h4 = With(Other(action))) = (ctx.h4 = With(action))
      /\ (other.macd = With(Other(action))) = (ctx.macd = With(action))
      /\ (other.gap = With(Other(action))) = (ctx.gap = With(action))
  BY <1>1, <1>3, <1>4
<1>7. ScoreTrend(other, Other(action)) = ScoreTrend(ctx, action)
  BY <1>1, <1>5, <1>6 DEF ScoreTrend, Bit
<1>8. ScoreMomentum(other, Other(action)) = ScoreMomentum(ctx, action)
  <2>1. (other.rsi \in IF Other(action) = "BUY" THEN 40..65 ELSE 35..60)
            <=> (ctx.rsi \in IF action = "BUY" THEN 40..65 ELSE 35..60)
    BY <1>1, <1>4 DEF Actions, Other
  <2> QED
    BY <1>6, <2>1 DEF ScoreMomentum, Bit
<1>9. ScoreStructure(other, Other(action)) = ScoreStructure(ctx, action)
  <2>1. (other.level.kind = IF Other(action) = "BUY" THEN "support" ELSE "resistance")
            <=> (ctx.level.kind = IF action = "BUY" THEN "support" ELSE "resistance")
    BY <1>2 DEF Actions, Other
  <2> QED
    BY <1>2, <1>6, <2>1 DEF ScoreStructure
<1>10. ScoreMacro(other, event) = ScoreMacro(ctx, event)
  BY <1>1 DEF ScoreMacro
<1>11. ScoreVolume(other) = ScoreVolume(ctx) /\ other.volume = ctx.volume
  BY <1>1 DEF ScoreVolume
<1> QED
  BY <1>7, <1>8, <1>9, <1>10, <1>11 DEF Breakdown, other

LEMMA SidesAgree ==
    ASSUME NEW s \in Names, NEW f, Frame(s, f), NEW action \in Actions
    PROVE  LET mirror == Mirror(s, f)
               here == Levels(s, f, action)
               there == Levels(s, mirror, Other(action))
           IN  /\ Setup(s, f, action) <=> Setup(s, mirror, Other(action))
               /\ Setup(s, f, action) =>
                    /\ RoundLevels(there) = FlipLevels(RoundLevels(here))
                    /\ Validated(here, action, ATR, RrMin)
                        <=> Validated(there, Other(action), ATR, RrMin)
                    /\ Validated(here, action, ATR, RrMin) =>
                        (ConfirmSignal(s, f, RoundLevels(here))
                            <=> ConfirmSignal(s, mirror, RoundLevels(there)))
<1> DEFINE mirror == Mirror(s, f)
            here == Levels(s, f, action)
            there == Levels(s, mirror, Other(action))
<1>1. Mirrored(s, f, action) /\ MirroredConfirm(s, f)
  BY EachMirrored
<1>2. Setup(s, f, action) <=> Setup(s, mirror, Other(action))
  BY <1>1 DEF Mirrored
<1>3. ASSUME Setup(s, f, action)
      PROVE  /\ RoundLevels(there) = FlipLevels(RoundLevels(here))
             /\ Validated(here, action, ATR, RrMin)
                    <=> Validated(there, Other(action), ATR, RrMin)
             /\ Validated(here, action, ATR, RrMin) =>
                    (ConfirmSignal(s, f, RoundLevels(here))
                        <=> ConfirmSignal(s, mirror, RoundLevels(there)))
  <2>1. here \in LevelShape /\ there = FlipLevels(here)
    BY <1>1, <1>3 DEF Mirrored
  <2> HIDE DEF here, there, mirror
  <2>2. RoundLevels(here) \in LevelShape /\ RoundLevels(there) = FlipLevels(RoundLevels(here))
    BY <2>1, RoundFlipped
  <2>3. /\ Validated(here, action, ATR, RrMin) <=> Validated(there, Other(action), ATR, RrMin)
        /\ Validated(here, action, ATR, RrMin) =>
            RoundLevels(here).entry # RoundLevels(here).stop
    BY <2>1, ValidatedMirrored
  <2>4. \A levels \in LevelShape :
            levels.entry # levels.stop =>
                (ConfirmSignal(s, f, levels) <=> ConfirmSignal(s, mirror, FlipLevels(levels)))
    BY <1>1 DEF MirroredConfirm, mirror
  <2> QED
    BY <2>2, <2>3, <2>4
<1> QED
  BY <1>2, <1>3 DEF mirror, here, there

-----------------------------------------------------------------------------
\* What the steps do to the record of the run.

Kept == {"tf", "adx", "crisis", "regime", "table", "rest"}

\* Pass sets the fields it is given and leaves the others as they are.
LEMMA PassSets ==
    ASSUME NEW fields, Pass(fields)
    PROVE  /\ DOMAIN run' = DOMAIN fields \cup DOMAIN run
           /\ \A x \in DOMAIN fields : run'[x] = fields[x]
           /\ \A x \in DOMAIN run \ DOMAIN fields : run'[x] = run[x]
  BY DEF Pass

\* What the run began with is not set again.
LEMMA PassCarries ==
    ASSUME NEW fields, Pass(fields), DOMAIN fields \cap Kept = {}, Begun
    PROVE  /\ Begun'
           /\ run'.rest = run.rest /\ run'.adx = run.adx /\ run'.table = run.table
           /\ run'.regime = run.regime
           /\ Strategy' = Strategy /\ Events' = Events
           /\ Chosen => Chosen'
  <1>1. Kept \subseteq DOMAIN run
    BY DEF Begun, Kept
  <1>2. /\ Kept \subseteq DOMAIN run'
        /\ \A x \in Kept : run'[x] = run[x]
    BY <1>1, PassSets
  <1>3. /\ run'.rest = run.rest /\ run'.adx = run.adx /\ run'.table = run.table
        /\ run'.regime = run.regime /\ run'.crisis = run.crisis /\ run'.tf = run.tf
    BY <1>2 DEF Kept
  <1>4. Begun'
    BY <1>2, <1>3 DEF Begun, Kept
  <1>5. Strategy' = Strategy /\ Events' = Events
    BY <1>3 DEF Strategy, Events
  <1>6. Chosen => Chosen'
    BY <1>3, <1>5 DEF Chosen, HighImpactWithin
  <1> QED
    BY <1>3, <1>4, <1>5, <1>6

\* What has been established of the candidate stays so while its fields do.
LEMMA PassKeepsResults ==
    ASSUME NEW fields, Pass(fields), DOMAIN fields \cap Kept = {}, Begun, Chosen, Suits,
           "action" \notin DOMAIN fields
    PROVE  /\ Begun' /\ Chosen' /\ Suits'
           /\ Strategy' = Strategy
           /\ Rounded /\ "levels" \notin DOMAIN fields => Rounded'
           /\ Sized /\ "risk" \notin DOMAIN fields /\ "risked" \notin DOMAIN fields => Sized'
           /\ Gated => Gated'
  <1>1. /\ Begun' /\ run'.adx = run.adx /\ run'.regime = run.regime
        /\ Strategy' = Strategy /\ Events' = Events /\ Chosen'
    BY PassCarries
  <1>2. run'.action = run.action /\ "action" \in DOMAIN run'
    BY PassSets DEF Suits
  <1>3. Suits'
    BY <1>1, <1>2 DEF Suits
  <1>4. ASSUME Rounded, "levels" \notin DOMAIN fields PROVE Rounded'
    <2>1. run'.levels = run.levels /\ "levels" \in DOMAIN run'
      BY <1>4, PassSets DEF Rounded
    <2> QED
      BY <1>2, <1>4, <2>1 DEF Rounded
  <1>5. ASSUME Sized, "risk" \notin DOMAIN fields, "risked" \notin DOMAIN fields PROVE Sized'
    <2>1. /\ run'.risk = run.risk /\ "risk" \in DOMAIN run'
          /\ run'.risked = run.risked /\ "risked" \in DOMAIN run'
      BY <1>5, PassSets DEF Sized
    <2> QED
      BY <1>5, <2>1 DEF Sized
  <1>6. Gated => Gated'
    BY <1>1 DEF Gated, RequiredRegime
  <1> QED
    BY <1>1, <1>3, <1>4, <1>5, <1>6

LEMMA StrategyIsNamed ==
    ASSUME Begun, run.rest # <<>>
    PROVE  Strategy \in Names
  <1>1. Head(run.rest) \in Names
    <2> HIDE DEF Names
    <2> QED
      BY DEF Begun
  <1> QED
    BY <1>1 DEF Strategy

\* With the next strategy everything starts again.
LEMMA NextStrategyInv ==
    ASSUME Begun, run.rest # <<>>, NextStrategy
    PROVE  RunInv'
  <1>1. run'.at = "strategies" /\ "at" \in DOMAIN run'
    BY DEF NextStrategy
  <1>2. Tail(run.rest) \in Seq(Names)
    BY DEF Begun
  <1>3. Begun'
    BY <1>2 DEF Begun, NextStrategy
  <1> QED
    BY <1>1, <1>3 DEF RunInv, Stages, AfterRound, AfterSize, AfterGate

LEMMA IdleInv ==
    ASSUME run' = Idle
    PROVE  RunInv'
  <1>1. run'.at = "idle" /\ "at" \in DOMAIN run'
    BY DEF Idle
  <1> QED
    BY <1>1 DEF RunInv, Stages, AfterRound, AfterSize, AfterGate
-----------------------------------------------------------------------------
\* Rounding, sizing and scoring.

\* The nearest whole number is one of the two neighbours.
LEMMA RoundDivBounds ==
    ASSUME NEW n \in Int, NEW d \in Nat \ {0}
    PROVE  /\ RoundDiv(n, d) \in Int
           /\ n \div d <= RoundDiv(n, d) /\ RoundDiv(n, d) <= n \div d + 1
  <1> DEFINE q == n \div d
  <1>1. q \in Int
    OBVIOUS
  <1>2. q % 2 \in {0, 1}
    <2> HIDE DEF q
    <2> QED
      BY <1>1
  <1> QED
    BY <1>1, <1>2 DEF RoundDiv

\* A price of a tick or more is not rounded to nothing.
LEMMA RoundedPositive ==
    ASSUME NEW price \in Int, price >= Tick
    PROVE  RoundToTick(price) \in Int /\ RoundToTick(price) >= Tick
  <1> DEFINE q == price \div Tick
             r == RoundDiv(price, Tick)
  <1>1. Tick \in Nat \ {0}
    BY TickAssumption
  <1>2. q \in Int /\ price = (Tick * q) + (price % Tick) /\ price % Tick \in 0..(Tick - 1)
    BY <1>1
  <1>3. q >= 1
    <2>1. SUFFICES ASSUME q <= 0 PROVE FALSE
      BY <1>2
    <2>2. Tick * q <= 0
      BY <1>1, <1>2, <2>1
    <2> QED
      BY <1>1, <1>2, <2>2
  <1>4. r \in Int /\ q <= r
    BY <1>1, RoundDivBounds
  <1> HIDE DEF q, r
  <1>5. Tick * r \in Int /\ Tick * r >= Tick
    BY <1>1, <1>2, <1>3, <1>4
  <1> QED
    BY <1>5 DEF RoundToTick, r

\* B3: 2 % of the equity is the most that a position may be meant to lose.
LEMMA BudgetBound ==
    ASSUME NEW risk \in 1..20
    PROVE  Budget(risk) \in Nat /\ 50 * Budget(risk) <= Equity
  <1> DEFINE x == Equity * risk
  <1>1. Equity \in Nat \ {0}
    BY TickAssumption
  <1>2. x \in Nat /\ x <= 20 * Equity
    BY <1>1
  <1> HIDE DEF x
  <1>3. x \div 1000 \in Nat /\ 1000 * (x \div 1000) <= x
    BY <1>2
  <1>4. Budget(risk) = x \div 1000
    BY DEF Budget, x
  <1> QED
    BY <1>1, <1>2, <1>3, <1>4

\* Whole steps, rounded down, lose no more than the budget.
LEMMA RiskFits ==
    ASSUME NEW risk \in 1..20, NEW distance \in Nat \ {0}, NEW step \in Nat
    PROVE  /\ RiskOf(risk, distance, step) \in Nat
           /\ RiskOf(risk, distance, step) <= Budget(risk)
           /\ 50 * RiskOf(risk, distance, step) <= Equity
  <1> DEFINE b == Budget(risk)
             unit == distance * step
             q == b \div unit
  <1>1. b \in Nat /\ 50 * b <= Equity /\ Equity \in Nat
    BY BudgetBound, TickAssumption
  <1>2. CASE step = 0
    BY <1>1, <1>2 DEF RiskOf
  <1>3. CASE step # 0
    <2>1. unit \in Nat \ {0}
      BY <1>3
    <2>2. q \in Nat /\ b = (unit * q) + (b % unit) /\ b % unit >= 0
      <3> HIDE DEF unit, b
      <3> QED
        BY <1>1, <2>1
    <2>3. q * step * distance = unit * q
      <3> HIDE DEF q
      <3> QED
        BY <2>2
    <2>4. unit * q \in Nat
      <3> HIDE DEF q, unit
      <3> QED
        BY <2>1, <2>2
    <2>5. unit * q <= b
      <3> HIDE DEF q, unit, b
      <3> QED
        BY <1>1, <2>1, <2>2, <2>4
    <2>6. RiskOf(risk, distance, step) = unit * q
      BY <1>3, <2>3 DEF RiskOf, Lots
    <2> HIDE DEF q, unit, b
    <2>7. 50 * (unit * q) <= Equity
      BY <1>1, <2>4, <2>5
    <2> QED
      BY <2>4, <2>5, <2>6, <2>7 DEF b
  <1> QED
    BY <1>2, <1>3

LEMMA Bits == \A condition : Bit(condition) \in {0, 1}
  BY DEF Bit

\* No slot of the score exceeds its maximum, also when the volume is filled in.
LEMMA BreakdownFits ==
    ASSUME NEW ctx, NEW action, NEW event,
           ctx.level.strength \in Nat, ctx.volume \in Int
    PROVE  BreakdownValid(Breakdown(ctx, action, event))
  <1> DEFINE trend == ScoreTrend(ctx, action)
             momentum == ScoreMomentum(ctx, action)
             structure == ScoreStructure(ctx, action)
             macro == ScoreMacro(ctx, event)
             other == trend + momentum + structure + macro
             volume == IF ctx.volume = NoVolume THEN RoundDiv(15 * other, 85)
                                                ELSE ScoreVolume(ctx)
  <1>1. trend \in 0..25
    <2> DEFINE aligned == Bit(ctx.close = With(action)) + Bit(ctx.ema50 = With(action))
                          + Bit(ctx.adx >= 20)
               all == aligned + Bit(ctx.h4 = With(action))
    <2>1. aligned \in 0..3 /\ all \in 0..4
      BY Bits
    <2> HIDE DEF aligned, all
    <2>2. RoundDiv(25 * aligned, 3) \in 0..25 /\ RoundDiv(25 * all, 4) \in 0..25
      BY <2>1 DEF RoundDiv
    <2> QED
      BY <2>2 DEF ScoreTrend, aligned, all
  <1>2. momentum \in 0..20
    BY Bits DEF ScoreMomentum
  <1>3. structure \in 0..20
    <2> DEFINE support == IF action = "BUY" THEN "support" ELSE "resistance"
               points == (IF ctx.level.kind = support THEN ctx.level.strength ELSE 0)
                         + (IF ctx.gap = With(action) THEN 2 ELSE 0)
    <2>1. points \in Nat
      OBVIOUS
    <2> HIDE DEF points
    <2>2. RoundDiv(20 * points, 3) \in Int /\ RoundDiv(20 * points, 3) >= 0
      BY <2>1 DEF RoundDiv
    <2> QED
      BY <2>2 DEF ScoreStructure, points
  <1>4. macro \in 0..20
    BY Bits DEF ScoreMacro
  <1>5. volume \in 0..15
    <2>1. other \in 0..85
      <3> HIDE DEF trend, momentum, structure, macro
      <3> QED
        BY <1>1, <1>2, <1>3, <1>4
    <2> HIDE DEF other
    <2>2. RoundDiv(15 * other, 85) \in 0..15
      BY <2>1 DEF RoundDiv
    <2>3. RoundDiv(15 * 7, 10) \in 0..15 /\ RoundDiv(15 * 4, 10) \in 0..15
      BY DEF RoundDiv
    <2>4. ctx.volume >= 15 \/ ctx.volume \in 12..14 \/ ctx.volume \in 10..11 \/ ctx.volume < 10
      OBVIOUS
    <2>5. ScoreVolume(ctx) \in 0..15
      BY <2>3, <2>4 DEF ScoreVolume
    <2> QED
      BY <2>2, <2>5
  <1>6. Breakdown(ctx, action, event)
            = [trend |-> trend, momentum |-> momentum, structure |-> structure, macro |-> macro,
               volume |-> volume]
    BY DEF Breakdown
  <1> HIDE DEF trend, momentum, structure, macro, volume
  <1> QED
    BY <1>1, <1>2, <1>3, <1>4, <1>5, <1>6 DEF BreakdownValid

-----------------------------------------------------------------------------
\* The steps up to the candidate.

LEMMA BeginInv ==
    ASSUME NEW tf, NEW adx \in Adx, NEW crisis \in BOOLEAN, NEW table \in Tables,
           Begin(tf, adx, crisis, table)
    PROVE  RunInv'
  <1>1. run'.at = "strategies" /\ "at" \in DOMAIN run'
    BY DEF Begin
  <1>2. adx \in Nat
    BY InputAssumption
  <1>3. /\ Classified(adx, crisis) = "TREND" => ~crisis /\ adx >= 20
        /\ Classified(adx, crisis) = "RANGE" => ~crisis
    BY <1>2 DEF Classified
  <1>4. Registry \in Seq(Names)
    BY DEF Registry, Names
  <1>5. Begun'
    <2> HIDE DEF Registry
    <2>1. /\ {"tf", "adx", "crisis", "regime", "table", "rest"} \subseteq DOMAIN run'
          /\ run'.adx = adx /\ run'.table = table /\ run'.rest = Registry
          /\ run'.regime = Classified(adx, crisis) /\ run'.crisis = crisis
      BY DEF Begin
    <2> QED
      BY <1>2, <1>3, <1>4, <2>1 DEF Begun
  <1> QED
    BY <1>1, <1>5 DEF RunInv, Stages, AfterRound, AfterSize, AfterGate

LEMMA LookInv ==
    ASSUME RunInv, NEW f \in Frames[Strategy], Look(f)
    PROVE  RunInv'
  <1> DEFINE fields ==
        [at |-> "looked", frame |-> f, action |-> EntrySignal(Strategy, f)]
  <1>1. /\ Pass(fields) /\ Begun /\ DOMAIN fields = {"at", "frame", "action"}
        /\ fields.at = "looked" /\ fields.frame = f
        /\ fields.action = EntrySignal(Strategy, f)
    BY DEF Look, RunInv
  <1> HIDE DEF fields
  <1>2. /\ run'.at = "looked" /\ run'.frame = f /\ run'.action = EntrySignal(Strategy, f)
        /\ {"at", "frame", "action"} \subseteq DOMAIN run'
    BY <1>1, PassSets
  <1>3. DOMAIN fields \cap Kept = {}
    BY <1>1 DEF Kept
  <1>4. /\ Begun' /\ run'.rest = run.rest /\ run'.adx = run.adx
        /\ Strategy' = Strategy /\ (Chosen => Chosen')
    BY <1>1, <1>3, PassCarries
  <1>5. Chosen
    BY DEF Look, Chosen, HardBlock, HardBlockHours
  <1>6. \/ EntrySignal(Strategy, f) = ""
        \/ /\ EntrySignal(Strategy, f) \in Actions
           /\ Setup(Strategy, f, EntrySignal(Strategy, f))
    BY DEF EntrySignal, Actions
  <1>7. "adx" \in DOMAIN f => f.adx = run.adx
    BY DEF Look
  <1>8. Looked'
    BY <1>2, <1>4, <1>6, <1>7 DEF Looked
  <1> QED
    BY <1>2, <1>4, <1>5, <1>8 DEF RunInv, Stages, AfterRound, AfterSize, AfterGate

LEMMA PriceInv ==
    ASSUME RunInv, Price
    PROVE  RunInv'
  <1> DEFINE levels == Levels(Strategy, run.frame, run.action)
             fields == [at |-> "priced", levels |-> levels]
  <1>1. Begun /\ Chosen /\ Looked /\ run.action # ""
    BY DEF Price, RunInv
  <1>2. run.action \in Actions /\ Setup(Strategy, run.frame, run.action)
    BY <1>1 DEF Looked
  <1>3. CASE ~LevelSetValid(levels)
    BY <1>1, <1>3, NextStrategyInv DEF Price, Chosen
  <1>4. CASE LevelSetValid(levels)
    <2>1. /\ Pass(fields) /\ DOMAIN fields = {"at", "levels"}
          /\ fields.at = "priced" /\ fields.levels = levels
      BY <1>4 DEF Price
    <2> HIDE DEF fields
    <2>2. /\ run'.at = "priced" /\ run'.levels = levels
          /\ {"at", "levels"} \subseteq DOMAIN run'
          /\ "action" \in DOMAIN run' /\ run'.action = run.action
      <3> HIDE DEF levels
      <3> QED
        BY <1>1, <2>1, PassSets DEF Looked
    <2>3. Strategy \in DOMAIN Frames
      BY <1>1, StrategyIsNamed, InputAssumption DEF Chosen, Names
    <2>4. /\ levels \in LevelShape
          /\ \A price \in {levels.entry, levels.stop, levels.target} :
                price > 0 => price >= Tick
      <3>1. Strategy \in Names /\ run.frame \in Frames[Strategy] /\ Frame(Strategy, run.frame)
        BY <1>1, <2>3, InputAssumption DEF Looked, Names
      <3>2. Mirrored(Strategy, run.frame, run.action)
        BY <1>2, <3>1, EachMirrored
      <3>3. levels \in LevelShape
        BY <1>2, <3>2 DEF Mirrored
      <3>4. \A price \in {levels.entry, levels.stop, levels.target} :
                price > 0 => price >= Tick
        BY <1>2, <2>3, <3>1, PricesAssumption
      <3> QED
        BY <3>3, <3>4
    <2>5. DOMAIN fields \cap Kept = {}
      BY <2>1 DEF Kept
    <2>6. /\ Begun' /\ run'.rest = run.rest /\ run'.adx = run.adx
          /\ Strategy' = Strategy /\ Chosen'
      BY <1>1, <2>1, <2>5, PassCarries
    <2>7. Strategy = "s2" => run.adx < 20
      <3>1. SUFFICES ASSUME Strategy = "s2" PROVE run.adx < 20
        OBVIOUS
      <3>2. S2Setup(run.frame, run.action)
        BY <1>2, <3>1 DEF Setup
      <3>3. run.frame.adx = run.adx
        <4>1. S2Frame(run.frame)
          BY <1>1, <2>3, <3>1, InputAssumption DEF Looked, Frame
        <4>2. "adx" \in DOMAIN run.frame
          BY <4>1 DEF S2Frame
        <4> QED
          BY <1>1, <4>2 DEF Looked
      <3> QED
        BY <3>2, <3>3 DEF S2Setup
    <2>8. Suits'
      BY <1>2, <2>2, <2>6, <2>7 DEF Suits
    <2>9. Priced'
      <3> HIDE DEF levels
      <3> QED
        BY <1>4, <2>2, <2>4 DEF Priced, LevelSetValid
    <2> QED
      BY <2>2, <2>6, <2>8, <2>9 DEF RunInv, Stages, AfterRound, AfterSize, AfterGate
  <1> QED
    BY <1>3, <1>4

LEMMA ThreeDistinct ==
    ASSUME NEW a, NEW b, NEW c, a # b, a # c, b # c
    PROVE  Cardinality({a, b, c}) = 3
  <1>1. IsFiniteSet({a}) /\ Cardinality({a}) = 1
    BY FS_Singleton
  <1>2. IsFiniteSet({a} \cup {b}) /\ Cardinality({a} \cup {b}) = 2
    BY <1>1, FS_AddElement
  <1>3. Cardinality(({a} \cup {b}) \cup {c}) = 3
    BY <1>2, FS_AddElement
  <1>4. {a, b, c} = ({a} \cup {b}) \cup {c}
    OBVIOUS
  <1> QED
    BY <1>3, <1>4

LEMMA RoundInv ==
    ASSUME RunInv, Round
    PROVE  RunInv'
  <1> DEFINE levels == RoundLevels(run.levels)
             fields == [at |-> IF LevelSetValid(levels) THEN "rounded" ELSE "raised",
                        levels |-> levels]
  <1>1. Begun /\ Chosen /\ Suits /\ Priced
    BY DEF Round, RunInv
  <1>2. CASE ~Validated(run.levels, run.action, ATR, RrMin)
    BY <1>1, <1>2, NextStrategyInv DEF Round, Chosen
  <1>3. CASE Validated(run.levels, run.action, ATR, RrMin)
    <2>1. /\ DirectionHolds(levels, run.action)
          /\ RatioHolds(levels, RrMin)
          /\ WithinAtr(levels, ATR)
      BY <1>3 DEF Validated
    <2>2. /\ levels \in LevelShape
          /\ levels.entry >= Tick /\ levels.stop >= Tick /\ levels.target >= Tick
      BY <1>1, RoundedPositive DEF Priced, RoundLevels, LevelShape
    <2>3. Pass(fields)
      BY <1>3 DEF Round
    <2> HIDE DEF levels
    <2>4. levels.entry \in Int /\ levels.stop \in Int /\ levels.target \in Int
      BY <2>2 DEF LevelShape
    <2>5. LevelSetValid(levels)
      <3>1. /\ levels.entry # levels.stop /\ levels.entry # levels.target
            /\ levels.stop # levels.target
        BY <2>1, <2>4 DEF DirectionHolds
      <3>2. Cardinality({levels.entry, levels.stop, levels.target}) = 3
        BY <3>1, ThreeDistinct
      <3> QED
        BY <2>2, <2>4, <3>2, TickAssumption DEF LevelSetValid
    <2>6. RatioHolds(levels, 15)
      <3>1. StopDistance(levels) \in Nat /\ TargetDistance(levels) \in Nat
        BY <2>4 DEF StopDistance, TargetDistance
      <3>2. /\ StopDistance(levels) > 0
            /\ 10 * TargetDistance(levels) >= RrMin * StopDistance(levels)
        BY <2>1 DEF RatioHolds
      <3>3. RrMin * StopDistance(levels) >= 15 * StopDistance(levels)
        BY <3>1, SettingsAssumption
      <3> QED
        BY <3>1, <3>2, <3>3, SettingsAssumption DEF RatioHolds
    <2>7. /\ DOMAIN fields = {"at", "levels"}
          /\ fields.at = "rounded" /\ fields.levels = levels
      BY <2>5
    <2> HIDE DEF fields
    <2>8. /\ run'.at = "rounded" /\ run'.levels = levels
          /\ {"at", "levels"} \subseteq DOMAIN run'
          /\ run'.action = run.action
      BY <1>1, <2>3, <2>7, PassSets DEF Suits
    <2>9. Begun' /\ Chosen' /\ Suits'
      BY <1>1, <2>3, <2>7, PassKeepsResults DEF Kept
    <2>10. Rounded'
      BY <2>1, <2>2, <2>6, <2>8 DEF Rounded
    <2> QED
      BY <2>8, <2>9, <2>10 DEF RunInv, Stages, AfterRound, AfterSize, AfterGate
  <1> QED
    BY <1>2, <1>3

\* The steps that only decide: the confirmation and the edge filter.
LEMMA ConfirmInv ==
    ASSUME RunInv, Confirm
    PROVE  RunInv'
  <1> DEFINE fields == [at |-> "confirmed", frame |-> None]
  <1>1. Begun /\ Chosen /\ Suits /\ Rounded
    BY DEF Confirm, RunInv, AfterRound
  <1>2. Pass(fields) \/ NextStrategy
    BY DEF Confirm
  <1>3. CASE NextStrategy
    BY <1>1, <1>3, NextStrategyInv DEF Chosen
  <1>4. CASE Pass(fields)
    <2>1. DOMAIN fields = {"at", "frame"} /\ fields.at = "confirmed"
      OBVIOUS
    <2> HIDE DEF fields
    <2>2. run'.at = "confirmed" /\ "at" \in DOMAIN run'
      BY <1>4, <2>1, PassSets
    <2>3. Begun' /\ Chosen' /\ Suits' /\ Rounded'
      BY <1>1, <1>4, <2>1, PassKeepsResults DEF Kept
    <2> QED
      BY <2>2, <2>3 DEF RunInv, Stages, AfterRound, AfterSize, AfterGate
  <1> QED
    BY <1>2, <1>3, <1>4

LEMMA EdgeInv ==
    ASSUME RunInv, NEW flaws, Edge(flaws)
    PROVE  RunInv'
  <1> DEFINE fields == [at |-> "clean", edge |-> EdgeScore(flaws)]
  <1>1. Begun /\ Chosen /\ Suits /\ Rounded
    BY DEF Edge, RunInv, AfterRound
  <1>2. Pass(fields) \/ NextStrategy
    BY DEF Edge
  <1>3. CASE NextStrategy
    BY <1>1, <1>3, NextStrategyInv DEF Chosen
  <1>4. CASE Pass(fields)
    <2>1. DOMAIN fields = {"at", "edge"} /\ fields.at = "clean"
      OBVIOUS
    <2> HIDE DEF fields
    <2>2. run'.at = "clean" /\ "at" \in DOMAIN run'
      BY <1>4, <2>1, PassSets
    <2>3. Begun' /\ Chosen' /\ Suits' /\ Rounded'
      BY <1>1, <1>4, <2>1, PassKeepsResults DEF Kept
    <2> QED
      BY <2>2, <2>3 DEF RunInv, Stages, AfterRound, AfterSize, AfterGate
  <1> QED
    BY <1>2, <1>3, <1>4

LEMMA ScoreInv ==
    ASSUME RunInv, NEW context \in Contexts, Score(context)
    PROVE  RunInv'
  <1> DEFINE ctx == [context EXCEPT !.adx = run.adx]
             breakdown == Breakdown(ctx, run.action, EventAhead)
             fields == [at |-> IF BreakdownValid(breakdown) THEN "scored" ELSE "raised",
                        score |-> TotalScore(breakdown)]
  <1>1. Begun /\ Chosen /\ Suits /\ Rounded
    BY DEF Score, RunInv, AfterRound
  <1>2. Pass(fields) \/ NextStrategy
    BY DEF Score
  <1>3. CASE NextStrategy
    BY <1>1, <1>3, NextStrategyInv DEF Chosen
  <1>4. CASE Pass(fields)
    <2>1. ctx.level.strength \in Nat /\ ctx.volume \in Int
      <3>1. context \in ContextShape
        BY InputAssumption DEF ContextShape
      <3> QED
        BY <3>1 DEF ContextShape
    <2>2. BreakdownValid(breakdown)
      <3> HIDE DEF ctx
      <3> QED
        BY <2>1, BreakdownFits
    <2>3. DOMAIN fields = {"at", "score"} /\ fields.at = "scored"
      BY <2>2
    <2> HIDE DEF fields
    <2>4. run'.at = "scored" /\ "at" \in DOMAIN run'
      BY <1>4, <2>3, PassSets
    <2>5. Begun' /\ Chosen' /\ Suits' /\ Rounded'
      BY <1>1, <1>4, <2>3, PassKeepsResults DEF Kept
    <2> QED
      BY <2>4, <2>5 DEF RunInv, Stages, AfterRound, AfterSize, AfterGate
  <1> QED
    BY <1>2, <1>3, <1>4

\* GR-02 to GR-05 test again what the level engine and the sizing have established.
LEMMA NumbersHold ==
    ASSUME NEW c, DirectionHolds(c.levels, c.action), RatioHolds(c.levels, 15),
           WithinAtr(c.levels, ATR), c.risk \in 1..20
    PROVE  NumberFailures(c, ATR) = {}
  <1>1. ASSUME NEW gate \in NumberFailures(c, ATR) PROVE FALSE
    <2>1. gate \in {"GR-02", "GR-03", "GR-04", "GR-05"}
      BY DEF NumberFailures
    <2>2. CASE gate = "GR-02"
      BY <2>2 DEF NumberFailures
    <2>3. CASE gate = "GR-03"
      BY <2>3 DEF NumberFailures
    <2>4. CASE gate = "GR-04"
      BY <2>4 DEF NumberFailures
    <2>5. CASE gate = "GR-05"
      BY <2>5 DEF NumberFailures
    <2> QED
      BY <2>1, <2>2, <2>3, <2>4, <2>5
  <1> QED
    BY <1>1

LEMMA SizeInv ==
    ASSUME RunInv, NEW risk \in Risks, NEW step \in LotSteps, Size(risk, step)
    PROVE  RunInv'
  <1> DEFINE risked == RiskOf(risk, StopDistance(run.levels), step)
             c == [levels |-> run.levels, action |-> run.action, risk |-> risk,
                   risked |-> risked]
             fields == [at |-> IF NumberFailures(c, ATR) = {} THEN "candidate" ELSE "raised",
                        risk |-> risk, risked |-> risked]
  <1>1. Begun /\ Chosen /\ Suits /\ Rounded
    BY DEF Size, RunInv, AfterRound
  <1>2. Pass(fields) \/ NextStrategy
    BY DEF Size
  <1>3. CASE NextStrategy
    BY <1>1, <1>3, NextStrategyInv DEF Chosen
  <1>4. CASE Pass(fields)
    <2>1. risk \in 1..20 /\ step \in Nat
      BY SettingsAssumption, InputAssumption
    <2>2. StopDistance(run.levels) \in Nat \ {0}
      BY <1>1 DEF Rounded, RatioHolds, StopDistance, LevelShape
    <2>3. risked \in Nat /\ risked <= Budget(risk) /\ 50 * risked <= Equity
      BY <2>1, <2>2, RiskFits
    <2> HIDE DEF risked
    <2>4. NumberFailures(c, ATR) = {}
      <3>1. /\ DirectionHolds(c.levels, c.action) /\ RatioHolds(c.levels, 15)
            /\ WithinAtr(c.levels, ATR) /\ c.risk \in 1..20
        BY <1>1, <2>1 DEF Rounded
      <3> HIDE DEF c
      <3> QED
        BY <3>1, NumbersHold
    <2>5. /\ DOMAIN fields = {"at", "risk", "risked"} /\ fields.at = "candidate"
          /\ fields.risk = risk /\ fields.risked = risked
      BY <2>4
    <2> HIDE DEF fields
    <2>6. /\ run'.at = "candidate" /\ run'.risk = risk /\ run'.risked = risked
          /\ {"at", "risk", "risked"} \subseteq DOMAIN run'
      BY <1>4, <2>5, PassSets
    <2>7. Begun' /\ Chosen' /\ Suits' /\ Rounded'
      BY <1>1, <1>4, <2>5, PassKeepsResults DEF Kept
    <2>8. Sized'
      BY <2>1, <2>3, <2>6 DEF Sized
    <2> QED
      BY <2>6, <2>7, <2>8 DEF RunInv, Stages, AfterRound, AfterSize, AfterGate
  <1> QED
    BY <1>2, <1>3, <1>4

-----------------------------------------------------------------------------
\* The gates and what follows.

\* What passes the gate has its regime and no blackout.
LEMMA GatePasses ==
    ASSUME NEW c, NEW in, GateFailures(c, in, ATR) = {}
    PROVE  ~WrongRegime(in) /\ \A events \in in.events : ~Blackout(events)
  <1>1. "GR-07" \notin GateFailures(c, in, ATR) /\ "GR-08" \notin GateFailures(c, in, ATR)
    OBVIOUS
  <1>2. ~WrongRegime(in)
    BY <1>1 DEF GateFailures
  <1>3. ~ \E events \in in.events : Blackout(events)
    BY <1>1 DEF GateFailures
  <1> QED
    BY <1>2, <1>3

LEMMA GateInv ==
    ASSUME RunInv, NEW age, NEW live, NEW stale, NEW today, NEW losing,
           Gate(FirstGate(age, live, stale, today, losing))
    PROVE  RunInv'
  <1> DEFINE in == FirstGate(age, live, stale, today, losing)
  <1>1. Begun /\ Chosen /\ Suits /\ Rounded /\ Sized
    BY DEF Gate, RunInv, AfterRound, AfterSize
  <1>2. in.regime = {run.regime} /\ in.required_regime = RequiredRegime(Strategy)
        /\ in.events = {Events}
    BY DEF FirstGate, Given
  <1> HIDE DEF in
  <1>3. CASE GateFailures(run, in, ATR) # {}
    BY <1>3, IdleInv DEF Gate, in
  <1>4. CASE GateFailures(run, in, ATR) = {}
    <2>1. PICK llm \in LlmEnabled :
            Pass([at |-> IF llm THEN "passed" ELSE "graded",
                  in |-> in, confidence |-> run.score])
      BY <1>4 DEF Gate, in
    <2> DEFINE fields == [at |-> IF llm THEN "passed" ELSE "graded",
                          in |-> in, confidence |-> run.score]
    <2>2. /\ Pass(fields) /\ DOMAIN fields = {"at", "in", "confidence"}
          /\ fields.at \in {"passed", "graded"}
      BY <2>1
    <2> HIDE DEF fields
    <2>3. run'.at \in {"passed", "graded"} /\ "at" \in DOMAIN run'
      BY <2>2, PassSets
    <2>4. Gated
      BY <1>2, <1>4, GatePasses DEF Gated, WrongRegime
    <2>5. Begun' /\ Chosen' /\ Suits' /\ Rounded' /\ Sized' /\ Gated'
      BY <1>1, <2>2, <2>4, PassKeepsResults DEF Kept
    <2> QED
      BY <2>3, <2>5 DEF RunInv, Stages, AfterRound, AfterSize, AfterGate
  <1> QED
    BY <1>3, <1>4

LEMMA LlmInv ==
    ASSUME RunInv, NEW confidence, NEW sources, Llm(confidence, sources)
    PROVE  RunInv'
  <1> DEFINE fields == [at |-> "graded", confidence |-> confidence]
  <1>1. Begun /\ Chosen /\ Suits /\ Rounded /\ Sized /\ Gated
    BY DEF Llm, RunInv, AfterRound, AfterSize, AfterGate
  <1>2. Pass(fields) \/ run' = Idle
    BY DEF Llm
  <1>3. CASE run' = Idle
    BY <1>3, IdleInv
  <1>4. CASE Pass(fields)
    <2>1. DOMAIN fields = {"at", "confidence"} /\ fields.at = "graded"
      OBVIOUS
    <2> HIDE DEF fields
    <2>2. run'.at = "graded" /\ "at" \in DOMAIN run'
      BY <1>4, <2>1, PassSets
    <2>3. Begun' /\ Chosen' /\ Suits' /\ Rounded' /\ Sized' /\ Gated'
      BY <1>1, <1>4, <2>1, PassKeepsResults DEF Kept
    <2> QED
      BY <2>2, <2>3 DEF RunInv, Stages, AfterRound, AfterSize, AfterGate
  <1> QED
    BY <1>2, <1>3, <1>4

\* The grade may only reduce the position.
LEMMA PublishInv ==
    ASSUME RunInv, Publish
    PROVE  RunInv'
  <1> DEFINE grade == Grade(run.score, run.edge, EventAhead, run.confidence)
             scaled == (run.risked * RiskMultiplier(grade)) \div 100
             fields == [at |-> "published", grade |-> grade, scaled |-> scaled]
  <1>1. Begun /\ Chosen /\ Suits /\ Rounded /\ Sized /\ Gated
    BY DEF Publish, RunInv, AfterRound, AfterSize, AfterGate
  <1>2. Pass(fields)
    BY DEF Publish
  <1>3. grade \in {"A", "B", "C"}
    BY DEF Grade
  <1> HIDE DEF grade
  <1>4. RiskMultiplier(grade) \in {100, 75, 50}
    BY <1>3 DEF RiskMultiplier
  <1>5. run.risked \in Nat
    BY <1>1 DEF Sized
  <1>6. scaled <= run.risked
    BY <1>4, <1>5
  <1> HIDE DEF scaled
  <1>7. /\ DOMAIN fields = {"at", "grade", "scaled"} /\ fields.at = "published"
        /\ fields.scaled = scaled
    OBVIOUS
  <1> HIDE DEF fields
  <1>8. /\ run'.at = "published" /\ "at" \in DOMAIN run' /\ run'.scaled = scaled
        /\ run'.risked = run.risked
    BY <1>1, <1>2, <1>7, PassSets DEF Sized
  <1>9. Begun' /\ Chosen' /\ Suits' /\ Rounded' /\ Sized' /\ Gated'
    BY <1>1, <1>2, <1>7, PassKeepsResults DEF Kept
  <1> QED
    BY <1>6, <1>8, <1>9 DEF RunInv, Stages, AfterRound, AfterSize, AfterGate

-----------------------------------------------------------------------------
\* The invariant is inductive.
LEMMA RunStep ==
    ASSUME RunInv, [Next]_vars
    PROVE  RunInv'
  <1>1. CASE UNCHANGED vars
    <2>1. run' = run
      BY <1>1 DEF vars
    <2>2. Strategy' = Strategy /\ Events' = Events
      BY <2>1 DEF Strategy, Events
    <2>3. /\ Begun => Begun'
          /\ Chosen => Chosen'
          /\ Looked => Looked'
      BY <2>1, <2>2 DEF Begun, Chosen, Looked
    <2>4. /\ Suits => Suits'
          /\ Priced => Priced'
          /\ Rounded => Rounded'
      BY <2>1, <2>2 DEF Suits, Priced, Rounded
    <2>5. /\ Sized => Sized'
          /\ Gated => Gated'
      BY <2>1, <2>2 DEF Sized, Gated
    <2> QED
      BY <2>1, <2>3, <2>4, <2>5 DEF RunInv
  <1>2. ASSUME NEW tf \in {"1h", "15m"}, NEW adx \in Adx, NEW crisis \in BOOLEAN,
               NEW table \in Tables, Begin(tf, adx, crisis, table)
        PROVE  RunInv'
    BY <1>2, BeginInv
  <1>3. CASE Candidate
    <2>1. CASE NoSignal
      BY <2>1, IdleInv DEF NoSignal
    <2>2. CASE Skip
      BY <2>2, NextStrategyInv DEF Skip, RunInv
    <2>3. CASE NoSetup
      BY <2>3, NextStrategyInv DEF NoSetup, RunInv, Chosen
    <2>4. CASE Price
      BY <2>4, PriceInv
    <2>5. CASE Round
      BY <2>5, RoundInv
    <2>6. CASE Confirm
      BY <2>6, ConfirmInv
    <2>7. CASE \E f \in Frames[Strategy] : Look(f)
      BY <2>7, LookInv
    <2>8. CASE \E flaws \in Flaws : Edge(flaws)
      BY <2>8, EdgeInv
    <2>9. CASE \E context \in Contexts : Score(context)
      BY <2>9, ScoreInv
    <2>10. CASE \E risk \in Risks, step \in LotSteps : Size(risk, step)
      BY <2>10, SizeInv
    <2>11. CASE \E bias \in {"UP", "DOWN", None} : Misaligned(bias)
      BY <2>11, NextStrategyInv DEF Misaligned, RunInv, Chosen
    <2> QED
      BY <1>3, <2>1, <2>2, <2>3, <2>4, <2>5, <2>6, <2>7, <2>8, <2>9, <2>10, <2>11
         DEF Candidate
  <1>4. CASE Decide
    <2>1. ASSUME NEW live \in Prices,
                 NEW in \in {FirstGate(4, live, FALSE, 0, FALSE),
                             FirstGate(5, live, FALSE, 0, FALSE),
                             FirstGate(0, live, TRUE, 0, FALSE),
                             FirstGate(0, live, FALSE, MaxPerDay, FALSE),
                             FirstGate(0, live, FALSE, 0, TRUE)},
                 Gate(in)
          PROVE  RunInv'
      BY <2>1, GateInv
    <2>2. CASE \E confidence \in {50, 54, 55, 65}, sources \in {{}, {"pack"}, {"deterministic"}} :
                    Llm(confidence, sources)
      BY <2>2, LlmInv
    <2>3. CASE LlmDeclines
      BY <2>3, IdleInv DEF LlmDeclines
    <2>4. CASE Publish
      BY <2>4, PublishInv
    <2>5. CASE Done
      BY <2>5, IdleInv DEF Done
    <2> QED
      BY <1>4, <2>1, <2>2, <2>3, <2>4, <2>5 DEF Decide
  <1> QED
    BY <1>1, <1>2, <1>3, <1>4 DEF Next

LEMMA RunInitially == Init => RunInv
  <1> SUFFICES ASSUME Init PROVE RunInv
    OBVIOUS
  <1>1. run.at = "idle" /\ "at" \in DOMAIN run
    BY DEF Init, Idle
  <1> QED
    BY <1>1 DEF RunInv, Stages, AfterRound, AfterSize, AfterGate

\* What each stage of a scan has established holds from there on to the end of the
\* run, whatever is refused, sized or graded in between (generate_candidate, run_scan).
THEOREM RunInvariance == Spec => []RunInv
  <1> QED
    BY RunInitially, RunStep, PTL DEF Spec

\* No constructor after the level engine raises, and a candidate has the numbers that
\* the gate asks for: rounding leaves nothing for SignalCandidate to refuse.
THEOREM CandidatesAreSound == Spec => []CandidateIsSound
  <1>1. RunInv => CandidateIsSound
    <2> SUFFICES ASSUME RunInv PROVE CandidateIsSound
      OBVIOUS
    <2>1. run.at # "raised"
      BY DEF RunInv, Stages, AfterRound, AfterSize
    <2>2. ASSUME run.at = "candidate" PROVE NumberFailures(run, ATR) = {}
      <3>1. Rounded /\ Sized
        BY <2>2 DEF RunInv, AfterRound, AfterSize
      <3> QED
        BY <3>1, NumbersHold DEF Rounded, Sized
    <2> QED
      BY <2>1, <2>2 DEF CandidateIsSound
  <1> QED
    BY <1>1, RunInvariance, PTL

\* GR-05 and B3, for every equity, budget, stop distance and lot step: the position
\* loses at its stop no more than its budget and 2 % of the equity, and the grade only
\* reduces it (risk.py, scan.py).
THEOREM PositionsFitTheirBudget == Spec => []NeverOverRisks
  <1>1. RunInv => NeverOverRisks
    BY DEF RunInv, NeverOverRisks, Sized, AfterSize
  <1> QED
    BY <1>1, RunInvariance, PTL

\* GR-08 for every memory that other scans left behind: no strategy publishes outside
\* its regime (regime/classifier.py, scan.py, gate.py).
THEOREM RegimesAreRespected == Spec => []TradesItsRegime
  <1>1. RunInv => TradesItsRegime
    <2> SUFFICES ASSUME RunInv, run.at = "published" PROVE TradesItsRegime
      BY DEF TradesItsRegime
    <2>1. Begun /\ Suits /\ Gated
      BY DEF RunInv, AfterRound, AfterSize, AfterGate
    <2> QED
      BY <2>1 DEF Begun, Suits, Gated, RequiredRegime, TradesItsRegime
  <1> QED
    BY <1>1, RunInvariance, PTL

\* The events that a scan loads reach two hours back and 72 hours ahead.
BlackoutIsLoaded == BlackoutAfter <= 8 /\ BlackoutBefore < 4 * 72

\* No signal is published into the news, as long as the configured blackout is no
\* longer than what run_scan loads of the calendar: of the events outside that window
\* neither the hard block nor GR-07 knows anything (scan.py, gate.py).
THEOREM NoSignalIntoTheNews == BlackoutIsLoaded => (Spec => []NoNewsAtPublish)
  <1> SUFFICES ASSUME BlackoutIsLoaded PROVE Spec => []NoNewsAtPublish
    OBVIOUS
  <1>1. RunInv => NoNewsAtPublish
    <2> SUFFICES ASSUME RunInv, run.at = "published", NEW e \in Important(run.table)
                 PROVE  /\ e.at \notin (-BlackoutAfter)..BlackoutBefore
                        /\ Strategy = "s2" => e.at \notin (-BlackoutAfter)..48
      BY DEF NoNewsAtPublish
    <2>1. Begun /\ Chosen /\ ~Blackout(Events)
      BY DEF RunInv, Gated, AfterRound, AfterSize, AfterGate
    <2>2. e \in run.table /\ e.related /\ e.high
      BY DEF Important
    <2>3. e.at \in Int
      BY <2>1, <2>2, InputAssumption DEF Begun
    <2>4. /\ BlackoutAfter \in Nat /\ BlackoutBefore \in Nat
          /\ BlackoutAfter <= 8 /\ BlackoutBefore < 288
      BY GateAssumption DEF BlackoutIsLoaded
    <2>5. e.at \in (-8)..287 => e \in Important(Events)
      BY <2>2, <2>3 DEF Important, Events, Window
    <2>6. e.at \notin (-BlackoutAfter)..BlackoutBefore
      BY <2>1, <2>3, <2>4, <2>5 DEF Blackout
    <2>7. Strategy = "s2" => e.at \notin 0..48
      BY <2>1, <2>3, <2>5 DEF Chosen, HighImpactWithin
    <2>8. Strategy = "s2" => e.at \notin (-BlackoutAfter)..48
      BY <2>3, <2>4, <2>6, <2>7
    <2> QED
      BY <2>6, <2>8
  <1> QED
    BY <1>1, RunInvariance, PTL

\* Neither side is favoured, for any frame and its mirror image: the setups, the levels
\* after their rounding, the level engine, what confirm_signal discards and the score
\* (s1 to s4, levels.py, confluence.py).
THEOREM SidesAreMirrored == Spec => []MirrorSymmetric
  <1>1. RunInv => MirrorSymmetric
    <2> SUFFICES ASSUME RunInv PROVE MirrorSymmetric
      OBVIOUS
    <2>1. ASSUME run.at = "looked", NEW action \in Actions
          PROVE  LET mirror == Mirror(Strategy, run.frame)
                     here == Levels(Strategy, run.frame, action)
                     there == Levels(Strategy, mirror, Other(action))
                 IN  /\ Setup(Strategy, run.frame, action) <=> Setup(Strategy, mirror, Other(action))
                     /\ Setup(Strategy, run.frame, action) =>
                        /\ RoundLevels(there) = FlipLevels(RoundLevels(here))
                        /\ Validated(here, action, ATR, RrMin)
                            <=> Validated(there, Other(action), ATR, RrMin)
                        /\ Validated(here, action, ATR, RrMin) =>
                            (ConfirmSignal(Strategy, run.frame, RoundLevels(here))
                                <=> ConfirmSignal(Strategy, mirror, RoundLevels(there)))
      <3>1. Begun /\ Chosen /\ Looked
        BY <2>1 DEF RunInv
      <3>2. Strategy \in Names
        BY <3>1, StrategyIsNamed DEF Chosen
      <3>3. Frame(Strategy, run.frame)
        BY <3>1, <3>2, InputAssumption DEF Looked, Names
      <3> QED
        BY <3>2, <3>3, SidesAgree
    <2>2. ASSUME run.at = "clean", NEW context \in Contexts
          PROVE  Breakdown(context, run.action, EventAhead)
                    = Breakdown(FlipContext(context), Other(run.action), EventAhead)
      <3>1. run.action \in Actions
        BY <2>2 DEF RunInv, AfterRound, Suits
      <3>2. context \in ContextShape
        BY InputAssumption DEF ContextShape
      <3> QED
        BY <3>1, <3>2, BreakdownMirrored
    <2> QED
      BY <2>1, <2>2 DEF MirrorSymmetric
  <1> QED
    BY <1>1, RunInvariance, PTL
=============================================================================
