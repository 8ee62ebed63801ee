------------------------------- MODULE Scoring -------------------------------
(***************************************************************************)
(* What a candidate is scored, filtered, graded and sized with: the        *)
(* rounding of its levels, the confluence score, the edge-quality filter,  *)
(* the grade, and the size of the position.  Pure functions of their       *)
(* arguments; the indicator values behind a score are reduced to the       *)
(* comparisons that the code makes of them.                                *)
(***************************************************************************)
EXTENDS Integers, FiniteSets

CONSTANTS
    Tick,           \* pip_size of the instrument, in units of the price
    Equity          \* settings.risk.equity_usd

ASSUME TickAssumption == Tick \in Nat \ {0} /\ Equity \in Nat \ {0}

\* Python's round(n / d): to the nearest whole number, a tie to the even one.
RoundDiv(n, d) ==
    LET q == n \div d
        rest == n % d
    IN  IF 2 * rest < d THEN q ELSE IF 2 * rest > d THEN q + 1 ELSE q + (q % 2)

RoundToTick(price) == Tick * RoundDiv(price, Tick)

RoundLevels(levels) ==
    [entry |-> RoundToTick(levels.entry), stop |-> RoundToTick(levels.stop),
     target |-> RoundToTick(levels.target)]

StopDistance(levels) ==
    IF levels.entry > levels.stop THEN levels.entry - levels.stop ELSE levels.stop - levels.entry
TargetDistance(levels) ==
    IF levels.entry > levels.target THEN levels.entry - levels.target
                                    ELSE levels.target - levels.entry

\* GR-02 to GR-04, in the three places that test them: the level engine, the
\* constructor of SignalCandidate, and the gate.
DirectionHolds(levels, action) ==
    IF action = "BUY" THEN levels.stop < levels.entry /\ levels.entry < levels.target
                      ELSE levels.target < levels.entry /\ levels.entry < levels.stop

RatioHolds(levels, tenths) ==
    StopDistance(levels) > 0 /\ 10 * TargetDistance(levels) >= tenths * StopDistance(levels)

WithinAtr(levels, atr) ==
    2 * StopDistance(levels) >= atr /\ StopDistance(levels) <= 3 * atr

\* Mutant of Validated: the distance is tested before the rounding.
Validated_Early(levels, action, atr, rrMin) ==
    /\ DirectionHolds(RoundLevels(levels), action)
    /\ RatioHolds(RoundLevels(levels), rrMin)
    /\ WithinAtr(levels, atr)

\* validate_and_round_levels returns the rounded levels and not None.
Validated(levels, action, atr, rrMin) ==
    /\ DirectionHolds(RoundLevels(levels), action)
    /\ RatioHolds(RoundLevels(levels), rrMin)
    /\ WithinAtr(RoundLevels(levels), atr)

-----------------------------------------------------------------------------
\* compute_confluence.  In a context, close, ema50 and h4 say on which side of the
\* EMA200 the close, the EMA50 and the close of the anchor timeframe are ("UP",
\* "DOWN", or "" for neither; h4 is "none" without anchor candles), macd the sign of
\* the histogram, level the nearest S/R level within half an ATR of the entry, gap
\* the direction of a gap zone around it, volume the ratio to the average in tenths.

Sides == {"UP", "DOWN", ""}
With(action) == IF action = "BUY" THEN "UP" ELSE "DOWN"

NoVolume == -1

Bit(condition) == IF condition THEN 1 ELSE 0

ScoreTrend(ctx, action) ==
    LET aligned == Bit(ctx.close = With(action)) + Bit(ctx.ema50 = With(action)) + Bit(ctx.adx >= 20)
    IN  IF ctx.h4 = "none" THEN RoundDiv(25 * aligned, 3)
        ELSE RoundDiv(25 * (aligned + Bit(ctx.h4 = With(action))), 4)

ScoreMomentum(ctx, action) ==
    10 * (Bit(ctx.macd = With(action))
          + Bit(ctx.rsi \in IF action = "BUY" THEN 40..65 ELSE 35..60))

\* A level of strength n is a cluster of n swing points.
ScoreStructure(ctx, action) ==
    LET support == IF action = "BUY" THEN "support" ELSE "resistance"
        points == (IF ctx.level.kind = support THEN ctx.level.strength ELSE 0)
                  + (IF ctx.gap = With(action) THEN 2 ELSE 0)
        scaled == RoundDiv(20 * points, 3)
    IN  IF scaled > 20 THEN 20 ELSE scaled

ScoreMacro(ctx, event) ==
    20 - 10 * Bit(event) - 5 * Bit(~ctx.session) - 5 * Bit(ctx.funding)

ScoreVolume(ctx) ==
    CASE ctx.volume >= 15 -> 15
      [] ctx.volume \in 12..14 -> RoundDiv(15 * 7, 10)
      [] ctx.volume \in 10..11 -> RoundDiv(15 * 4, 10)
      [] ctx.volume < 10 -> 0

\* Without volume data its slot is filled in proportion to the others.
Breakdown(ctx, action, event) ==
    LET trend == ScoreTrend(ctx, action)
        momentum == ScoreMomentum(ctx, action)
        structure == ScoreStructure(ctx, action)
        macro == ScoreMacro(ctx, event)
        other == trend + momentum + structure + macro
    IN  [trend |-> trend, momentum |-> momentum, structure |-> structure, macro |-> macro,
         volume |-> IF ctx.volume = NoVolume THEN RoundDiv(15 * other, 85) ELSE ScoreVolume(ctx)]

TotalScore(b) == b.trend + b.momentum + b.structure + b.volume + b.macro

\* The constraints of ConfluenceBreakdown's fields.
BreakdownValid(b) ==
    /\ b.trend \in 0..25 /\ b.momentum \in 0..20 /\ b.structure \in 0..20
    /\ b.volume \in 0..15 /\ b.macro \in 0..20

FlipSide(side) == CASE side = "UP" -> "DOWN" [] side = "DOWN" -> "UP" [] OTHER -> side

\* The context seen upside down.
FlipContext(ctx) ==
    [ctx EXCEPT !.close = FlipSide(@), !.ema50 = FlipSide(@), !.h4 = FlipSide(@),
                !.macd = FlipSide(@), !.rsi = 100 - @, !.gap = FlipSide(@),
                !.level.kind = CASE @ = "support" -> "resistance"
                                 [] @ = "resistance" -> "support" [] OTHER -> @]

-----------------------------------------------------------------------------
\* assess_edge_quality: what is wrong with the trigger bar.  The first six each
\* reject it; the others only lower the score.

Blocking == {"spread", "dead", "shock", "wick", "range", "distance"}
Softening == {"body", "wick body", "volume"}

EdgePenalty(flaw) ==
    CASE flaw \in {"spread", "shock"} -> 25
      [] flaw \in {"dead", "wick"} -> 20
      [] flaw = "range" -> 15
      [] flaw \in {"distance"} \cup Softening -> 10

EdgeScore(flaws) ==
    LET Weight(p) == p * Cardinality({flaw \in flaws : EdgePenalty(flaw) = p})
        score == 100 - Weight(10) - Weight(15) - Weight(20) - Weight(25)
    IN  IF score < 0 THEN 0 ELSE score

EdgePassed(flaws, minScore) == flaws \cap Blocking = {} /\ EdgeScore(flaws) >= minScore

\* grade_signal, and the share of the size that its grade advises, in percent.
Grade(score, edge, event, confidence) ==
    CASE score >= 80 /\ edge >= 80 /\ ~event /\ confidence >= 65 -> "A"
      [] score >= 65 /\ edge >= 65 /\ confidence >= 55 -> "B"
      [] OTHER -> "C"

RiskMultiplier(grade) == CASE grade = "A" -> 100 [] grade = "B" -> 75 [] grade = "C" -> 50

-----------------------------------------------------------------------------
\* compute_position_size.  risk is the risk_pct in tenths of a percent.

Budget(risk) == (Equity * risk) \div 1000

\* Mutant of Lots: the size is rounded up to a whole step.
Lots_Up(risk, distance, step) == (Budget(risk) + distance * step - 1) \div (distance * step)

\* Whole steps, rounded down; 0 means "abstain_min_lot".
Lots(risk, distance, step) == Budget(risk) \div (distance * step)

\* The money lost at the stop; without a step the size is not rounded at all.
RiskOf(risk, distance, step) ==
    IF step = 0 THEN Budget(risk) ELSE Lots(risk, distance, step) * step * distance
=============================================================================
