------------------------------ MODULE SmartExit ------------------------------
(***************************************************************************)
(* The life of a filled trade in the backtest with smart exits:            *)
(* backtest/smart_exit.py:apply_smart_exit on each bar, and the exit price *)
(* and the result that backtest/engine.py makes of it.                     *)
(*                                                                         *)
(* BUY and SELL are mirror images, so a price is counted as the gain it    *)
(* would bring over the entry: the stop loss starts at -Risk, the adverse  *)
(* extreme of a bar is its worst gain, the favorable one its best.  Gains  *)
(* are in units of half a tick, so that partial_pct = 0.5 of one is whole. *)
(***************************************************************************)
EXTENDS Integers

CONSTANTS
    Risk,           \* abs(entry - original_sl)
    Target,         \* take profit
    PartialAt,      \* partial_rr * Risk
    BreakevenAt,    \* breakeven_rr * Risk
    TrailAt,        \* trail_activation_rr * Risk
    Trails,         \* trail_atr_mult * ATR of a bar; 0 where the ATR is not known
    Reach           \* bound on the gain and the loss of a bar

ASSUME RiskAssumption == Risk \in Nat \ {0} /\ Target \in Nat \ {0} /\ Reach \in Nat
ASSUME TrailsAssumption == Trails \subseteq Nat

\* SmartExitConfig: 1 R, 1 R and 1.5 R.
ASSUME LevelsAssumption ==
    /\ PartialAt \in Nat /\ BreakevenAt \in Nat /\ TrailAt \in Nat
    /\ BreakevenAt <= TrailAt

VARIABLES
    stop,           \* current_sl
    partial_taken,
    be_moved,
    trailing,       \* trailing_active
    reason,         \* exit_reason; "" while the trade is open
    exit,           \* exit_price
    gapped          \* history: the bar of the exit opened beyond the stop

flags == <<partial_taken, be_moved, trailing>>
exitVars == <<stop, flags, reason, exit, gapped>>

Gains == -Reach..Reach

ExitInit ==
    /\ stop = -Risk
    /\ partial_taken = FALSE
    /\ be_moved = FALSE
    /\ trailing = FALSE
    /\ reason = ""
    /\ exit = 0
    /\ gapped = FALSE

-----------------------------------------------------------------------------
Lower(a, b) == IF a <= b THEN a ELSE b
Higher(a, b) == IF a >= b THEN a ELSE b

\* Mutant: the order fills at its stop even if the bar opened beyond it.
StopFill_AtBest(open) == Higher(stop, open)

\* A stop order slips with a gap.
StopFill(open) == Lower(stop, open)

\* The stop as it was at the start of the bar is tested first.
StopOut(open, worst) ==
    /\ worst <= stop
    /\ reason' = "SL"
    /\ exit' = StopFill(open)
    /\ gapped' = (open < stop)
    /\ UNCHANGED <<stop, flags>>

\* Mutant of Breakeven: break-even on every bar that reaches it.
Breakeven_Always(best) == best >= BreakevenAt

Breakeven(best) == ~ be_moved /\ best >= BreakevenAt

\* The trailing stop only ever rises.
Trailed(from, best, trail) == IF trail > 0 THEN Higher(from, best - trail) ELSE from

\* What the favorable extreme of a bar that survived does, for the bars after it.
Update(best, trail) ==
    /\ partial_taken' = (partial_taken \/ best >= PartialAt)
    /\ be_moved' = (be_moved \/ best >= BreakevenAt)
    /\ trailing' = (trailing \/ best >= TrailAt)
    /\ LET from == IF Breakeven(best) THEN 0 ELSE stop
       IN  stop' = IF trailing' THEN Trailed(from, best, trail) ELSE from

TakeProfit(worst, best, trail) ==
    /\ worst > stop
    /\ best >= Target
    /\ Update(best, trail)
    /\ reason' = "TP"
    /\ exit' = Target
    /\ UNCHANGED gapped

Survive(worst, best, trail) ==
    /\ worst > stop
    /\ best < Target
    /\ Update(best, trail)
    /\ UNCHANGED <<reason, exit, gapped>>

\* One more bar of the data.
Bar ==
    /\ reason = ""
    /\ \E open, worst, best \in Gains, trail \in Trails :
        /\ worst <= open /\ open <= best
        /\ \/ StopOut(open, worst)
           \/ TakeProfit(worst, best, trail)
           \/ Survive(worst, best, trail)

\* The data ends with the trade still open; it is valued at the last close.
DataEnds ==
    /\ reason = ""
    /\ reason' = "OPEN"
    /\ \E close \in Gains : exit' = close
    /\ UNCHANGED <<stop, flags, gapped>>

ExitNext == Bar \/ DataEnds

ExitSpec == ExitInit /\ [][ExitNext]_exitVars

\* gross_r times twice the risk: partial_pct = 0.5 of the position closed at
\* PartialAt, the rest at the exit.
Result == IF partial_taken THEN PartialAt + exit ELSE 2 * exit

-----------------------------------------------------------------------------
\* Types, and what the flags say of the stop.
ExitTypeOK ==
    /\ stop \in Int /\ exit \in Int
    /\ partial_taken \in BOOLEAN /\ be_moved \in BOOLEAN
    /\ trailing \in BOOLEAN /\ gapped \in BOOLEAN
    /\ reason \in {"", "SL", "TP", "OPEN"}
    /\ ~ be_moved => stop = -Risk
    /\ be_moved => stop >= 0
    /\ trailing => be_moved

\* The stop is only ever tightened (smart_exit.py: breakeven, trailing).
StopNeverLoosens == [][stop' >= stop]_exitVars

\* A trade stopped out without a gap loses at most what it risked, and nothing at all
\* once its stop was moved to break-even (A2: the stop in force is the one of the
\* bars before, whatever the bar of the exit did first).
LossIsBounded ==
    reason = "SL" /\ ~ gapped => IF be_moved THEN exit >= 0 ELSE exit = -Risk

\* The same for the result with the closed half: a trade that took its partial at
\* break-even's level or beyond does not turn into a loss.
WinnerStaysWinner ==
    (reason = "SL" /\ ~ gapped /\ partial_taken /\ PartialAt >= BreakevenAt)
        => Result >= PartialAt
=============================================================================
