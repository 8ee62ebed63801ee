---------------------------- MODULE PaperReplay ----------------------------
(***************************************************************************)
(* papertrack/tracker.py:replay_signal, the virtual fill and outcome of a  *)
(* limit order over closed bars, and the minute resolution of a bar that   *)
(* touches both the stop loss and the take profit.                         *)
(*                                                                         *)
(* A bar is [low, high]; a trade has its action, its three prices, and     *)
(* validUntil, the number of bars after publication that open no later     *)
(* than valid_until.  Bars are numbered from the publication of the        *)
(* signal, and an update carries the number of the bar it happened on.     *)
(***************************************************************************)
EXTENDS Integers, Sequences, FiniteSetsExt

SlHit(trade, bar) ==
    IF trade.action = "BUY" THEN bar.low <= trade.sl ELSE bar.high >= trade.sl

TpHit(trade, bar) ==
    IF trade.action = "BUY" THEN bar.high >= trade.tp ELSE bar.low <= trade.tp

Touches(trade, bar) == bar.low <= trade.entry /\ trade.entry <= bar.high

NoUpdate == [status |-> "none", at |-> 0]

\* The bars on which a limit order that is still valid is touched.
Fills(trade, bars) ==
    {i \in DOMAIN bars : i <= trade.validUntil /\ Touches(trade, bars[i])}

\* Mutant of Ends: the stop loss is not looked at on the fill bar.
Ends_SkipsFillBar(trade, bars, fill) ==
    {i \in DOMAIN bars :
        i > fill /\ (SlHit(trade, bars[i]) \/ TpHit(trade, bars[i]))}

\* The bars that end a trade filled on bar fill: stop loss or take profit after
\* it, and on bar fill itself the stop loss only.  0: filled before the first bar.
Ends(trade, bars, fill) ==
    {i \in DOMAIN bars :
        \/ i > fill /\ (SlHit(trade, bars[i]) \/ TpHit(trade, bars[i]))
        \/ i = fill /\ SlHit(trade, bars[i])}

Outcome(trade, bars, at) ==
    [status |-> IF SlHit(trade, bars[at]) THEN "SL_HIT" ELSE "TP_HIT", at |-> at]

\* Mutant of Replay: an unfilled order is checked against its exits as well.
Replay_NoFillNeeded(trade, alreadyFilled, bars) ==
    LET fills == Fills(trade, bars)
        ends  == Ends(trade, bars, 0)
    IN  IF ends # {} THEN Outcome(trade, bars, Min(ends))
        ELSE IF alreadyFilled THEN NoUpdate
        ELSE IF fills # {} THEN [status |-> "FILLED", at |-> Min(fills)]
        ELSE IF Len(bars) > trade.validUntil
             THEN [status |-> "EXPIRED", at |-> trade.validUntil + 1]
             ELSE NoUpdate

\* Mutant of Replay: valid_until is never looked at.
Replay_NeverExpires(trade, alreadyFilled, bars) ==
    LET fills == Fills(trade, bars)
        fill  == IF alreadyFilled THEN 0 ELSE Min(fills)
        ends  == Ends(trade, bars, fill)
    IN  IF ~ alreadyFilled /\ fills = {} THEN NoUpdate
        ELSE IF ends # {} THEN Outcome(trade, bars, Min(ends))
        ELSE IF alreadyFilled THEN NoUpdate
        ELSE [status |-> "FILLED", at |-> fill]

\* replay_signal: the first terminal update, or else the fill, or nothing.
Replay(trade, alreadyFilled, bars) ==
    LET fills == Fills(trade, bars)
        fill  == IF alreadyFilled THEN 0 ELSE Min(fills)
        ends  == Ends(trade, bars, fill)
    IN  IF ~ alreadyFilled /\ fills = {}
        THEN IF Len(bars) > trade.validUntil
             THEN [status |-> "EXPIRED", at |-> trade.validUntil + 1]
             ELSE NoUpdate
        ELSE IF ends # {} THEN Outcome(trade, bars, Min(ends))
        ELSE IF alreadyFilled THEN NoUpdate
        ELSE [status |-> "FILLED", at |-> fill]

\* _bar_is_ambiguous, on the bar of the update.
Ambiguous(trade, bars, at) ==
    SlHit(trade, bars[at]) /\ TpHit(trade, bars[at])

\* resolve_ambiguous_bar over the minute bars inside one bar: the first minute
\* that touches an exit decides, and the stop loss wins inside a minute.
FirstHit(trade, minutes) ==
    LET hits == {i \in DOMAIN minutes :
                    SlHit(trade, minutes[i]) \/ TpHit(trade, minutes[i])}
    IN  IF hits = {} \/ SlHit(trade, minutes[Min(hits)]) THEN "SL_HIT" ELSE "TP_HIT"
=============================================================================
