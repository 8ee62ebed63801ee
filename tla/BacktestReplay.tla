--------------------------- MODULE BacktestReplay ---------------------------
(***************************************************************************)
(* backtest/engine.py:run_backtest without smart exits: the fill and the   *)
(* exit of one limit order over the bars after its signal, on the bars of  *)
(* a paper trade, so that the two can be compared.                         *)
(*                                                                         *)
(* The two do not start on the same bar.  The backtest tries the first     *)
(* valid_bars bars after the signal bar.  The tracker reads the bars that  *)
(* opened at published_at or later, and a scan publishes after the bar     *)
(* following the signal bar has opened: that bar is missed, with any other *)
(* that opens before a late scan is through.  It tries those that open no  *)
(* later than valid_until, valid_bars timeframes after the signal bar's    *)
(* close (signals/engine.py:187), which is one bar past the backtest's     *)
(* last, or several before it when the market closes in between.           *)
(***************************************************************************)
EXTENDS PaperTracker

\* A trade carries missed, the bars between the signal bar and the publication, and
\* validBars, the signal's valid_bars.
ASSUME BacktestAssumption ==
    \A t \in Trades : t.validBars \in Nat /\ t.missed \in Seq(Bars) \ {<<>>}

\* The bars after the signal bar: the tracker's bar i is Late(t) + i here.
Late(t) == Len(t.missed)
AllBars(t, bs) == t.missed \o bs

\* Phase 1: the limit order is active on the valid bars after the signal.
FillBars(t, bs) ==
    {i \in DOMAIN AllBars(t, bs) : i <= t.validBars /\ Touches(t, AllBars(t, bs)[i])}

ExitHit(t, bar) == SlHit(t, bar) \/ TpHit(t, bar)

\* Mutant of ExitAt: the fill bar may end the trade.
ExitAt_OnFillBar(t, bs, fill) ==
    LET exits == {i \in DOMAIN AllBars(t, bs) : i >= fill /\ ExitHit(t, AllBars(t, bs)[i])}
    IN  IF exits = {} THEN 0 ELSE Min(exits)

\* Phase 2: stop loss and take profit after the fill bar, never on it.
ExitAt(t, bs, fill) ==
    LET exits == {i \in DOMAIN AllBars(t, bs) : i > fill /\ ExitHit(t, AllBars(t, bs)[i])}
    IN  IF exits = {} THEN 0 ELSE Min(exits)

\* exit_reason and exit_bar of one trade; of an open one the bar that filled it.
Backtest(t, bs) ==
    LET fills == FillBars(t, bs)
        exit  == ExitAt(t, bs, Min(fills))
    IN  IF fills = {} THEN [status |-> "EXPIRED", at |-> 0]
        ELSE IF exit = 0 THEN [status |-> "OPEN", at |-> Min(fills)]
        ELSE Outcome(t, AllBars(t, bs), exit)

-----------------------------------------------------------------------------
\* What the tracker's replay of all its bars says, in the backtest's terms.
Tracked(t, bs) ==
    LET update == Replay(t, FALSE, bs)
    IN  IF update.status \in {"none", "EXPIRED"} THEN [status |-> "EXPIRED", at |-> 0]
        ELSE [status |-> IF update.status = "FILLED" THEN "OPEN" ELSE update.status,
              at |-> Late(t) + update.at]

\* The backtest fills the order before it was published.
FilledTooEarly(t, bs) == \E i \in FillBars(t, bs) : i <= Late(t)

\* The order is touched, but on no bar that both of them try.
TriedByOne(t, bs) ==
    /\ Fills(t, bs) # {} \/ FillBars(t, bs) # {}
    /\ \A i \in Fills(t, bs) : Late(t) + i \notin FillBars(t, bs)

\* The bar that fills the order reaches the stop loss, which only the tracker looks at.
StoppedOnFill(t, bs) == Fills(t, bs) # {} /\ SlHit(t, bs[Min(Fills(t, bs))])

\* tracker.py:155, "consistent with backtester", as far as it goes: the replay and the
\* backtest fill a trade on the same bar and end it on the same bar in the same way,
\* unless the backtest fills it before it was published, the touch is on a bar only one
\* of them tries, or the fill bar reaches the stop.
DifferOnlyAtTheFill ==
    \/ Tracked(trade, bars) = Backtest(trade, bars)
    \/ FilledTooEarly(trade, bars)
    \/ TriedByOne(trade, bars)
    \/ StoppedOnFill(trade, bars)

\* tracker.py:155, "Rules (worst-case, consistent with backtester)", which each of the
\* three exceptions refutes.
ConsistentWithTracker ==
    Backtest(trade, bars).status \in Resolved \/ Tracked(trade, bars).status \in Resolved =>
        Tracked(trade, bars) = Backtest(trade, bars)
=============================================================================
