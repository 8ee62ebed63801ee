--------------------------- MODULE MCPaperTracker ---------------------------
\* Small instances of PaperTracker and BacktestReplay for TLC.
EXTENDS BacktestReplay

Bar(low, high) == [low |-> low, high |-> high]

Trade(action, sl, tp, valid, tried, missed) ==
    [action |-> action, sl |-> sl, entry |-> 3, tp |-> tp, validUntil |-> valid,
     validBars |-> tried, missed |-> missed]

\* Published in the bar after the signal bar, which has not touched the order or, for the
\* second, filled and stopped it; and a bar later, over a break of the market that takes a
\* bar from the tracker.
MCTrades ==
    {Trade("BUY", 1, 5, 2, 2, <<Bar(4, 5)>>),
     Trade("BUY", 1, 5, 2, 2, <<Bar(1, 3)>>),
     Trade("SELL", 5, 1, 1, 4, <<Bar(1, 2), Bar(2, 2)>>)}
MCBars == {b \in [low : 1 .. 5, high : 1 .. 5] : b.low <= b.high}

MCMinutes == {<<>>, <<Bar(3, 3), Bar(1, 2)>>, <<Bar(4, 5), Bar(1, 4)>>, <<Bar(1, 5)>>}

=============================================================================
