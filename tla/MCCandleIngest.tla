--------------------------- MODULE MCCandleIngest ---------------------------
\* Small instances of CandleIngest for TLC.
EXTENDS CandleIngest

Leg(newest, complete) == [newest |-> newest, complete |-> complete]

\* Two legs that count forward, one that marks complete bars and one that does not:
\* what Binance alone does, and what OANDA accounts alone do, it does too.
MCForward == <<Leg(FALSE, TRUE), Leg(FALSE, FALSE)>>

\* OANDA's leg, with TwelveData's behind it.
MCFallback == <<Leg(FALSE, TRUE), Leg(TRUE, FALSE)>>
=============================================================================
