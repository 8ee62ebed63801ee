---------------------------- MODULE MCScanJobs ----------------------------
\* Small instances of ScanJobs for TLC.
EXTENDS ScanJobs

CONSTANT scan

MCJobs == {scan}

\* Two keys of TwelveData, OANDA with TwelveData behind it, Binance.
MCLegs == [MCJobs -> {<<"twelvedata", "twelvedata">>, <<"oanda", "twelvedata">>, <<"binance">>}]
=============================================================================
