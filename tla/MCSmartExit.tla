---------------------------- MODULE MCSmartExit ----------------------------
\* Small instances of SmartExit for TLC.
EXTENDS SmartExit

MCTrails == {0, 2, 5}
=============================================================================
