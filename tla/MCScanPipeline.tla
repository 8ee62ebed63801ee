--------------------------- MODULE MCScanPipeline ---------------------------
\* Small instances of ScanPipeline for TLC.
EXTENDS ScanPipeline, TLC

CONSTANTS p1, p2, gold

MCScanners == {p1, p2}
MCInstruments == {gold}
MCRegistry1 == <<"S1">>

ScannerSymmetry == Permutations(MCScanners)
=============================================================================
