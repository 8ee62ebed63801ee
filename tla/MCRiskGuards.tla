---------------------------- MODULE MCRiskGuards ----------------------------
\* Small instances of RiskGuards for TLC.
EXTENDS RiskGuards, TLC

CONSTANTS p1, p2

MCScanners == {p1, p2}

\* A stop costs one R, a target pays two.
MCOutcomes == {-1, 2}

ScannerSymmetry == Permutations(MCScanners)
=============================================================================
