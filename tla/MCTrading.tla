----------------------------- MODULE MCTrading -----------------------------
\* Instance of Trading for TLC.
EXTENDS Trading, TLC

CONSTANTS t1, t2
MCPrice == {1, 2}
MCLots == {-5, 3}
MCSizes == {25, 50}
MCScanSizes == {50}
Symmetry == Permutations(Ticker)
=============================================================================
