----------------------------- MODULE MCMetering -----------------------------
\* Instance of Metering for TLC.
EXTENDS Metering, TLC

Symmetry == Permutations(Worker) \cup Permutations(Row) \cup Permutations(Item)
=============================================================================
