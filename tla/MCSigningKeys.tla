--------------------------- MODULE MCSigningKeys ---------------------------
\* Instance of SigningKeys for TLC.
EXTENDS SigningKeys, TLC

Symmetry == Permutations(Worker)
=============================================================================
