---------------------------- MODULE MCV5Evidence ----------------------------
\* V5Evidence with the symmetry of its runs and of its clones.
EXTENDS V5Evidence, TLC

Symmetry == Permutations(Runs) \cup Permutations(Clones)
=============================================================================
