------------------------------- MODULE MCBio --------------------------------
\* Symmetry for checking Bio.
EXTENDS Bio, TLC

Symmetry == Permutations(Thread) \cup Permutations(Block)
=============================================================================
