------------------------------ MODULE MCICache ------------------------------
EXTENDS ICache, TLC

Symmetry == Permutations(Thread) \cup Permutations(INode \ initialCacheItems)
              \cup Permutations(Inum)
=============================================================================
