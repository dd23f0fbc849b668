---------------------------- MODULE MCSemaphore -----------------------------
\* Symmetry for checking Semaphore.
EXTENDS Semaphore, TLC

Symmetry == Permutations(Thread \ Drainer) \cup Permutations(Waker)
=============================================================================
