----------------------------- MODULE MCVMSpace ------------------------------
\* Instances of VMSpace for TLC.
EXTENDS VMSpace, TLC

\* A file of one page.
MCFile == [o \in {0} |-> 1]

Anonymous(begin, end) ==
  [begin |-> begin, end |-> end, write |-> TRUE, private |-> TRUE, offset |-> None, part |-> FALSE]

\* What the loader maps: the text read-only, and data that ends within a page
\* and may be changed.
Text(begin, end) ==
  [begin |-> begin, end |-> end, write |-> FALSE, private |-> FALSE, offset |-> 0, part |-> FALSE]
Data(begin, end) ==
  [begin |-> begin, end |-> end, write |-> TRUE, private |-> TRUE, offset |-> 0, part |-> TRUE]

MCMapping == {Anonymous(0, 1), Data(0, 1), Text(0, 1)}

\* An area of three pages, and a page mapped in the middle of it.
MCSplitMapping == {Anonymous(0, 3), Anonymous(1, 2)}

Symmetry == Permutations(Process \ {init}) \cup Permutations(VMPage)
=============================================================================
