--------------------------- MODULE AbstractMemory ---------------------------
(***************************************************************************)
(* What the virtual memory promises to processes, without pages, reference *)
(* counts and faults: every process has a memory of its own, which only    *)
(* its own stores and mappings change, and a fork copies it.               *)
(***************************************************************************)
EXTENDS Integers

CONSTANTS
  Process,
  Virt,     \* the virtual addresses
  Value,    \* what an address holds
  File,     \* the contents of the file: a function from offsets to values
  None

VARIABLE mem  \* mem[p][v]: what process p has at address v; None: nothing mapped

Empty == [v \in Virt |-> None]

Init == mem = [p \in Process |-> Empty]

\* Addresses are taken out of the memory of p, to map something else or for good.
Unmap(p, range) ==
  mem' = [mem EXCEPT ![p] = [v \in Virt |-> IF v \in range THEN None ELSE @[v]]]

\* Zeroes, or the file from some offset on, appear at addresses that are unused.
Map(p, range) ==
  /\ \A v \in range : mem[p][v] = None
  /\ \E delta \in {None} \cup {o - v : o \in DOMAIN File, v \in Virt} :
       mem' = [mem EXCEPT ![p] =
                 [v \in Virt |->
                   CASE v \notin range -> @[v]
                     [] v \in range /\ delta # None /\ v + delta \in DOMAIN File -> File[v + delta]
                     [] OTHER -> 0]]

Store(p, v, x) ==
  /\ mem[p][v] # None
  /\ mem' = [mem EXCEPT ![p][v] = x]

Fork(p, child) ==
  /\ mem[child] = Empty
  /\ mem' = [mem EXCEPT ![child] = mem[p]]

Next ==
  \E p \in Process :
    \/ \E range \in SUBSET Virt : Unmap(p, range) \/ Map(p, range)
    \/ \E v \in Virt, x \in Value : Store(p, v, x)
    \/ \E child \in Process : Fork(p, child)

Spec == Init /\ [][Next]_mem
=============================================================================
