-------------------------- MODULE AbstractProcess ---------------------------
(***************************************************************************)
(* What fork, exit and waitpid promise: a process starts once, exits at    *)
(* most once with some status, and its parent is told of the exit once,    *)
(* with that status.                                                       *)
(***************************************************************************)
EXTENDS Naturals

CONSTANTS Process, init, Status, None

VARIABLES
  parent,    \* who started each process, None for init and before it starts
  status,    \* the status each process exited with, None before
  reported   \* to whom waitpid gave which status, None before

vars == <<parent, status, reported>>

Init ==
  /\ parent = [p \in Process |-> None]
  /\ status = [p \in Process |-> None]
  /\ reported = [p \in Process |-> None]

Running(p) == status[p] = None /\ (p = init \/ parent[p] # None)

Fork(p, c) ==
  /\ Running(p) /\ c # init /\ parent[c] = None
  /\ parent' = [parent EXCEPT ![c] = p]
  /\ UNCHANGED <<status, reported>>

Exit(p, s) ==
  /\ Running(p) /\ p # init
  /\ status' = [status EXCEPT ![p] = s]
  /\ UNCHANGED <<parent, reported>>

Wait(p, c) ==
  /\ Running(p)
  /\ parent[c] = p /\ status[c] # None /\ reported[c] = None
  /\ reported' = [reported EXCEPT ![c] = <<p, status[c]>>]
  /\ UNCHANGED <<parent, status>>

Next ==
  \E p \in Process :
    \/ \E c \in Process : Fork(p, c) \/ Wait(p, c)
    \/ \E s \in Status : Exit(p, s)

Spec == Init /\ [][Next]_vars
=============================================================================
