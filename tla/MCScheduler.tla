---------------------------- MODULE MCScheduler ----------------------------
(***************************************************************************)
(* An instance of Scheduler for TLC: an idle thread per processor, and     *)
(* workers.                                                                *)
(***************************************************************************)
EXTENDS Scheduler

CONSTANTS Worker, idle0, idle1

MCIdleThread == [c \in 0 .. NumCPUs - 1 |-> IF c = 0 THEN idle0 ELSE idle1]
MCThread == Worker \cup {MCIdleThread[c] : c \in 0 .. NumCPUs - 1}

\* THREAD_PRIORITY_DEFAULT and THREAD_PRIORITY_IDLE: the kernel uses no others.
MCPriority == [t \in MCThread |-> IF t \in Worker THEN 200 ELSE 255]
=============================================================================
