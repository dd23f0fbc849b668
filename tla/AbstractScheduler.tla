------------------------- MODULE AbstractScheduler --------------------------
(***************************************************************************)
(* What the scheduler promises to the rest of the kernel, without queues,  *)
(* flags and priorities: a thread is ready or blocked until it dies, a     *)
(* processor runs only ready threads, and the context of a thread is held  *)
(* by at most one processor until that processor has left it.              *)
(***************************************************************************)
CONSTANTS CPU, Thread, None

VARIABLES
  state,  \* free, blocked, ready or dead
  on,     \* the thread each processor runs; None: not started
  holds   \* the contexts each processor is using

vars == <<state, on, holds>>

States == {"free", "blocked", "ready", "dead"}

\* No processor is using the context of t.
Released(t) == \A c \in CPU : t \notin holds[c]

Init ==
  /\ state \in [Thread -> {"free", "blocked", "ready"}]
  /\ on \in [CPU -> {t \in Thread : state[t] = "ready"} \cup {None}]
  /\ \A c, d \in CPU : (c # d /\ on[c] # None) => on[c] # on[d]
  /\ holds = [c \in CPU |-> {on[c]} \ {None}]

Move(t, from, to) ==
  /\ state[t] = from
  /\ state' = [state EXCEPT ![t] = to]

Create(t) == Move(t, "free", "blocked") /\ UNCHANGED <<on, holds>>

Wake(t) == Move(t, "blocked", "ready") /\ UNCHANGED <<on, holds>>

Block(c, t) == on[c] = t /\ Move(t, "ready", "blocked") /\ UNCHANGED <<on, holds>>

Die(c, t) == on[c] = t /\ Move(t, "ready", "dead") /\ UNCHANGED <<on, holds>>

Free(t) == Released(t) /\ Move(t, "dead", "free") /\ UNCHANGED <<on, holds>>

\* A processor starts with a thread nobody else runs.
Start(c, t) ==
  /\ on[c] = None
  /\ Released(t)
  /\ Move(t, "blocked", "ready")
  /\ on' = [on EXCEPT ![c] = t]
  /\ holds' = [holds EXCEPT ![c] = {t}]

\* A processor goes on with a thread that nobody else holds; it may make some
\* blocked threads ready on the way, the chosen one perhaps among them.
Switch(c, t) ==
  /\ on[c] # None
  /\ holds[c] = {on[c]}
  /\ t = on[c] \/ Released(t)
  /\ \E W \in SUBSET {s \in Thread : state[s] = "blocked"} :
       state' = [s \in Thread |-> IF s \in W THEN "ready" ELSE state[s]]
  /\ state'[t] = "ready"
  /\ on' = [on EXCEPT ![c] = t]
  /\ holds' = [holds EXCEPT ![c] = @ \cup {t}]

\* The context of the thread the processor came from is saved.
Leave(c) ==
  /\ holds' = [holds EXCEPT ![c] = {on[c]}]
  /\ UNCHANGED <<state, on>>

Next ==
  \/ \E t \in Thread : Create(t) \/ Wake(t) \/ Free(t)
  \/ \E c \in CPU, t \in Thread : Block(c, t) \/ Die(c, t) \/ Start(c, t) \/ Switch(c, t)
  \/ \E c \in CPU : on[c] # None /\ Leave(c)

Spec == Init /\ [][Next]_vars
=============================================================================
