---------------------------- MODULE SleepQueue -----------------------------
(***************************************************************************)
(* The sleep queues (kern/sleepqueue.cpp) that mutexes, semaphores and     *)
(* condition variables are built from: their state and one action for each *)
(* step that other processors can see.  The modules of the users say when  *)
(* the steps are taken.                                                    *)
(*                                                                         *)
(* A sleeper holds the spinlock of its queue from PrepareToSleep until it  *)
(* has suspended itself, so that nobody can dequeue it in between.  A      *)
(* waker holds it only while it dequeues: marking the sleeper signalled    *)
(* and resuming it are later steps of their own.                           *)
(***************************************************************************)
EXTENDS Lists

CONSTANTS
  Thread,  \* the threads that sleep
  Waker,   \* the threads and interrupt handlers that wake them up
  Queue,   \* the sleep queues
  None     \* nullptr, and the holder of a spinlock that is free

ASSUME SleepQueueAssumption == None \notin Thread /\ None \notin Queue

VARIABLES
  sq_lock,      \* for each queue the thread that holds its spinlock, or None
  sq_sleepers,  \* for each queue the list of its sleepers
  w_sq,         \* the queue in each thread's t_sqwaiter, or None
  w_signalled,  \* the threads whose t_sqwaiter is signalled
  suspended,    \* the threads suspended in the scheduler
  victim        \* whom each waker has dequeued and is waking up, or None

sqvars == <<sq_lock, sq_sleepers, w_sq, w_signalled, suspended, victim>>

SqInit ==
  /\ sq_lock = [q \in Queue |-> None]
  /\ sq_sleepers = [q \in Queue |-> <<>>]
  /\ w_sq = [t \in Thread |-> None]
  /\ w_signalled = {}
  /\ suspended = {}
  /\ victim = [w \in Waker |-> None]

-----------------------------------------------------------------------------
\* The sleeper

\* Mutant: the spinlock is not held until the thread is suspended.
PrepareUnlocked(t, q) ==
  /\ sq_lock[q] = None
  /\ w_sq' = [w_sq EXCEPT ![t] = q]
  /\ w_signalled' = w_signalled \ {t}
  /\ sq_sleepers' = [sq_sleepers EXCEPT ![q] = Append(@, t)]
  /\ UNCHANGED <<sq_lock, suspended, victim>>

\* PrepareToSleep returns with the spinlock held.
PrepareToSleep(t, q) ==
  /\ sq_lock[q] = None
  /\ sq_lock' = [sq_lock EXCEPT ![q] = t]
  /\ w_sq' = [w_sq EXCEPT ![t] = q]
  /\ w_signalled' = w_signalled \ {t}
  /\ sq_sleepers' = [sq_sleepers EXCEPT ![q] = Append(@, t)]
  /\ UNCHANGED <<suspended, victim>>

\* Unsleep (Sleeper::Cancel)
Unsleep(t, q) ==
  /\ sq_sleepers' = [sq_sleepers EXCEPT ![q] = Remove(@, t)]
  /\ w_sq' = [w_sq EXCEPT ![t] = None]
  /\ w_signalled' = w_signalled \ {t}
  /\ sq_lock' = [sq_lock EXCEPT ![q] = None]
  /\ UNCHANGED <<suspended, victim>>

\* One turn of the loop of Sleep, with the spinlock held: the thread suspends
\* itself and goes to sleep, ...
GoToSleep(t, q) ==
  /\ sq_lock[q] = t
  /\ t \notin w_signalled
  /\ suspended' = suspended \cup {t}
  /\ sq_lock' = [sq_lock EXCEPT ![q] = None]
  /\ UNCHANGED <<sq_sleepers, w_sq, w_signalled, victim>>

\* ... takes the spinlock when it is scheduled again, ...
Reacquire(t, q) ==
  /\ sq_lock[q] # t
  /\ t \notin suspended
  /\ sq_lock[q] = None
  /\ sq_lock' = [sq_lock EXCEPT ![q] = t]
  /\ UNCHANGED <<sq_sleepers, w_sq, w_signalled, suspended, victim>>

\* ... and returns when it was signalled.
WokeUp(t, q) ==
  /\ sq_lock[q] = t
  /\ t \in w_signalled
  /\ w_sq' = [w_sq EXCEPT ![t] = None]
  /\ w_signalled' = w_signalled \ {t}
  /\ sq_lock' = [sq_lock EXCEPT ![q] = None]
  /\ UNCHANGED <<sq_sleepers, suspended, victim>>

-----------------------------------------------------------------------------
\* The waker

\* DequeueWaiter finds no sleeper ...
NobodyToWake(q) ==
  /\ sq_lock[q] = None
  /\ sq_sleepers[q] = <<>>
  /\ UNCHANGED sqvars

\* ... or takes the first one off the list.
DequeueWaiter(w, q) ==
  /\ sq_lock[q] = None
  /\ sq_sleepers[q] # <<>>
  /\ victim' = [victim EXCEPT ![w] = Head(sq_sleepers[q])]
  /\ sq_sleepers' = [sq_sleepers EXCEPT ![q] = Tail(@)]
  /\ UNCHANGED <<sq_lock, w_sq, w_signalled, suspended>>

\* WakeupWaiter sets w_signalled ...
SignalWaiter(w) ==
  /\ victim[w] \notin w_signalled
  /\ w_signalled' = w_signalled \cup {victim[w]}
  /\ UNCHANGED <<sq_lock, sq_sleepers, w_sq, suspended, victim>>

\* ... and resumes the thread.
ResumeWaiter(w) ==
  /\ victim[w] \in w_signalled
  /\ suspended' = suspended \ {victim[w]}
  /\ victim' = [victim EXCEPT ![w] = None]
  /\ UNCHANGED <<sq_lock, sq_sleepers, w_sq, w_signalled>>

-----------------------------------------------------------------------------
\* Properties that every user of sleep queues must have.

SqTypeOK ==
  /\ sq_lock \in [Queue -> Thread \cup {None}]
  /\ sq_sleepers \in [Queue -> Seq(Thread)]
  /\ w_sq \in [Thread -> Queue \cup {None}]
  /\ w_signalled \subseteq Thread
  /\ suspended \subseteq Thread
  /\ victim \in [Waker -> Thread \cup {None}]

Victims == {victim[w] : w \in Waker} \ {None}

\* The sleepers of a queue that nobody has signalled or dequeued.
Sleepers(q) == {t \in Thread : w_sq[t] = q} \ (w_signalled \cup Victims)

\* A thread waits on one queue at a time and is on its list until it is
\* dequeued, once: it is nobody's victim twice.
SleepersListed ==
  /\ \A q \in Queue : /\ NoDuplicates(sq_sleepers[q])
                      /\ Members(sq_sleepers[q]) = Sleepers(q)
  /\ \A v, w \in Waker : (victim[v] = victim[w] /\ victim[v] # None) => v = w

\* ResumeThread panics with "resuming nonsuspended thread" and SuspendThread
\* asserts that the thread is not suspended: whoever is being woken up, or is
\* on a list and does not hold the spinlock, is suspended; nobody else is.
SuspendedWhileWaiting ==
  /\ Victims \subseteq suspended
  /\ \A q \in Queue : \A t \in Sleepers(q) : t = sq_lock[q] \/ t \in suspended
  /\ \A q \in Queue : sq_lock[q] \notin suspended
  /\ \A t \in suspended : w_sq[t] # None /\ (t \in w_signalled => t \in Victims)

\* The loop of Sleep never suspends a thread that is no longer on the list: a
\* thread that comes back from Schedule was signalled.
OnlySignalledReturn ==
  \A t \in Thread : (w_sq[t] # None /\ sq_lock[w_sq[t]] # t /\ t \notin suspended)
                       => t \in w_signalled

\* Who holds the spinlock of a queue has a waiter on that queue; only threads
\* with a waiter are signalled.
SpinlockHolder ==
  /\ \A q \in Queue : sq_lock[q] # None => w_sq[sq_lock[q]] = q
  /\ \A t \in w_signalled : w_sq[t] # None

\* The inductive invariant of the sleep queues.
SqInv ==
  /\ SqTypeOK
  /\ SleepersListed
  /\ SuspendedWhileWaiting
  /\ OnlySignalledReturn
  /\ SpinlockHolder
=============================================================================
