------------------------------- MODULE Mutex --------------------------------
(***************************************************************************)
(* Mutex (kern/lock.cpp): threads that lock and unlock one mutex.  The     *)
(* owner is set and cleared by atomic operations; a thread that does not   *)
(* get the mutex sleeps on mtx_sleepq.                                     *)
(***************************************************************************)
EXTENDS SleepQueue

CONSTANT mtx_sleepq  \* the sleep queue of the mutex

ASSUME MutexAssumption == mtx_sleepq \in Queue

VARIABLES
  mtx_owner,  \* the thread that owns the mutex, or None
  pc          \* where each thread is, see below

mtxvars == <<mtx_owner, pc>>
vars == <<sqvars, mtxvars>>

(***************************************************************************)
(*   out      not using the mutex                                          *)
(*   prepare  in Lock, about to call PrepareToSleep                        *)
(*   retry    prepared, about to call TryLock                              *)
(*   cancel   got the mutex, about to call Cancel                          *)
(*   sleep    in Sleep                                                     *)
(*   locked   owns the mutex                                               *)
(*   unlock   in Unlock, has cleared mtx_owner                             *)
(*   wake     in Unlock, has dequeued a sleeper                            *)
(***************************************************************************)
MutexPCs == {"out", "prepare", "retry", "cancel", "sleep", "locked", "unlock", "wake"}

Goto(t, where) == pc' = [pc EXCEPT ![t] = where]

MutexInit ==
  /\ SqInit
  /\ mtx_owner = None
  /\ pc = [t \in Thread |-> "out"]

-----------------------------------------------------------------------------
\* Mutant: the thread that was woken up takes the mutex without comparing.
TryLockUncompared(t, success, failure) ==
  \/ /\ mtx_owner = None \/ pc[t] = "retry"
     /\ mtx_owner' = t
     /\ Goto(t, success)
  \/ /\ mtx_owner # None
     /\ Goto(t, failure)
     /\ UNCHANGED mtx_owner

\* TryLock: compare and exchange in one step.
TryLock(t, success, failure) ==
  \/ /\ mtx_owner = None
     /\ mtx_owner' = t
     /\ Goto(t, success)
  \/ /\ mtx_owner # None
     /\ Goto(t, failure)
     /\ UNCHANGED mtx_owner

\* The fast path
Lock(t) ==
  /\ pc[t] = "out"
  /\ TryLock(t, "locked", "prepare")
  /\ UNCHANGED sqvars

\* The slow path
LockPrepare(t) ==
  /\ pc[t] = "prepare"
  /\ PrepareToSleep(t, mtx_sleepq)
  /\ Goto(t, "retry")
  /\ UNCHANGED mtx_owner

\* Mutant: the owner is not looked at again once prepared.
LockNoRetry(t) ==
  /\ pc[t] = "retry"
  /\ Goto(t, "sleep")
  /\ UNCHANGED <<sqvars, mtx_owner>>

LockRetry(t) ==
  /\ pc[t] = "retry"
  /\ TryLock(t, "cancel", "sleep")
  /\ UNCHANGED sqvars

LockCancel(t) ==
  /\ pc[t] = "cancel"
  /\ Unsleep(t, mtx_sleepq)
  /\ Goto(t, "locked")
  /\ UNCHANGED mtx_owner

LockSleep(t) ==
  /\ pc[t] = "sleep"
  /\ \/ GoToSleep(t, mtx_sleepq) /\ UNCHANGED pc
     \/ Reacquire(t, mtx_sleepq) /\ UNCHANGED pc
     \/ WokeUp(t, mtx_sleepq) /\ Goto(t, "prepare")
  /\ UNCHANGED mtx_owner

Unlock(t) ==
  /\ pc[t] = "locked"
  /\ mtx_owner' = None
  /\ Goto(t, "unlock")
  /\ UNCHANGED sqvars

WakeupOne(t) ==
  /\ \/ pc[t] = "unlock" /\ NobodyToWake(mtx_sleepq) /\ Goto(t, "out")
     \/ pc[t] = "unlock" /\ DequeueWaiter(t, mtx_sleepq) /\ Goto(t, "wake")
     \/ pc[t] = "wake" /\ SignalWaiter(t) /\ UNCHANGED pc
     \/ pc[t] = "wake" /\ ResumeWaiter(t) /\ Goto(t, "out")
  /\ UNCHANGED mtx_owner

\* What a thread that has called Lock does.
Progress(t) ==
  \/ LockPrepare(t)
  \/ LockRetry(t)
  \/ LockCancel(t)
  \/ LockSleep(t)
  \/ Unlock(t)
  \/ WakeupOne(t)

MutexNext == \E t \in Thread : Lock(t) \/ Progress(t)

MutexSpec == MutexInit /\ [][MutexNext]_vars

-----------------------------------------------------------------------------
\* mtx_owner (lock.cpp) is a thread or nullptr, and the sleep queue is well formed.
MutexTypeOK ==
  /\ SqTypeOK
  /\ mtx_owner \in Thread \cup {None}
  /\ pc \in [Thread -> MutexPCs]

\* At most one thread is past Lock and not yet in Unlock, and it is the owner:
\* Unlock's assertion "unlocking mutex which isn't owned" never fails.  (A thread
\* is at "cvunlock" or "cvwakeup" when it is ConditionVariable::Wait that calls
\* Unlock.)
MutualExclusion ==
  \A t \in Thread : pc[t] \in {"cancel", "locked", "cvunlock"} <=> mtx_owner = t

\* A thread that Unlock or a successful wakeup left on its way to TryLock.
OnItsWay(t) ==
  \/ pc[t] \in {"unlock", "cvwakeup", "prepare", "retry"}
  \/ pc[t] = "sleep" /\ t \in w_signalled \cup Victims

\* No wakeup is lost: when a thread sleeps on the mutex, or has failed to get
\* it and is about to, then the mutex has an owner who will wake somebody up,
\* or some other thread is about to do so or to try the mutex again.
NoLostWakeup ==
  (\E t \in Sleepers(mtx_sleepq) : pc[t] = "sleep") =>
     mtx_owner # None \/ \E u \in Thread : OnItsWay(u)

\* Every thread that sleeps on the mutex is woken up in the end, however often
\* others take the mutex before it.
SleeperIsWoken ==
  \A t \in Thread : (pc[t] = "sleep" /\ t \in suspended) ~> t \notin suspended

-----------------------------------------------------------------------------
\* The inductive invariant: what each place in the code implies.
MutexPCInv ==
  \A t \in Thread :
    /\ w_sq[t] = IF pc[t] \in {"retry", "cancel", "sleep"} THEN mtx_sleepq ELSE None
    /\ pc[t] \in {"retry", "cancel"} => sq_lock[mtx_sleepq] = t /\ t \notin w_signalled
    /\ victim[t] # None <=> pc[t] = "wake"

\* The facts of mutexes that together are preserved by every step of Lock and
\* Unlock: NoLostWakeup rests on who may sleep where (MutexPCInv, SqInv).
MutexInv ==
  /\ SqInv
  /\ MutexTypeOK
  /\ MutexPCInv
  /\ MutualExclusion
  /\ NoLostWakeup
=============================================================================
