------------------------- MODULE ConditionVariable --------------------------
(***************************************************************************)
(* ConditionVariable (kern/condvar.cpp) on top of Mutex: threads that put  *)
(* items under a mutex and then call Signal or Broadcast, and threads that *)
(* wait under the mutex until there is an item, as BIO::Done and BIO::Wait  *)
(* do with one item (kern/bio.cpp).                                        *)
(***************************************************************************)
EXTENDS Mutex, FiniteSets

CONSTANTS
  cv_sleepq,  \* the sleep queue of the condition variable
  MaxItems    \* bound on the number of items put

ASSUME CvAssumption ==
  /\ cv_sleepq \in Queue \ {mtx_sleepq}
  /\ MaxItems \in Nat

VARIABLES
  job,    \* what each thread is doing: nothing, "get", "put", or waking up
          \* sleepers with "signal" or "broadcast"
  items,  \* the number of items
  puts    \* the number of items put so far

jobvars == <<job, items, puts>>
cvvars == <<vars, jobvars>>

(***************************************************************************)
(* In addition to the places of Mutex:                                     *)
(*   cvunlock  in Wait, prepared, about to unlock the mutex                *)
(*   cvwakeup  in Wait, in WakeupOne of the mutex                          *)
(*   cvwake    the same, has dequeued a sleeper                            *)
(*   cvsleep   in Wait, in Sleep                                           *)
(*   signal    in Signal or Broadcast, has dequeued a sleeper              *)
(***************************************************************************)
InWait == {"cvunlock", "cvwakeup", "cvwake", "cvsleep"}
CvPCs == MutexPCs \cup InWait \cup {"signal"}

CvInit ==
  /\ MutexInit
  /\ job = [t \in Thread |-> "nothing"]
  /\ items = 0
  /\ puts = 0

SetJob(t, what) == job' = [job EXCEPT ![t] = what]

-----------------------------------------------------------------------------
\* The users
Begin(t) ==
  /\ pc[t] = "out" /\ job[t] = "nothing"
  /\ \/ SetJob(t, "get") /\ UNCHANGED puts
     \/ SetJob(t, "put") /\ puts < MaxItems /\ puts' = puts + 1
  /\ UNCHANGED <<vars, items>>

CvLock(t) ==
  /\ job[t] \in {"get", "put"}
  /\ Lock(t)
  /\ UNCHANGED jobvars

MutexStep(t) ==
  /\ \/ LockPrepare(t) \/ LockRetry(t) \/ LockCancel(t) \/ LockSleep(t)
     \/ Unlock(t) /\ job[t] \notin {"get", "put"}
     \/ WakeupOne(t)
  /\ UNCHANGED jobvars

\* Mutant: no signal when there was an item already.
PutSignalsFromZero(t) ==
  /\ pc[t] = "locked" /\ job[t] = "put"
  /\ items' = items + 1
  /\ SetJob(t, IF items = 0 THEN "signal" ELSE "nothing")
  /\ UNCHANGED <<vars, puts>>

Put(t) ==
  /\ pc[t] = "locked" /\ job[t] = "put"
  /\ items' = items + 1
  /\ SetJob(t, "signal") \/ SetJob(t, "broadcast")
  /\ UNCHANGED <<vars, puts>>

Get(t) ==
  /\ pc[t] = "locked" /\ job[t] = "get"
  /\ items > 0
  /\ items' = items - 1
  /\ SetJob(t, "nothing")
  /\ UNCHANGED <<vars, puts>>

-----------------------------------------------------------------------------
\* Wait: the thread is on the list before it unlocks the mutex.
CvWaitPrepare(t) ==
  /\ pc[t] = "locked" /\ job[t] = "get"
  /\ items = 0
  /\ PrepareToSleep(t, cv_sleepq)
  /\ Goto(t, "cvunlock")
  /\ UNCHANGED <<mtx_owner, jobvars>>

\* Mutant: the mutex is given up without a wakeup.
CvWaitUnlockSilently(t) ==
  /\ pc[t] = "cvunlock"
  /\ mtx_owner' = None
  /\ Goto(t, "cvsleep")
  /\ UNCHANGED <<sqvars, jobvars>>

CvWaitUnlock(t) ==
  /\ pc[t] = "cvunlock"
  /\ mtx_owner' = None
  /\ Goto(t, "cvwakeup")
  /\ UNCHANGED <<sqvars, jobvars>>

CvWaitWakeup(t) ==
  /\ \/ pc[t] = "cvwakeup" /\ NobodyToWake(mtx_sleepq) /\ Goto(t, "cvsleep")
     \/ pc[t] = "cvwakeup" /\ DequeueWaiter(t, mtx_sleepq) /\ Goto(t, "cvwake")
     \/ pc[t] = "cvwake" /\ SignalWaiter(t) /\ UNCHANGED pc
     \/ pc[t] = "cvwake" /\ ResumeWaiter(t) /\ Goto(t, "cvsleep")
  /\ UNCHANGED <<mtx_owner, jobvars>>

\* The thread sleeps, and when it was woken up locks the mutex (CvLock).
CvWaitSleep(t) ==
  /\ pc[t] = "cvsleep"
  /\ \/ GoToSleep(t, cv_sleepq) /\ UNCHANGED pc
     \/ Reacquire(t, cv_sleepq) /\ UNCHANGED pc
     \/ WokeUp(t, cv_sleepq) /\ Goto(t, "out")
  /\ UNCHANGED <<mtx_owner, jobvars>>

\* Signal wakes up one sleeper, Broadcast goes on until there is none.
CvSignal(t) ==
  /\ job[t] \in {"signal", "broadcast"}
  /\ \/ pc[t] = "out" /\ NobodyToWake(cv_sleepq) /\ SetJob(t, "nothing") /\ UNCHANGED pc
     \/ pc[t] = "out" /\ DequeueWaiter(t, cv_sleepq) /\ Goto(t, "signal") /\ UNCHANGED job
     \/ pc[t] = "signal" /\ SignalWaiter(t) /\ UNCHANGED <<pc, job>>
     \/ /\ pc[t] = "signal" /\ ResumeWaiter(t) /\ Goto(t, "out")
        /\ SetJob(t, IF job[t] = "broadcast" THEN "broadcast" ELSE "nothing")
  /\ UNCHANGED <<mtx_owner, items, puts>>

CvStep(t) ==
  \/ CvLock(t) \/ MutexStep(t)
  \/ Put(t) \/ Get(t)
  \/ CvWaitPrepare(t) \/ CvWaitUnlock(t) \/ CvWaitWakeup(t) \/ CvWaitSleep(t)
  \/ CvSignal(t)

CvNext == \E t \in Thread : Begin(t) \/ CvStep(t)

CvSpec == CvInit /\ [][CvNext]_cvvars

\* Threads finish what they have begun; a spinlock that stays free is taken.
CvFairSpec == CvSpec /\ \A t \in Thread : WF_cvvars(CvStep(t))

-----------------------------------------------------------------------------
\* A thread on its way to look at the items, or to wake up one that will.
Coming(t) ==
  \/ job[t] \in {"put", "signal", "broadcast"} /\ pc[t] # "signal"
  \/ job[t] = "get" /\ pc[t] \notin InWait
  \/ t \in w_signalled \cup Victims

\* No wakeup is lost between the look at the items, the unlock and the sleep:
\* when there are items, no thread sleeps on the condition variable unless
\* somebody is on the way.
NoItemWhileAsleep ==
  (items > 0 /\ \E t \in Sleepers(cv_sleepq) : pc[t] = "cvsleep")
     => \E u \in Thread : Coming(u)

\* Nobody keeps sleeping while there are items.
ItemsAreTaken ==
  \A t \in Thread : (items > 0 /\ pc[t] = "cvsleep") ~> (items = 0 \/ pc[t] # "cvsleep")
-----------------------------------------------------------------------------
\* The inductive invariant

\* condvar.cpp: counts and places of the threads are of their types.
CvTypeOK ==
  /\ SqTypeOK
  /\ mtx_owner \in Thread \cup {None}
  /\ pc \in [Thread -> CvPCs]
  /\ job \in [Thread -> {"nothing", "get", "put", "signal", "broadcast"}]
  /\ items \in Nat /\ puts \in Nat

\* What each place in the code implies.
CvPCInv ==
  \A t \in Thread :
    /\ w_sq[t] = CASE pc[t] \in {"retry", "cancel", "sleep"} -> mtx_sleepq
                   [] pc[t] \in InWait -> cv_sleepq
                   [] OTHER -> None
    /\ pc[t] \in {"retry", "cancel"} => sq_lock[mtx_sleepq] = t /\ t \notin w_signalled
    /\ pc[t] \in InWait \ {"cvsleep"} => sq_lock[cv_sleepq] = t /\ t \notin w_signalled
    /\ victim[t] # None <=> pc[t] \in {"wake", "cvwake", "signal"}
    /\ pc[t] \in {"wake", "cvwake"} => pc[victim[t]] = "sleep"
    /\ pc[t] = "signal" => pc[victim[t]] = "cvsleep" /\ job[t] \in {"signal", "broadcast"}
    /\ pc[t] \in InWait => job[t] = "get"

\* The threads that stand for an item: those that will look for one, and those
\* that will wake up such a thread.
Tokens ==
  {t \in Thread : \/ job[t] \in {"signal", "broadcast"} /\ pc[t] # "signal"
                  \/ job[t] = "get" /\ (pc[t] \in InWait => t \in w_signalled \cup Victims)}

\* While a thread sleeps on the condition variable, there is a thread for every
\* item: Put leaves one Signal for each, and Wait is called when there is none.
ItemsCovered ==
  /\ IsFiniteSet(Tokens)
  /\ Sleepers(cv_sleepq) # {} => items <= Cardinality(Tokens)

\* The facts that Wait, Signal and Broadcast preserve together: one signal per
\* item suffices because every sleeper that is woken up looks for one.
CvInv ==
  /\ SqInv
  /\ CvTypeOK
  /\ CvPCInv
  /\ MutualExclusion
  /\ NoLostWakeup
  /\ ItemsCovered
=============================================================================
