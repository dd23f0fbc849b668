----------------------------- MODULE Semaphore ------------------------------
(***************************************************************************)
(* Semaphore (kern/lock.cpp): threads that wait for units, and wakers,     *)
(* which may be interrupt handlers, that signal them.  Some threads use    *)
(* WaitAndDrain and then look for work, as the thread of the OHCI root hub *)
(* does (dev/usb/hcd/ohci-roothub.cpp): a signal means there may be work.  *)
(***************************************************************************)
EXTENDS SleepQueue

CONSTANTS
  sem_sleepq,  \* the sleep queue of the semaphore
  Drainer,     \* the threads that use WaitAndDrain
  Initial,     \* the initial count
  MaxSignals   \* no waker calls Signal again after this many calls

ASSUME SemaphoreAssumption ==
  /\ sem_sleepq \in Queue
  /\ Drainer \subseteq Thread
  /\ Initial \in Nat
  /\ MaxSignals \in Nat

VARIABLES
  sem_count,  \* the units that are available
  expected,   \* expected_count of TryWait in each thread
  tpc,        \* where each thread is
  wpc,        \* where each waker is
  work,       \* there is work that no drainer has looked at
  signals,    \* the number of units signalled so far
  taken,      \* the number of units that calls of Wait took
  drained     \* the number of units that WaitAndDrain discarded

counters == <<signals, taken, drained>>
semvars == <<sqvars, sem_count, expected, tpc, wpc, work, counters>>

(***************************************************************************)
(* A thread:                               A waker:                        *)
(*   out      not waiting                    idle    not signalling        *)
(*   cas      TryWait, before the exchange   raised  has left work         *)
(*   prepare  before PrepareToSleep          wakeup  count incremented     *)
(*   retry    prepared, before TryWait       wake    has dequeued a sleeper*)
(*   recas    as cas, prepared                                             *)
(*   cancel   got a unit, before Cancel                                    *)
(*   sleep    in Sleep                                                     *)
(*   got      returns from Wait                                            *)
(*   look     drained, looks for work                                      *)
(***************************************************************************)
PCs == {"out", "cas", "prepare", "retry", "recas", "cancel", "sleep", "got", "look"}
WPCs == {"idle", "raised", "wakeup", "wake"}

TGoto(t, where) == tpc' = [tpc EXCEPT ![t] = where]
WGoto(w, where) == wpc' = [wpc EXCEPT ![w] = where]

SemInit ==
  /\ SqInit
  /\ sem_count = Initial
  /\ expected = [t \in Thread |-> 0]
  /\ tpc = [t \in Thread |-> "out"]
  /\ wpc = [w \in Waker |-> "idle"]
  /\ work = FALSE
  /\ signals = 0 /\ taken = 0 /\ drained = 0

-----------------------------------------------------------------------------
\* TryWait reads the count and returns when it is zero ...
ReadCount(t, exchange, failure) ==
  /\ expected' = [expected EXCEPT ![t] = sem_count]
  /\ TGoto(t, IF sem_count - 1 < 0 THEN failure ELSE exchange)
  /\ UNCHANGED <<sem_count, counters>>

\* Mutant: the exchange does not compare.
ExchangeAnyway(t, success, failure) ==
  /\ sem_count' = expected[t] - 1
  /\ taken' = taken + 1
  /\ TGoto(t, success)
  /\ UNCHANGED <<expected, signals, drained>>

\* ... or else exchanges it, which fails when the count has changed.
Exchange(t, success, failure) ==
  /\ IF sem_count = expected[t]
     THEN /\ sem_count' = expected[t] - 1
          /\ taken' = taken + 1
          /\ TGoto(t, success)
     ELSE /\ TGoto(t, failure)
          /\ UNCHANGED <<sem_count, taken>>
  /\ UNCHANGED <<expected, signals, drained>>

\* Wait, the fast path
Wait(t) ==
  /\ tpc[t] = "out"
  /\ ReadCount(t, "cas", "prepare")
  /\ UNCHANGED <<sqvars, wpc, work>>

WaitExchange(t) ==
  /\ tpc[t] = "cas"
  /\ Exchange(t, "got", "prepare")
  /\ UNCHANGED <<sqvars, wpc, work>>

\* The slow path
WaitPrepare(t) ==
  /\ tpc[t] = "prepare"
  /\ PrepareToSleep(t, sem_sleepq)
  /\ TGoto(t, "retry")
  /\ UNCHANGED <<sem_count, expected, counters, wpc, work>>

\* Mutant: the count is not looked at again once prepared.
WaitNoRetry(t) ==
  /\ tpc[t] = "retry"
  /\ TGoto(t, "sleep")
  /\ UNCHANGED <<sqvars, sem_count, expected, counters, wpc, work>>

WaitRetry(t) ==
  /\ tpc[t] = "retry"
  /\ ReadCount(t, "recas", "sleep")
  /\ UNCHANGED <<sqvars, wpc, work>>

WaitRetryExchange(t) ==
  /\ tpc[t] = "recas"
  /\ Exchange(t, "cancel", "sleep")
  /\ UNCHANGED <<sqvars, wpc, work>>

WaitCancel(t) ==
  /\ tpc[t] = "cancel"
  /\ Unsleep(t, sem_sleepq)
  /\ TGoto(t, "got")
  /\ UNCHANGED <<sem_count, expected, counters, wpc, work>>

WaitSleep(t) ==
  /\ tpc[t] = "sleep"
  /\ \/ GoToSleep(t, sem_sleepq) /\ UNCHANGED tpc
     \/ Reacquire(t, sem_sleepq) /\ UNCHANGED tpc
     \/ WokeUp(t, sem_sleepq) /\ TGoto(t, "prepare")
  /\ UNCHANGED <<sem_count, expected, counters, wpc, work>>

\* Wait returns, and WaitAndDrain sets the count to zero.
WaitReturn(t) ==
  /\ tpc[t] = "got"
  /\ IF t \in Drainer
     THEN /\ sem_count' = 0
          /\ drained' = drained + sem_count
          /\ TGoto(t, "look")
     ELSE /\ TGoto(t, "out")
          /\ UNCHANGED <<sem_count, drained>>
  /\ UNCHANGED <<sqvars, expected, signals, taken, wpc, work>>

\* RootHub::Thread handles whatever there is.
Look(t) ==
  /\ tpc[t] = "look"
  /\ work' = FALSE
  /\ TGoto(t, "out")
  /\ UNCHANGED <<sqvars, sem_count, expected, counters, wpc>>

-----------------------------------------------------------------------------
\* RootHub::OnIRQ: there is work ...
Raise(w) ==
  /\ wpc[w] = "idle"
  /\ signals < MaxSignals
  /\ work' = TRUE
  /\ WGoto(w, "raised")
  /\ UNCHANGED <<sqvars, sem_count, expected, tpc, counters>>

\* ... and Signal: the count is incremented, then a sleeper is woken up.
Signal(w) ==
  /\ wpc[w] = "raised"
  /\ sem_count' = sem_count + 1
  /\ signals' = signals + 1
  /\ WGoto(w, "wakeup")
  /\ UNCHANGED <<sqvars, expected, tpc, work, taken, drained>>

\* Mutant: nobody is woken up when the count was positive.
WakeupFromZero(w) ==
  /\ \/ wpc[w] = "wakeup" /\ NobodyToWake(sem_sleepq) /\ WGoto(w, "idle")
     \/ wpc[w] = "wakeup" /\ sem_count > 1 /\ UNCHANGED sqvars /\ WGoto(w, "idle")
     \/ wpc[w] = "wakeup" /\ sem_count < 2 /\ DequeueWaiter(w, sem_sleepq) /\ WGoto(w, "wake")
     \/ wpc[w] = "wake" /\ SignalWaiter(w) /\ UNCHANGED wpc
     \/ wpc[w] = "wake" /\ ResumeWaiter(w) /\ WGoto(w, "idle")
  /\ UNCHANGED <<sem_count, expected, tpc, work, counters>>

SignalWakeupOne(w) ==
  /\ \/ wpc[w] = "wakeup" /\ NobodyToWake(sem_sleepq) /\ WGoto(w, "idle")
     \/ wpc[w] = "wakeup" /\ DequeueWaiter(w, sem_sleepq) /\ WGoto(w, "wake")
     \/ wpc[w] = "wake" /\ SignalWaiter(w) /\ UNCHANGED wpc
     \/ wpc[w] = "wake" /\ ResumeWaiter(w) /\ WGoto(w, "idle")
  /\ UNCHANGED <<sem_count, expected, tpc, work, counters>>

ThreadStep(t) ==
  \/ WaitExchange(t)
  \/ WaitPrepare(t)
  \/ WaitRetry(t)
  \/ WaitRetryExchange(t)
  \/ WaitCancel(t)
  \/ WaitSleep(t)
  \/ WaitReturn(t)
  \/ Look(t)

WakerStep(w) == Signal(w) \/ SignalWakeupOne(w)

SemNext ==
  \/ \E t \in Thread : Wait(t) \/ ThreadStep(t)
  \/ \E w \in Waker : Raise(w) \/ WakerStep(w)

SemSpec == SemInit /\ [][SemNext]_semvars

\* Threads and wakers finish what they have begun, and drainers wait again.
SemFairSpec ==
  /\ SemSpec
  /\ \A t \in Thread : WF_semvars(ThreadStep(t)) /\ WF_semvars(t \in Drainer /\ Wait(t))
  /\ \A w \in Waker : WF_semvars(WakerStep(w))

-----------------------------------------------------------------------------
\* sem_count and expected_count (lock.cpp) are never negative.
SemTypeOK ==
  /\ SqTypeOK
  /\ sem_count \in Nat
  /\ expected \in [Thread -> Nat]
  /\ tpc \in [Thread -> PCs]
  /\ wpc \in [Waker -> WPCs]
  /\ work \in BOOLEAN
  /\ signals \in Nat /\ taken \in Nat /\ drained \in Nat

\* No unit is taken twice or made up: what was signalled is available, was
\* taken by one call of Wait, or was discarded.
UnitsConserved == Initial + signals = sem_count + taken + drained

\* A thread or waker that will yet take a unit or wake up somebody who does.
Underway ==
  \/ \E w \in Waker : wpc[w] \in {"wakeup", "wake"}
  \/ \E t \in Thread : tpc[t] \in {"prepare", "retry", "recas"}
  \/ \E t \in Thread : tpc[t] = "sleep" /\ t \in w_signalled \cup Victims

\* A thread sleeps only when there are "no more units" (the comment in TryWait),
\* or somebody is about to wake it up.
NoUnitWhileAsleep ==
  (sem_count > 0 /\ \E t \in Sleepers(sem_sleepq) : tpc[t] = "sleep") => Underway

\* All work that is signalled is looked at.
WorkIsDone == work ~> ~work

-----------------------------------------------------------------------------
\* The inductive invariant: what each place in the code implies.
SemPCInv ==
  /\ \A t \in Thread :
       /\ w_sq[t] = IF tpc[t] \in {"retry", "recas", "cancel", "sleep"}
                    THEN sem_sleepq ELSE None
       /\ tpc[t] \in {"retry", "recas", "cancel"} =>
            sq_lock[sem_sleepq] = t /\ t \notin w_signalled
       /\ tpc[t] \in {"cas", "recas"} => expected[t] > 0
  /\ \A w \in Waker : victim[w] # None <=> wpc[w] = "wake"

\* The facts of semaphores that together are preserved by every step of Wait,
\* WaitAndDrain and Signal.
SemInv == SqInv /\ SemTypeOK /\ SemPCInv /\ UnitsConserved

\* With a single thread, only a Signal comes between the load and the exchange:
\* whenever the exchange will fail, or the thread sleeps although there are
\* units, some waker has yet to look at the sleep queue.
SoleWaiterInv ==
  \A t \in Thread :
    (\/ tpc[t] = "recas" /\ sem_count # expected[t]
     \/ tpc[t] = "sleep" /\ t \in Sleepers(sem_sleepq) /\ sem_count > 0)
      => \E w \in Waker : wpc[w] = "wakeup"
=============================================================================
