----------------------------- MODULE LockProofs -----------------------------
(***************************************************************************)
(* First, every step of a sleep queue preserves SqInv, whoever takes it:   *)
(* the users of sleep queues need only show that they take a step where    *)
(* its hypotheses hold.  Then, for any number of threads: semaphores hand  *)
(* out every unit once; mutexes exclude and lose no wakeup; the same with  *)
(* a condition variable on top, whose signals are not lost either.         *)
(*                                                                         *)
(* Only threads lock mutexes and signal condition variables, so that their *)
(* theorems assume Waker = Thread; interrupt handlers signal semaphores.   *)
(***************************************************************************)
EXTENDS Semaphore, ConditionVariable, ListProofs, FiniteSetTheorems

\* The lists hold exactly the threads that wait for a wakeup.
ListsHold ==
  /\ sq_sleepers = [q \in Queue |-> sq_sleepers[q]]
  /\ \A q \in Queue : Holds(sq_sleepers[q], Sleepers(q))

OneVictimEach ==
  \A v, w \in Waker : (victim[v] = victim[w] /\ victim[v] # None) => v = w

\* The invariant says what the list of each sleep queue holds, ...
LEMMA ListsFromInv ==
  ASSUME SqInv
  PROVE  ListsHold /\ OneVictimEach
<1>1. ASSUME NEW q \in Queue
      PROVE  Holds(sq_sleepers[q], Sleepers(q))
  <2>1. sq_sleepers[q] \in Seq(Thread) /\ NoDuplicates(sq_sleepers[q])
        /\ Members(sq_sleepers[q]) = Sleepers(q)
    BY Zenon DEF SqInv, SqTypeOK, SleepersListed
  <2>2. QED
    BY <2>1, HoldsMembers, Zenon
<1>2. QED
  BY <1>1, Zenon DEF SqInv, SqTypeOK, SleepersListed, ListsHold, OneVictimEach

\* ... and follows from it.
LEMMA ListsToInv ==
  ASSUME ListsHold, OneVictimEach
  PROVE  SleepersListed /\ sq_sleepers \in [Queue -> Seq(Thread)]
<1>1. ASSUME NEW q \in Queue
      PROVE  sq_sleepers[q] \in Seq(Thread)
  <2>1. Sleepers(q) \subseteq Thread
    BY Zenon DEF Sleepers
  <2>2. QED
    BY <2>1, HoldsType, Zenon DEF ListsHold
<1>2. QED
  BY <1>1, Zenon DEF ListsHold, SleepersListed, Holds, OneVictimEach

\* The rest of the invariant.
Types ==
  /\ sq_lock \in [Queue -> Thread \cup {None}]
  /\ w_sq \in [Thread -> Queue \cup {None}]
  /\ w_signalled \subseteq Thread
  /\ suspended \subseteq Thread
  /\ victim \in [Waker -> Thread \cup {None}]

Rest == Types /\ SuspendedWhileWaiting /\ OnlySignalledReturn /\ SpinlockHolder

\* The invariant in the three parts that the proofs of the steps use.
LEMMA SqInvSplit == SqInv => ListsHold /\ OneVictimEach /\ Rest
BY ListsFromInv, Zenon DEF SqInv, Rest, Types, SqTypeOK

\* The three parts after a step make up the invariant after it.
LEMMA SqInvJoin == (ListsHold /\ OneVictimEach /\ Rest)' => SqInv'
<1>1. ListsHold /\ OneVictimEach /\ Rest => SqInv
  BY ListsToInv, Zenon DEF SqInv, Rest, Types, SqTypeOK
<1>2. QED
  BY <1>1, PTL

\* A thread without a waiter is on no list, nobody's victim and not suspended.
LEMMA NotWaiting ==
  ASSUME SqInv, NEW t \in Thread, w_sq[t] = None
  PROVE  /\ t \notin suspended \cup Victims \cup w_signalled
         /\ \A q \in Queue : t \notin Sleepers(q) /\ sq_lock[q] # t
BY SleepQueueAssumption DEF SqInv, SqTypeOK, SuspendedWhileWaiting, SpinlockHolder, Sleepers

-----------------------------------------------------------------------------
\* The initial state
LEMMA SqInitInv ==
  ASSUME SqInit
  PROVE  SqInv
<1>1. Victims = {} /\ \A q \in Queue : Sleepers(q) = {}
  BY SleepQueueAssumption, Zenon DEF SqInit, Victims, Sleepers
<1>2. \A q \in Queue : sq_sleepers[q] = <<>>
  BY Zenon DEF SqInit
<1>3. <<>> \in Seq(Thread) /\ Members(<<>>) = {} /\ NoDuplicates(<<>>)
  BY DEF Members, NoDuplicates
<1>4. SqTypeOK
  BY <1>3, Zenon DEF SqInit, SqTypeOK
<1>5. SleepersListed
  BY <1>1, <1>2, <1>3, Zenon DEF SleepersListed, SqInit
<1>6. QED
  BY <1>1, <1>4, <1>5, SleepQueueAssumption, Zenon
  DEF SqInv, SqInit, SuspendedWhileWaiting, OnlySignalledReturn, SpinlockHolder

\* PrepareToSleep, by a thread that has no waiter yet
LEMMA PreparePreserves ==
  ASSUME SqInv, NEW t \in Thread, NEW q \in Queue, w_sq[t] = None,
         PrepareToSleep(t, q)
  PROVE  SqInv'
<1>1. ListsHold /\ OneVictimEach /\ Rest
  BY SqInvSplit, Zenon
<1>2. /\ t \notin suspended \cup Victims \cup w_signalled
      /\ \A p \in Queue : t \notin Sleepers(p) /\ sq_lock[p] # t
      /\ \A p \in Queue : Sleepers(p) \subseteq Thread
  BY NotWaiting, Zenon DEF Sleepers
<1>3. Types /\ Types'
  BY <1>1, Zenon DEF Rest, Types, PrepareToSleep
<1>4. Victims' = Victims
  BY Zenon DEF PrepareToSleep, Victims
<1>5. /\ Sleepers(q)' = Sleepers(q) \cup {t}
      /\ \A p \in Queue \ {q} : Sleepers(p)' = Sleepers(p)
  BY <1>2, <1>3, <1>4, SleepQueueAssumption DEF PrepareToSleep, Sleepers, Types
<1>6. ListsHold'
  <2>1. Holds(Append(sq_sleepers[q], t), Sleepers(q) \cup {t})
    BY <1>1, <1>2, AppendHolds, Zenon DEF ListsHold
  <2>2. QED
    BY <1>1, <1>5, <2>1, Zenon DEF ListsHold, PrepareToSleep
<1>7. OneVictimEach'
  BY <1>1, Zenon DEF OneVictimEach, PrepareToSleep
<1>8. Rest'
  <2>1. SuspendedWhileWaiting'
    BY <1>1, <1>2, <1>3, <1>4, <1>5, SleepQueueAssumption
    DEF Rest, Types, SuspendedWhileWaiting, PrepareToSleep
  <2>2. OnlySignalledReturn'
    BY <1>1, <1>3, SleepQueueAssumption DEF Rest, Types, OnlySignalledReturn, PrepareToSleep
  <2>3. SpinlockHolder'
    BY <1>1, <1>2, <1>3, SleepQueueAssumption DEF Rest, Types, SpinlockHolder, PrepareToSleep
  <2>4. QED
    BY <1>3, <2>1, <2>2, <2>3, Zenon DEF Rest
<1>9. QED
  BY <1>6, <1>7, <1>8, SqInvJoin, Zenon

\* Unsleep, by a thread that holds the spinlock since PrepareToSleep
LEMMA UnsleepPreserves ==
  ASSUME SqInv, NEW t \in Thread, NEW q \in Queue,
         sq_lock[q] = t, t \notin w_signalled, Unsleep(t, q)
  PROVE  SqInv'
<1>1. ListsHold /\ OneVictimEach /\ Rest
  BY SqInvSplit, Zenon
<1>2. w_sq[t] = q /\ t \notin suspended \cup Victims /\ t \in Sleepers(q)
  BY <1>1, SleepQueueAssumption, Zenon
  DEF Rest, Types, SpinlockHolder, SuspendedWhileWaiting, Sleepers
<1>3. Types /\ Types'
  BY <1>1, Zenon DEF Rest, Types, Unsleep
<1>4. Victims' = Victims
  BY Zenon DEF Unsleep, Victims
<1>5. /\ Sleepers(q)' = Sleepers(q) \ {t}
      /\ \A p \in Queue \ {q} : Sleepers(p)' = Sleepers(p)
  BY <1>2, <1>3, <1>4, SleepQueueAssumption DEF Unsleep, Sleepers, Types
<1>6. ListsHold'
  <2>1. Holds(Remove(sq_sleepers[q], t), Sleepers(q) \ {t})
    BY <1>1, <1>2, RemoveHolds, Zenon DEF ListsHold
  <2>2. QED
    BY <1>1, <1>5, <2>1, Zenon DEF ListsHold, Unsleep
<1>7. OneVictimEach'
  BY <1>1, Zenon DEF OneVictimEach, Unsleep
<1>8. Rest'
  BY <1>1, <1>2, <1>3, <1>4, <1>5, SleepQueueAssumption
  DEF Rest, Types, SuspendedWhileWaiting, OnlySignalledReturn, SpinlockHolder, Unsleep
<1>9. QED
  BY <1>6, <1>7, <1>8, SqInvJoin, Zenon

\* A thread goes to sleep.
LEMMA GoToSleepPreserves ==
  ASSUME SqInv, NEW t \in Thread, NEW q \in Queue, GoToSleep(t, q)
  PROVE  SqInv'
<1>1. ListsHold /\ OneVictimEach /\ Rest
  BY SqInvSplit, Zenon
<1>2. /\ w_sq[t] = q /\ t \notin suspended \cup Victims \cup w_signalled /\ sq_lock[q] = t
      /\ \A p \in Queue \ {q} : sq_lock[p] # t
  BY <1>1, SleepQueueAssumption, Zenon
  DEF Rest, Types, SpinlockHolder, SuspendedWhileWaiting, GoToSleep
<1>3. Types /\ Types'
  BY <1>1, Zenon DEF Rest, Types, GoToSleep
<1>4. Victims' = Victims
  BY Zenon DEF GoToSleep, Victims
<1>5. \A p \in Queue : Sleepers(p)' = Sleepers(p)
  BY <1>2, <1>3, <1>4, SleepQueueAssumption, Zenon DEF GoToSleep, Sleepers, Types
<1>6. ListsHold'
  BY <1>1, <1>5, Zenon DEF ListsHold, GoToSleep
<1>7. OneVictimEach'
  BY <1>1, Zenon DEF OneVictimEach, GoToSleep
<1>8. Rest'
  <2>1. SuspendedWhileWaiting'
    BY <1>1, <1>2, <1>3, <1>4, <1>5, SleepQueueAssumption
    DEF Rest, Types, SuspendedWhileWaiting, GoToSleep
  <2>2. OnlySignalledReturn'
    BY <1>1, <1>2, <1>3, SleepQueueAssumption, Zenon
    DEF Rest, Types, OnlySignalledReturn, GoToSleep
  <2>3. SpinlockHolder'
    BY <1>1, <1>2, <1>3, SleepQueueAssumption, Zenon DEF Rest, Types, SpinlockHolder, GoToSleep
  <2>4. QED
    BY <1>3, <2>1, <2>2, <2>3, Zenon DEF Rest
<1>9. QED
  BY <1>6, <1>7, <1>8, SqInvJoin, Zenon

\* A thread that comes back from Schedule takes the spinlock.
LEMMA ReacquirePreserves ==
  ASSUME SqInv, NEW t \in Thread, NEW q \in Queue, w_sq[t] = q, Reacquire(t, q)
  PROVE  SqInv'
<1>1. ListsHold /\ OneVictimEach /\ Rest
  BY SqInvSplit, Zenon
<1>2. /\ t \in w_signalled /\ t \notin suspended \cup Victims
      /\ \A p \in Queue : Sleepers(p) \subseteq Thread \ {t}
  BY <1>1, SleepQueueAssumption
  DEF Rest, Types, SuspendedWhileWaiting, OnlySignalledReturn, Reacquire, Sleepers
<1>3. Types /\ Types'
  BY <1>1, Zenon DEF Rest, Types, Reacquire
<1>4. Victims' = Victims
  BY Zenon DEF Reacquire, Victims
<1>5. \A p \in Queue : Sleepers(p)' = Sleepers(p)
  BY <1>2, <1>3, <1>4, SleepQueueAssumption, Zenon DEF Reacquire, Sleepers, Types
<1>6. ListsHold'
  BY <1>1, <1>5, Zenon DEF ListsHold, Reacquire
<1>7. OneVictimEach'
  BY <1>1, Zenon DEF OneVictimEach, Reacquire
<1>8. Rest'
  <2>1. SuspendedWhileWaiting'
    BY <1>1, <1>2, <1>3, <1>4, <1>5, SleepQueueAssumption
    DEF Rest, Types, SuspendedWhileWaiting, Reacquire
  <2>2. OnlySignalledReturn'
    BY <1>1, <1>2, <1>3, SleepQueueAssumption, Zenon
    DEF Rest, Types, OnlySignalledReturn, Reacquire
  <2>3. SpinlockHolder'
    BY <1>1, <1>2, <1>3, SleepQueueAssumption, Zenon DEF Rest, Types, SpinlockHolder, Reacquire
  <2>4. QED
    BY <1>3, <2>1, <2>2, <2>3, Zenon DEF Rest
<1>9. QED
  BY <1>6, <1>7, <1>8, SqInvJoin, Zenon

\* Sleep returns.
LEMMA WokeUpPreserves ==
  ASSUME SqInv, NEW t \in Thread, NEW q \in Queue, WokeUp(t, q)
  PROVE  SqInv'
<1>1. ListsHold /\ OneVictimEach /\ Rest
  BY SqInvSplit, Zenon
<1>2. /\ w_sq[t] = q /\ sq_lock[q] = t /\ t \in w_signalled /\ t \notin suspended \cup Victims
      /\ \A p \in Queue : Sleepers(p) \subseteq Thread \ {t}
  BY <1>1, SleepQueueAssumption, Zenon
  DEF Rest, Types, SpinlockHolder, SuspendedWhileWaiting, WokeUp, Sleepers
<1>3. Types /\ Types'
  BY <1>1, Zenon DEF Rest, Types, WokeUp
<1>4. Victims' = Victims
  BY Zenon DEF WokeUp, Victims
<1>5. \A p \in Queue : Sleepers(p)' = Sleepers(p)
  BY <1>2, <1>3, <1>4, SleepQueueAssumption DEF WokeUp, Sleepers, Types
<1>6. ListsHold'
  BY <1>1, <1>5, Zenon DEF ListsHold, WokeUp
<1>7. OneVictimEach'
  BY <1>1, Zenon DEF OneVictimEach, WokeUp
<1>8. Rest'
  <2>1. SuspendedWhileWaiting'
    BY <1>1, <1>2, <1>3, <1>4, <1>5, SleepQueueAssumption
    DEF Rest, Types, SuspendedWhileWaiting, WokeUp
  <2>2. OnlySignalledReturn'
    BY <1>1, <1>2, <1>3, SleepQueueAssumption, Zenon
    DEF Rest, Types, OnlySignalledReturn, WokeUp
  <2>3. SpinlockHolder'
    BY <1>1, <1>2, <1>3, SleepQueueAssumption, Zenon DEF Rest, Types, SpinlockHolder, WokeUp
  <2>4. QED
    BY <1>3, <2>1, <2>2, <2>3, Zenon DEF Rest
<1>9. QED
  BY <1>6, <1>7, <1>8, SqInvJoin, Zenon

\* A waker that has no victim yet dequeues one.
LEMMA DequeuePreserves ==
  ASSUME SqInv, NEW w \in Waker, NEW q \in Queue, victim[w] = None, DequeueWaiter(w, q)
  PROVE  SqInv'
<1>1. ListsHold /\ OneVictimEach /\ Rest
  BY SqInvSplit, Zenon
<1>2. /\ sq_lock[q] = None
      /\ victim' = [victim EXCEPT ![w] = Head(sq_sleepers[q])]
      /\ sq_sleepers' = [sq_sleepers EXCEPT ![q] = Tail(sq_sleepers[q])]
      /\ UNCHANGED <<sq_lock, w_sq, w_signalled, suspended>>
      /\ Head(sq_sleepers[q]) \in Sleepers(q)
      /\ Holds(Tail(sq_sleepers[q]), Sleepers(q) \ {Head(sq_sleepers[q])})
  BY <1>1, TailHolds, Zenon DEF ListsHold, DequeueWaiter
<1> DEFINE v == Head(sq_sleepers[q])
           rest == Tail(sq_sleepers[q])
<1> HIDE DEF v, rest
<1>2a. /\ victim' = [victim EXCEPT ![w] = v]
       /\ sq_sleepers' = [sq_sleepers EXCEPT ![q] = rest]
       /\ v \in Sleepers(q) /\ Holds(rest, Sleepers(q) \ {v})
  BY <1>2, Zenon DEF v, rest
<1>2b. v \in Thread /\ w_sq[v] = q /\ v \notin w_signalled \cup Victims /\ v \in suspended
  BY <1>1, <1>2, <1>2a, SleepQueueAssumption DEF Sleepers, Rest, SuspendedWhileWaiting
<1>3. Types /\ Types'
  BY <1>1, <1>2, <1>2a, <1>2b, Zenon DEF Rest, Types
<1>4. Victims' = Victims \cup {v}
  BY <1>1, <1>2a, <1>2b, <1>3, SleepQueueAssumption DEF Victims, Types
<1>5. /\ Sleepers(q)' = Sleepers(q) \ {v}
      /\ \A p \in Queue \ {q} : Sleepers(p)' = Sleepers(p)
  BY <1>2, <1>2b, <1>4, Zenon DEF Sleepers
<1>6. ListsHold'
  BY <1>1, <1>2a, <1>5, Zenon DEF ListsHold
<1>7. OneVictimEach'
  BY <1>1, <1>2a, <1>2b, <1>3 DEF OneVictimEach, Victims, Types
<1>8. Rest'
  <2>1. SuspendedWhileWaiting'
    BY <1>1, <1>2, <1>2b, <1>3, <1>4, <1>5, SleepQueueAssumption
    DEF Rest, Types, SuspendedWhileWaiting
  <2>2. OnlySignalledReturn'
    BY <1>1, <1>2, <1>3, SleepQueueAssumption, Zenon DEF Rest, Types, OnlySignalledReturn
  <2>3. SpinlockHolder'
    BY <1>1, <1>2, <1>3, SleepQueueAssumption, Zenon DEF Rest, Types, SpinlockHolder
  <2>4. QED
    BY <1>3, <2>1, <2>2, <2>3, Zenon DEF Rest
<1>9. QED
  BY <1>6, <1>7, <1>8, SqInvJoin, Zenon

\* WakeupWaiter marks its victim.
LEMMA SignalPreserves ==
  ASSUME SqInv, NEW w \in Waker, victim[w] # None, SignalWaiter(w)
  PROVE  SqInv'
<1>1. ListsHold /\ OneVictimEach /\ Rest
  BY SqInvSplit, Zenon
<1>2. /\ victim[w] \in Thread \cap Victims
      /\ victim[w] \in suspended /\ w_sq[victim[w]] # None
  BY <1>1 DEF Rest, Types, Victims, SuspendedWhileWaiting
<1>3. Types /\ Types'
  BY <1>1, Zenon DEF Rest, Types, SignalWaiter
<1>4. Victims' = Victims
  BY Zenon DEF SignalWaiter, Victims
<1>5. \A p \in Queue : Sleepers(p)' = Sleepers(p)
  BY <1>2, <1>3, <1>4, SleepQueueAssumption DEF SignalWaiter, Sleepers, Types
<1>6. ListsHold'
  BY <1>1, <1>5, Zenon DEF ListsHold, SignalWaiter
<1>7. OneVictimEach'
  BY <1>1, Zenon DEF OneVictimEach, SignalWaiter
<1>8. Rest'
  <2>1. SuspendedWhileWaiting'
    BY <1>1, <1>2, <1>3, <1>4, <1>5, SleepQueueAssumption
    DEF Rest, Types, SuspendedWhileWaiting, SignalWaiter
  <2>2. OnlySignalledReturn'
    BY <1>1, <1>2, <1>3, SleepQueueAssumption, Zenon
    DEF Rest, Types, OnlySignalledReturn, SignalWaiter
  <2>3. SpinlockHolder'
    BY <1>1, <1>2, <1>3, SleepQueueAssumption, Zenon
    DEF Rest, Types, SpinlockHolder, SignalWaiter
  <2>4. QED
    BY <1>3, <2>1, <2>2, <2>3, Zenon DEF Rest
<1>9. QED
  BY <1>6, <1>7, <1>8, SqInvJoin, Zenon

\* WakeupWaiter resumes its victim.
LEMMA ResumePreserves ==
  ASSUME SqInv, NEW w \in Waker, victim[w] # None, ResumeWaiter(w)
  PROVE  SqInv'
<1>1. ListsHold /\ OneVictimEach /\ Rest
  BY SqInvSplit, Zenon
<1>2. /\ victim[w] \in Thread \cap Victims
      /\ victim[w] \in suspended /\ w_sq[victim[w]] # None
      /\ victim[w] \in w_signalled
      /\ \A p \in Queue : victim[w] \notin Sleepers(p)
  BY <1>1 DEF Rest, Types, Victims, SuspendedWhileWaiting, ResumeWaiter, Sleepers
<1>3. Types /\ Types'
  BY <1>1, Zenon DEF Rest, Types, ResumeWaiter
<1>4. Victims' = Victims \ {victim[w]}
  BY <1>1, <1>3, SleepQueueAssumption DEF ResumeWaiter, Victims, OneVictimEach, Types
<1>5. \A p \in Queue : Sleepers(p)' = Sleepers(p)
  BY <1>2, <1>4, Zenon DEF ResumeWaiter, Sleepers
<1>6. ListsHold'
  BY <1>1, <1>5, Zenon DEF ListsHold, ResumeWaiter
<1>7. OneVictimEach'
  BY <1>1, <1>3, Zenon DEF OneVictimEach, ResumeWaiter, Types
<1>8. Rest'
  <2>1. SuspendedWhileWaiting'
    BY <1>1, <1>2, <1>3, <1>4, <1>5, SleepQueueAssumption
    DEF Rest, Types, SuspendedWhileWaiting, ResumeWaiter
  <2>2. OnlySignalledReturn'
    BY <1>1, <1>2, <1>3, SleepQueueAssumption, Zenon
    DEF Rest, Types, OnlySignalledReturn, ResumeWaiter
  <2>3. SpinlockHolder'
    BY <1>1, <1>2, <1>3, SleepQueueAssumption, Zenon
    DEF Rest, Types, SpinlockHolder, ResumeWaiter
  <2>4. QED
    BY <1>3, <2>1, <2>2, <2>3, Zenon DEF Rest
<1>9. QED
  BY <1>6, <1>7, <1>8, SqInvJoin, Zenon

-----------------------------------------------------------------------------
\* A new Semaphore satisfies the invariant.
LEMMA SemInitInv ==
  ASSUME SemInit
  PROVE  SemInv
<1>1. SqInv
  BY SqInitInv, Zenon DEF SemInit
<1>2. work \in BOOLEAN
  BY Zenon DEF SemInit
<1>3. SemTypeOK
  BY <1>1, <1>2, SemaphoreAssumption, Zenon DEF SemInit, SqInv, SemTypeOK, PCs, WPCs
<1>4. UnitsConserved
  BY SemaphoreAssumption DEF SemInit, UnitsConserved
<1>5. SemPCInv
  BY SleepQueueAssumption, Zenon DEF SemInit, SqInit, SemPCInv
<1>6. QED
  BY <1>1, <1>3, <1>4, <1>5, Zenon DEF SemInv

\* The sleep queue
LEMMA SemQueuePreserved ==
  ASSUME SemInv, SemNext
  PROVE  SqInv'
<1>1. SqInv /\ (UNCHANGED sqvars => SqInv')
  BY DEF SemInv, SqInv, SqTypeOK, sqvars, SleepersListed, SuspendedWhileWaiting,
         OnlySignalledReturn, SpinlockHolder, Sleepers, Victims
<1>2. sem_sleepq \in Queue
  BY SemaphoreAssumption, Zenon
<1>3. ASSUME NEW t \in Thread, Wait(t) \/ ThreadStep(t)
      PROVE  SqInv'
  <2>1. CASE WaitPrepare(t)
    BY <1>1, <1>2, <2>1, PreparePreserves, Zenon DEF WaitPrepare, SemInv, SemPCInv
  <2>2. CASE WaitCancel(t)
    BY <1>1, <1>2, <2>2, UnsleepPreserves, Zenon DEF WaitCancel, SemInv, SemPCInv
  <2>3. CASE WaitSleep(t)
    BY <1>1, <1>2, <2>3, GoToSleepPreserves, ReacquirePreserves, WokeUpPreserves, Zenon
    DEF WaitSleep, SemInv, SemPCInv
  <2>4. CASE UNCHANGED sqvars
    BY <1>1, <2>4, Zenon
  <2>5. QED
    BY <1>3, <2>1, <2>2, <2>3, <2>4, Zenon DEF ThreadStep, Wait, WaitExchange, WaitRetry,
       WaitRetryExchange, WaitReturn, Look
<1>4. ASSUME NEW w \in Waker, Raise(w) \/ WakerStep(w)
      PROVE  SqInv'
  <2>1. CASE SignalWakeupOne(w)
    BY <1>1, <1>2, <2>1, DequeuePreserves, SignalPreserves, ResumePreserves, Zenon
    DEF SignalWakeupOne, NobodyToWake, SemInv, SemPCInv, SemTypeOK, WPCs
  <2>2. CASE UNCHANGED sqvars
    BY <1>1, <2>2, Zenon
  <2>3. QED
    BY <1>4, <2>1, <2>2, Zenon DEF WakerStep, Raise, Signal
<1>5. QED
  BY <1>3, <1>4, Zenon DEF SemNext

\* The count
LEMMA SemCountPreserved ==
  ASSUME SemInv, SemNext
  PROVE  SemTypeOK' /\ UnitsConserved'
<1>1. SqTypeOK'
  BY SemQueuePreserved, Zenon DEF SqInv
<1>2. /\ sem_count \in Nat /\ expected \in [Thread -> Nat]
      /\ tpc \in [Thread -> PCs] /\ wpc \in [Waker -> WPCs]
      /\ work \in BOOLEAN
      /\ signals \in Nat /\ taken \in Nat /\ drained \in Nat
      /\ Initial \in Nat
      /\ Initial + signals = sem_count + taken + drained
      /\ \A t \in Thread : tpc[t] \in {"cas", "recas"} => expected[t] > 0
  BY SemaphoreAssumption, Zenon DEF SemInv, SemTypeOK, UnitsConserved, SemPCInv
<1>3. ASSUME NEW t \in Thread, Wait(t) \/ ThreadStep(t)
      PROVE  SemTypeOK' /\ UnitsConserved'
  <2>1. CASE Wait(t) \/ WaitRetry(t)
    BY <1>1, <1>2, <2>1, Zenon
    DEF Wait, WaitRetry, ReadCount, SemTypeOK, UnitsConserved, TGoto, PCs, counters
  <2>2. CASE WaitExchange(t) \/ WaitRetryExchange(t)
    BY <1>1, <1>2, <2>2
    DEF WaitExchange, WaitRetryExchange, Exchange, SemTypeOK, UnitsConserved, TGoto, PCs
  <2>3. CASE WaitReturn(t)
    BY <1>1, <1>2, <2>3 DEF WaitReturn, SemTypeOK, UnitsConserved, TGoto, PCs
  <2>4. CASE WaitPrepare(t) \/ WaitCancel(t) \/ WaitSleep(t) \/ Look(t)
    BY <1>1, <1>2, <2>4, Zenon
    DEF WaitPrepare, WaitCancel, WaitSleep, Look, SemTypeOK, UnitsConserved,
        TGoto, PCs, counters
  <2>5. QED
    BY <1>3, <2>1, <2>2, <2>3, <2>4, Zenon DEF ThreadStep
<1>4. ASSUME NEW w \in Waker, Raise(w) \/ WakerStep(w)
      PROVE  SemTypeOK' /\ UnitsConserved'
  <2>1. work' \in BOOLEAN
    BY <1>2, <1>4, Zenon DEF Raise, WakerStep, Signal, SignalWakeupOne
  <2>2. CASE Raise(w)
    BY <1>1, <1>2, <2>1, <2>2, Zenon DEF Raise, SemTypeOK, UnitsConserved, WGoto, WPCs, counters
  <2>3. CASE WakerStep(w)
    BY <1>1, <1>2, <2>1, <2>3
    DEF WakerStep, Signal, SignalWakeupOne, SemTypeOK, UnitsConserved, WGoto, WPCs, counters
  <2>4. QED
    BY <1>4, <2>2, <2>3, Zenon
<1>5. QED
  BY <1>3, <1>4, Zenon DEF SemNext

\* Where the threads and wakers are
LEMMA SemPlacesPreserved ==
  ASSUME SemInv, SemNext
  PROVE  SemPCInv'
<1>1. \A u \in Thread : tpc[u] \in {"retry", "recas", "cancel"} => u \notin Victims
  BY SemaphoreAssumption, SleepQueueAssumption
  DEF SemInv, SqInv, SqTypeOK, SuspendedWhileWaiting, SemPCInv
<1>2. \A q \in Queue : sq_sleepers[q] # <<>> => Head(sq_sleepers[q]) \in Thread
  BY DEF SemInv, SqInv, SqTypeOK
<1>3. /\ sem_sleepq \in Queue /\ None \notin Thread /\ None \notin Queue
      /\ SemPCInv
      /\ sq_lock \in [Queue -> Thread \cup {None}]
      /\ w_sq \in [Thread -> Queue \cup {None}]
      /\ w_signalled \subseteq Thread
      /\ victim \in [Waker -> Thread \cup {None}]
      /\ sem_count \in Nat /\ expected \in [Thread -> Nat]
      /\ tpc \in [Thread -> PCs] /\ wpc \in [Waker -> WPCs]
  BY SemaphoreAssumption, SleepQueueAssumption, Zenon DEF SemInv, SemTypeOK, SqTypeOK
<1>4. ASSUME NEW t \in Thread, Wait(t) \/ ThreadStep(t)
      PROVE  SemPCInv'
  <2>1. CASE Wait(t) \/ WaitRetry(t)
    BY <1>3, <2>1 DEF Wait, WaitRetry, ReadCount, SemPCInv, TGoto, PCs, sqvars
  <2>2. CASE WaitExchange(t) \/ WaitRetryExchange(t)
    BY <1>3, <2>2 DEF WaitExchange, WaitRetryExchange, Exchange, SemPCInv, TGoto, PCs, sqvars
  <2>3. CASE WaitReturn(t) \/ Look(t)
    BY <1>3, <2>3 DEF WaitReturn, Look, SemPCInv, TGoto, PCs, sqvars
  <2>4. CASE WaitPrepare(t)
    BY <1>3, <2>4 DEF WaitPrepare, PrepareToSleep, SemPCInv, TGoto, PCs
  <2>5. CASE WaitCancel(t)
    BY <1>3, <2>5 DEF WaitCancel, Unsleep, SemPCInv, TGoto, PCs
  <2>6. CASE WaitSleep(t)
    BY <1>3, <2>6 DEF WaitSleep, GoToSleep, Reacquire, WokeUp, SemPCInv, TGoto, PCs
  <2>7. QED
    BY <1>4, <2>1, <2>2, <2>3, <2>4, <2>5, <2>6, Zenon DEF ThreadStep
<1>5. ASSUME NEW w \in Waker, Raise(w) \/ WakerStep(w)
      PROVE  SemPCInv'
  <2>1. CASE Raise(w) \/ Signal(w)
    BY <1>3, <2>1 DEF Raise, Signal, SemPCInv, WGoto, sqvars
  <2>2. CASE SignalWakeupOne(w)
    BY <1>1, <1>2, <1>3, <2>2
    DEF SignalWakeupOne, NobodyToWake, DequeueWaiter, SignalWaiter, ResumeWaiter, SemPCInv,
        WGoto, sqvars, Victims
  <2>3. QED
    BY <1>5, <2>1, <2>2, Zenon DEF WakerStep
<1>6. QED
  BY <1>4, <1>5, Zenon DEF SemNext

-----------------------------------------------------------------------------
\* The invariant of semaphores and of the sleep queue under them.
THEOREM SemInvariance == SemSpec => []SemInv
<1>1. SemInit => SemInv
  BY SemInitInv, Zenon
<1>2. SemInv /\ [SemNext]_semvars => SemInv'
  <2>1. ASSUME SemInv, UNCHANGED semvars
        PROVE  SemInv'
    BY <2>1 DEF semvars, sqvars, counters, SemInv, SqInv, SqTypeOK, SleepersListed,
                SuspendedWhileWaiting, OnlySignalledReturn, SpinlockHolder, Sleepers,
                Victims, SemTypeOK, SemPCInv, UnitsConserved
  <2>2. ASSUME SemInv, SemNext
        PROVE  SemInv'
    BY <2>2, SemQueuePreserved, SemCountPreserved, SemPlacesPreserved, Zenon DEF SemInv
  <2>3. QED
    BY <2>1, <2>2, Zenon
<1>3. QED
  BY <1>1, <1>2, PTL DEF SemSpec

\* TryWait and Signal lose no unit and make none up, whatever the threads and
\* wakers do between the load and the exchange.
THEOREM NoUnitTwice == SemSpec => []UnitsConserved
<1>1. SemInv => UnitsConserved
  BY Zenon DEF SemInv
<1>2. QED
  BY <1>1, SemInvariance, PTL

\* One thread waits: a step of TryWait, Sleep or Signal leaves no unit without a
\* waker that has yet to look at the sleep queue.
LEMMA SoleWaiterPreserved ==
  ASSUME SemInv, SoleWaiterInv, NEW t \in Thread, Thread = {t}, SemNext
  PROVE  SoleWaiterInv'
<1> DEFINE Idle == /\ tpc[t] = "recas" => sem_count = expected[t]
                   /\ tpc[t] = "sleep" => t \notin Sleepers(sem_sleepq) \/ sem_count = 0
           Wakes == \E w \in Waker : wpc[w] = "wakeup"
<1>1. /\ sem_sleepq \in Queue /\ t # None
      /\ sem_count \in Nat /\ expected \in [Thread -> Nat]
      /\ tpc \in [Thread -> PCs] /\ wpc \in [Waker -> WPCs]
      /\ victim \in [Waker -> Thread \cup {None}]
      /\ tpc[t] = "recas" => sq_lock[sem_sleepq] = t
  BY SemaphoreAssumption, SleepQueueAssumption, Zenon
  DEF SemInv, SemTypeOK, SqInv, SqTypeOK, SemPCInv
<1>2. sem_count' \in Nat
  BY SemCountPreserved, Zenon DEF SemTypeOK
<1>3. SoleWaiterInv <=> Idle \/ Wakes
  BY <1>1 DEF SoleWaiterInv
<1>4. SoleWaiterInv' <=> (Idle \/ Wakes)'
  BY <1>2 DEF SoleWaiterInv
<1>5. ASSUME Wait(t) \/ ThreadStep(t)
      PROVE  (Idle \/ Wakes)'
  <2>1. UNCHANGED wpc
    BY <1>5, Zenon
    DEF ThreadStep, Wait, WaitExchange, WaitPrepare, WaitRetry, WaitRetryExchange,
                WaitCancel, WaitSleep, WaitReturn, Look
  <2>2. CASE Wait(t) \/ WaitExchange(t) \/ WaitPrepare(t) \/ WaitCancel(t) \/ WaitReturn(t)
             \/ Look(t)
    <3>1. tpc'[t] \in {"cas", "prepare", "got", "retry", "look", "out"}
      BY <1>1, <2>2, Zenon DEF Wait, ReadCount, WaitExchange, Exchange, WaitPrepare, WaitCancel,
                        WaitReturn, Look, TGoto
    <3>2. QED
      BY <3>1, Zenon
  <2>3. CASE WaitRetry(t)
    BY <1>1, <2>3 DEF WaitRetry, ReadCount, TGoto
  <2>4. CASE WaitRetryExchange(t)
    <3>1. CASE sem_count = expected[t]
      BY <1>1, <2>4, <3>1, Zenon DEF WaitRetryExchange, Exchange, TGoto
    <3>2. CASE sem_count # expected[t]
      BY <1>3, <2>1, <2>4, <3>2, Zenon DEF WaitRetryExchange
    <3>3. QED
      BY <3>1, <3>2, Zenon
  <2>5. CASE WaitSleep(t)
    <3>1. CASE WokeUp(t, sem_sleepq) /\ TGoto(t, "prepare")
      BY <1>1, <3>1, Zenon DEF TGoto
    <3>2. CASE UNCHANGED <<tpc, w_sq, w_signalled, victim>>
      BY <1>3, <2>1, <2>5, <3>2, Zenon DEF WaitSleep, Sleepers, Victims
    <3>3. QED
      BY <2>5, <3>1, <3>2, Zenon DEF WaitSleep, GoToSleep, Reacquire
  <2>6. QED
    BY <1>5, <2>2, <2>3, <2>4, <2>5, Zenon DEF ThreadStep
<1>6. ASSUME NEW w \in Waker, Raise(w) \/ WakerStep(w)
      PROVE  (Idle \/ Wakes)'
  <2>1. CASE Raise(w)
    <3>1. Wakes => Wakes'
      BY <1>1, <2>1, Zenon DEF Raise, WGoto
    <3>2. Idle => Idle'
      BY <2>1, Zenon DEF Raise, sqvars, Sleepers, Victims
    <3>3. QED
      BY <1>3, <3>1, <3>2, Zenon
  <2>2. CASE Signal(w)
    BY <1>1, <2>2, Zenon DEF Signal, WGoto
  <2>3. CASE /\ wpc[w] = "wakeup" /\ NobodyToWake(sem_sleepq)
             /\ UNCHANGED <<tpc, sem_count, expected>>
    <3>1. Sleepers(sem_sleepq) = {} /\ tpc[t] # "recas"
      BY <1>1, <2>3 DEF NobodyToWake, SemInv, SqInv, SleepersListed, Members
    <3>2. QED
      BY <2>3, <3>1 DEF NobodyToWake, sqvars, Sleepers, Victims
  <2>4. CASE /\ wpc[w] = "wakeup" /\ DequeueWaiter(w, sem_sleepq)
             /\ UNCHANGED <<tpc, sem_count, expected>>
    <3>1. Head(sq_sleepers[sem_sleepq]) = t /\ tpc[t] # "recas"
      BY <1>1, <2>4 DEF DequeueWaiter, SemInv, SqInv, SqTypeOK
    <3>2. victim'[w] = t
      BY <1>1, <2>4, <3>1, Zenon DEF DequeueWaiter
    <3>3. t \notin Sleepers(sem_sleepq)'
      BY <1>1, <3>2, Zenon DEF Sleepers, Victims
    <3>4. QED
      BY <2>4, <3>1, <3>3, Zenon
  <2>5. CASE /\ wpc[w] = "wake"
             /\ \/ SignalWaiter(w) /\ UNCHANGED wpc
                \/ ResumeWaiter(w) /\ WGoto(w, "idle")
             /\ UNCHANGED <<tpc, sem_count, expected>>
    <3>1. Wakes => Wakes'
      BY <1>1, <2>5, Zenon DEF WGoto
    <3>2. t \in Sleepers(sem_sleepq)' => t \in Sleepers(sem_sleepq)
      BY <1>1, <2>5 DEF SignalWaiter, ResumeWaiter, Sleepers, Victims
    <3>3. Idle => Idle'
      BY <2>5, <3>2, Zenon
    <3>4. QED
      BY <1>3, <3>1, <3>3, Zenon
  <2> HIDE DEF Idle, Wakes
  <2>6. CASE SignalWakeupOne(w)
    BY <2>3, <2>4, <2>5, <2>6, Zenon DEF SignalWakeupOne
  <2>7. QED
    BY <1>6, <2>1, <2>2, <2>6, Zenon DEF WakerStep
<1>7. QED
  BY <1>4, <1>5, <1>6, Zenon DEF SemNext

\* A thread that is the only one to wait for a semaphore (the root hub of OHCI is
\* one) never sleeps on units, whoever signals and drains: what TryWait takes for
\* "no more units" can only go wrong between two threads.
THEOREM SoleWaiterGetsUnits ==
  ASSUME NEW t \in Thread, Thread = {t}
  PROVE  SemSpec => []NoUnitWhileAsleep
<1>1. SemInit => SoleWaiterInv
  BY Zenon DEF SemInit, SoleWaiterInv
<1>2. SemInv /\ SoleWaiterInv /\ [SemNext]_semvars => SoleWaiterInv'
  <2>1. ASSUME SoleWaiterInv, UNCHANGED semvars
        PROVE  SoleWaiterInv'
    BY <2>1 DEF semvars, sqvars, SoleWaiterInv, Sleepers, Victims
  <2>2. QED
    BY <2>1, SoleWaiterPreserved, Zenon
<1>3. SoleWaiterInv => NoUnitWhileAsleep
  BY Zenon DEF SoleWaiterInv, NoUnitWhileAsleep, Underway, Sleepers
<1>4. QED
  BY <1>1, <1>2, <1>3, SemInvariance, PTL DEF SemSpec

\* Suspend, Resume and Unsleep meet none of their panics under a semaphore:
\* whoever a waker has dequeued is suspended, and nobody else is but sleepers.
THEOREM SemaphoreResumesSuspended == SemSpec => []SuspendedWhileWaiting
<1>1. SemInv => SuspendedWhileWaiting
  BY Zenon DEF SemInv, SqInv
<1>2. QED
  BY <1>1, SemInvariance, PTL

-----------------------------------------------------------------------------
\* A new Mutex satisfies the invariant.
LEMMA MutexInitInv ==
  ASSUME Waker = Thread, MutexInit
  PROVE  MutexInv
<1>1. SqInv
  BY SqInitInv, Zenon DEF MutexInit
<1>2. QED
  BY <1>1, MutexAssumption, SleepQueueAssumption, Zenon
  DEF MutexInit, SqInit, MutexInv, SqInv, MutexTypeOK, MutexPCs, MutexPCInv,
      MutualExclusion, NoLostWakeup, Sleepers

\* Each thread is at one place, and the spinlock and the victims tell which.
LEMMA MutexFacts ==
  ASSUME Waker = Thread, MutexInv, NEW t \in Thread
  PROVE  /\ mtx_sleepq \in Queue /\ t \in Waker /\ t # None
         /\ pc[t] \in {"out", "prepare", "locked", "unlock", "wake"} => w_sq[t] = None
         /\ pc[t] \in {"retry", "cancel", "sleep"} => w_sq[t] = mtx_sleepq
         /\ pc[t] \in {"retry", "cancel"} => sq_lock[mtx_sleepq] = t /\ t \notin w_signalled
         /\ pc[t] # "wake" => victim[t] = None
         /\ pc[t] = "wake" => victim[t] # None
BY MutexAssumption, SleepQueueAssumption, Zenon DEF MutexInv, MutexPCInv, MutexTypeOK, MutexPCs

\* The sleep queue: every step is taken where it is allowed.
LEMMA QueuePreserved ==
  ASSUME Waker = Thread, MutexInv, NEW t \in Thread, Lock(t) \/ Progress(t)
  PROVE  SqInv'
<1>1. SqInv /\ (UNCHANGED sqvars => SqInv')
  BY DEF MutexInv, SqInv, SqTypeOK, sqvars, SleepersListed, SuspendedWhileWaiting,
         OnlySignalledReturn, SpinlockHolder, Sleepers, Victims
<1>2. CASE Lock(t)
  BY <1>1, <1>2, Zenon DEF Lock
<1>3. CASE LockPrepare(t)
  BY <1>1, <1>3, MutexFacts, PreparePreserves, Zenon DEF LockPrepare
<1>4. CASE LockRetry(t)
  BY <1>1, <1>4, Zenon DEF LockRetry
<1>5. CASE LockCancel(t)
  BY <1>1, <1>5, MutexFacts, UnsleepPreserves, Zenon DEF LockCancel
<1>6. CASE LockSleep(t)
  BY <1>1, <1>6, MutexFacts, GoToSleepPreserves, ReacquirePreserves, WokeUpPreserves, Zenon
  DEF LockSleep
<1>7. CASE Unlock(t)
  BY <1>1, <1>7, Zenon DEF Unlock
<1>8. CASE WakeupOne(t)
  BY <1>1, <1>8, MutexFacts, DequeuePreserves, SignalPreserves, ResumePreserves, Zenon
  DEF WakeupOne, NobodyToWake
<1>9. QED
  BY <1>2, <1>3, <1>4, <1>5, <1>6, <1>7, <1>8, Zenon DEF Progress

\* Where the threads are, and who owns the mutex.
LEMMA PlacesPreserved ==
  ASSUME Waker = Thread, MutexInv, NEW t \in Thread, Lock(t) \/ Progress(t)
  PROVE  MutexTypeOK' /\ MutexPCInv' /\ MutualExclusion'
<1>1. SqTypeOK'
  BY QueuePreserved, Zenon DEF SqInv
<1>2. \A u \in Thread : pc[u] \in {"retry", "cancel"} => u \notin Victims
  BY MutexFacts, SleepQueueAssumption
  DEF MutexInv, SqInv, SqTypeOK, SuspendedWhileWaiting, MutexPCInv
<1>3. \A q \in Queue : sq_sleepers[q] # <<>> => Head(sq_sleepers[q]) \in Thread
  BY DEF MutexInv, SqInv, SqTypeOK
<1>4. /\ mtx_sleepq \in Queue /\ Waker = Thread /\ None \notin Thread /\ None \notin Queue
      /\ MutexTypeOK /\ MutexPCInv /\ MutualExclusion
      /\ sq_lock \in [Queue -> Thread \cup {None}]
      /\ w_sq \in [Thread -> Queue \cup {None}]
      /\ w_signalled \subseteq Thread
      /\ victim \in [Thread -> Thread \cup {None}]
  BY MutexAssumption, SleepQueueAssumption, Zenon DEF MutexInv, MutexTypeOK, SqTypeOK
<1>5. CASE Lock(t)
  <2>1. MutexTypeOK'
    BY <1>1, <1>4, <1>5, Zenon DEF MutexTypeOK, MutexPCs, Lock, TryLock, Goto, sqvars
  <2>2. MutexPCInv'
    BY <1>2, <1>3, <1>4, <1>5 DEF MutexTypeOK, MutexPCInv, Victims, Lock, TryLock, Goto, sqvars
  <2>3. MutualExclusion'
    BY <1>4, <1>5 DEF MutexTypeOK, MutualExclusion, Lock, TryLock, Goto, sqvars
  <2>4. QED
    BY <2>1, <2>2, <2>3, Zenon
<1>6. CASE LockPrepare(t)
  <2>1. MutexTypeOK'
    BY <1>1, <1>4, <1>6, Zenon
    DEF MutexTypeOK, MutexPCs, LockPrepare, PrepareToSleep, Goto, sqvars
  <2>2. MutexPCInv'
    BY <1>2, <1>3, <1>4, <1>6, Zenon
    DEF MutexTypeOK, MutexPCInv, Victims, LockPrepare, PrepareToSleep, Goto, sqvars
  <2>3. MutualExclusion'
    BY <1>4, <1>6, Zenon
    DEF MutexTypeOK, MutualExclusion, LockPrepare, PrepareToSleep, Goto, sqvars
  <2>4. QED
    BY <2>1, <2>2, <2>3, Zenon
<1>7. CASE LockRetry(t)
  <2>1. MutexTypeOK'
    BY <1>1, <1>4, <1>7, Zenon DEF MutexTypeOK, MutexPCs, LockRetry, TryLock, Goto, sqvars
  <2>2. MutexPCInv'
    BY <1>2, <1>3, <1>4, <1>7
    DEF MutexTypeOK, MutexPCInv, Victims, LockRetry, TryLock, Goto, sqvars
  <2>3. MutualExclusion'
    BY <1>4, <1>7 DEF MutexTypeOK, MutualExclusion, LockRetry, TryLock, Goto, sqvars
  <2>4. QED
    BY <2>1, <2>2, <2>3, Zenon
<1>8. CASE LockCancel(t)
  <2>1. MutexTypeOK'
    BY <1>1, <1>4, <1>8, Zenon DEF MutexTypeOK, MutexPCs, LockCancel, Unsleep, Goto, sqvars
  <2>2. MutexPCInv'
    BY <1>2, <1>3, <1>4, <1>8
    DEF MutexTypeOK, MutexPCInv, Victims, LockCancel, Unsleep, Goto, sqvars
  <2>3. MutualExclusion'
    BY <1>4, <1>8, Zenon DEF MutexTypeOK, MutualExclusion, LockCancel, Unsleep, Goto, sqvars
  <2>4. QED
    BY <2>1, <2>2, <2>3, Zenon
<1>9. CASE LockSleep(t)
  <2>1. MutexTypeOK'
    BY <1>1, <1>4, <1>9, Zenon
    DEF MutexTypeOK, MutexPCs, LockSleep, GoToSleep, Reacquire, WokeUp, Goto, sqvars
  <2>2. MutexPCInv'
    BY <1>2, <1>3, <1>4, <1>9
    DEF MutexTypeOK, MutexPCInv, Victims, LockSleep, GoToSleep, Reacquire, WokeUp, Goto, sqvars
  <2>3. MutualExclusion'
    BY <1>4, <1>9, Zenon
    DEF MutexTypeOK, MutualExclusion, LockSleep, GoToSleep, Reacquire, WokeUp, Goto, sqvars
  <2>4. QED
    BY <2>1, <2>2, <2>3, Zenon
<1>10. CASE Unlock(t)
  <2>1. MutexTypeOK'
    BY <1>1, <1>4, <1>10, Zenon DEF MutexTypeOK, MutexPCs, Unlock, Goto, sqvars
  <2>2. MutexPCInv'
    BY <1>2, <1>3, <1>4, <1>10 DEF MutexTypeOK, MutexPCInv, Victims, Unlock, Goto, sqvars
  <2>3. MutualExclusion'
    BY <1>4, <1>10, Zenon DEF MutexTypeOK, MutualExclusion, Unlock, Goto, sqvars
  <2>4. QED
    BY <2>1, <2>2, <2>3, Zenon
<1>11. CASE WakeupOne(t)
  <2>1. MutexTypeOK'
    BY <1>1, <1>4, <1>11, Zenon
    DEF MutexTypeOK, MutexPCs, WakeupOne, NobodyToWake, DequeueWaiter, SignalWaiter, ResumeWaiter, Goto, sqvars
  <2>2. MutexPCInv'
    BY <1>2, <1>3, <1>4, <1>11
    DEF MutexTypeOK, MutexPCInv, Victims, WakeupOne, NobodyToWake, DequeueWaiter, SignalWaiter, ResumeWaiter, Goto, sqvars
  <2>3. MutualExclusion'
    BY <1>4, <1>11
    DEF MutexTypeOK, MutualExclusion, WakeupOne, NobodyToWake, DequeueWaiter, SignalWaiter, ResumeWaiter, Goto, sqvars
  <2>4. QED
    BY <2>1, <2>2, <2>3, Zenon
<1>12. QED
  BY <1>5, <1>6, <1>7, <1>8, <1>9, <1>10, <1>11, Zenon DEF Progress

\* A victim is in Sleep, and the sleeper a waker finds on the list as well.
LEMMA VictimsSleep ==
  ASSUME Waker = Thread, MutexInv
  PROVE  /\ \A v \in Victims : v \in Thread /\ pc[v] = "sleep"
         /\ \A v \in Sleepers(mtx_sleepq) : sq_lock[mtx_sleepq] = None => pc[v] = "sleep"
<1>1. ASSUME NEW v \in Thread, w_sq[v] # None, sq_lock[mtx_sleepq] # v
      PROVE  pc[v] = "sleep"
  BY <1>1, MutexFacts, Zenon DEF MutexInv, MutexTypeOK, MutexPCs
<1>2. \A v \in Victims : v \in Thread /\ w_sq[v] # None /\ sq_lock[mtx_sleepq] # v
  BY MutexAssumption, Zenon DEF MutexInv, SqInv, SqTypeOK, SuspendedWhileWaiting
<1>3. \A v \in Sleepers(mtx_sleepq) : v \in Thread /\ w_sq[v] # None
  BY MutexAssumption, SleepQueueAssumption, Zenon DEF Sleepers
<1>4. QED
  BY <1>1, <1>2, <1>3, SleepQueueAssumption, Zenon

\* A thread that is on its way to the mutex stays on its way until it owns it,
\* or fails to get it because somebody else does; whoever clears the owner is
\* on its way to wake somebody up, and does unless nobody sleeps.
LEMMA WakeupsPreserved ==
  ASSUME Waker = Thread, MutexInv, NEW t \in Thread, Lock(t) \/ Progress(t)
  PROVE  NoLostWakeup'
<1> SUFFICES ASSUME NEW s \in Thread, s \in Sleepers(mtx_sleepq)', pc'[s] = "sleep",
                    mtx_owner' = None
             PROVE  \E u \in Thread : OnItsWay(u)'
  BY Zenon DEF NoLostWakeup, Sleepers
<1>1. /\ None \notin Thread /\ mtx_sleepq \in Queue /\ Waker = Thread
      /\ pc \in [Thread -> MutexPCs]
      /\ victim \in [Thread -> Thread \cup {None}]
  BY MutexAssumption, SleepQueueAssumption, Zenon DEF MutexInv, MutexTypeOK, SqTypeOK
<1>2. CASE Lock(t) \/ LockRetry(t)
  BY <1>1, <1>2, Zenon DEF Lock, LockRetry, TryLock
<1>3. CASE LockPrepare(t)
  BY <1>1, <1>3, Zenon DEF LockPrepare, Goto, OnItsWay
<1>4. CASE LockCancel(t)
  BY <1>1, <1>4, Zenon DEF LockCancel, MutexInv, MutualExclusion
<1>5. CASE LockSleep(t)
  <2>1. CASE WokeUp(t, mtx_sleepq) /\ Goto(t, "prepare")
    BY <1>1, <2>1, Zenon DEF Goto, OnItsWay
  <2>2. CASE (GoToSleep(t, mtx_sleepq) \/ Reacquire(t, mtx_sleepq)) /\ UNCHANGED pc
    <3>1. UNCHANGED <<pc, mtx_owner, w_sq, w_signalled, victim>>
      BY <1>5, <2>2, Zenon DEF LockSleep, GoToSleep, Reacquire
    <3>2. Victims' = Victims
      BY <3>1, Zenon DEF Victims
    <3>3. Sleepers(mtx_sleepq)' = Sleepers(mtx_sleepq)
      BY <3>1, <3>2, Zenon DEF Sleepers
    <3>4. PICK u \in Thread : OnItsWay(u)
      BY <3>1, <3>3, Zenon DEF MutexInv, NoLostWakeup
    <3>5. OnItsWay(u)'
      BY <3>1, <3>2, <3>4, Zenon DEF OnItsWay
    <3>6. QED
      BY <3>5, Zenon
  <2>3. QED
    BY <1>5, <2>1, <2>2, Zenon DEF LockSleep
<1>6. CASE Unlock(t)
  BY <1>1, <1>6, Zenon DEF Unlock, Goto, OnItsWay
<1>7. CASE WakeupOne(t)
  <2>1. CASE NobodyToWake(mtx_sleepq)
    <3>1. Sleepers(mtx_sleepq)' = Sleepers(mtx_sleepq)
      BY <2>1 DEF NobodyToWake, sqvars, Sleepers, Victims
    <3>2. sq_sleepers[mtx_sleepq] = <<>> /\ Members(<<>>) = {}
      BY <2>1 DEF NobodyToWake, Members
    <3>3. Sleepers(mtx_sleepq) = {}
      BY <1>1, <3>2, Zenon DEF MutexInv, SqInv, SleepersListed
    <3>4. QED
      BY <3>1, <3>3, Zenon
  <2>2. CASE pc[t] = "unlock" /\ DequeueWaiter(t, mtx_sleepq) /\ Goto(t, "wake")
    <3> DEFINE v == Head(sq_sleepers[mtx_sleepq])
    <3>1. v \in Sleepers(mtx_sleepq)
      BY <1>1, <2>2, ListsFromInv, TailHolds, Zenon DEF MutexInv, ListsHold, DequeueWaiter
    <3>2. victim'[t] = v /\ sq_lock[mtx_sleepq] = None
      BY <1>1, <2>2, Zenon DEF DequeueWaiter
    <3> HIDE DEF v
    <3>3. v \in Thread /\ pc[v] = "sleep" /\ v \in Victims'
      BY <1>1, <3>1, <3>2, VictimsSleep, Zenon DEF Sleepers, Victims
    <3>4. pc'[v] = "sleep"
      BY <1>1, <2>2, <3>3, Zenon DEF Goto
    <3>5. QED
      BY <3>3, <3>4, Zenon DEF OnItsWay
  <2>3. CASE pc[t] = "wake" /\ (SignalWaiter(t) \/ ResumeWaiter(t))
    <3>1. victim[t] \in Victims
      BY <1>1, <2>3, MutexFacts, Zenon DEF Victims
    <3>2. victim[t] \in Thread /\ pc[victim[t]] = "sleep"
      BY <3>1, VictimsSleep, Zenon
    <3>3. victim[t] \in w_signalled'
      BY <2>3, Zenon DEF SignalWaiter, ResumeWaiter
    <3>4. pc'[victim[t]] = "sleep"
      BY <1>1, <1>7, <2>3, <3>2, Zenon DEF WakeupOne, Goto
    <3>5. QED
      BY <3>2, <3>3, <3>4, Zenon DEF OnItsWay
  <2>4. QED
    BY <1>7, <2>1, <2>2, <2>3, Zenon DEF WakeupOne
<1>8. QED
  BY <1>2, <1>3, <1>4, <1>5, <1>6, <1>7, Zenon DEF Progress

-----------------------------------------------------------------------------
\* The invariant of mutexes and of the sleep queue under them holds in every
\* reachable state, for any number of threads that call Lock and Unlock.
THEOREM MutexInvariance ==
  ASSUME Waker = Thread
  PROVE  MutexSpec => []MutexInv
<1>1. MutexInit => MutexInv
  BY MutexInitInv, Zenon
<1>2. MutexInv /\ [MutexNext]_vars => MutexInv'
  <2> SUFFICES ASSUME MutexInv, [MutexNext]_vars
               PROVE  MutexInv'
    BY Zenon
  <2>1. CASE UNCHANGED vars
    <3>0. Victims' = Victims /\ \A q : Sleepers(q)' = Sleepers(q)
      BY <2>1, Zenon DEF vars, sqvars, Victims, Sleepers
    <3>1. SqTypeOK' /\ SleepersListed'
      BY <2>1, <3>0, Zenon DEF vars, sqvars, MutexInv, SqInv, SqTypeOK, SleepersListed
    <3>2. SuspendedWhileWaiting' /\ OnlySignalledReturn' /\ SpinlockHolder'
      BY <2>1, <3>0, Zenon DEF vars, sqvars, mtxvars, MutexInv, SqInv, SuspendedWhileWaiting,
                  OnlySignalledReturn, SpinlockHolder
    <3>3. MutexTypeOK' /\ MutexPCInv'
      BY <2>1, <3>1, Zenon DEF vars, sqvars, mtxvars, MutexInv, MutexTypeOK, MutexPCInv
    <3>4. MutualExclusion' /\ NoLostWakeup'
      BY <2>1, <3>0, Zenon
      DEF vars, sqvars, mtxvars, MutexInv, MutualExclusion, NoLostWakeup, OnItsWay
    <3>5. QED
      BY <3>1, <3>2, <3>3, <3>4, Zenon DEF MutexInv, SqInv
  <2>2. CASE MutexNext
    <3>1. PICK t \in Thread : Lock(t) \/ Progress(t)
      BY <2>2, Zenon DEF MutexNext
    <3>2. SqInv' /\ MutexTypeOK' /\ MutexPCInv' /\ MutualExclusion' /\ NoLostWakeup'
      BY <3>1, QueuePreserved, PlacesPreserved, WakeupsPreserved, Zenon
    <3>3. QED
      BY <3>2, Zenon DEF MutexInv
  <2>3. QED
    BY <2>1, <2>2, Zenon
<1>3. QED
  BY <1>1, <1>2, PTL DEF MutexSpec

\* Mutex::Lock admits one thread at a time.
THEOREM LockExcludes ==
  ASSUME Waker = Thread
  PROVE  MutexSpec => []MutualExclusion
<1>1. MutexInv => MutualExclusion
  BY Zenon DEF MutexInv
<1>2. QED
  BY <1>1, MutexInvariance, PTL

\* No thread sleeps on a mutex that nobody owns unless somebody is on the way
\* to wake it up or to take the mutex.
THEOREM WakeupsArrive ==
  ASSUME Waker = Thread
  PROVE  MutexSpec => []NoLostWakeup
<1>1. MutexInv => NoLostWakeup
  BY Zenon DEF MutexInv
<1>2. QED
  BY <1>1, MutexInvariance, PTL

\* WakeupWaiter never resumes a thread that is not suspended, and Sleep never
\* suspends one that is: the panics of the scheduler are not reached.
THEOREM ResumesOnlySuspended ==
  ASSUME Waker = Thread
  PROVE  MutexSpec => []SuspendedWhileWaiting
<1>1. MutexInv => SuspendedWhileWaiting
  BY Zenon DEF MutexInv, SqInv
<1>2. QED
  BY <1>1, MutexInvariance, PTL

-----------------------------------------------------------------------------
\* A new ConditionVariable satisfies the invariant.
LEMMA CvInitInv ==
  ASSUME Waker = Thread, CvInit
  PROVE  CvInv
<1>1. SqInv /\ MutexInit /\ MutexInv
  BY MutexInitInv, SqInitInv, Zenon DEF CvInit, MutexInit
<1>2. CvTypeOK
  BY <1>1, Zenon DEF CvInit, MutexInit, SqInv, CvTypeOK, CvPCs, MutexPCs
<1>3. CvPCInv
  BY <1>1, SleepQueueAssumption, Zenon DEF CvInit, MutexInit, SqInit, CvPCInv, InWait
<1>4. ItemsCovered
  <2>1. Tokens = {} /\ Sleepers(cv_sleepq) = {}
    BY CvAssumption, SleepQueueAssumption, Zenon DEF CvInit, MutexInit, SqInit, Tokens, Sleepers
  <2>2. QED
    BY <2>1, FS_EmptySet, Zenon DEF ItemsCovered
<1>5. QED
  BY <1>1, <1>2, <1>3, <1>4, Zenon DEF CvInv, MutexInv

\* Each thread is at one place, and the spinlocks and the victims tell which.
LEMMA CvFacts ==
  ASSUME Waker = Thread, CvInv
  PROVE  /\ mtx_sleepq \in Queue /\ cv_sleepq \in Queue /\ mtx_sleepq # cv_sleepq
         /\ None \notin Thread /\ None \notin Queue
         /\ sq_lock \in [Queue -> Thread \cup {None}]
         /\ w_sq \in [Thread -> Queue \cup {None}]
         /\ w_signalled \subseteq Thread
         /\ victim \in [Thread -> Thread \cup {None}]
         /\ mtx_owner \in Thread \cup {None}
         /\ pc \in [Thread -> CvPCs]
         /\ job \in [Thread -> {"nothing", "get", "put", "signal", "broadcast"}]
         /\ items \in Nat /\ puts \in Nat
         /\ \A q \in Queue : sq_sleepers[q] # <<>> => Head(sq_sleepers[q]) \in Thread
BY MutexAssumption, CvAssumption, SleepQueueAssumption DEF CvInv, CvTypeOK, SqTypeOK

\* Where a thread is decides on which of the two queues it can be found.
LEMMA CvPlaces ==
  ASSUME Waker = Thread, CvInv, NEW t \in Thread
  PROVE  /\ pc[t] \in {"out", "prepare", "locked", "unlock", "wake", "signal"} => w_sq[t] = None
         /\ pc[t] \in {"retry", "cancel", "sleep"} => w_sq[t] = mtx_sleepq
         /\ pc[t] \in {"cvunlock", "cvwakeup", "cvwake", "cvsleep"} => w_sq[t] = cv_sleepq
         /\ pc[t] \in {"retry", "cancel"} => sq_lock[mtx_sleepq] = t /\ t \notin w_signalled
         /\ pc[t] \in {"cvunlock", "cvwakeup", "cvwake"} =>
              sq_lock[cv_sleepq] = t /\ t \notin w_signalled
         /\ pc[t] \notin {"wake", "cvwake", "signal"} => victim[t] = None
         /\ pc[t] \in {"wake", "cvwake", "signal"} => victim[t] # None
BY Zenon DEF CvInv, CvPCInv, InWait

\* The sleep queues: every step is taken where it is allowed.
LEMMA CvQueuePreserved ==
  ASSUME Waker = Thread, CvInv, NEW t \in Thread, Begin(t) \/ CvStep(t)
  PROVE  SqInv'
<1>1. SqInv /\ (UNCHANGED sqvars => SqInv')
  BY SMTT(30) DEF CvInv, SqInv, SqTypeOK, sqvars, SleepersListed, SuspendedWhileWaiting,
         OnlySignalledReturn, SpinlockHolder, Sleepers, Victims
<1>2. mtx_sleepq \in Queue /\ cv_sleepq \in Queue
  BY CvFacts, Zenon
<1>3. CASE LockPrepare(t)
  BY <1>1, <1>2, <1>3, CvPlaces, PreparePreserves, Zenon DEF LockPrepare
<1>4. CASE LockCancel(t)
  BY <1>1, <1>2, <1>4, CvPlaces, UnsleepPreserves, Zenon DEF LockCancel
<1>5. CASE LockSleep(t)
  BY <1>1, <1>2, <1>5, CvPlaces, GoToSleepPreserves, ReacquirePreserves, WokeUpPreserves, Zenon
  DEF LockSleep
<1>6. CASE WakeupOne(t)
  BY <1>1, <1>2, <1>6, CvPlaces, DequeuePreserves, SignalPreserves, ResumePreserves, Zenon
  DEF WakeupOne, NobodyToWake
<1>7. CASE CvWaitPrepare(t)
  BY <1>1, <1>2, <1>7, CvPlaces, PreparePreserves, Zenon DEF CvWaitPrepare
<1>8. CASE CvWaitWakeup(t)
  BY <1>1, <1>2, <1>8, CvPlaces, DequeuePreserves, SignalPreserves, ResumePreserves, Zenon
  DEF CvWaitWakeup, NobodyToWake
<1>9. CASE CvWaitSleep(t)
  BY <1>1, <1>2, <1>9, CvPlaces, GoToSleepPreserves, ReacquirePreserves, WokeUpPreserves, Zenon
  DEF CvWaitSleep
<1>10. CASE CvSignal(t)
  BY <1>1, <1>2, <1>10, CvPlaces, DequeuePreserves, SignalPreserves, ResumePreserves, Zenon
  DEF CvSignal, NobodyToWake
<1>11. CASE UNCHANGED sqvars
  BY <1>1, <1>11, Zenon
<1>12. QED
  BY <1>3, <1>4, <1>5, <1>6, <1>7, <1>8, <1>9, <1>10, <1>11, Zenon
  DEF CvStep, CvLock, MutexStep, Begin, Put, Get, CvWaitUnlock, Lock, LockRetry, Unlock,
      vars, sqvars

\* A victim is suspended in Sleep; so is the first thread on a list whose
\* spinlock is free.
LEMMA CvVictims ==
  ASSUME Waker = Thread, CvInv
  PROVE  /\ \A u \in Thread : victim[u] # None =>
              /\ victim[u] \in Thread /\ victim[u] \in suspended
              /\ victim[u] \in Victims
              /\ \A q \in Queue : sq_lock[q] # victim[u]
         /\ \A q \in {mtx_sleepq, cv_sleepq} :
              (sq_lock[q] = None /\ sq_sleepers[q] # <<>>) =>
                /\ Head(sq_sleepers[q]) \in Sleepers(q)
                /\ pc[Head(sq_sleepers[q])] = IF q = mtx_sleepq THEN "sleep" ELSE "cvsleep"
<1>1. \A u \in Thread : victim[u] # None => victim[u] \in Thread /\ victim[u] \in Victims
  BY CvFacts, Zenon DEF Victims
<1>2. \A v \in Victims : v \in suspended /\ \A q \in Queue : sq_lock[q] # v
  BY Zenon DEF CvInv, SqInv, SuspendedWhileWaiting
<1>3. ASSUME NEW q \in {mtx_sleepq, cv_sleepq}, sq_lock[q] = None, sq_sleepers[q] # <<>>
      PROVE  /\ Head(sq_sleepers[q]) \in Sleepers(q)
             /\ pc[Head(sq_sleepers[q])] = IF q = mtx_sleepq THEN "sleep" ELSE "cvsleep"
  <2>1. PICK v : v = Head(sq_sleepers[q])
    BY Zenon
  <2>2. v \in Sleepers(q)
    BY <1>3, <2>1, CvFacts, ListsFromInv, TailHolds, Zenon DEF CvInv, ListsHold
  <2>3. v \in Thread /\ w_sq[v] = q
    BY <2>2, Zenon DEF Sleepers
  <2>4. pc[v] \in CvPCs
    BY <2>3, CvFacts, Zenon
  <2>5. pc[v] = IF q = mtx_sleepq THEN "sleep" ELSE "cvsleep"
    BY <1>3, <2>3, <2>4, CvFacts, CvPlaces DEF CvPCs, MutexPCs, InWait
  <2>6. QED
    BY <2>1, <2>2, <2>5, Zenon
<1>4. QED
  BY <1>1, <1>2, <1>3, Zenon

\* Types and exclusion
LEMMA CvTypesPreserved ==
  ASSUME Waker = Thread, CvInv, NEW t \in Thread, Begin(t) \/ CvStep(t)
  PROVE  CvTypeOK' /\ MutualExclusion'
<1>1. SqTypeOK'
  BY CvQueuePreserved, Zenon DEF SqInv
<1>2. MutualExclusion
  BY Zenon DEF CvInv
<1>3. CASE Begin(t) \/ Put(t) \/ Get(t)
  BY <1>1, <1>2, <1>3, CvFacts
  DEF Begin, Put, Get, SetJob, CvTypeOK, MutualExclusion, vars, mtxvars, sqvars
<1>4. CASE CvLock(t)
  <2>1. CvTypeOK'
    BY <1>1, <1>4, CvFacts
    DEF CvLock, Lock, TryLock, Goto, CvTypeOK, CvPCs, MutexPCs, jobvars
  <2>2. MutualExclusion'
    BY <1>2, <1>4, CvFacts DEF CvLock, Lock, TryLock, Goto, MutualExclusion
  <2>3. QED
    BY <2>1, <2>2, Zenon
<1>5. CASE MutexStep(t)
  <2>1. CASE LockPrepare(t) \/ LockCancel(t) \/ LockSleep(t) \/ WakeupOne(t)
    <3>1. UNCHANGED <<mtx_owner, jobvars>>
      BY <1>5, <2>1, Zenon DEF MutexStep, LockPrepare, LockCancel, LockSleep, WakeupOne
    <3>2. PICK l \in CvPCs :
            /\ pc' = [pc EXCEPT ![t] = l]
            /\ l \in {"cancel", "locked", "cvunlock"} <=> pc[t] \in {"cancel", "locked", "cvunlock"}
      <4>1. CASE LockPrepare(t) \/ LockCancel(t)
        BY <4>1, Zenon DEF LockPrepare, LockCancel, Goto, CvPCs, MutexPCs
      <4>2. CASE LockSleep(t)
        BY <4>2, CvFacts, Zenon DEF LockSleep, Goto, CvPCs, MutexPCs
      <4>3. CASE WakeupOne(t)
        BY <4>3, CvFacts, Zenon DEF WakeupOne, Goto, CvPCs, MutexPCs
      <4>4. QED
        BY <2>1, <4>1, <4>2, <4>3, Zenon
    <3>3. CvTypeOK'
      BY <1>1, <3>1, <3>2, CvFacts, Zenon DEF CvTypeOK, jobvars
    <3>4. MutualExclusion'
      BY <1>2, <3>1, <3>2, CvFacts, Zenon DEF MutualExclusion
    <3>5. QED
      BY <3>3, <3>4, Zenon
  <2>2. CASE LockRetry(t) \/ Unlock(t)
    BY <1>1, <1>2, <1>5, <2>2, CvFacts
    DEF MutexStep, LockRetry, Unlock, TryLock, Goto, CvTypeOK, MutualExclusion, CvPCs,
        MutexPCs, jobvars
  <2>3. QED
    BY <1>5, <2>1, <2>2, Zenon DEF MutexStep
<1>6. CASE CvWaitPrepare(t) \/ CvWaitUnlock(t) \/ CvWaitWakeup(t) \/ CvWaitSleep(t)
  <2>1. CASE CvWaitPrepare(t)
    BY <1>1, <1>2, <2>1, CvFacts, Zenon
    DEF CvWaitPrepare, Goto, CvTypeOK, MutualExclusion, CvPCs, MutexPCs, InWait, jobvars
  <2>2. CASE CvWaitUnlock(t)
    BY <1>1, <1>2, <2>2, CvFacts, Zenon
    DEF CvWaitUnlock, Goto, CvTypeOK, MutualExclusion, CvPCs, MutexPCs, InWait, jobvars
  <2>3. CASE CvWaitWakeup(t) \/ CvWaitSleep(t)
    BY <1>1, <1>2, <2>3, CvFacts
    DEF CvWaitWakeup, CvWaitSleep, Goto, CvTypeOK, MutualExclusion, CvPCs, MutexPCs, InWait,
        jobvars
  <2>4. QED
    BY <1>6, <2>1, <2>2, <2>3, Zenon
<1>7. CASE CvSignal(t)
  BY <1>1, <1>2, <1>7, CvFacts, Zenon
  DEF CvSignal, Goto, SetJob, CvTypeOK, MutualExclusion, CvPCs, MutexPCs
<1>8. QED
  BY <1>3, <1>4, <1>5, <1>6, <1>7, Zenon DEF CvStep

\* WakeupOne, called by Mutex::Unlock, Wait, Signal or Broadcast: nobody is found,
\* a sleeper of the mutex or one of the condition variable is dequeued, the victim
\* is marked, the victim is resumed.
FindsNobody(t) ==
  \/ /\ pc[t] \in {"unlock", "cvwakeup"} /\ NobodyToWake(mtx_sleepq)
     /\ Goto(t, IF pc[t] = "unlock" THEN "out" ELSE "cvsleep") /\ UNCHANGED job
  \/ /\ pc[t] = "out" /\ NobodyToWake(cv_sleepq)
     /\ SetJob(t, "nothing") /\ UNCHANGED pc
DequeuesLocker(t) ==
  /\ pc[t] \in {"unlock", "cvwakeup"} /\ DequeueWaiter(t, mtx_sleepq)
  /\ Goto(t, IF pc[t] = "unlock" THEN "wake" ELSE "cvwake") /\ UNCHANGED job
DequeuesGetter(t) ==
  /\ pc[t] = "out" /\ job[t] \in {"signal", "broadcast"} /\ DequeueWaiter(t, cv_sleepq)
  /\ Goto(t, "signal") /\ UNCHANGED job
Marks(t) ==
  /\ pc[t] \in {"wake", "cvwake", "signal"} /\ SignalWaiter(t)
  /\ UNCHANGED <<pc, job>>
Resumes(t) ==
  /\ pc[t] \in {"wake", "cvwake", "signal"} /\ ResumeWaiter(t)
  /\ Goto(t, IF pc[t] = "cvwake" THEN "cvsleep" ELSE "out")
  /\ IF pc[t] = "signal" THEN SetJob(t, IF job[t] = "broadcast" THEN "broadcast" ELSE "nothing")
                         ELSE UNCHANGED job

\* The steps of wakers are those.
LEMMA CvWakers ==
  ASSUME NEW t \in Thread
  PROVE  (WakeupOne(t) /\ UNCHANGED jobvars) \/ CvWaitWakeup(t) \/ CvSignal(t) =>
            /\ \/ FindsNobody(t) \/ DequeuesLocker(t) \/ DequeuesGetter(t)
               \/ Marks(t) \/ Resumes(t)
            /\ UNCHANGED <<mtx_owner, items, puts>>
BY Zenon
DEF WakeupOne, CvWaitWakeup, CvSignal, FindsNobody, DequeuesLocker, DequeuesGetter, Marks,
       Resumes, jobvars

\* Where the threads are
LEMMA CvPlacesPreserved ==
  ASSUME Waker = Thread, CvInv, NEW t \in Thread, Begin(t) \/ CvStep(t)
  PROVE  CvPCInv'
<1>1. CvPCInv
  BY Zenon DEF CvInv
<1>2. /\ \A u \in Thread : victim[u] # None => victim[u] \in suspended
      /\ \A u \in Thread : victim[u] # None => \A q \in Queue : sq_lock[q] # victim[u]
      /\ \A u \in Thread : victim[u] # None => victim[u] \in Thread
  BY CvVictims, Zenon
<1>3. CASE Begin(t) \/ Put(t) \/ Get(t)
  BY <1>1, <1>3, CvFacts
  DEF Begin, Put, Get, SetJob, CvPCInv, vars, mtxvars, sqvars, InWait
<1>4. CASE CvLock(t) \/ (LockRetry(t) /\ UNCHANGED jobvars) \/ (Unlock(t) /\ UNCHANGED jobvars)
  BY <1>1, <1>2, <1>4, CvFacts
  DEF CvLock, Lock, LockRetry, Unlock, TryLock, Goto, CvPCInv, sqvars, jobvars, InWait
<1>5. CASE LockPrepare(t) /\ UNCHANGED jobvars
  BY <1>1, <1>2, <1>5, CvFacts
  DEF LockPrepare, PrepareToSleep, Goto, CvPCInv, jobvars, InWait
<1>6. CASE LockCancel(t) /\ UNCHANGED jobvars
  BY <1>1, <1>2, <1>6, CvFacts
  DEF LockCancel, Unsleep, Goto, CvPCInv, jobvars, InWait
<1>7. CASE LockSleep(t) /\ UNCHANGED jobvars
  BY <1>1, <1>2, <1>7, CvFacts
  DEF LockSleep, GoToSleep, Reacquire, WokeUp, Goto, CvPCInv, jobvars, InWait
<1>8. CASE CvWaitPrepare(t)
  BY <1>1, <1>2, <1>8, CvFacts
  DEF CvWaitPrepare, PrepareToSleep, Goto, CvPCInv, jobvars, InWait
<1>9. CASE CvWaitUnlock(t)
  BY <1>1, <1>2, <1>9, CvFacts DEF CvWaitUnlock, Goto, CvPCInv, sqvars, jobvars, InWait
<1>10. CASE CvWaitSleep(t)
  BY <1>1, <1>2, <1>10, CvFacts
  DEF CvWaitSleep, GoToSleep, Reacquire, WokeUp, Goto, CvPCInv, jobvars, InWait
<1>11. CASE FindsNobody(t)
  BY <1>1, <1>11, CvFacts
  DEF FindsNobody, NobodyToWake, Goto, SetJob, CvPCInv, sqvars, InWait
<1>12. CASE DequeuesLocker(t)
  BY <1>1, <1>2, <1>12, CvFacts, CvVictims
  DEF DequeuesLocker, DequeueWaiter, Goto, CvPCInv, InWait
<1>13. CASE DequeuesGetter(t)
  BY <1>1, <1>2, <1>13, CvFacts, CvVictims
  DEF DequeuesGetter, DequeueWaiter, Goto, CvPCInv, InWait
<1>14. CASE Marks(t)
  BY <1>1, <1>2, <1>14, CvFacts DEF Marks, SignalWaiter, CvPCInv, InWait
<1>15. CASE Resumes(t)
  BY <1>1, <1>2, <1>15, CvFacts DEF Resumes, ResumeWaiter, Goto, SetJob, CvPCInv, InWait
<1>16. QED
  BY <1>3, <1>4, <1>5, <1>6, <1>7, <1>8, <1>9, <1>10, <1>11, <1>12, <1>13, <1>14, <1>15,
     CvWakers, Zenon DEF CvStep, MutexStep

\* Who was on the way to the mutex still is, when a step of another thread
\* leaves the mutex alone.
LEMMA StillOnTheWay ==
  ASSUME NoLostWakeup, NEW t \in Thread, UNCHANGED mtx_owner,
         ~OnItsWay(t), pc'[t] # "sleep" \/ (pc'[t] = pc[t] /\ w_sq'[t] = w_sq[t]),
         \A u \in Thread \ {t} : pc'[u] = pc[u] /\ w_sq'[u] = w_sq[u],
         (w_signalled \cup Victims) \ {t} \subseteq (w_signalled \cup Victims)',
         t \in w_signalled \cup Victims => pc'[t] # "sleep" \/ t \in (w_signalled \cup Victims)'
  PROVE  NoLostWakeup'
<1> SUFFICES ASSUME NEW s \in Thread, s \in Sleepers(mtx_sleepq)', pc'[s] = "sleep",
                    mtx_owner' = None
             PROVE  \E u \in Thread : OnItsWay(u)'
  BY Zenon DEF NoLostWakeup, Sleepers
<1>1. s \in Sleepers(mtx_sleepq) /\ pc[s] = "sleep"
  BY Zenon DEF Sleepers
<1>2. PICK u \in Thread : OnItsWay(u)
  BY <1>1, Zenon DEF NoLostWakeup
<1>3. u # t /\ pc'[u] = pc[u]
  BY <1>2, Zenon
<1>4. u \in w_signalled \cup Victims => u \in (w_signalled \cup Victims)'
  BY <1>3, Zenon
<1>5. OnItsWay(u)'
  BY <1>2, <1>3, <1>4, Zenon DEF OnItsWay
<1>6. QED
  BY <1>5, Zenon

\* No wakeup of the mutex is lost, the unlock in Wait included.
LEMMA CvWakeupsPreserved ==
  ASSUME Waker = Thread, CvInv, NEW t \in Thread, Begin(t) \/ CvStep(t)
  PROVE  NoLostWakeup'
<1>1. NoLostWakeup
  BY Zenon DEF CvInv
<1>2. CASE UNCHANGED vars
  BY <1>1, <1>2
  DEF vars, sqvars, mtxvars, NoLostWakeup, OnItsWay, Sleepers, Victims
<1>3. CASE mtx_owner' # None
  BY <1>3, Zenon DEF NoLostWakeup
<1>4. CASE OnItsWay(t)'
  BY <1>4, Zenon DEF NoLostWakeup
<1>5. CASE CvLock(t) \/ LockRetry(t)
  <2>1. mtx_owner' # None
    BY <1>5, CvFacts, Zenon DEF CvLock, Lock, LockRetry, TryLock
  <2>2. QED
    BY <1>3, <2>1, Zenon
<1>6. CASE LockCancel(t) \/ CvWaitPrepare(t)
  <2>1. mtx_owner' # None
    BY <1>6, CvFacts, Zenon DEF LockCancel, CvWaitPrepare, CvInv, MutualExclusion
  <2>2. QED
    BY <1>3, <2>1, Zenon
<1>7. CASE LockPrepare(t) \/ Unlock(t) \/ CvWaitUnlock(t)
  <2>1. OnItsWay(t)'
    BY <1>7, CvFacts, Zenon DEF LockPrepare, Unlock, CvWaitUnlock, Goto, OnItsWay
  <2>2. QED
    BY <1>4, <2>1, Zenon
<1>8. CASE LockSleep(t) \/ CvWaitSleep(t)
  <2>1. CASE WokeUp(t, mtx_sleepq) /\ Goto(t, "prepare")
    <3>1. OnItsWay(t)'
      BY <2>1, CvFacts, Zenon DEF Goto, OnItsWay
    <3>2. QED
      BY <1>4, <3>1, Zenon
  <2>2. CASE UNCHANGED <<pc, mtx_owner, w_sq, w_signalled, victim>>
    BY <1>1, <2>2 DEF NoLostWakeup, OnItsWay, Sleepers, Victims
  <2>3. CASE CvWaitSleep(t) /\ WokeUp(t, cv_sleepq) /\ Goto(t, "out")
    <3>1. Victims' = Victims /\ UNCHANGED mtx_owner
      BY <2>3 DEF WokeUp, Victims, CvWaitSleep
    <3>2. ~OnItsWay(t) /\ pc'[t] # "sleep"
      BY <2>3, CvFacts, Zenon DEF CvWaitSleep, OnItsWay, Goto
    <3>3. \A u \in Thread \ {t} : pc'[u] = pc[u] /\ w_sq'[u] = w_sq[u]
      BY <2>3, CvFacts, Zenon DEF WokeUp, Goto
    <3>4. (w_signalled \cup Victims) \ {t} \subseteq (w_signalled \cup Victims)'
      BY <2>3, <3>1, Zenon DEF WokeUp
    <3>5. QED
      BY <1>1, <3>1, <3>2, <3>3, <3>4, StillOnTheWay, Zenon
  <2>4. QED
    BY <1>8, <2>1, <2>2, <2>3, Zenon DEF LockSleep, CvWaitSleep, GoToSleep, Reacquire
<1>9. CASE FindsNobody(t) /\ UNCHANGED mtx_owner
  <2>1. Victims' = Victims /\ Sleepers(mtx_sleepq)' = Sleepers(mtx_sleepq)
    BY <1>9, Zenon DEF FindsNobody, NobodyToWake, sqvars, Victims, Sleepers
  <2>2. CASE NobodyToWake(mtx_sleepq)
    <3>1. Sleepers(mtx_sleepq) = {}
      BY <2>2, CvFacts DEF NobodyToWake, CvInv, SqInv, SleepersListed, Members
    <3>2. QED
      BY <2>1, <3>1, Zenon DEF NoLostWakeup
  <2>3. CASE UNCHANGED pc /\ NobodyToWake(cv_sleepq)
    BY <1>1, <1>9, <2>1, <2>3, Zenon DEF NobodyToWake, sqvars, NoLostWakeup, OnItsWay
  <2>4. QED
    BY <1>9, <2>2, <2>3, Zenon DEF FindsNobody
<1>10. CASE DequeuesLocker(t)
  <2>1. PICK v : v = Head(sq_sleepers[mtx_sleepq])
    BY Zenon
  <2>2. v \in Thread /\ pc[v] = "sleep" /\ victim'[t] = v
    BY <1>10, <2>1, CvFacts, CvVictims, Zenon DEF DequeuesLocker, DequeueWaiter
  <2>3. v \in Victims' /\ pc'[v] = "sleep"
    BY <1>10, <2>2, CvFacts, Zenon DEF DequeuesLocker, Goto, Victims
  <2>4. QED
    BY <2>2, <2>3, Zenon DEF NoLostWakeup, OnItsWay
<1>11. CASE (DequeuesGetter(t) \/ Marks(t) \/ Resumes(t)) /\ UNCHANGED mtx_owner
  <2>1. ~OnItsWay(t) /\ pc'[t] # "sleep"
    BY <1>11, CvFacts, Zenon DEF DequeuesGetter, Marks, Resumes, OnItsWay, Goto
  <2>2. \A u \in Thread \ {t} : pc'[u] = pc[u] /\ w_sq'[u] = w_sq[u]
    BY <1>11, CvFacts, Zenon
    DEF DequeuesGetter, Marks, Resumes, DequeueWaiter, SignalWaiter, ResumeWaiter, Goto
  <2>3. w_signalled \cup Victims \subseteq (w_signalled \cup Victims)'
    BY <1>11, CvFacts, CvPlaces
    DEF DequeuesGetter, Marks, Resumes, DequeueWaiter, SignalWaiter, ResumeWaiter, Victims
  <2>4. QED
    BY <1>1, <1>11, <2>1, <2>2, <2>3, StillOnTheWay, Zenon
<1>12. QED
  BY <1>2, <1>5, <1>6, <1>7, <1>8, <1>9, <1>10, <1>11, CvWakers, Zenon
  DEF Begin, CvStep, MutexStep, Put, Get

\* How a step of one thread changes the number of tokens.
LEMMA CoveredAfter ==
  ASSUME CvInv, items' \in Nat, Sleepers(cv_sleepq)' # {} => Sleepers(cv_sleepq) # {},
         NEW t,
         \/ Tokens' = Tokens /\ items' = items
         \/ Tokens' = Tokens \cup {t} /\ (items' = items \/ (t \notin Tokens /\ items' = items + 1))
         \/ t \in Tokens /\ Tokens' = Tokens \ {t} /\ items' = items - 1
  PROVE  ItemsCovered'
<1>1. IsFiniteSet(Tokens) /\ items \in Nat
  BY Zenon DEF CvInv, ItemsCovered, CvTypeOK
<1>2. /\ Cardinality(Tokens) \in Nat
      /\ IsFiniteSet(Tokens \cup {t})
      /\ Cardinality(Tokens \cup {t}) =
           IF t \in Tokens THEN Cardinality(Tokens) ELSE Cardinality(Tokens) + 1
      /\ IsFiniteSet(Tokens \ {t})
      /\ Cardinality(Tokens \ {t}) =
           IF t \in Tokens THEN Cardinality(Tokens) - 1 ELSE Cardinality(Tokens)
  BY <1>1, FS_AddElement, FS_RemoveElement, FS_CardinalityType, Zenon
<1>3. Sleepers(cv_sleepq)' # {} => items <= Cardinality(Tokens)
  BY Zenon DEF CvInv, ItemsCovered
<1>4. PICK n \in Nat : n = Cardinality(Tokens)
  BY <1>2, Zenon
<1>5. IsFiniteSet(Tokens') /\ (items <= n => items' <= Cardinality(Tokens'))
  <2>1. CASE Tokens' = Tokens /\ items' = items
    BY <1>1, <1>4, <2>1, Zenon
  <2>2. CASE Tokens' = Tokens \cup {t} /\ items' = items
    BY <1>1, <1>2, <1>4, <2>2
  <2>3. CASE Tokens' = Tokens \cup {t} /\ t \notin Tokens /\ items' = items + 1
    BY <1>1, <1>2, <1>4, <2>3
  <2>4. CASE t \in Tokens /\ Tokens' = Tokens \ {t} /\ items' = items - 1
    BY <1>1, <1>2, <1>4, <2>4
  <2>5. QED
    BY <2>1, <2>2, <2>3, <2>4, Zenon
<1>6. QED
  BY <1>3, <1>4, <1>5, Zenon DEF ItemsCovered

\* The threads in Wait that have not been woken up.
LEMMA WaitersHaveNoToken ==
  ASSUME Waker = Thread, CvInv, NEW t \in Thread
  PROVE  /\ pc[t] \in {"cvunlock", "cvwakeup", "cvwake"} => t \notin w_signalled \cup Victims
         /\ pc[t] \in InWait => job[t] = "get"
BY CvFacts, CvPlaces DEF CvInv, SqInv, SuspendedWhileWaiting, CvPCInv, InWait

\* While somebody sleeps on the condition variable, every item is covered.
LEMMA CoverPreserved ==
  ASSUME Waker = Thread, CvInv, NEW t \in Thread, Begin(t) \/ CvStep(t)
  PROVE  ItemsCovered'
<1>1. items' \in Nat
  BY CvTypesPreserved, Zenon DEF CvTypeOK
<1>2. /\ Tokens \subseteq Thread
      /\ job \in [Thread -> {"nothing", "get", "put", "signal", "broadcast"}]
      /\ pc \in [Thread -> CvPCs]
      /\ CvPCInv
  BY CvFacts, Zenon DEF Tokens, CvInv
<1>3. CASE Begin(t) \/ Put(t) \/ Get(t)
  <2>1. Victims' = Victims /\ Sleepers(cv_sleepq)' = Sleepers(cv_sleepq)
        /\ UNCHANGED <<pc, w_signalled>>
    BY <1>3, Zenon DEF Begin, Put, Get, vars, sqvars, mtxvars, Victims, Sleepers
  <2>2. CASE Begin(t)
    <3>1. items' = items /\ (Tokens' = Tokens \/ Tokens' = Tokens \cup {t})
      BY <1>2, <2>1, <2>2 DEF Begin, SetJob, Tokens
    <3>2. QED
      BY <1>1, <2>1, <3>1, CoveredAfter, Zenon
  <2>3. CASE Put(t)
    <3>1. t \notin Tokens /\ Tokens' = Tokens \cup {t} /\ items' = items + 1
      BY <1>2, <2>1, <2>3, Zenon DEF Put, SetJob, Tokens, InWait
    <3>2. QED
      BY <1>1, <2>1, <3>1, CoveredAfter, Zenon
  <2>4. CASE Get(t)
    <3>1. t \in Tokens /\ Tokens' = Tokens \ {t} /\ items' = items - 1
      BY <1>2, <2>1, <2>4, Zenon DEF Get, SetJob, Tokens, InWait
    <3>2. QED
      BY <1>1, <2>1, <3>1, CoveredAfter, Zenon
  <2>5. QED
    BY <1>3, <2>2, <2>3, <2>4, Zenon
<1>4. CASE CvLock(t) \/ (LockRetry(t) /\ UNCHANGED jobvars) \/ (Unlock(t) /\ UNCHANGED jobvars)
           \/ CvWaitUnlock(t)
  <2>1. Victims' = Victims /\ Sleepers(cv_sleepq)' = Sleepers(cv_sleepq)
        /\ UNCHANGED <<w_signalled, job, items>>
    BY <1>4, Zenon
    DEF CvLock, Lock, LockRetry, Unlock, CvWaitUnlock, sqvars, jobvars, Victims, Sleepers
  <2>2. Tokens' = Tokens
    BY <1>2, <1>4, <2>1, Zenon
    DEF CvLock, Lock, LockRetry, Unlock, CvWaitUnlock, TryLock, Goto, Tokens, InWait
  <2>3. QED
    BY <1>1, <2>1, <2>2, CoveredAfter, Zenon
<1>5. CASE (LockPrepare(t) \/ LockCancel(t) \/ LockSleep(t)) /\ UNCHANGED jobvars
  <2>1. /\ Victims' = Victims
        /\ \A u \in Thread \ {t} : (u \in w_signalled') = (u \in w_signalled)
        /\ \A u \in Thread \ {t} : w_sq'[u] = w_sq[u]
        /\ w_sq'[t] # cv_sleepq
        /\ UNCHANGED <<job, items>>
    BY <1>5, CvFacts, CvPlaces
    DEF LockPrepare, LockCancel, LockSleep, PrepareToSleep, Unsleep, GoToSleep, Reacquire,
        WokeUp, Victims, jobvars
  <2>2. Sleepers(cv_sleepq)' \subseteq Sleepers(cv_sleepq)
    BY <2>1, Zenon DEF Sleepers
  <2>3. /\ pc[t] \notin InWait \cup {"signal"} /\ pc'[t] \notin InWait \cup {"signal"}
        /\ \A u \in Thread \ {t} : pc'[u] = pc[u]
    BY <1>2, <1>5, Zenon DEF LockPrepare, LockCancel, LockSleep, Goto, InWait
  <2>4. Tokens' = Tokens
    BY <2>1, <2>3, Zenon DEF Tokens
  <2>5. QED
    BY <1>1, <2>1, <2>2, <2>4, CoveredAfter, Zenon
<1>6. CASE CvWaitPrepare(t)
  <2>1. items' = 0 /\ UNCHANGED job /\ Victims' = Victims
    BY <1>6, Zenon DEF CvWaitPrepare, PrepareToSleep, Victims, jobvars
  <2>2. Tokens' = Tokens \ {t}
    <3>1. t \notin w_signalled' \cup Victims'
      BY <1>6, <2>1, CvPlaces, NotWaiting, Zenon DEF CvWaitPrepare, PrepareToSleep, CvInv
    <3>2. \A u \in Thread \ {t} : /\ pc'[u] = pc[u]
                                  /\ u \in w_signalled' <=> u \in w_signalled
      BY <1>2, <1>6, Zenon DEF CvWaitPrepare, PrepareToSleep, Goto
    <3>3. job[t] = "get" /\ pc'[t] \in InWait
      BY <1>2, <1>6, Zenon DEF CvWaitPrepare, Goto, InWait
    <3>4. QED
      BY <2>1, <3>1, <3>2, <3>3, Zenon DEF Tokens
  <2>3. IsFiniteSet(Tokens') /\ Cardinality(Tokens') \in Nat
    BY <2>2, FS_RemoveElement, FS_CardinalityType, Zenon DEF CvInv, ItemsCovered
  <2>4. QED
    BY <2>1, <2>3 DEF ItemsCovered
<1>7. CASE CvWaitSleep(t)
  <2>1. Victims' = Victims /\ UNCHANGED <<job, items>>
    BY <1>7 DEF CvWaitSleep, GoToSleep, Reacquire, WokeUp, Victims, jobvars
  <2>2. CASE UNCHANGED <<pc, w_sq, w_signalled, victim>>
    <3>1. Tokens' = Tokens /\ Sleepers(cv_sleepq)' = Sleepers(cv_sleepq)
      BY <2>1, <2>2, Zenon DEF Tokens, Sleepers
    <3>2. QED
      BY <1>1, <2>1, <3>1, CoveredAfter, Zenon
  <2>3. CASE WokeUp(t, cv_sleepq) /\ Goto(t, "out")
    <3>1. Sleepers(cv_sleepq)' \subseteq Sleepers(cv_sleepq)
      BY <2>1, <2>3, CvFacts, Zenon DEF WokeUp, Sleepers
    <3>2. /\ \A u \in Thread \ {t} : /\ pc'[u] = pc[u]
                                     /\ u \in w_signalled' <=> u \in w_signalled
          /\ job[t] = "get" /\ pc'[t] \notin InWait /\ t \in w_signalled
      BY <1>2, <1>7, <2>3, WaitersHaveNoToken, Zenon DEF CvWaitSleep, WokeUp, Goto, InWait
    <3>3. Tokens' = Tokens
      BY <2>1, <3>2, Zenon DEF Tokens
    <3>4. QED
      BY <1>1, <2>1, <3>1, <3>3, CoveredAfter, Zenon
  <2>4. QED
    BY <1>7, <2>2, <2>3, Zenon DEF CvWaitSleep, GoToSleep, Reacquire
<1>8. CASE FindsNobody(t) /\ UNCHANGED items
  <2>1. Victims' = Victims /\ Sleepers(cv_sleepq)' = Sleepers(cv_sleepq)
        /\ UNCHANGED w_signalled
    BY <1>8, Zenon DEF FindsNobody, NobodyToWake, sqvars, Victims, Sleepers
  <2>2. CASE /\ pc[t] \in {"unlock", "cvwakeup"} /\ UNCHANGED job
             /\ Goto(t, IF pc[t] = "unlock" THEN "out" ELSE "cvsleep")
    <3>1. Tokens' = Tokens
      BY <1>2, <2>1, <2>2, Zenon DEF Goto, Tokens, InWait
    <3>2. QED
      BY <1>1, <1>8, <2>1, <3>1, CoveredAfter, Zenon
  <2>3. CASE NobodyToWake(cv_sleepq) /\ SetJob(t, "nothing") /\ UNCHANGED pc
    <3>1. Sleepers(cv_sleepq) = {}
      <4>1. sq_sleepers[cv_sleepq] = <<>>
        BY <2>3, Zenon DEF NobodyToWake
      <4>2. Members(sq_sleepers[cv_sleepq]) = Sleepers(cv_sleepq)
        BY CvFacts, Zenon DEF CvInv, SqInv, SleepersListed
      <4>3. Members(<<>>) = {}
        BY DEF Members
      <4>4. QED
        BY <4>1, <4>2, <4>3, Zenon
    <3>2. Tokens' = Tokens \ {t}
      BY <1>2, <2>1, <2>3, Zenon DEF SetJob, Tokens
    <3>3. IsFiniteSet(Tokens')
      BY <3>2, FS_RemoveElement, Zenon DEF CvInv, ItemsCovered
    <3>4. QED
      BY <2>1, <3>1, <3>3, Zenon DEF ItemsCovered
  <2>4. QED
    BY <1>8, <2>2, <2>3, Zenon DEF FindsNobody
<1>9. CASE (DequeuesLocker(t) \/ DequeuesGetter(t)) /\ UNCHANGED items
  <2>1. PICK q \in {mtx_sleepq, cv_sleepq} :
          /\ DequeueWaiter(t, q)
          /\ q = mtx_sleepq => DequeuesLocker(t)
          /\ q = cv_sleepq => DequeuesGetter(t)
    BY <1>9, CvFacts, Zenon DEF DequeuesLocker, DequeuesGetter
  <2>2. PICK v : v = Head(sq_sleepers[q])
    BY Zenon
  <2>3. /\ v \in Thread /\ v \notin w_signalled \cup Victims
        /\ pc[v] = IF q = mtx_sleepq THEN "sleep" ELSE "cvsleep"
        /\ victim[t] = None
        /\ victim' = [victim EXCEPT ![t] = v]
        /\ UNCHANGED <<w_sq, w_signalled, job>>
    BY <2>1, <2>2, CvFacts, CvVictims, CvPlaces, Zenon
    DEF DequeueWaiter, Sleepers, DequeuesLocker, DequeuesGetter
  <2>4. Victims' = Victims \cup {v}
    BY <2>3, CvFacts DEF Victims
  <2>5. Sleepers(cv_sleepq)' \subseteq Sleepers(cv_sleepq)
    BY <2>3, <2>4, Zenon DEF Sleepers
  <2>6. CASE q = mtx_sleepq
    <3>1. /\ pc[t] \in {"unlock", "cvwakeup"}
          /\ pc' = [pc EXCEPT ![t] = IF pc[t] = "unlock" THEN "wake" ELSE "cvwake"]
      BY <2>1, <2>6, Zenon DEF DequeuesLocker, Goto
    <3>2. t # v
      BY <2>3, <2>6, <3>1, Zenon
    <3>3. Tokens' = Tokens
      BY <1>2, <2>3, <2>4, <2>6, <3>1, <3>2, Zenon DEF Tokens, InWait
    <3>4. QED
      BY <1>1, <1>9, <2>5, <3>3, CoveredAfter, Zenon
  <2>7. CASE q = cv_sleepq
    <3>1. /\ pc[t] = "out" /\ job[t] \in {"signal", "broadcast"}
          /\ pc' = [pc EXCEPT ![t] = "signal"]
          /\ pc[v] = "cvsleep" /\ job[v] = "get"
      BY <2>1, <2>3, <2>7, CvFacts, WaitersHaveNoToken, Zenon DEF DequeuesGetter, Goto, InWait
    <3>2. t \in Tokens /\ v \notin Tokens
      BY <2>3, <3>1, Zenon DEF Tokens, InWait
    <3>3. Tokens' = (Tokens \ {t}) \cup {v}
      BY <1>2, <2>3, <2>4, <3>1, Zenon DEF Tokens, InWait
    <3>4. IsFiniteSet(Tokens) /\ Cardinality(Tokens) \in Nat
      BY FS_CardinalityType, Zenon DEF CvInv, ItemsCovered
    <3>5. IsFiniteSet(Tokens \ {t}) /\ Cardinality(Tokens \ {t}) = Cardinality(Tokens) - 1
      BY <3>2, <3>4, FS_RemoveElement, Zenon
    <3>6. v \notin Tokens \ {t}
      BY <3>2, Zenon
    <3>7. IsFiniteSet(Tokens') /\ Cardinality(Tokens') = Cardinality(Tokens \ {t}) + 1
      BY <3>3, <3>5, <3>6, FS_AddElement, Zenon
    <3>8. QED
      BY <1>9, <2>5, <3>4, <3>5, <3>7 DEF CvInv, ItemsCovered
  <2>8. QED
    BY <2>1, <2>6, <2>7, Zenon
<1>10. CASE (Marks(t) \/ Resumes(t)) /\ UNCHANGED items
  <2>1. /\ (w_signalled \cup Victims)' = w_signalled \cup Victims
        /\ UNCHANGED w_sq
    BY <1>10, CvFacts, CvPlaces, CvVictims
    DEF Marks, Resumes, SignalWaiter, ResumeWaiter, Victims
  <2>2. Sleepers(cv_sleepq)' = Sleepers(cv_sleepq)
    BY <2>1, Zenon DEF Sleepers
  <2>3. CASE Marks(t)
    <3>1. Tokens' = Tokens
      BY <2>1, <2>3, Zenon DEF Marks, Tokens
    <3>2. QED
      BY <1>1, <1>10, <2>2, <3>1, CoveredAfter, Zenon
  <2>4. CASE Resumes(t)
    <3>1. \A u \in Thread \ {t} : pc'[u] = pc[u] /\ job'[u] = job[u]
      BY <1>2, <2>4, Zenon DEF Resumes, Goto, SetJob
    <3>2. \A u \in Thread \ {t} : u \in Tokens' <=> u \in Tokens
      BY <2>1, <3>1, Zenon DEF Tokens
    <3>3. t \in Tokens => t \in Tokens'
      <4>1. CASE pc[t] = "signal"
        <5>1. job[t] \in {"signal", "broadcast"}
          BY <1>2, <4>1, Zenon DEF CvPCInv
        <5>2. QED
          BY <4>1, <5>1, Zenon DEF Tokens
      <4>2. CASE pc[t] = "wake"
        BY <1>2, <2>4, <4>2, Zenon DEF Resumes, Goto, Tokens, InWait
      <4>3. CASE pc[t] = "cvwake"
        BY <1>2, <2>1, <2>4, <4>3, Zenon DEF Resumes, Goto, Tokens, InWait
      <4>4. QED
        BY <2>4, <4>1, <4>2, <4>3, Zenon DEF Resumes
    <3>4. Tokens' \subseteq Thread
      BY Zenon DEF Tokens
    <3>5. Tokens' = Tokens \/ Tokens' = Tokens \cup {t}
      BY <1>2, <3>2, <3>3, <3>4
    <3>6. QED
      BY <1>1, <1>10, <2>2, <3>5, CoveredAfter, Zenon
  <2>5. QED
    BY <1>10, <2>3, <2>4, Zenon
<1>11. QED
  BY <1>3, <1>4, <1>5, <1>6, <1>7, <1>8, <1>9, <1>10, CvWakers, Zenon DEF CvStep, MutexStep

-----------------------------------------------------------------------------
\* The invariant of condition variables, of the mutex and of their two sleep
\* queues holds for any number of threads that put, get, signal and broadcast.
THEOREM CvInvariance ==
  ASSUME Waker = Thread
  PROVE  CvSpec => []CvInv
<1>1. CvInit => CvInv
  BY CvInitInv, Zenon
<1>2. CvInv /\ [CvNext]_cvvars => CvInv'
  <2> SUFFICES ASSUME CvInv, [CvNext]_cvvars
               PROVE  CvInv'
    BY Zenon
  <2>1. CASE UNCHANGED cvvars
    <3>0. Victims' = Victims /\ \A q : Sleepers(q)' = Sleepers(q)
      BY <2>1, Zenon DEF cvvars, vars, sqvars, Victims, Sleepers
    <3>1. SqInv' /\ NoLostWakeup' /\ MutualExclusion'
      <4>1. SqTypeOK' /\ SleepersListed'
        BY <2>1, <3>0, Zenon DEF cvvars, vars, sqvars, CvInv, SqInv, SqTypeOK, SleepersListed
      <4>2. SuspendedWhileWaiting' /\ OnlySignalledReturn' /\ SpinlockHolder'
        BY <2>1, <3>0, Zenon DEF cvvars, vars, sqvars, mtxvars, CvInv, SqInv,
                          SuspendedWhileWaiting, OnlySignalledReturn, SpinlockHolder
      <4>3. MutualExclusion' /\ NoLostWakeup'
        BY <2>1, <3>0, Zenon DEF cvvars, vars, sqvars, mtxvars, CvInv, MutualExclusion,
                          NoLostWakeup, OnItsWay
      <4>4. QED
        BY <4>1, <4>2, <4>3, Zenon DEF SqInv
    <3>2. CvTypeOK' /\ CvPCInv'
      BY <2>1, <3>1 DEF cvvars, vars, sqvars, mtxvars, jobvars, CvInv, SqInv, CvTypeOK, CvPCInv
    <3>3. Tokens' = Tokens /\ Sleepers(cv_sleepq)' = Sleepers(cv_sleepq)
      BY <2>1, Zenon DEF cvvars, vars, sqvars, mtxvars, jobvars, Tokens, Sleepers, Victims
    <3>4. ItemsCovered'
      BY <2>1, <3>3, Zenon DEF cvvars, jobvars, CvInv, ItemsCovered
    <3>5. QED
      BY <3>1, <3>2, <3>4, Zenon DEF CvInv
  <2>2. CASE CvNext
    <3>1. PICK t \in Thread : Begin(t) \/ CvStep(t)
      BY <2>2, Zenon DEF CvNext
    <3>2. QED
      BY <3>1, CvQueuePreserved, CvTypesPreserved, CvPlacesPreserved, CvWakeupsPreserved,
         CoverPreserved, Zenon DEF CvInv
  <2>3. QED
    BY <2>1, <2>2, Zenon
<1>3. QED
  BY <1>1, <1>2, PTL DEF CvSpec

\* Users of a mutex and a condition variable exclude each other and lose no
\* wakeup of the mutex, and nobody resumes a thread that is not suspended.
THEOREM CvSafety ==
  ASSUME Waker = Thread
  PROVE  CvSpec => [](MutualExclusion /\ NoLostWakeup /\ SuspendedWhileWaiting)
<1>1. CvInv => MutualExclusion /\ NoLostWakeup /\ SuspendedWhileWaiting
  BY Zenon DEF CvInv, SqInv
<1>2. QED
  BY <1>1, CvInvariance, PTL

\* Wait, Signal and Broadcast leave no thread asleep while there are items that
\* nobody is coming for, whatever happens between the look, the unlock and the
\* sleep.
THEOREM NoSignalLost ==
  ASSUME Waker = Thread
  PROVE  CvSpec => []NoItemWhileAsleep
<1>1. CvInv => NoItemWhileAsleep
  <2> SUFFICES ASSUME CvInv, items > 0, Sleepers(cv_sleepq) # {}
               PROVE  \E u \in Thread : Coming(u)
    BY Zenon DEF NoItemWhileAsleep
  <2>1. items \in Nat /\ items <= Cardinality(Tokens)
    BY Zenon DEF CvInv, CvTypeOK, ItemsCovered
  <2>2. Tokens # {}
    BY <2>1, FS_EmptySet
  <2>3. PICK u : u \in Tokens
    BY <2>2, Zenon
  <2>4. QED
    BY <2>3, Zenon DEF Tokens, Coming
<1>2. QED
  BY <1>1, CvInvariance, PTL
=============================================================================
