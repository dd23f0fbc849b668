-------------------------- MODULE SchedulerProofs ---------------------------
(***************************************************************************)
(* The invariants of Scheduler, for any number of processors and threads.  *)
(***************************************************************************)
EXTENDS Scheduler, ListProofs, WellFoundedInduction

-----------------------------------------------------------------------------
\* The positions the queues are searched for exist.

\* A nonempty set of naturals has a least element: the first match of a search
\* along a list.
LEMMA LeastNat ==
  ASSUME NEW T, T \subseteq Nat, T # {}
  PROVE  \E x \in T : \A y \in T : x <= y
<1>1. PICK x \in T : \A y \in T : ~(<<y, x>> \in OpToRel(<, Nat))
  BY WFMin, NatLessThanWellFounded, Zenon
<1>2. ASSUME NEW y \in T
      PROVE  x <= y
  <2>1. x \in Nat /\ y \in Nat
    BY Zenon
  <2>2. ~(y < x)
    BY <1>1, <2>1, Zenon DEF OpToRel
  <2>3. QED
    BY <2>1, <2>2
<1>3. QED
  BY <1>2, Zenon

\* AddThreadToRunQueue finds its position in every queue.
LEMMA RunQueuePositionExists ==
  ASSUME NEW q \in Seq(Thread), NEW t \in Thread
  PROVE  LET i == RunQueuePosition(q, t)
         IN /\ i \in 1 .. Len(q) + 1
            /\ i <= Len(q) => Priority[q[i]] > Priority[t]
            /\ \A j \in 1 .. i - 1 : Priority[q[j]] <= Priority[t]
<1> DEFINE T == {k \in 1 .. Len(q) : Priority[q[k]] > Priority[t]} \cup {Len(q) + 1}
<1>1. Len(q) \in Nat /\ \A k \in 1 .. Len(q) : q[k] \in Thread
  OBVIOUS
<1>2. T \subseteq Nat /\ T # {}
  BY <1>1
<1>3. PICK i \in T : \A k \in T : i <= k
  BY <1>2, LeastNat, Zenon
<1>4. i \in 1 .. Len(q) + 1 /\ (i <= Len(q) => Priority[q[i]] > Priority[t])
  BY <1>1
<1>5. ASSUME NEW j \in 1 .. i - 1
      PROVE  Priority[q[j]] <= Priority[t]
  <2>1. j \in 1 .. Len(q) /\ j \notin T
    BY <1>1, <1>3, <1>4
  <2>2. ~(Priority[q[j]] > Priority[t])
    BY <2>1, Zenon
  <2>3. Priority[q[j]] \in Nat /\ Priority[t] \in Nat
    BY <1>1, <2>1, SchedulerAssumption, Zenon
  <2>4. QED
    BY <2>2, <2>3
<1>6. QED
  BY <1>4, <1>5, Zenon DEF RunQueuePosition

\* AddThreadToSleepQueue finds its position in every queue.
LEMMA SleepQueuePositionExists ==
  ASSUME NEW q \in Seq(Thread), NEW t \in Thread
  PROVE  LET p == SleepQueuePosition(q, t)
             Earlier(s) == s \in timed /\ t_timeout[s] < t_timeout[t]
         IN /\ p \in 1 .. Len(q) + 1
            /\ t \in timed => /\ p <= Len(q) => ~Earlier(q[p])
                              /\ \A j \in 1 .. p - 1 : Earlier(q[j])
            /\ t \notin timed => p = Len(q) + 1
<1> DEFINE Earlier(s) == s \in timed /\ t_timeout[s] < t_timeout[t]
           T == {k \in 1 .. Len(q) : ~Earlier(q[k])} \cup {Len(q) + 1}
           P(i) == IF t \in timed
                   THEN /\ i <= Len(q) => ~Earlier(q[i])
                        /\ \A j \in 1 .. i - 1 : Earlier(q[j])
                   ELSE i = Len(q) + 1
<1>1. Len(q) \in Nat
  OBVIOUS
<1>2. T \subseteq Nat /\ T # {}
  BY <1>1
<1> HIDE DEF Earlier
<1>3. PICK i \in T : \A k \in T : i <= k
  BY <1>2, LeastNat, Zenon
<1>4. i \in 1 .. Len(q) + 1 /\ (i <= Len(q) => ~Earlier(q[i]))
  BY <1>1
<1>5. ASSUME NEW j \in 1 .. i - 1
      PROVE  Earlier(q[j])
  <2>1. j \in 1 .. Len(q) /\ j \notin T
    BY <1>1, <1>3, <1>4
  <2>2. QED
    BY <2>1, Zenon
<1>6. \E k \in 1 .. Len(q) + 1 : P(k)
  BY <1>1, <1>4, <1>5
<1>7. SleepQueuePosition(q, t) = CHOOSE k \in 1 .. Len(q) + 1 : P(k)
  BY Zenon DEF SleepQueuePosition, Earlier
<1>8. SleepQueuePosition(q, t) \in 1 .. Len(q) + 1 /\ P(SleepQueuePosition(q, t))
  BY <1>6, <1>7, Zenon
<1>9. QED
  BY <1>8, Zenon DEF Earlier

\* The two queue insertions of scheduler.cpp add exactly the given thread.
LEMMA AddHolds ==
  ASSUME NEW q, NEW S, Holds(q, S), S \subseteq Thread,
         NEW t \in Thread, t \notin S
  PROVE  /\ Holds(AddThreadToRunQueue(q, t), S \cup {t})
         /\ Holds(AddThreadToSleepQueue(q, t), S \cup {t})
<1>1. q \in Seq(Thread)
  BY HoldsType, Zenon
<1>2. RunQueuePosition(q, t) \in 1 .. Len(q) + 1
  BY <1>1, RunQueuePositionExists, Zenon
<1>3. SleepQueuePosition(q, t) \in 1 .. Len(q) + 1
  BY <1>1, SleepQueuePositionExists, Zenon
<1>4. QED
  BY <1>2, <1>3, InsertHolds, Zenon DEF AddThreadToRunQueue, AddThreadToSleepQueue

\* PickNextThreadToSchedule returns the first eligible thread, if there is one.
LEMMA PickProperties ==
  ASSUME NEW q \in Seq(Thread), NEW c \in CPU,
         \E i \in 1 .. Len(q) : Eligible(c, q[i])
  PROVE  \E i \in 1 .. Len(q) :
           /\ PickNextThreadToSchedule(c, q) = q[i]
           /\ Eligible(c, q[i])
           /\ \A j \in 1 .. i - 1 : ~Eligible(c, q[j])
<1> DEFINE T == {k \in 1 .. Len(q) : Eligible(c, q[k])}
           P(i) == /\ Eligible(c, q[i])
                   /\ \A j \in 1 .. i - 1 : ~Eligible(c, q[j])
<1>1. Len(q) \in Nat
  OBVIOUS
<1>2. T \subseteq Nat /\ T # {}
  BY <1>1
<1>3. PICK i \in T : \A k \in T : i <= k
  BY <1>2, LeastNat, Zenon
<1>4. ASSUME NEW j \in 1 .. i - 1
      PROVE  ~Eligible(c, q[j])
  <2>1. j \in 1 .. Len(q) /\ ~(i <= j)
    BY <1>1, <1>3
  <2>2. QED
    BY <1>3, <2>1, Zenon
<1>5. \E k \in 1 .. Len(q) : P(k)
  BY <1>4, Zenon
<1>6. PickNextThreadToSchedule(c, q) = q[CHOOSE k \in 1 .. Len(q) : P(k)]
  BY Zenon DEF PickNextThreadToSchedule
<1> HIDE DEF P
<1>7. PICK k \in 1 .. Len(q) : P(k) /\ PickNextThreadToSchedule(c, q) = q[k]
  BY <1>5, <1>6, Zenon
<1>8. QED
  BY <1>7, Zenon DEF P

-----------------------------------------------------------------------------
\* Facts about the state

\* What the assumptions say of processors and idle threads.
LEMMA ConstantFacts ==
  /\ NumCPUs \in Nat \ {0}
  /\ BSP \in CPU
  /\ IdleThread \in [CPU -> Thread]
  /\ IdleThreads \subseteq Thread
  /\ \A c \in CPU : IdleThread[c] \in IdleThreads
  /\ \A t \in IdleThreads : \E c \in CPU : t = IdleThread[c]
  /\ \A c, d \in CPU : IdleThread[c] = IdleThread[d] => c = d
  /\ None \notin Thread
BY SchedulerAssumption DEF IdleThreads, CPU, BSP

\* The queues, as the invariant describes them.
LEMMA QueuesHold ==
  ASSUME TypeOK, QueueMembership
  PROVE  /\ Holds(sched_runqueue, allThreads \ (suspended \cup zombie))
         /\ Holds(sched_sleepqueue, suspended)
<1>1. Holds(sched_runqueue, Members(sched_runqueue))
  BY HoldsMembers, Zenon DEF TypeOK, QueueMembership
<1>2. Holds(sched_sleepqueue, Members(sched_sleepqueue))
  BY HoldsMembers, Zenon DEF TypeOK, QueueMembership
<1>3. QED
  BY <1>1, <1>2, Zenon DEF QueueMembership

\* AlwaysEligible follows from the inductive invariant: the idle thread is on
\* the runqueue, and no other processor makes it active.
LEMMA IdleIsEligible ==
  ASSUME IInv, NEW c \in CPU, curthread[c] # None, prev[c] = None
  PROVE  /\ IdleThread[c] \in allThreads \ (suspended \cup zombie)
         /\ Eligible(c, IdleThread[c])
<1>1. IdleThread[c] \in allThreads \ (suspended \cup zombie)
  BY ConstantFacts, Zenon DEF IInv, IdleInv
<1>2. ASSUME IdleThread[c] \in active
      PROVE  IdleThread[c] = curthread[c]
  <2>1. PICK d \in CPU : IdleThread[c] \in Contexts(d)
    BY <1>2, Zenon DEF IInv, ContextInv
  <2>2. d = c
    BY <2>1, Zenon DEF IInv, IdleInv
  <2>3. QED
    BY <2>1, <2>2, ConstantFacts, Zenon DEF Contexts
<1>3. QED
  BY <1>1, <1>2, Zenon DEF Eligible

\* What WakeupSleepingThreads takes off the sleepqueue.
LEMMA ExpiredFacts ==
  ASSUME IInv
  PROVE  /\ Expired \subseteq suspended \cap timed
         /\ Expired # {} => sched_sleepqueue # <<>> /\ Expired = {Head(sched_sleepqueue)}
<1>1. Holds(sched_sleepqueue, suspended)
  BY QueuesHold, Zenon DEF IInv
<1>2. sched_sleepqueue # <<>> => Head(sched_sleepqueue) \in suspended
  BY <1>1, TailHolds, Zenon
<1>3. QED
  BY <1>2, Zenon DEF Expired

\* The runqueue after WakeupSleepingThreads.
LEMMA AwakeFacts ==
  ASSUME IInv
  PROVE  LET awake == IF Expired = {} THEN sched_runqueue
                      ELSE AddThreadToRunQueue(sched_runqueue, Head(sched_sleepqueue))
             rest == IF Expired = {} THEN sched_sleepqueue
                     ELSE Tail(sched_sleepqueue)
         IN /\ Holds(awake, allThreads \ ((suspended \ Expired) \cup zombie))
            /\ Holds(rest, suspended \ Expired)
<1> DEFINE R == allThreads \ (suspended \cup zombie)
           h == Head(sched_sleepqueue)
<1>1. /\ Holds(sched_runqueue, R) /\ Holds(sched_sleepqueue, suspended)
      /\ R \subseteq Thread /\ suspended \subseteq Thread
  BY QueuesHold, Zenon DEF IInv, TypeOK
<1>2. CASE Expired = {}
  BY <1>1, <1>2, Zenon
<1>3. CASE Expired # {}
  <2>1. sched_sleepqueue # <<>> /\ Expired = {h}
    BY <1>3, ExpiredFacts, Zenon
  <2>2. h \in suspended /\ Holds(Tail(sched_sleepqueue), suspended \ {h})
    BY <1>1, <2>1, TailHolds, Zenon
  <2>3. h \in Thread /\ h \in allThreads \ zombie
    BY <2>2, Zenon DEF IInv, TypeOK, QueueMembership
  <2>4. Holds(AddThreadToRunQueue(sched_runqueue, h), R \cup {h})
    BY <1>1, <2>2, <2>3, AddHolds, Zenon
  <2>5. R \cup {h} = allThreads \ ((suspended \ Expired) \cup zombie)
    BY <2>1, <2>2, <2>3, Zenon
  <2> HIDE DEF h, R
  <2>6. QED
    BY <1>3, <2>1, <2>2, <2>4, <2>5, Zenon DEF h
<1>4. QED
  BY <1>2, <1>3, Zenon

\* The effect of the critical section of Schedule, when it picks new.
ScheduledTo(c, new) ==
  /\ new \in Thread
  /\ new \in allThreads \ (suspended' \cup zombie)
  /\ Eligible(c, new)
  /\ suspended' \subseteq suspended
  /\ suspended \subseteq suspended' \cup timed
  /\ timed' \subseteq timed
  /\ Holds(sched_runqueue', allThreads \ (suspended' \cup zombie))
  /\ Holds(sched_sleepqueue', suspended')
  /\ active' = active \cup {new}
  /\ curthread' = [curthread EXCEPT ![c] = new]
  /\ prev' = [prev EXCEPT ![c] = IF new = curthread[c] THEN None ELSE curthread[c]]
  /\ UNCHANGED <<allThreads, zombie, t_timeout, ticks>>

\* Schedule always picks a thread and keeps the queues in order.
LEMMA ScheduleFacts ==
  ASSUME IInv, NEW c \in CPU, curthread[c] # None, prev[c] = None, Schedule(c)
  PROVE  \E new : ScheduledTo(c, new)
<1> DEFINE cur == curthread[c]
           awake == IF Expired = {} THEN sched_runqueue
                    ELSE AddThreadToRunQueue(sched_runqueue, Head(sched_sleepqueue))
           rest == IF Expired = {} THEN sched_sleepqueue
                   ELSE Tail(sched_sleepqueue)
           new == PickNextThreadToSchedule(c, awake)
           A == allThreads \ ((suspended \ Expired) \cup zombie)
<1>1. Holds(awake, A) /\ Holds(rest, suspended \ Expired)
  BY AwakeFacts, Zenon
<1>2. /\ sched_sleepqueue' = rest
      /\ suspended' = suspended \ Expired
      /\ timed' = timed \ Expired
      /\ sched_runqueue' = Requeue(awake, cur)
      /\ active' = active \cup {new}
      /\ curthread' = [curthread EXCEPT ![c] = new]
      /\ prev' = [prev EXCEPT ![c] = IF new = cur THEN None ELSE cur]
      /\ UNCHANGED <<allThreads, zombie, t_timeout, ticks>>
  BY Zenon DEF Schedule
<1>2a. A \subseteq Thread
  BY Zenon DEF IInv, TypeOK
<1> HIDE DEF awake, rest
<1>3. new \in A /\ new \in Thread /\ Eligible(c, new)
  <2>1. awake \in Seq(Thread)
    BY <1>1, <1>2a, HoldsType, Zenon
  <2>2. /\ \A i \in 1 .. Len(awake) : awake[i] \in A
        /\ \A x \in A : \E i \in 1 .. Len(awake) : awake[i] = x
    <3> HIDE DEF A
    <3>1. QED
      BY <1>1, HoldsFacts, Zenon
  <2>3. IdleThread[c] \in A /\ Eligible(c, IdleThread[c])
    BY IdleIsEligible, Zenon
  <2>4. \E i \in 1 .. Len(awake) : Eligible(c, awake[i])
    BY <2>2, <2>3, Zenon
  <2>5. PICK i \in 1 .. Len(awake) : new = awake[i] /\ Eligible(c, awake[i])
    BY <2>1, <2>4, PickProperties, Zenon
  <2>6. QED
    BY <1>2a, <2>2, <2>5, Zenon
<1>4. Holds(Requeue(awake, cur), A)
  <2>1. CASE cur \in (suspended \ Expired) \cup zombie
    BY <1>1, <2>1, Zenon DEF Requeue
  <2>2. CASE cur \notin (suspended \ Expired) \cup zombie
    <3>1. cur \in A /\ cur \in Thread
      BY <2>2, Zenon DEF IInv, NoFreedContext, Contexts, TypeOK
    <3>2. Holds(Remove(awake, cur), A \ {cur})
      BY <1>1, <3>1, RemoveHolds, Zenon
    <3>3. Holds(AddThreadToRunQueue(Remove(awake, cur), cur), (A \ {cur}) \cup {cur})
      BY <1>2a, <3>1, <3>2, AddHolds, Zenon
    <3>4. (A \ {cur}) \cup {cur} = A
      BY <3>1, Zenon
    <3> HIDE DEF cur, A
    <3>5. QED
      BY <2>2, <3>3, <3>4, Zenon DEF Requeue
  <2>3. QED
    BY <2>1, <2>2, Zenon
<1>5. Expired \subseteq suspended \cap timed
  BY ExpiredFacts, Zenon
<1> HIDE DEF new
<1>6. ScheduledTo(c, new)
  BY <1>1, <1>2, <1>3, <1>4, <1>5, Zenon DEF ScheduledTo
<1>7. QED
  BY <1>6, Zenon
-----------------------------------------------------------------------------
\* The inductive invariant holds initially and is preserved by every action.

\* What the queues must satisfy, as TypeOK and QueueMembership state it.
LEMMA QueuesPreserved ==
  ASSUME Holds(sched_runqueue', allThreads' \ (suspended' \cup zombie')),
         Holds(sched_sleepqueue', suspended'),
         suspended' \subseteq allThreads'
  PROVE  /\ sched_runqueue' \in Seq(allThreads')
         /\ sched_sleepqueue' \in Seq(allThreads')
         /\ NoDuplicates(sched_runqueue')
         /\ NoDuplicates(sched_sleepqueue')
         /\ Members(sched_runqueue') = allThreads' \ (suspended' \cup zombie')
         /\ Members(sched_sleepqueue') = suspended'
<1>1. sched_runqueue' \in Seq(allThreads')
  BY HoldsType, allThreads' \ (suspended' \cup zombie') \subseteq allThreads', Zenon
<1>2. sched_sleepqueue' \in Seq(allThreads')
  BY HoldsType, Zenon
<1>3. QED
  BY <1>1, <1>2, Zenon DEF Holds

\* Creating a thread (thread_alloc, kthread_alloc).
LEMMA InitThreadPreserves ==
  ASSUME IInv, NEW t \in Thread, InitThread(t)
  PROVE  IInv'
<1> USE DEF IInv, InitThread, cpus
<1>1. /\ Holds(sched_runqueue, allThreads \ (suspended \cup zombie))
      /\ Holds(sched_sleepqueue, suspended)
      /\ t \notin suspended \cup zombie
  BY QueuesHold, Zenon DEF QueueMembership
<1>2. Holds(sched_sleepqueue', suspended')
  BY <1>1, AppendHolds, Zenon
<1>3. Holds(sched_runqueue', allThreads' \ (suspended' \cup zombie'))
  <2>1. allThreads' \ (suspended' \cup zombie') = allThreads \ (suspended \cup zombie)
    BY <1>1, Zenon
  <2>2. QED
    BY <1>1, <2>1, Zenon
<1>4. suspended' \subseteq allThreads'
  BY Zenon DEF QueueMembership
<1>5. TypeOK'
  BY <1>2, <1>3, <1>4, QueuesPreserved, Zenon DEF TypeOK, PCs
<1>6. QueueMembership'
  BY <1>1, <1>2, <1>3, <1>4, QueuesPreserved DEF QueueMembership
<1>7. \A c \in CPU : t \notin Contexts(c)
  BY Zenon DEF NoFreedContext
<1>8. OneProcessorPerThread' /\ NoFreedContext' /\ ContextInv'
  BY Zenon DEF OneProcessorPerThread, NoFreedContext, ContextInv, Contexts
<1>9. t \notin IdleThreads
  BY Zenon DEF IdleInv
<1>10. IdleInv'
  BY <1>9, ConstantFacts DEF IdleInv, Contexts, TypeOK
<1>11. RunInv'
  BY <1>7, Zenon DEF RunInv, Contexts, TypeOK
<1>12. QED
  BY <1>5, <1>6, <1>8, <1>10, <1>11, Zenon

\* ResumeThread and StartAP
LEMMA MoveToRunQueueHolds ==
  ASSUME IInv, NEW t \in suspended, MoveToRunQueue(t),
         allThreads' = allThreads, zombie' = zombie
  PROVE  /\ Holds(sched_runqueue', allThreads' \ (suspended' \cup zombie'))
         /\ Holds(sched_sleepqueue', suspended')
         /\ suspended' \subseteq allThreads'
<1> DEFINE R == allThreads \ (suspended \cup zombie)
<1>1. /\ Holds(sched_runqueue, R) /\ Holds(sched_sleepqueue, suspended)
      /\ R \subseteq Thread /\ suspended \subseteq Thread
  BY QueuesHold, Zenon DEF IInv, TypeOK
<1>2. t \in Thread /\ t \in allThreads \ zombie
  BY Zenon DEF IInv, TypeOK, QueueMembership
<1>3. Holds(sched_sleepqueue', suspended')
  BY <1>1, RemoveHolds, Zenon DEF MoveToRunQueue
<1>4. Holds(sched_runqueue', R \cup {t})
  BY <1>1, <1>2, AddHolds, Zenon DEF MoveToRunQueue
<1>5. R \cup {t} = allThreads' \ (suspended' \cup zombie')
  BY <1>2, Zenon DEF MoveToRunQueue
<1>6. suspended' \subseteq allThreads'
  BY Zenon DEF MoveToRunQueue, IInv, QueueMembership
<1> HIDE DEF R
<1>7. QED
  BY <1>3, <1>4, <1>5, <1>6, Zenon

\* SuspendThread moves the thread from the runqueue to the sleepqueue.
LEMMA MoveToSleepQueueHolds ==
  ASSUME IInv, NEW t \in allThreads \ (suspended \cup zombie), MoveToSleepQueue(t),
         allThreads' = allThreads, zombie' = zombie
  PROVE  /\ Holds(sched_runqueue', allThreads' \ (suspended' \cup zombie'))
         /\ Holds(sched_sleepqueue', suspended')
         /\ suspended' \subseteq allThreads'
<1> DEFINE R == allThreads \ (suspended \cup zombie)
<1>1. /\ Holds(sched_runqueue, R) /\ Holds(sched_sleepqueue, suspended)
      /\ R \subseteq Thread /\ suspended \subseteq Thread
  BY QueuesHold, Zenon DEF IInv, TypeOK
<1>2. t \in Thread
  BY Zenon DEF IInv, TypeOK
<1>3. Holds(sched_sleepqueue', suspended')
  BY <1>1, <1>2, AddHolds, Zenon DEF MoveToSleepQueue
<1>4. Holds(sched_runqueue', R \ {t})
  BY <1>1, RemoveHolds, Zenon DEF MoveToSleepQueue
<1>5. R \ {t} = allThreads' \ (suspended' \cup zombie')
  BY <1>2, Zenon DEF MoveToSleepQueue
<1>6. suspended' \subseteq allThreads'
  BY Zenon DEF MoveToSleepQueue, IInv, QueueMembership
<1> HIDE DEF R
<1>7. QED
  BY <1>3, <1>4, <1>5, <1>6, Zenon

\* Thread::Resume.
LEMMA ResumeThreadPreserves ==
  ASSUME IInv, NEW t \in Thread, t \notin IdleThreads, ResumeThread(t)
  PROVE  IInv'
<1> USE DEF IInv, ResumeThread, cpus
<1>1. /\ Holds(sched_runqueue', allThreads' \ (suspended' \cup zombie'))
      /\ Holds(sched_sleepqueue', suspended')
      /\ suspended' \subseteq allThreads'
  BY MoveToRunQueueHolds, Zenon
<1> USE DEF MoveToRunQueue
<1>2. TypeOK'
  BY <1>1, QueuesPreserved, Zenon DEF TypeOK
<1>3. QueueMembership'
  BY <1>1, QueuesPreserved, Zenon DEF QueueMembership
<1>4. OneProcessorPerThread' /\ NoFreedContext' /\ ContextInv'
  BY Zenon DEF OneProcessorPerThread, NoFreedContext, ContextInv, Contexts
<1>5. IdleInv'
  BY ConstantFacts DEF IdleInv, Contexts
<1>6. RunInv'
  BY Zenon DEF RunInv
<1>7. QED
  BY <1>2, <1>3, <1>4, <1>5, <1>6, Zenon

\* Thread::Destroy frees a thread that is on no queue and on no processor.
LEMMA DestroyPreserves ==
  ASSUME IInv, NEW t \in Thread, Destroy(t)
  PROVE  IInv'
<1> USE DEF IInv, Destroy, MayDestroy, queues, cpus
<1>1. t \notin suspended /\ t \notin IdleThreads
  BY Zenon DEF QueueMembership, IdleInv
<1>2. Holds(sched_runqueue', allThreads' \ (suspended' \cup zombie'))
  <2>1. allThreads' \ (suspended' \cup zombie') = allThreads \ (suspended \cup zombie)
    BY Zenon
  <2>2. QED
    BY <2>1, QueuesHold, Zenon
<1>3. Holds(sched_sleepqueue', suspended') /\ suspended' \subseteq allThreads'
  BY <1>1, QueuesHold, Zenon DEF QueueMembership
<1>4. TypeOK'
  BY <1>2, <1>3, QueuesPreserved, Zenon DEF TypeOK
<1>5. QueueMembership'
  BY <1>2, <1>3, QueuesPreserved, Zenon DEF QueueMembership
<1>6. \A c \in CPU : t \notin Contexts(c)
  BY <1>1, Zenon DEF ContextInv
<1>7. OneProcessorPerThread' /\ NoFreedContext' /\ ContextInv'
  BY <1>6, Zenon DEF OneProcessorPerThread, NoFreedContext, ContextInv, Contexts
<1>8. IdleInv'
  BY <1>1, Zenon DEF IdleInv, Contexts
<1>9. RunInv'
  BY Zenon DEF RunInv
<1>10. QED
  BY <1>4, <1>5, <1>7, <1>8, <1>9, Zenon

\* An application processor starts with its idle thread (mp_ap_startup).
LEMMA StartAPPreserves ==
  ASSUME IInv, NEW c \in CPU, StartAP(c)
  PROVE  IInv'
<1> USE DEF IInv, StartAP
<1> DEFINE t == IdleThread[c]
<1>1. t \in suspended /\ t \in Thread /\ t \in IdleThreads
  BY ConstantFacts, Zenon DEF IdleInv
<1>2. /\ Holds(sched_runqueue', allThreads' \ (suspended' \cup zombie'))
      /\ Holds(sched_sleepqueue', suspended')
      /\ suspended' \subseteq allThreads'
  BY <1>1, MoveToRunQueueHolds, Zenon
<1> USE DEF MoveToRunQueue
<1>3. TypeOK'
  BY <1>1, <1>2, QueuesPreserved, Zenon DEF TypeOK
<1>4. QueueMembership'
  BY <1>2, QueuesPreserved, Zenon DEF QueueMembership
<1>5. /\ curthread' \in [CPU -> Thread \cup {None}]
      /\ curthread'[c] = t
      /\ \A d \in CPU : d # c => curthread'[d] = curthread[d]
      /\ prev[c] = None /\ prev' = prev /\ c \notin irq
      /\ Contexts(c) = {}
  BY <1>1, Zenon DEF TypeOK, ContextInv, Contexts
<1>6. Contexts(c)' = {t} /\ \A d \in CPU : d # c => Contexts(d)' = Contexts(d)
  <2>1. Contexts(c)' = {t}
    BY <1>1, <1>5, ConstantFacts DEF Contexts
  <2>2. \A d \in CPU : d # c => Contexts(d)' = Contexts(d)
    BY <1>5, Zenon DEF Contexts
  <2>3. QED
    BY <2>1, <2>2, Zenon
<1>7. \A d \in CPU : t \in Contexts(d) => d = c
  BY Zenon DEF IdleInv
<1> HIDE DEF t
<1>8. OneProcessorPerThread'
  BY <1>6, <1>7 DEF OneProcessorPerThread
<1>9. NoFreedContext'
  BY <1>1, <1>6, Zenon DEF NoFreedContext, QueueMembership
<1>10. ContextInv'
  BY <1>1, <1>5, <1>6, ConstantFacts DEF ContextInv
<1>11. IdleInv'
  BY <1>1, <1>5, <1>6, ConstantFacts DEF IdleInv, t
<1>12. RunInv'
  BY <1>1, <1>5, Zenon DEF RunInv, QueueMembership, t
<1>13. QED
  BY <1>3, <1>4, <1>8, <1>9, <1>10, <1>11, <1>12, Zenon
\* What the invariant says of a thread that executes code of its own.
LEMMA RunningFacts ==
  ASSUME IInv, NEW c \in CPU, NEW t \in Thread, NEW where \in PCs,
         Running(c, t, where)
  PROVE  /\ t \in allThreads
         /\ t \in Contexts(c)
         /\ \A d \in CPU : curthread[d] = t => d = c
         /\ where \in {"run", "arm"} => t \notin suspended \cup zombie
<1>1. curthread[c] = t /\ pc[t] = where /\ t # None
  BY ConstantFacts, Zenon DEF Running
<1>2. t \in Contexts(c)
  BY <1>1, Zenon DEF Contexts
<1>3. \A d \in CPU : curthread[d] = t => t \in Contexts(d)
  BY <1>1, Zenon DEF Contexts
<1>4. QED
  BY <1>1, <1>2, <1>3, Zenon DEF IInv, NoFreedContext, OneProcessorPerThread, RunInv

\* The first half of SleepUntilTick touches no queue.
LEMMA SetTimeoutPreserves ==
  ASSUME IInv, NEW c \in CPU, NEW t \in Thread, NEW deadline \in 1 .. MaxTicks,
         SetTimeout(c, t, deadline)
  PROVE  IInv'
<1> USE DEF IInv, SetTimeout, queues, cpus
<1>1. TypeOK'
  <2>1. t_timeout' \in [Thread -> 0 .. MaxTicks]
    BY SchedulerAssumption DEF TypeOK
  <2>2. QED
    BY <2>1, Zenon DEF TypeOK, PCs
<1>2. QueueMembership' /\ OneProcessorPerThread' /\ NoFreedContext' /\ ContextInv'
  BY Zenon DEF QueueMembership, OneProcessorPerThread, NoFreedContext, ContextInv, Contexts
<1>3. IdleInv'
  BY ConstantFacts DEF IdleInv, Contexts, TypeOK
<1>4. t \notin suspended \cup zombie
  BY RunningFacts, Zenon DEF PCs
<1>5. RunInv'
  BY <1>4, Zenon DEF RunInv, TypeOK
<1>6. QED
  BY <1>1, <1>2, <1>3, <1>5, Zenon

\* SuspendSleeper and SuspendWaiter
LEMMA SuspendPreserves ==
  ASSUME IInv, NEW c \in CPU, NEW t \in Thread, t \notin IdleThreads,
         NEW where \in {"run", "arm"}, Running(c, t, where),
         NEW next \in {"sleep", "wait"}, pc' = [pc EXCEPT ![t] = next],
         MoveToSleepQueue(t),
         UNCHANGED <<allThreads, active, zombie, timed, t_timeout, ticks, cpus>>
  PROVE  IInv'
<1> USE DEF IInv, cpus
<1>1. /\ t \in allThreads \ (suspended \cup zombie)
      /\ \A d \in CPU : curthread[d] = t => d = c
      /\ pc'[t] = next /\ \A s \in Thread : s # t => pc'[s] = pc[s]
  BY RunningFacts DEF PCs, TypeOK
<1>2. /\ Holds(sched_runqueue', allThreads' \ (suspended' \cup zombie'))
      /\ Holds(sched_sleepqueue', suspended')
      /\ suspended' \subseteq allThreads'
  BY <1>1, MoveToSleepQueueHolds, Zenon
<1>3. suspended' = suspended \cup {t}
  BY Zenon DEF MoveToSleepQueue
<1>4. TypeOK'
  BY <1>2, <1>3, QueuesPreserved, Zenon DEF TypeOK, PCs
<1>5. QueueMembership'
  BY <1>1, <1>2, <1>3, QueuesPreserved DEF QueueMembership
<1>6. OneProcessorPerThread' /\ NoFreedContext' /\ ContextInv'
  BY Zenon DEF OneProcessorPerThread, NoFreedContext, ContextInv, Contexts
<1>7. IdleInv'
  <2>1. \A d \in CPU : IdleThread[d] \in Thread /\ IdleThread[d] # t
    BY ConstantFacts, Zenon
  <2>2. \A d \in CPU : Contexts(d)' = Contexts(d)
    BY Zenon DEF Contexts
  <2>3. \A d \in CPU : pc'[IdleThread[d]] = "run"
    BY <1>1, <2>1, Zenon DEF IdleInv
  <2>4. \A d \in CPU : IdleThread[d] \in suspended' <=> curthread[d] = None
    BY <1>3, <2>1, Zenon DEF IdleInv
  <2>5. IdleThreads \subseteq allThreads' \ (zombie' \cup timed')
    BY Zenon DEF IdleInv
  <2>6. QED
    BY <2>2, <2>3, <2>4, <2>5, Zenon DEF IdleInv
<1>8. RunInv'
  <2>1. ASSUME NEW d \in CPU, curthread[d] # None,
               pc'[curthread[d]] \in {"run", "arm"}
        PROVE  curthread[d] \notin suspended' \cup zombie
    <3>1. curthread[d] \in Thread
      BY <2>1, Zenon DEF TypeOK
    <3>2. curthread[d] # t
      BY <1>1, <2>1, Zenon
    <3>3. QED
      BY <1>1, <1>3, <2>1, <3>1, <3>2, Zenon DEF RunInv
  <2>2. QED
    BY <2>1, Zenon DEF RunInv
<1>9. QED
  BY <1>4, <1>5, <1>6, <1>7, <1>8, Zenon

\* ExitThread leaves the zombie on no queue.
LEMMA ExitThreadPreserves ==
  ASSUME IInv, NEW c \in CPU, NEW t \in Thread, ExitThread(c, t)
  PROVE  IInv'
<1> USE DEF IInv, ExitThread, cpus
<1>1. /\ t \in allThreads \ (suspended \cup zombie)
      /\ \A d \in CPU : curthread[d] = t => d = c
      /\ pc'[t] = "exit" /\ \A s \in Thread : s # t => pc'[s] = pc[s]
  BY RunningFacts DEF PCs, TypeOK
<1> DEFINE R == allThreads \ (suspended \cup zombie)
<1>2. Holds(sched_runqueue, R) /\ Holds(sched_sleepqueue, suspended)
  BY QueuesHold, Zenon
<1>3. Holds(sched_runqueue', allThreads' \ (suspended' \cup zombie'))
  <2>1. Holds(sched_runqueue', R \ {t})
    BY <1>1, <1>2, RemoveHolds, Zenon
  <2>2. R \ {t} = allThreads' \ (suspended' \cup zombie')
    BY <1>1, Zenon
  <2> HIDE DEF R
  <2>3. QED
    BY <2>1, <2>2, Zenon
<1>4. Holds(sched_sleepqueue', suspended') /\ suspended' \subseteq allThreads'
  BY <1>2, Zenon DEF QueueMembership
<1>5. TypeOK'
  BY <1>3, <1>4, QueuesPreserved, Zenon DEF TypeOK, PCs
<1>6. QueueMembership'
  BY <1>1, <1>3, <1>4, QueuesPreserved DEF QueueMembership
<1>7. OneProcessorPerThread' /\ NoFreedContext' /\ ContextInv'
  BY Zenon DEF OneProcessorPerThread, NoFreedContext, ContextInv, Contexts
<1>8. IdleInv'
  <2>1. \A d \in CPU : IdleThread[d] \in Thread /\ IdleThread[d] # t
    BY ConstantFacts, Zenon
  <2>2. \A d \in CPU : Contexts(d)' = Contexts(d)
    BY Zenon DEF Contexts
  <2>3. \A d \in CPU : pc'[IdleThread[d]] = "run"
    BY <1>1, <2>1, Zenon DEF IdleInv
  <2>4. \A d \in CPU : IdleThread[d] \in suspended' <=> curthread[d] = None
    BY <2>1, Zenon DEF IdleInv
  <2>5. IdleThreads \subseteq allThreads' \ (zombie' \cup timed')
    BY Zenon DEF IdleInv
  <2>6. QED
    BY <2>2, <2>3, <2>4, <2>5 DEF IdleInv
<1>9. RunInv'
  <2>1. ASSUME NEW d \in CPU, curthread[d] # None,
               pc'[curthread[d]] \in {"run", "arm"}
        PROVE  curthread[d] \notin suspended \cup zombie'
    <3>1. curthread[d] \in Thread
      BY <2>1, Zenon DEF TypeOK
    <3>2. curthread[d] # t
      BY <1>1, <2>1, Zenon
    <3>3. QED
      BY <1>1, <2>1, <3>1, <3>2, Zenon DEF RunInv
  <2>2. QED
    BY <2>1, Zenon DEF RunInv
<1>10. QED
  BY <1>5, <1>6, <1>7, <1>8, <1>9, Zenon

\* The timer interrupt itself touches no queue.
LEMMA TimerInterruptPreserves ==
  ASSUME IInv, NEW c \in CPU, TimerInterrupt(c)
  PROVE  IInv'
<1> USE DEF IInv, TimerInterrupt, queues, flags
<1>1. curthread[c] # None /\ prev[c] = None
  BY ConstantFacts, Zenon DEF Running
<1>2. TypeOK'
  BY SchedulerAssumption DEF TypeOK
<1>3. ContextInv'
  BY <1>1, Zenon DEF ContextInv, Contexts
<1>4. QED
  BY <1>2, <1>3, Zenon DEF QueueMembership, OneProcessorPerThread, NoFreedContext,
                    IdleInv, RunInv, Contexts

\* scheduler_release gives up the context of the previous thread.
LEMMA ReleasePreserves ==
  ASSUME IInv, NEW c \in CPU, scheduler_release(c)
  PROVE  IInv'
<1> USE DEF IInv, scheduler_release, queues
<1>1. /\ prev[c] \in Thread /\ prev[c] # curthread[c] /\ curthread[c] # None
      /\ prev'[c] = None /\ \A d \in CPU : d # c => prev'[d] = prev[d]
      /\ prev[c] \in Contexts(c)
  BY Zenon DEF TypeOK, ContextInv, Contexts
<1>2. /\ Contexts(c)' = Contexts(c) \ {prev[c]}
      /\ \A d \in CPU : d # c => Contexts(d)' = Contexts(d)
  BY <1>1, Zenon DEF Contexts
<1>3. \A d \in CPU : d # c => prev[c] \notin Contexts(d)
  BY <1>1, Zenon DEF OneProcessorPerThread
<1>4. TypeOK' /\ QueueMembership'
  BY Zenon DEF TypeOK, QueueMembership
<1>5. OneProcessorPerThread' /\ NoFreedContext'
  BY <1>2 DEF OneProcessorPerThread, NoFreedContext
<1>6. ContextInv'
  <2>1. \A d \in CPU : Contexts(d)' \ IdleThreads \subseteq active'
    BY <1>2, <1>3, Zenon DEF ContextInv
  <2>2. \A t \in active' : \E d \in CPU : t \in Contexts(d)'
    BY <1>2, Zenon DEF ContextInv
  <2>3. QED
    BY <1>1, <2>1, <2>2 DEF ContextInv
<1>7. IdleInv'
  BY <1>2 DEF IdleInv
<1>8. RunInv'
  BY Zenon DEF RunInv
<1>9. QED
  BY <1>4, <1>5, <1>6, <1>7, <1>8, Zenon

\* CallSchedule and InterruptReturn
LEMMA SchedulePreserves ==
  ASSUME IInv, NEW c \in CPU, curthread[c] # None, prev[c] = None, Schedule(c),
         irq' \subseteq irq, c \notin irq',
         pc' \in [Thread -> PCs],
         \A t \in Thread : t # curthread[c] => pc'[t] = pc[t],
         curthread[c] \in IdleThreads => pc'[curthread[c]] = pc[curthread[c]]
  PROVE  IInv'
<1> USE DEF IInv
<1> DEFINE cur == curthread[c]
<1>1. PICK new : ScheduledTo(c, new)
  BY ScheduleFacts, Zenon
<1>a. /\ new \in Thread /\ new \in allThreads
      /\ new \notin suspended' /\ new \notin zombie
      /\ new \in IdleThreads => new = IdleThread[c]
      /\ new \in active => new = cur
  BY <1>1, Zenon DEF ScheduledTo, Eligible
<1>b. /\ suspended' \subseteq suspended
      /\ suspended \subseteq suspended' \cup timed
      /\ timed' \subseteq timed
      /\ active' = active \cup {new}
      /\ allThreads' = allThreads /\ zombie' = zombie
  BY <1>1, Zenon DEF ScheduledTo
<1>2. cur \in Thread /\ new # None /\ Contexts(c) = {cur}
  BY <1>a, ConstantFacts DEF TypeOK, Contexts
<1>3. /\ curthread'[c] = new
      /\ prev'[c] = IF new = cur THEN None ELSE cur
      /\ \A d \in CPU : d # c => curthread'[d] = curthread[d] /\ prev'[d] = prev[d]
  BY <1>1, Zenon DEF TypeOK, ScheduledTo
<1>4. Contexts(c)' = {new, cur} /\ \A d \in CPU : d # c => Contexts(d)' = Contexts(d)
  BY <1>2, <1>3, Zenon DEF Contexts
<1>5. \A d \in CPU : d # c => new \notin Contexts(d) /\ cur \notin Contexts(d)
  <2>1. SUFFICES ASSUME NEW d \in CPU, d # c
                 PROVE  new \notin Contexts(d) /\ cur \notin Contexts(d)
    BY Zenon
  <2>2. cur \notin Contexts(d)
    BY <1>2, <2>1, Zenon DEF OneProcessorPerThread
  <2>3. CASE new \in IdleThreads
    <3>1. new = IdleThread[c]
      BY <1>a, <2>3, Zenon
    <3>2. QED
      BY <2>1, <2>2, <3>1, Zenon DEF IdleInv
  <2>4. CASE new \notin IdleThreads
    <3>1. new \in Contexts(d) => new \in active
      BY <2>4, Zenon DEF ContextInv
    <3>2. QED
      BY <1>a, <2>2, <3>1, Zenon
  <2>5. QED
    BY <2>2, <2>3, <2>4, Zenon
<1>6. suspended' \subseteq allThreads' /\ cur \in allThreads
  BY <1>b, <1>2, Zenon DEF QueueMembership, NoFreedContext
<1>7. TypeOK'
  <2>1. sched_runqueue' \in Seq(allThreads') /\ sched_sleepqueue' \in Seq(allThreads')
    BY <1>1, <1>6, QueuesPreserved, Zenon DEF ScheduledTo
  <2>2. QED
    BY <1>1, <1>2, <2>1, Zenon DEF TypeOK, ScheduledTo
<1>8. QueueMembership'
  BY <1>1, <1>6, QueuesPreserved, Zenon DEF QueueMembership, ScheduledTo
<1>9. OneProcessorPerThread'
  BY <1>4, <1>5 DEF OneProcessorPerThread
<1>10. NoFreedContext'
  BY <1>a, <1>b, <1>4, <1>6, Zenon DEF NoFreedContext
<1>11. ContextInv'
  <2>1. \A d \in CPU : Contexts(d)' \ IdleThreads \subseteq active'
    <3>1. \A d \in CPU : d # c => Contexts(d)' \ IdleThreads \subseteq active'
      BY <1>b, <1>4, Zenon DEF ContextInv
    <3>2. Contexts(c)' \ IdleThreads \subseteq active'
      BY <1>b, <1>2, <1>4, Zenon DEF ContextInv
    <3>3. QED
      BY <3>1, <3>2, Zenon
  <2>2. \A t \in active' : \E d \in CPU : t \in Contexts(d)'
    <3>1. \A d \in CPU : Contexts(d) \subseteq Contexts(d)'
      BY <1>2, <1>4, Zenon
    <3>2. \A t \in active : \E d \in CPU : t \in Contexts(d)
      BY Zenon DEF ContextInv
    <3>3. new \in Contexts(c)'
      BY <1>4, Zenon
    <3>4. QED
      BY <1>b, <3>1, <3>2, <3>3, Zenon
  <2>3. /\ \A d \in CPU : curthread'[d] = None => prev'[d] = None /\ d \notin irq'
        /\ \A d \in irq' : prev'[d] = None
        /\ \A d \in CPU : prev'[d] = None \/ prev'[d] # curthread'[d]
    <3>1. /\ \A d \in CPU : curthread[d] = None => prev[d] = None /\ d \notin irq
          /\ \A d \in irq : d \in CPU /\ prev[d] = None
          /\ \A d \in CPU : prev[d] = None \/ prev[d] # curthread[d]
      BY Zenon DEF ContextInv, TypeOK
    <3>2. QED
      BY <1>2, <1>3, <3>1
  <2>4. QED
    BY <2>1, <2>2, <2>3, Zenon DEF ContextInv
<1>12. IdleInv'
  <2>1. IdleThreads \subseteq allThreads' \ (zombie' \cup timed')
    BY <1>b, Zenon DEF IdleInv
  <2>2. \A d \in CPU : pc'[IdleThread[d]] = "run"
    BY ConstantFacts, Zenon DEF IdleInv
  <2>3. \A d \in CPU : IdleThread[d] \in suspended' <=> curthread'[d] = None
    <3>1. \A d \in CPU : IdleThread[d] \in suspended' <=> IdleThread[d] \in suspended
      BY <1>b, ConstantFacts, Zenon DEF IdleInv
    <3>2. QED
      BY <1>2, <1>3, <3>1, Zenon DEF IdleInv
  <2>4. \A b, d \in CPU : IdleThread[b] \in Contexts(d)' => b = d
    <3>1. \A b \in CPU : IdleThread[b] = new => b = c
      BY <1>a, ConstantFacts
    <3>2. \A b \in CPU : IdleThread[b] = cur => b = c
      BY <1>2, Zenon DEF IdleInv
    <3>3. \A b \in CPU : IdleThread[b] \in Contexts(c)' => b = c
      BY <1>4, <3>1, <3>2, Zenon
    <3>4. \A b, d \in CPU : IdleThread[b] \in Contexts(d) => b = d
      BY Zenon DEF IdleInv
    <3>5. QED
      BY <1>4, <3>3, <3>4, Zenon
  <2>5. QED
    BY <2>1, <2>2, <2>3, <2>4, Zenon DEF IdleInv
<1>13. RunInv'
  <2>1. SUFFICES ASSUME NEW d \in CPU, curthread'[d] # None,
                        pc'[curthread'[d]] \in {"run", "arm"}
                 PROVE  curthread'[d] \notin suspended' \cup zombie'
    BY Zenon DEF RunInv
  <2>2. CASE d = c
    BY <1>a, <1>b, <1>3, <2>2, Zenon
  <2>3. CASE d # c
    <3>1. curthread'[d] = curthread[d] /\ curthread[d] \in Thread
      BY <1>3, <2>1, <2>3, Zenon DEF TypeOK
    <3>2. curthread[d] # cur
      BY <1>5, <2>3, <3>1, ConstantFacts, Zenon DEF Contexts
    <3>3. curthread[d] \notin suspended \cup zombie
      BY <2>1, <3>1, <3>2, ConstantFacts, Zenon DEF RunInv
    <3>4. QED
      BY <1>b, <3>1, <3>3, Zenon
  <2>4. QED
    BY <2>2, <2>3, Zenon
<1>14. QED
  BY <1>7, <1>8, <1>9, <1>10, <1>11, <1>12, <1>13, Zenon

\* At boot: the sleepqueue holds the idle threads of the other processors.
LEMMA InitQueues ==
  ASSUME Init
  PROVE  /\ Holds(sched_runqueue, {IdleThread[BSP]})
         /\ Holds(sched_sleepqueue, IdleThreads \ {IdleThread[BSP]})
<1>1. Holds(<<IdleThread[BSP]>>, {IdleThread[BSP]})
  <2> DEFINE q == <<IdleThread[BSP]>>
  <2>1. q \in [1 .. 1 -> {IdleThread[BSP]}] /\ q[1] = IdleThread[BSP] /\ 1 \in Nat
    OBVIOUS
  <2> HIDE DEF q
  <2>2. \A i, j \in 1 .. 1 : i = j
    OBVIOUS
  <2>3. \A x \in {IdleThread[BSP]} : \E i \in 1 .. 1 : q[i] = x
    BY <2>1
  <2>4. Holds(q, {IdleThread[BSP]})
    BY <2>1, <2>2, <2>3, HoldsIntro, Zenon
  <2>5. QED
    BY <2>4, Zenon DEF q
<1>2. Holds(sched_sleepqueue, IdleThreads \ {IdleThread[BSP]})
  <2> DEFINE n == NumCPUs - 1
             q == [i \in 1 .. n |-> IdleThread[i]]
             I == IdleThreads \ {IdleThread[BSP]}
  <2>1. n \in Nat /\ 1 .. n \subseteq CPU /\ CPU = {BSP} \cup 1 .. n /\ BSP \notin 1 .. n
    BY ConstantFacts DEF CPU, BSP
  <2>2. \A i \in 1 .. n : IdleThread[i] \in I
    BY <2>1, ConstantFacts, Zenon
  <2>3. q \in [1 .. n -> I]
    BY <2>2, Zenon
  <2>4. \A i \in 1 .. n : q[i] = IdleThread[i]
    BY Zenon
  <2>5. sched_sleepqueue = q
    BY Zenon DEF Init
  <2> HIDE DEF q, n
  <2>6. \A i, j \in 1 .. n : q[i] = q[j] => i = j
    BY <2>1, <2>4, ConstantFacts, Zenon
  <2>7. \A t \in I : \E i \in 1 .. n : q[i] = t
    BY <2>1, <2>4, ConstantFacts
  <2> HIDE DEF I
  <2>8. Holds(q, I)
    BY <2>1, <2>3, <2>6, <2>7, HoldsIntro, Zenon
  <2>9. QED
    BY <2>5, <2>8, Zenon DEF I
<1>3. QED
  BY <1>1, <1>2, Zenon DEF Init

\* The invariant holds at boot.
LEMMA InitIInv == Init => IInv
<1> SUFFICES ASSUME Init
             PROVE  IInv
  BY Zenon
<1> USE DEF Init
<1>1. /\ Holds(sched_runqueue, {IdleThread[BSP]})
      /\ Holds(sched_sleepqueue, IdleThreads \ {IdleThread[BSP]})
  BY InitQueues, Zenon
<1>2. IdleThread[BSP] \in IdleThreads
  BY ConstantFacts, Zenon
<1>3. TypeOK
  <2>1. sched_runqueue \in Seq(allThreads) /\ sched_sleepqueue \in Seq(allThreads)
    BY <1>1, <1>2, HoldsType
  <2>2. 0 \in 0 .. MaxTicks
    BY SchedulerAssumption
  <2>3. QED
    BY <2>1, <2>2, ConstantFacts, Zenon DEF TypeOK, PCs
<1>4. QueueMembership
  BY <1>1, <1>2, Zenon DEF QueueMembership, Holds
<1>5. \A c \in CPU : Contexts(c) = IF c = BSP THEN {IdleThread[BSP]} ELSE {}
  BY ConstantFacts DEF Contexts
<1>6. OneProcessorPerThread /\ NoFreedContext
  BY <1>2, <1>5, Zenon DEF OneProcessorPerThread, NoFreedContext
<1>7. ContextInv
  BY <1>2, <1>5, ConstantFacts, Zenon DEF ContextInv
<1>8. IdleInv
  BY <1>5, ConstantFacts DEF IdleInv
<1>9. RunInv
  BY ConstantFacts, Zenon DEF RunInv
<1>10. QED
  BY <1>3, <1>4, <1>6, <1>7, <1>8, <1>9, Zenon DEF IInv

\* The invariant is preserved by every step of every processor.
LEMMA NextPreserves == IInv /\ [Next]_vars => IInv'
<1> SUFFICES ASSUME IInv, [Next]_vars
             PROVE  IInv'
  BY Zenon
<1>1. ASSUME NEW t \in Thread,
             InitThread(t) \/ (t \notin IdleThreads /\ ResumeThread(t)) \/ Destroy(t)
      PROVE  IInv'
  BY <1>1, InitThreadPreserves, ResumeThreadPreserves, DestroyPreserves, Zenon
<1>2. ASSUME NEW c \in CPU, CpuStep(c)
      PROVE  IInv'
  <2>1. CASE StartAP(c)
    BY <2>1, StartAPPreserves, Zenon
  <2>2. CASE TimerInterrupt(c)
    BY <2>2, TimerInterruptPreserves, Zenon
  <2>3. CASE scheduler_release(c)
    BY <2>3, ReleasePreserves, Zenon
  <2>4. CASE InterruptReturn(c)
    <3>1. curthread[c] # None /\ prev[c] = None
      BY <2>4, Zenon DEF InterruptReturn, IInv, ContextInv
    <3>2. /\ Schedule(c)
          /\ irq' \subseteq irq /\ c \notin irq'
          /\ pc' \in [Thread -> PCs] /\ pc' = pc
      BY <2>4, Zenon DEF InterruptReturn, IInv, TypeOK
    <3>3. QED
      BY <3>1, <3>2, SchedulePreserves, Zenon
  <2>5. ASSUME NEW t \in Thread, CallSchedule(c, t)
        PROVE  IInv'
    <3>1. curthread[c] = t /\ curthread[c] # None /\ prev[c] = None
      BY <2>5, ConstantFacts, Zenon DEF CallSchedule, Running
    <3>2. /\ Schedule(c)
          /\ irq' \subseteq irq /\ c \notin irq'
          /\ t \notin IdleThreads
          /\ pc' \in [Thread -> PCs]
          /\ \A s \in Thread : s # t => pc'[s] = pc[s]
      BY <2>5, Zenon DEF CallSchedule, Running, PCs, IInv, TypeOK
    <3>3. QED
      BY <3>1, <3>2, SchedulePreserves, Zenon
  <2>6. ASSUME NEW t \in Thread, NEW deadline \in 1 .. MaxTicks,
               SetTimeout(c, t, deadline)
        PROVE  IInv'
    BY <2>6, SetTimeoutPreserves, Zenon
  <2>7. ASSUME NEW t \in Thread, SuspendSleeper(c, t)
        PROVE  IInv'
    <3>1. t \notin IdleThreads
      BY <2>7, ConstantFacts, Zenon DEF SuspendSleeper, Running, IInv, IdleInv
    <3>2. QED
      BY <2>7, <3>1, SuspendPreserves, Zenon DEF SuspendSleeper
  <2>8. ASSUME NEW t \in Thread, SuspendWaiter(c, t)
        PROVE  IInv'
    BY <2>8, SuspendPreserves, Zenon DEF SuspendWaiter, MaySuspend
  <2>9. ASSUME NEW t \in Thread, ExitThread(c, t)
        PROVE  IInv'
    BY <2>9, ExitThreadPreserves, Zenon
  <2>10. QED
    BY <1>2, <2>1, <2>2, <2>3, <2>4, <2>5, <2>6, <2>7, <2>8, <2>9, Zenon DEF CpuStep
<1>3. CASE UNCHANGED vars
  BY <1>3, Zenon DEF vars, queues, flags, cpus, IInv, TypeOK, QueueMembership,
              OneProcessorPerThread, NoFreedContext, ContextInv, IdleInv, RunInv,
              Contexts
<1>4. QED
  BY <1>1, <1>2, <1>3, Zenon DEF Next

\* The scheduler of kern/scheduler.cpp, with any number of processors and
\* threads: the inductive invariant is an invariant.
THEOREM Invariance == Spec => []IInv
BY InitIInv, NextPreserves, PTL DEF Spec

\* Every queue, flag and processor field keeps its type; in particular the
\* queues hold existing threads only.
THEOREM TypeCorrect == Spec => []TypeOK
<1>1. IInv => TypeOK
  BY Zenon DEF IInv
<1>2. QED
  BY <1>1, Invariance, PTL

\* A thread is on the queue its flags say, once: what the Prove<> checks of
\* scheduler.cpp assert cannot fail.
THEOREM QueuesMatchFlags == Spec => []QueueMembership
<1>1. IInv => QueueMembership
  BY Zenon DEF IInv
<1>2. QED
  BY <1>1, Invariance, PTL

\* No two processors use the context of one thread, the window between
\* Schedule and scheduler_release included.
THEOREM MutualExclusion == Spec => []OneProcessorPerThread
<1>1. IInv => OneProcessorPerThread
  BY Zenon DEF IInv
<1>2. QED
  BY <1>1, Invariance, PTL

\* Thread::Destroy never frees a kernel stack that a processor is using.
THEOREM NoUseAfterDestroy == Spec => []NoFreedContext
<1>1. IInv => NoFreedContext
  BY Zenon DEF IInv
<1>2. QED
  BY <1>1, Invariance, PTL

\* PickNextThreadToSchedule always finds a thread: its final panic is dead code.
THEOREM PickSucceeds == Spec => []AlwaysEligible
<1>1. IInv => AlwaysEligible
  <2> SUFFICES ASSUME IInv, NEW c \in CPU, curthread[c] # None, prev[c] = None
               PROVE  \E i \in 1 .. Len(sched_runqueue) :
                        Eligible(c, sched_runqueue[i])
    BY Zenon DEF AlwaysEligible
  <2>1. /\ IdleThread[c] \in Members(sched_runqueue)
        /\ Eligible(c, IdleThread[c])
    BY IdleIsEligible, Zenon DEF IInv, QueueMembership
  <2>2. QED
    BY <2>1, Zenon DEF Members
<1>2. QED
  BY <1>1, Invariance, PTL

-----------------------------------------------------------------------------
\* Action properties

\* Whoever calls Schedule has a thread and has released the one before.
LEMMA Scheduling ==
  ASSUME IInv, NEW c \in CPU, InterruptReturn(c) \/ \E t \in Thread : CallSchedule(c, t)
  PROVE  curthread[c] # None /\ prev[c] = None /\ Schedule(c)
<1>1. CASE InterruptReturn(c)
  BY <1>1, Zenon DEF InterruptReturn, IInv, ContextInv
<1>2. CASE \E t \in Thread : CallSchedule(c, t)
  BY <1>2, ConstantFacts, Zenon DEF CallSchedule, Running
<1>3. QED
  BY <1>1, <1>2, Zenon

\* A thread on its way to the sleepqueue is not an idle thread, and can run.
LEMMA Suspending ==
  ASSUME IInv, NEW c \in CPU, NEW t \in Thread, SuspendSleeper(c, t) \/ SuspendWaiter(c, t)
  PROVE  /\ t \notin IdleThreads /\ t \in allThreads \ (suspended \cup zombie)
         /\ curthread[c] = t /\ MoveToSleepQueue(t)
         /\ UNCHANGED <<allThreads, active, zombie, timed, t_timeout, ticks, cpus>>
<1>1. /\ Running(c, t, "arm") \/ (Running(c, t, "run") /\ t \notin IdleThreads)
      /\ MoveToSleepQueue(t)
      /\ UNCHANGED <<allThreads, active, zombie, timed, t_timeout, ticks, cpus>>
  BY Zenon DEF SuspendSleeper, SuspendWaiter, MaySuspend
<1>2. t \notin IdleThreads
  BY <1>1, ConstantFacts DEF Running, IInv, IdleInv
<1>3. t \in allThreads
  BY <1>1, RunningFacts, Zenon DEF PCs
<1>4. t \notin suspended \cup zombie /\ curthread[c] = t
  BY <1>1, ConstantFacts, Zenon DEF Running, IInv, RunInv
<1>5. QED
  BY <1>1, <1>2, <1>3, <1>4, Zenon

\* The steps that neither switch nor start a processor
LEMMA OtherSteps ==
  ASSUME NEW c \in CPU, NEW t \in Thread,
         \/ InitThread(t) \/ ResumeThread(t) \/ Destroy(t)
         \/ TimerInterrupt(c) \/ scheduler_release(c)
         \/ \E deadline \in 1 .. MaxTicks : SetTimeout(c, t, deadline)
         \/ SuspendSleeper(c, t) \/ SuspendWaiter(c, t) \/ ExitThread(c, t)
  PROVE  UNCHANGED curthread
<1>1. CASE InitThread(t) \/ ResumeThread(t) \/ Destroy(t)
  BY <1>1, Zenon DEF InitThread, ResumeThread, Destroy, cpus
<1>2. CASE TimerInterrupt(c) \/ scheduler_release(c)
  BY <1>2, Zenon DEF TimerInterrupt, scheduler_release, flags
<1>3. CASE \/ \E deadline \in 1 .. MaxTicks : SetTimeout(c, t, deadline)
           \/ SuspendSleeper(c, t) \/ SuspendWaiter(c, t) \/ ExitThread(c, t)
  BY <1>3, Zenon
  DEF SetTimeout, SuspendSleeper, SuspendWaiter, ExitThread, MoveToSleepQueue, cpus
<1>4. QED
  BY <1>1, <1>2, <1>3, Zenon

\* Every step is a call of Schedule, the start of a processor or another step.
LEMMA StepKinds ==
  ASSUME Next
  PROVE  \/ \E c \in CPU : InterruptReturn(c) \/ \E t \in Thread : CallSchedule(c, t)
         \/ \E c \in CPU : StartAP(c)
         \/ \E c \in CPU, t \in Thread :
              \/ InitThread(t) \/ ResumeThread(t) \/ Destroy(t)
              \/ TimerInterrupt(c) \/ scheduler_release(c)
              \/ \E deadline \in 1 .. MaxTicks : SetTimeout(c, t, deadline)
              \/ SuspendSleeper(c, t) \/ SuspendWaiter(c, t) \/ ExitThread(c, t)
<1>1. BSP \in CPU /\ IdleThread[BSP] \in Thread
  BY ConstantFacts, Zenon
<1>2. QED
  BY <1>1, Zenon DEF Next, CpuStep

\* A thread that ExitThread made a zombie is never switched to again.
THEOREM ZombiesStayDead == Spec => ZombieStaysDead
<1>1. ASSUME IInv, Next, NEW t \in zombie, NEW c \in CPU, curthread'[c] = t
      PROVE  curthread[c] = t
  <2>1. ASSUME NEW d \in CPU, InterruptReturn(d) \/ \E s \in Thread : CallSchedule(d, s)
        PROVE  curthread[c] = t
    <3>1. IInv /\ curthread[d] # None /\ prev[d] = None /\ Schedule(d)
      BY <1>1, <2>1, Scheduling, Zenon
    <3>2. PICK new : ScheduledTo(d, new)
      BY <3>1, ScheduleFacts, Zenon
    <3>3. QED
      BY <1>1, <3>2, Zenon DEF ScheduledTo, IInv, TypeOK
  <2>2. ASSUME NEW d \in CPU, StartAP(d)
        PROVE  curthread[c] = t
    BY <1>1, <2>2, ConstantFacts, Zenon DEF StartAP, IInv, TypeOK, IdleInv
  <2>3. QED
    BY <1>1, <2>1, <2>2, StepKinds, OtherSteps, Zenon
<1>2. IInv /\ [Next]_vars =>
        [\A t \in zombie, c \in CPU : curthread'[c] = t => curthread[c] = t]_vars
  BY <1>1, Zenon
<1>3. QED
  BY <1>2, Invariance, PTL DEF Spec, ZombieStaysDead

-----------------------------------------------------------------------------
\* The order of the runqueue

\* AddThreadToRunQueue keeps a queue in order.
LEMMA AddSorted ==
  ASSUME NEW q \in Seq(Thread), ByPriority(q), NEW t \in Thread
  PROVE  ByPriority(AddThreadToRunQueue(q, t))
<1>1. PICK p : p = RunQueuePosition(q, t)
  BY Zenon
<1>2. /\ Len(q) \in Nat /\ p \in 1 .. Len(q) + 1
      /\ p <= Len(q) => Priority[q[p]] > Priority[t]
      /\ \A j \in 1 .. p - 1 : Priority[q[j]] <= Priority[t]
  BY <1>1, RunQueuePositionExists
<1>3. PICK r : r = AddThreadToRunQueue(q, t)
  BY Zenon
<1>4. r = [j \in 1 .. Len(q) + 1 |-> IF j < p THEN q[j] ELSE IF j = p THEN t ELSE q[j - 1]]
  BY <1>1, <1>3, Zenon DEF AddThreadToRunQueue, Insert
<1>5. Len(r) = Len(q) + 1
  BY <1>2, <1>4
<1>6. /\ \A x \in Thread : Priority[x] \in Int
      /\ \A j \in 1 .. Len(q) : q[j] \in Thread
  BY SchedulerAssumption
<1>7. \A j \in p .. Len(q) : Priority[t] <= Priority[q[j]]
  <2> SUFFICES ASSUME NEW j \in p .. Len(q)
               PROVE  Priority[t] <= Priority[q[j]]
    BY Zenon
  <2>1. p \in 1 .. Len(q) /\ j \in 1 .. Len(q) /\ (p < j \/ p = j)
    BY <1>2
  <2>2. Priority[q[p]] <= Priority[q[j]]
    BY <1>6, <2>1 DEF ByPriority
  <2>3. QED
    BY <1>2, <1>6, <2>1, <2>2
<1>8. ASSUME NEW i \in 1 .. Len(q) + 1, NEW j \in 1 .. Len(q) + 1, i < j
      PROVE  Priority[r[i]] <= Priority[r[j]]
  <2>1. CASE j < p
    BY <1>2, <1>4, <1>8, <2>1 DEF ByPriority
  <2>2. CASE j = p
    BY <1>2, <1>4, <1>8, <2>2
  <2>3. CASE i < p /\ p < j
    <3>1. i \in 1 .. Len(q) /\ j - 1 \in 1 .. Len(q) /\ (i < j - 1 \/ i = j - 1)
      BY <1>2, <2>3
    <3>2. r[i] = q[i] /\ r[j] = q[j - 1]
      BY <1>2, <1>4, <2>3
    <3>3. QED
      BY <1>6, <3>1, <3>2 DEF ByPriority
  <2>4. CASE i = p
    <3>1. r[i] = t /\ r[j] = q[j - 1] /\ j - 1 \in p .. Len(q)
      BY <1>2, <1>4, <1>8, <2>4
    <3>2. QED
      BY <1>7, <3>1, Zenon
  <2>5. CASE p < i
    <3>1. r[i] = q[i - 1] /\ r[j] = q[j - 1]
      BY <1>2, <1>4, <1>8, <2>5
    <3>2. i - 1 \in 1 .. Len(q) /\ j - 1 \in 1 .. Len(q) /\ i - 1 < j - 1
      BY <1>2, <1>8, <2>5
    <3>3. QED
      BY <3>1, <3>2, Zenon DEF ByPriority
  <2>6. QED
    BY <1>2, <1>8, <2>1, <2>2, <2>3, <2>4, <2>5
<1>9. QED
  BY <1>3, <1>5, <1>8, Zenon DEF ByPriority

\* Taking a thread out keeps a queue in order.
LEMMA RemoveSorted ==
  ASSUME NEW q, NEW S, Holds(q, S), ByPriority(q), NEW t \in S
  PROVE  ByPriority(Remove(q, t))
<1>1. PICK p : p = CHOOSE k \in 1 .. Len(q) : q[k] = t
  BY Zenon
<1>2. Len(q) \in Nat /\ p \in 1 .. Len(q)
  BY <1>1, HoldsFacts, Zenon
<1>3. PICK r : r = Remove(q, t)
  BY Zenon
<1>4. r = [j \in 1 .. Len(q) - 1 |-> IF j < p THEN q[j] ELSE q[j + 1]]
  BY <1>1, <1>3, Zenon DEF Remove
<1>5. Len(r) = Len(q) - 1
  BY <1>2, <1>4
<1>6. ASSUME NEW i \in 1 .. Len(q) - 1, NEW j \in 1 .. Len(q) - 1, i < j
      PROVE  Priority[r[i]] <= Priority[r[j]]
  <2>1. PICK k \in Int : k = IF i < p THEN i ELSE i + 1
    OBVIOUS
  <2>2. PICK m \in Int : m = IF j < p THEN j ELSE j + 1
    OBVIOUS
  <2>3. r[i] = q[k] /\ r[j] = q[m]
    BY <1>2, <1>4, <2>1, <2>2, Zenon
  <2>4. k \in 1 .. Len(q) /\ m \in 1 .. Len(q) /\ k < m
    BY <1>2, <1>6, <2>1, <2>2
  <2>5. QED
    BY <2>3, <2>4, Zenon DEF ByPriority
<1>7. QED
  BY <1>3, <1>5, <1>6, Zenon DEF ByPriority

\* The runqueue after WakeupSleepingThreads is in order.
LEMMA AwakeSorted ==
  ASSUME IInv, RunQueueSorted
  PROVE  ByPriority(IF Expired = {} THEN sched_runqueue
                    ELSE AddThreadToRunQueue(sched_runqueue, Head(sched_sleepqueue)))
<1>1. sched_runqueue \in Seq(Thread)
  BY QueuesHold, HoldsType, Zenon DEF IInv, TypeOK
<1>2. Expired # {} => Head(sched_sleepqueue) \in Thread
  BY ExpiredFacts, Zenon DEF IInv, TypeOK
<1>3. QED
  BY <1>1, <1>2, AddSorted, Zenon DEF RunQueueSorted

\* Schedule leaves the runqueue in order.
LEMMA ScheduleSorted ==
  ASSUME IInv, RunQueueSorted, NEW c \in CPU, curthread[c] # None, Schedule(c)
  PROVE  RunQueueSorted'
<1>1. PICK awake : awake = IF Expired = {} THEN sched_runqueue
                           ELSE AddThreadToRunQueue(sched_runqueue, Head(sched_sleepqueue))
  BY Zenon
<1>2. PICK A : A = allThreads \ ((suspended \ Expired) \cup zombie)
  BY Zenon
<1>3. Holds(awake, A) /\ ByPriority(awake)
  BY <1>1, <1>2, AwakeFacts, AwakeSorted, Zenon
<1>4. sched_runqueue' = Requeue(awake, curthread[c])
  BY <1>1, Zenon DEF Schedule
<1>5. CASE curthread[c] \in (suspended \ Expired) \cup zombie
  BY <1>3, <1>4, <1>5, Zenon DEF Requeue, RunQueueSorted
<1>6. CASE curthread[c] \notin (suspended \ Expired) \cup zombie
  <2>1. curthread[c] \in A /\ curthread[c] \in Thread /\ A \subseteq Thread
    BY <1>2, <1>6, Zenon DEF IInv, NoFreedContext, Contexts, TypeOK
  <2>2. ByPriority(Remove(awake, curthread[c]))
    BY <1>3, <2>1, RemoveSorted, Zenon
  <2>3. Remove(awake, curthread[c]) \in Seq(Thread)
    <3>1. Holds(Remove(awake, curthread[c]), A \ {curthread[c]}) /\ A \ {curthread[c]} \subseteq Thread
      BY <1>3, <2>1, RemoveHolds, Zenon
    <3>2. QED
      BY <3>1, HoldsType, Zenon
  <2>4. QED
    BY <1>4, <1>6, <2>1, <2>2, <2>3, AddSorted, Zenon DEF Requeue, RunQueueSorted
<1>7. QED
  BY <1>5, <1>6, Zenon

\* Every step keeps the runqueue in order.
LEMMA SortedNext ==
  ASSUME IInv, RunQueueSorted, [Next]_vars
  PROVE  RunQueueSorted'
<1>1. /\ sched_runqueue \in Seq(Thread) /\ ByPriority(sched_runqueue)
      /\ Holds(sched_runqueue, allThreads \ (suspended \cup zombie))
  BY QueuesHold, HoldsType, Zenon DEF IInv, TypeOK, RunQueueSorted
<1>2. ASSUME UNCHANGED sched_runqueue
      PROVE  RunQueueSorted'
  BY <1>2, Zenon DEF RunQueueSorted, ByPriority
<1>3. ASSUME NEW t \in Thread, MoveToRunQueue(t)
      PROVE  RunQueueSorted'
  BY <1>1, <1>3, AddSorted, Zenon DEF MoveToRunQueue, RunQueueSorted
<1>4. ASSUME NEW t \in allThreads \ (suspended \cup zombie),
             sched_runqueue' = Remove(sched_runqueue, t)
      PROVE  RunQueueSorted'
  BY <1>1, <1>4, RemoveSorted, Zenon DEF RunQueueSorted
<1>5. ASSUME NEW c \in CPU, InterruptReturn(c) \/ \E t \in Thread : CallSchedule(c, t)
      PROVE  RunQueueSorted'
  <2>1. curthread[c] # None /\ Schedule(c)
    BY <1>5, Scheduling, Zenon
  <2>2. QED
    BY <2>1, ScheduleSorted, Zenon
<1>6. ASSUME NEW c \in CPU, StartAP(c)
      PROVE  RunQueueSorted'
  BY <1>3, <1>6, ConstantFacts, Zenon DEF StartAP
<1>7. ASSUME NEW c \in CPU, NEW t \in Thread,
             \/ InitThread(t) \/ ResumeThread(t) \/ Destroy(t)
             \/ TimerInterrupt(c) \/ scheduler_release(c)
             \/ \E deadline \in 1 .. MaxTicks : SetTimeout(c, t, deadline)
             \/ SuspendSleeper(c, t) \/ SuspendWaiter(c, t) \/ ExitThread(c, t)
      PROVE  RunQueueSorted'
  <2>1. CASE ResumeThread(t)
    BY <1>3, <2>1, Zenon DEF ResumeThread
  <2>2. CASE SuspendSleeper(c, t) \/ SuspendWaiter(c, t)
    BY <1>4, <2>2, Suspending, Zenon DEF MoveToSleepQueue
  <2>3. CASE ExitThread(c, t)
    <3>1. t \in allThreads \ (suspended \cup zombie)
      BY <2>3, RunningFacts, ConstantFacts, Zenon DEF ExitThread, Running, IInv, RunInv, PCs
    <3>2. QED
      BY <1>4, <2>3, <3>1, Zenon DEF ExitThread
  <2>4. CASE InitThread(t) \/ Destroy(t) \/ TimerInterrupt(c) \/ scheduler_release(c)
    BY <1>2, <2>4, Zenon DEF InitThread, Destroy, TimerInterrupt, scheduler_release, queues
  <2>5. CASE \E deadline \in 1 .. MaxTicks : SetTimeout(c, t, deadline)
    BY <1>2, <2>5, Zenon DEF SetTimeout, queues
  <2>6. QED
    BY <1>7, <2>1, <2>2, <2>3, <2>4, <2>5, Zenon
<1>8. CASE UNCHANGED vars
  BY <1>2, <1>8, Zenon DEF vars, queues
<1>9. QED
  BY <1>5, <1>6, <1>7, <1>8, StepKinds, Zenon

\* The runqueue is in the order of t_priority at all times.
THEOREM QueueInOrder == Spec => []RunQueueSorted
<1>1. Init => RunQueueSorted
  BY DEF Init, RunQueueSorted, ByPriority
<1>2. IInv /\ RunQueueSorted /\ [Next]_vars => RunQueueSorted'
  BY SortedNext, Zenon
<1>3. QED
  BY <1>1, <1>2, Invariance, PTL DEF Spec

\* PickNextThreadToSchedule takes no less urgent thread than one that waits on the
\* runqueue and that no processor is using.
THEOREM UrgentThreadsFirst == Spec => MostUrgentFirst
<1>1. ASSUME IInv, RunQueueSorted, Next, NEW c \in CPU, curthread[c] # None,
             curthread'[c] # curthread[c],
             NEW t \in Members(sched_runqueue) \ (active \cup IdleThreads)
      PROVE  Priority[curthread'[c]] <= Priority[t]
  <2>1. InterruptReturn(c) \/ \E s \in Thread : CallSchedule(c, s)
    <3>1. ASSUME NEW d \in CPU, InterruptReturn(d) \/ \E s \in Thread : CallSchedule(d, s)
          PROVE  d = c
      BY <1>1, <3>1 DEF InterruptReturn, CallSchedule, Schedule, IInv, TypeOK
    <3>2. ASSUME NEW d \in CPU, StartAP(d)
          PROVE  FALSE
      BY <1>1, <3>2, Zenon DEF StartAP, IInv, TypeOK
    <3>3. QED
      BY <1>1, <3>1, <3>2, StepKinds, OtherSteps, Zenon
  <2>2. PICK awake : awake = IF Expired = {} THEN sched_runqueue
                             ELSE AddThreadToRunQueue(sched_runqueue, Head(sched_sleepqueue))
    BY Zenon
  <2>3. PICK A : A = allThreads \ ((suspended \ Expired) \cup zombie)
    BY Zenon
  <2>4. Holds(awake, A) /\ ByPriority(awake) /\ A \subseteq Thread
    BY <1>1, <2>2, <2>3, AwakeFacts, AwakeSorted, Zenon DEF IInv, TypeOK
  <2>5. prev[c] = None /\ curthread'[c] = PickNextThreadToSchedule(c, awake)
    <3>1. prev[c] = None /\ Schedule(c)
      BY <1>1, <2>1, Scheduling, Zenon
    <3>2. QED
      BY <1>1, <2>2, <3>1, Zenon DEF Schedule, IInv, TypeOK
  <2>6. t \in A /\ Eligible(c, t)
    BY <1>1, <2>3, Zenon DEF IInv, QueueMembership, Eligible
  <2>7. PICK k \in 1 .. Len(awake) : awake[k] = t
    BY <2>4, <2>6, HoldsFacts, Zenon
  <2>8. awake \in Seq(Thread)
    BY <2>4, HoldsType, Zenon
  <2>9. PICK i \in 1 .. Len(awake) :
          /\ PickNextThreadToSchedule(c, awake) = awake[i]
          /\ \A j \in 1 .. i - 1 : ~Eligible(c, awake[j])
    BY <2>6, <2>7, <2>8, PickProperties, Zenon
  <2>10. i <= k
    BY <2>6, <2>7, <2>8, <2>9
  <2>11. awake[i] \in Thread /\ Priority[awake[i]] \in Int
    BY <2>8, SchedulerAssumption
  <2>12. QED
    BY <2>4, <2>5, <2>7, <2>9, <2>10, <2>11 DEF ByPriority
<1>2. IInv /\ RunQueueSorted /\ [Next]_vars =>
        [\A c \in CPU : (curthread[c] # None /\ curthread'[c] # curthread[c]) =>
           \A t \in Members(sched_runqueue) \ (active \cup IdleThreads) :
             Priority[curthread'[c]] <= Priority[t]]_vars
  BY <1>1, Zenon
<1>3. QED
  BY <1>2, Invariance, QueueInOrder, PTL DEF Spec, MostUrgentFirst

-----------------------------------------------------------------------------
\* The order of the sleepqueue

\* AddThreadToSleepQueue keeps a queue in order.
LEMMA AddByDeadline ==
  ASSUME NEW q \in Seq(Thread), ByDeadline(q), NEW t \in Thread,
         t_timeout \in [Thread -> Nat]
  PROVE  ByDeadline(AddThreadToSleepQueue(q, t))
<1> DEFINE Before(x, y) == y \in timed => x \in timed /\ t_timeout[x] <= t_timeout[y]
<1>1. PICK p : p = SleepQueuePosition(q, t)
  BY Zenon
<1>2. /\ Len(q) \in Nat /\ p \in 1 .. Len(q) + 1
      /\ t \in timed =>
           /\ p <= Len(q) => ~(q[p] \in timed /\ t_timeout[q[p]] < t_timeout[t])
           /\ \A j \in 1 .. p - 1 : q[j] \in timed /\ t_timeout[q[j]] < t_timeout[t]
      /\ t \notin timed => p = Len(q) + 1
  <2>1. Len(q) \in Nat
    OBVIOUS
  <2>2. QED
    BY <1>1, <2>1, SleepQueuePositionExists, Zenon
<1>3. PICK r : r = AddThreadToSleepQueue(q, t)
  BY Zenon
<1>4. r = [j \in 1 .. Len(q) + 1 |-> IF j < p THEN q[j] ELSE IF j = p THEN t ELSE q[j - 1]]
  BY <1>1, <1>3, Zenon DEF AddThreadToSleepQueue, Insert
<1>5. Len(r) = Len(q) + 1
  BY <1>2, <1>4
<1>6. /\ \A j \in 1 .. Len(q) : q[j] \in Thread
      /\ \A x \in Thread : t_timeout[x] \in Int
  OBVIOUS
<1>7. \A i, j \in 1 .. Len(q) : i < j => Before(q[i], q[j])
  BY Zenon DEF ByDeadline
<1>8. ASSUME NEW j \in p .. Len(q)
      PROVE  Before(t, q[j])
  <2>1. p \in 1 .. Len(q) /\ j \in 1 .. Len(q) /\ (p < j \/ p = j)
    BY <1>2
  <2>2. t \in timed
    BY <1>2, <2>1
  <2>3. q[j] \in timed => q[p] \in timed /\ t_timeout[q[p]] <= t_timeout[q[j]]
    BY <1>6, <1>7, <2>1
  <2>4. ~(q[p] \in timed /\ t_timeout[q[p]] < t_timeout[t])
    BY <1>2, <2>1, <2>2
  <2>5. QED
    BY <1>6, <2>1, <2>2, <2>3, <2>4
<1>9. ASSUME NEW j \in 1 .. p - 1
      PROVE  Before(q[j], t)
  <2>1. j \in 1 .. Len(q)
    BY <1>2
  <2>2. t \in timed => q[j] \in timed /\ t_timeout[q[j]] < t_timeout[t]
    BY <1>2, Zenon
  <2>3. QED
    BY <1>6, <2>1, <2>2
<1> HIDE DEF Before
<1>10. ASSUME NEW i \in 1 .. Len(q) + 1, NEW j \in 1 .. Len(q) + 1, i < j
       PROVE  Before(r[i], r[j])
  <2>1. CASE j < p
    <3>1. i \in 1 .. Len(q) /\ j \in 1 .. Len(q) /\ r[i] = q[i] /\ r[j] = q[j]
      BY <1>2, <1>4, <1>10, <2>1
    <3>2. QED
      BY <1>7, <1>10, <3>1, Zenon
  <2>2. CASE j = p
    <3>1. i \in 1 .. p - 1 /\ r[i] = q[i] /\ r[j] = t
      BY <1>2, <1>4, <1>10, <2>2
    <3>2. QED
      BY <1>9, <3>1, Zenon
  <2>3. CASE i < p /\ p < j
    <3>1. i \in 1 .. p - 1 /\ j - 1 \in p .. Len(q) /\ i \in 1 .. Len(q)
          /\ j - 1 \in 1 .. Len(q) /\ i < j - 1
      BY <1>2, <2>3
    <3>2. r[i] = q[i] /\ r[j] = q[j - 1]
      BY <1>2, <1>4, <2>3
    <3>3. QED
      BY <1>7, <3>1, <3>2, Zenon
  <2>4. CASE i = p
    <3>1. r[i] = t /\ r[j] = q[j - 1] /\ j - 1 \in p .. Len(q)
      BY <1>2, <1>4, <1>10, <2>4
    <3>2. QED
      BY <1>8, <3>1, Zenon
  <2>5. CASE p < i
    <3>1. r[i] = q[i - 1] /\ r[j] = q[j - 1]
      BY <1>2, <1>4, <1>10, <2>5, SMTT(20)
    <3>2. i - 1 \in 1 .. Len(q) /\ j - 1 \in 1 .. Len(q) /\ i - 1 < j - 1
      BY <1>2, <1>10, <2>5
    <3>3. QED
      BY <1>7, <3>1, <3>2, Zenon
  <2>6. QED
    BY <1>2, <1>10, <2>1, <2>2, <2>3, <2>4, <2>5
<1>11. ByDeadline(r)
  BY <1>5, <1>10, Zenon DEF ByDeadline, Before
<1>12. QED
  BY <1>3, <1>11, Zenon

\* Taking a thread out keeps a queue in order.
LEMMA RemoveByDeadline ==
  ASSUME NEW q, NEW S, Holds(q, S), ByDeadline(q), NEW t \in S
  PROVE  ByDeadline(Remove(q, t))
<1>1. PICK p : p = CHOOSE k \in 1 .. Len(q) : q[k] = t
  BY Zenon
<1>2. Len(q) \in Nat /\ p \in 1 .. Len(q)
  BY <1>1, HoldsFacts, Zenon
<1>3. PICK r : r = Remove(q, t)
  BY Zenon
<1>4. r = [j \in 1 .. Len(q) - 1 |-> IF j < p THEN q[j] ELSE q[j + 1]]
  BY <1>1, <1>3, Zenon DEF Remove
<1>5. Len(r) = Len(q) - 1
  BY <1>2, <1>4
<1>6. ASSUME NEW i \in 1 .. Len(q) - 1, NEW j \in 1 .. Len(q) - 1, i < j
      PROVE  r[j] \in timed => r[i] \in timed /\ t_timeout[r[i]] <= t_timeout[r[j]]
  <2>1. PICK k \in Int : k = IF i < p THEN i ELSE i + 1
    OBVIOUS
  <2>2. PICK m \in Int : m = IF j < p THEN j ELSE j + 1
    OBVIOUS
  <2>3. r[i] = q[k] /\ r[j] = q[m]
    BY <1>2, <1>4, <2>1, <2>2, Zenon
  <2>4. k \in 1 .. Len(q) /\ m \in 1 .. Len(q) /\ k < m
    BY <1>2, <1>6, <2>1, <2>2
  <2>5. QED
    BY <2>3, <2>4, Zenon DEF ByDeadline
<1>7. QED
  BY <1>3, <1>5, <1>6, Zenon DEF ByDeadline

\* So does taking out the first thread ...
LEMMA TailByDeadline ==
  ASSUME NEW q \in Seq(Thread), q # <<>>, ByDeadline(q)
  PROVE  ByDeadline(Tail(q))
<1>1. /\ Len(q) \in Nat /\ Len(Tail(q)) = Len(q) - 1
      /\ \A i \in 1 .. Len(Tail(q)) : i + 1 \in 1 .. Len(q) /\ Tail(q)[i] = q[i + 1]
  OBVIOUS
<1>2. ASSUME NEW i \in 1 .. Len(Tail(q)), NEW j \in 1 .. Len(Tail(q)), i < j
      PROVE  /\ i + 1 \in 1 .. Len(q) /\ j + 1 \in 1 .. Len(q) /\ i + 1 < j + 1
             /\ Tail(q)[i] = q[i + 1] /\ Tail(q)[j] = q[j + 1]
  BY <1>1, <1>2
<1>3. QED
  BY <1>2, Zenon DEF ByDeadline

\* ... or putting a thread without a timeout last.
LEMMA AppendByDeadline ==
  ASSUME NEW q \in Seq(Thread), ByDeadline(q), NEW t \in Thread, t \notin timed
  PROVE  ByDeadline(Append(q, t))
<1>1. /\ Len(q) \in Nat /\ Len(Append(q, t)) = Len(q) + 1
      /\ \A i \in 1 .. Len(q) : Append(q, t)[i] = q[i]
      /\ Append(q, t)[Len(q) + 1] = t
  OBVIOUS
<1>2. ASSUME NEW i \in 1 .. Len(Append(q, t)), NEW j \in 1 .. Len(Append(q, t)), i < j,
             Append(q, t)[j] \in timed
      PROVE  /\ i \in 1 .. Len(q) /\ j \in 1 .. Len(q)
             /\ Append(q, t)[i] = q[i] /\ Append(q, t)[j] = q[j]
  BY <1>1, <1>2
<1>3. QED
  BY <1>2, Zenon DEF ByDeadline

\* A queue stays in order while the flags and deadlines of its threads stay.
LEMMA SameDeadlines ==
  ASSUME NEW S, Holds(sched_sleepqueue', S), ByDeadline(sched_sleepqueue'),
         \A s \in S : (s \in timed' <=> s \in timed) /\ t_timeout'[s] = t_timeout[s]
  PROVE  SleepQueueSorted'
<1>1. PICK q : q = sched_sleepqueue'
  BY Zenon
<1>2. \A i \in 1 .. Len(q) : q[i] \in S
  BY <1>1, HoldsFacts, Zenon
<1>3. QED
  BY <1>1, <1>2, Zenon DEF SleepQueueSorted, ByDeadline

\* ResumeThread and StartAP cancel the timeout of the thread they take off.
LEMMA MoveToRunQueueSleep ==
  ASSUME IInv, SleepInv, NEW t \in suspended, MoveToRunQueue(t),
         UNCHANGED <<allThreads, zombie, t_timeout, pc>>
  PROVE  SleepInv'
<1>1. Holds(sched_sleepqueue, suspended) /\ ByDeadline(sched_sleepqueue)
  BY QueuesHold, Zenon DEF IInv, SleepInv, SleepQueueSorted
<1>2. Holds(sched_sleepqueue', suspended \ {t}) /\ ByDeadline(sched_sleepqueue')
  BY <1>1, RemoveHolds, RemoveByDeadline, Zenon DEF MoveToRunQueue
<1>3. SleepQueueSorted'
  BY <1>2, SameDeadlines, Zenon DEF MoveToRunQueue
<1>4. NoStaleTimeout' /\ timed' \subseteq allThreads' \ zombie'
  BY Zenon DEF MoveToRunQueue, SleepInv, NoStaleTimeout
<1>5. QED
  BY <1>3, <1>4, Zenon DEF SleepInv

\* SuspendThread, after SleepUntilTick or in SleepQueue::Sleep.
LEMMA SuspendSleep ==
  ASSUME IInv, SleepInv, NEW c \in CPU, NEW t \in Thread,
         SuspendSleeper(c, t) \/ SuspendWaiter(c, t)
  PROVE  SleepInv'
<1>1. /\ t \in allThreads \ (suspended \cup zombie) /\ MoveToSleepQueue(t)
      /\ UNCHANGED <<allThreads, zombie, timed, t_timeout>>
  BY Suspending, Zenon
<1>2. /\ Holds(sched_sleepqueue, suspended) /\ ByDeadline(sched_sleepqueue)
      /\ suspended \subseteq Thread /\ t_timeout \in [Thread -> 0 .. MaxTicks]
  BY QueuesHold, Zenon DEF IInv, SleepInv, SleepQueueSorted, TypeOK
<1>3. t_timeout \in [Thread -> Nat]
  BY <1>2, SchedulerAssumption
<1>4. sched_sleepqueue \in Seq(Thread)
  BY <1>2, HoldsType, Zenon
<1>5. Holds(sched_sleepqueue', suspended \cup {t}) /\ ByDeadline(sched_sleepqueue')
  BY <1>1, <1>2, <1>3, <1>4, AddHolds, AddByDeadline, Zenon DEF MoveToSleepQueue
<1>6. SleepQueueSorted'
  BY <1>1, <1>5, SameDeadlines, Zenon
<1>7. NoStaleTimeout'
  <2>1. pc \in [Thread -> PCs] /\ timed \subseteq Thread /\ suspended' = suspended \cup {t}
    BY <1>1, Zenon DEF IInv, TypeOK, MoveToSleepQueue
  <2>2. ASSUME NEW s \in timed, s # t
        PROVE  pc[s] = "arm" \/ (s \in suspended' /\ pc[s] \in {"sleep", "run"})
    BY <2>1, <2>2, Zenon DEF SleepInv, NoStaleTimeout
  <2>3. CASE SuspendSleeper(c, t)
    BY <1>1, <2>1, <2>2, <2>3, Zenon DEF SuspendSleeper, NoStaleTimeout
  <2>4. CASE SuspendWaiter(c, t)
    <3>1. pc[t] = "run" /\ pc' = [pc EXCEPT ![t] = "wait"]
      BY <2>4, Zenon DEF SuspendWaiter, Running
    <3>2. t \notin timed
      BY <1>1, <3>1, Zenon DEF SleepInv, NoStaleTimeout
    <3>3. QED
      BY <1>1, <2>1, <2>2, <3>1, <3>2, Zenon DEF NoStaleTimeout
  <2>5. QED
    BY <2>3, <2>4, Zenon
<1>8. QED
  BY <1>1, <1>6, <1>7, Zenon DEF SleepInv

\* Schedule: WakeupSleepingThreads takes off the first thread and its timeout.
LEMMA ScheduleSleep ==
  ASSUME IInv, SleepInv, NEW c \in CPU, InterruptReturn(c) \/ \E t \in Thread : CallSchedule(c, t)
  PROVE  SleepInv'
<1>1. Schedule(c)
  BY Scheduling, Zenon
<1>2. /\ suspended' = suspended \ Expired /\ timed' = timed \ Expired
      /\ sched_sleepqueue' = IF Expired = {} THEN sched_sleepqueue ELSE Tail(sched_sleepqueue)
      /\ UNCHANGED <<allThreads, zombie, t_timeout>>
  BY <1>1, Zenon DEF Schedule
<1>3. /\ Holds(sched_sleepqueue, suspended) /\ ByDeadline(sched_sleepqueue)
      /\ suspended \subseteq Thread
  BY QueuesHold, Zenon DEF IInv, SleepInv, SleepQueueSorted, TypeOK
<1>4. sched_sleepqueue \in Seq(Thread)
  BY <1>3, HoldsType, Zenon
<1>5. Holds(sched_sleepqueue', suspended \ Expired)
  BY <1>2, AwakeFacts, Zenon
<1>6. ByDeadline(sched_sleepqueue')
  BY <1>2, <1>3, <1>4, ExpiredFacts, TailByDeadline, Zenon
<1>7. SleepQueueSorted'
  BY <1>2, <1>5, <1>6, SameDeadlines, Zenon
<1>8. ASSUME NEW s \in timed \ Expired
      PROVE  pc'[s] = "arm" \/ (s \in suspended \ Expired /\ pc'[s] \in {"sleep", "run"})
  <2>1. /\ pc[s] = "arm" \/ (s \in suspended \ Expired /\ pc[s] \in {"sleep", "run"})
        /\ s \in Thread /\ pc \in [Thread -> PCs]
    BY Zenon DEF SleepInv, NoStaleTimeout, IInv, TypeOK
  <2>2. CASE pc' = pc
    BY <2>1, <2>2, Zenon
  <2>3. ASSUME NEW t \in Thread, CallSchedule(c, t)
        PROVE  pc'[s] = "arm" \/ (s \in suspended \ Expired /\ pc'[s] \in {"sleep", "run"})
    <3>1. /\ pc' = [pc EXCEPT ![t] = IF pc[t] = "exit" THEN "exit" ELSE "run"]
          /\ pc[t] # "arm"
      BY <2>3, Zenon DEF CallSchedule, Running
    <3>2. QED
      BY <2>1, <3>1
  <2>4. QED
    BY <2>2, <2>3, Zenon DEF InterruptReturn
<1>9. QED
  BY <1>2, <1>7, <1>8, Zenon DEF SleepInv, NoStaleTimeout

\* A new thread has no timeout left from an earlier life.
LEMMA InitThreadSleep ==
  ASSUME IInv, SleepInv, NEW t \in Thread, InitThread(t)
  PROVE  SleepInv'
<1>1. /\ t \notin allThreads /\ allThreads' = allThreads \cup {t}
      /\ suspended' = suspended \cup {t}
      /\ sched_sleepqueue' = Append(sched_sleepqueue, t)
      /\ pc' = [pc EXCEPT ![t] = "run"]
      /\ UNCHANGED <<zombie, timed, t_timeout>>
  BY Zenon DEF InitThread
<1>2. /\ Holds(sched_sleepqueue, suspended) /\ ByDeadline(sched_sleepqueue)
      /\ suspended \subseteq Thread /\ suspended \cup zombie \subseteq allThreads
      /\ pc \in [Thread -> PCs] /\ timed \subseteq Thread
  BY QueuesHold, Zenon DEF IInv, SleepInv, SleepQueueSorted, TypeOK, QueueMembership
<1>3. t \notin timed /\ t \notin suspended /\ t \notin zombie
  BY <1>1, <1>2, Zenon DEF SleepInv
<1>4. sched_sleepqueue \in Seq(Thread)
  BY <1>2, HoldsType, Zenon
<1>5. Holds(sched_sleepqueue', suspended \cup {t}) /\ ByDeadline(sched_sleepqueue')
  BY <1>1, <1>2, <1>3, <1>4, AppendHolds, AppendByDeadline, Zenon
<1>6. SleepQueueSorted'
  BY <1>1, <1>5, SameDeadlines, Zenon
<1>7. NoStaleTimeout' /\ timed' \subseteq allThreads' \ zombie'
  BY <1>1, <1>2, <1>3, Zenon DEF SleepInv, NoStaleTimeout
<1>8. QED
  BY <1>6, <1>7, Zenon DEF SleepInv

\* SleepUntilTick sets the timeout of a thread that is not on the sleepqueue.
LEMMA SetTimeoutSleep ==
  ASSUME IInv, SleepInv, NEW c \in CPU, NEW t \in Thread, NEW deadline,
         SetTimeout(c, t, deadline)
  PROVE  SleepInv'
<1>1. /\ Running(c, t, "run")
      /\ t_timeout' = [t_timeout EXCEPT ![t] = deadline]
      /\ timed' = timed \cup {t} /\ pc' = [pc EXCEPT ![t] = "arm"]
      /\ UNCHANGED <<allThreads, sched_sleepqueue, suspended, zombie>>
  BY Zenon DEF SetTimeout, queues
<1>2. t \in allThreads \ (suspended \cup zombie)
  BY <1>1, RunningFacts, Zenon DEF PCs
<1>3. /\ Holds(sched_sleepqueue, suspended) /\ ByDeadline(sched_sleepqueue)
      /\ suspended \subseteq Thread /\ pc \in [Thread -> PCs] /\ timed \subseteq Thread
      /\ t_timeout \in [Thread -> 0 .. MaxTicks]
  BY QueuesHold, Zenon DEF IInv, SleepInv, SleepQueueSorted, TypeOK
<1>4. \A s \in suspended : (s \in timed' <=> s \in timed) /\ t_timeout'[s] = t_timeout[s]
  BY <1>1, <1>2, <1>3, Zenon
<1>5. SleepQueueSorted'
  BY <1>1, <1>3, <1>4, SameDeadlines, Zenon
<1>6. NoStaleTimeout' /\ timed' \subseteq allThreads' \ zombie'
  BY <1>1, <1>2, <1>3, Zenon DEF SleepInv, NoStaleTimeout
<1>7. QED
  BY <1>5, <1>6, Zenon DEF SleepInv

\* Terminate and Destroy: a thread that exits in code of its own has no timeout.
LEMMA EndSleep ==
  ASSUME IInv, SleepInv, NEW c \in CPU, NEW t \in Thread, ExitThread(c, t) \/ Destroy(t)
  PROVE  SleepInv'
<1>1. UNCHANGED <<sched_sleepqueue, suspended, timed, t_timeout>>
  BY Zenon DEF ExitThread, Destroy, queues
<1>2. SleepQueueSorted'
  BY <1>1, Zenon DEF SleepInv, SleepQueueSorted, ByDeadline
<1>3. CASE Destroy(t)
  <2>1. t \in zombie /\ allThreads' = allThreads \ {t} /\ zombie' = zombie \ {t} /\ pc' = pc
    BY <1>3, Zenon DEF Destroy, MayDestroy
  <2>2. QED
    BY <1>1, <1>2, <2>1, Zenon DEF SleepInv, NoStaleTimeout
<1>4. CASE ExitThread(c, t)
  <2>1. /\ Running(c, t, "run") /\ zombie' = zombie \cup {t}
        /\ pc' = [pc EXCEPT ![t] = "exit"] /\ allThreads' = allThreads
    BY <1>4, Zenon DEF ExitThread
  <2>2. t \notin suspended /\ pc[t] = "run"
    BY <2>1, RunningFacts, Zenon DEF PCs, Running
  <2>3. t \notin timed
    BY <2>2, Zenon DEF SleepInv, NoStaleTimeout
  <2>4. pc \in [Thread -> PCs] /\ timed \subseteq Thread
    BY Zenon DEF IInv, TypeOK
  <2>5. QED
    BY <1>1, <1>2, <2>1, <2>3, <2>4, Zenon DEF SleepInv, NoStaleTimeout
<1>5. QED
  BY <1>3, <1>4, Zenon

\* Every step keeps the sleepqueue in order and the timeouts current.
LEMMA SleepNext ==
  ASSUME IInv, SleepInv, [Next]_vars
  PROVE  SleepInv'
<1>1. ASSUME NEW c \in CPU, InterruptReturn(c) \/ \E t \in Thread : CallSchedule(c, t)
      PROVE  SleepInv'
  BY <1>1, ScheduleSleep, Zenon
<1>2. ASSUME NEW c \in CPU, StartAP(c)
      PROVE  SleepInv'
  <2>1. IdleThread[c] \in suspended
    BY <1>2, Zenon DEF StartAP, IInv, IdleInv
  <2>2. QED
    BY <1>2, <2>1, MoveToRunQueueSleep, Zenon DEF StartAP
<1>3. ASSUME UNCHANGED <<allThreads, sched_sleepqueue, suspended, zombie, timed, t_timeout, pc>>
      PROVE  SleepInv'
  BY <1>3, Zenon DEF SleepInv, SleepQueueSorted, ByDeadline, NoStaleTimeout
<1>4. ASSUME NEW c \in CPU, NEW t \in Thread,
             \/ InitThread(t) \/ ResumeThread(t) \/ Destroy(t)
             \/ TimerInterrupt(c) \/ scheduler_release(c)
             \/ \E deadline \in 1 .. MaxTicks : SetTimeout(c, t, deadline)
             \/ SuspendSleeper(c, t) \/ SuspendWaiter(c, t) \/ ExitThread(c, t)
      PROVE  SleepInv'
  <2>1. CASE ResumeThread(t)
    BY <2>1, MoveToRunQueueSleep, Zenon DEF ResumeThread
  <2>2. CASE SuspendSleeper(c, t) \/ SuspendWaiter(c, t)
    BY <2>2, SuspendSleep, Zenon
  <2>3. CASE ExitThread(c, t) \/ Destroy(t)
    BY <2>3, EndSleep, Zenon
  <2>4. CASE TimerInterrupt(c) \/ scheduler_release(c)
    BY <1>3, <2>4, Zenon DEF TimerInterrupt, scheduler_release, queues, flags
  <2>5. CASE \E deadline \in 1 .. MaxTicks : SetTimeout(c, t, deadline)
    BY <2>5, SetTimeoutSleep, Zenon
  <2>6. CASE InitThread(t)
    BY <2>6, InitThreadSleep, Zenon
  <2>7. QED
    BY <1>4, <2>1, <2>2, <2>3, <2>4, <2>5, <2>6, Zenon
<1>5. CASE UNCHANGED vars
  BY <1>3, <1>5, Zenon DEF vars, queues, flags
<1>6. QED
  BY <1>1, <1>2, <1>4, <1>5, StepKinds, Zenon

\* The timeouts of SleepUntilTick, with any number of threads that sleep, are
\* woken up and are resumed before their time.
THEOREM SleepInvariance == Spec => []SleepInv
<1>1. Init => SleepInv
  BY DEF Init, SleepInv, SleepQueueSorted, ByDeadline, NoStaleTimeout
<1>2. IInv /\ SleepInv /\ [Next]_vars => SleepInv'
  BY SleepNext, Zenon
<1>3. QED
  BY <1>1, <1>2, Invariance, PTL DEF Spec

\* WakeupSleepingThreads may stop at the first thread of the sleepqueue: no other
\* one is to wake up before it.
THEOREM SleepersInOrder == Spec => []SleepQueueSorted
<1>1. SleepInv => SleepQueueSorted
  BY Zenon DEF SleepInv
<1>2. QED
  BY <1>1, SleepInvariance, PTL

\* THREAD_FLAG_TIMEOUT is never left behind by a sleep that ended.
THEOREM TimeoutsEnd == Spec => []NoStaleTimeout
<1>1. SleepInv => NoStaleTimeout
  BY Zenon DEF SleepInv
<1>2. QED
  BY <1>1, SleepInvariance, PTL

-----------------------------------------------------------------------------
\* Scheduler implements AbstractScheduler

\* A step that changes the state of one thread
LEMMA OneMoves ==
  ASSUME NEW t \in Thread, NEW from, NEW to, ThreadState(t) = from, ThreadState(t)' = to,
         \A s \in Thread : s # t => ThreadState(s)' = ThreadState(s)
  PROVE  Abstract!Move(t, from, to)
<1>1. [s \in Thread |-> ThreadState(s)]' = [s \in Thread |-> ThreadState(s)']
  BY Zenon
<1>2. [s \in Thread |-> ThreadState(s)'] =
        [[s \in Thread |-> ThreadState(s)] EXCEPT ![t] = to]
  BY Zenon
<1>3. QED
  BY <1>1, <1>2, Zenon DEF Abstract!Move

\* A step that touches no processor
LEMMA SameProcessors ==
  ASSUME UNCHANGED <<curthread, prev>>
  PROVE  UNCHANGED <<curthread, [c \in CPU |-> Contexts(c)]>>
BY Zenon DEF Contexts

\* No processor uses a thread that is neither active nor idle.
LEMMA Released ==
  ASSUME IInv, NEW t, t \notin active \cup IdleThreads
  PROVE  Abstract!Released(t)
BY Zenon DEF IInv, ContextInv, Abstract!Released

\* Creating, waking up and freeing threads
LEMMA ThreadStepImplements ==
  ASSUME IInv, NEW t \in Thread, InitThread(t) \/ ResumeThread(t) \/ Destroy(t)
  PROVE  Abstract!Create(t) \/ Abstract!Wake(t) \/ Abstract!Free(t)
<1>1. suspended \cup zombie \subseteq allThreads /\ suspended \cap zombie = {}
  BY Zenon DEF IInv, QueueMembership
<1>2. CASE InitThread(t)
  <2>1. /\ t \notin allThreads /\ allThreads' = allThreads \cup {t}
        /\ suspended' = suspended \cup {t} /\ UNCHANGED <<zombie, curthread, prev>>
    BY <1>2, Zenon DEF InitThread, cpus
  <2>2. ThreadState(t) = "free" /\ ThreadState(t)' = "blocked"
    BY <1>1, <2>1, Zenon DEF ThreadState
  <2>3. \A s \in Thread : s # t => ThreadState(s)' = ThreadState(s)
    BY <2>1 DEF ThreadState
  <2>4. QED
    BY <2>1, <2>2, <2>3, OneMoves, SameProcessors, Zenon DEF Abstract!Create
<1>3. CASE ResumeThread(t)
  <2>1. /\ t \in suspended /\ suspended' = suspended \ {t}
        /\ UNCHANGED <<allThreads, zombie, curthread, prev>>
    BY <1>3, Zenon DEF ResumeThread, MoveToRunQueue, cpus
  <2>2. ThreadState(t) = "blocked" /\ ThreadState(t)' = "ready"
    BY <1>1, <2>1, Zenon DEF ThreadState
  <2>3. \A s \in Thread : s # t => ThreadState(s)' = ThreadState(s)
    BY <2>1 DEF ThreadState
  <2>4. QED
    BY <2>1, <2>2, <2>3, OneMoves, SameProcessors, Zenon DEF Abstract!Wake
<1>4. CASE Destroy(t)
  <2>1. /\ t \in zombie \ active /\ allThreads' = allThreads \ {t} /\ zombie' = zombie \ {t}
        /\ UNCHANGED <<suspended, curthread, prev>>
    BY <1>4, Zenon DEF Destroy, MayDestroy, cpus
  <2>2. ThreadState(t) = "dead" /\ ThreadState(t)' = "free"
    BY <1>1, <2>1, Zenon DEF ThreadState
  <2>3. \A s \in Thread : s # t => ThreadState(s)' = ThreadState(s)
    BY <2>1 DEF ThreadState
  <2>4. Abstract!Released(t)
    BY <2>1, Released, Zenon DEF IInv, IdleInv
  <2>5. QED
    BY <2>1, <2>2, <2>3, <2>4, OneMoves, SameProcessors, Zenon DEF Abstract!Free
<1>5. QED
  BY <1>2, <1>3, <1>4, Zenon

\* Suspending the current thread, and its end
LEMMA EndImplements ==
  ASSUME IInv, NEW c \in CPU, NEW t \in Thread,
         SuspendSleeper(c, t) \/ SuspendWaiter(c, t) \/ ExitThread(c, t)
  PROVE  Abstract!Block(c, t) \/ Abstract!Die(c, t)
<1>1. CASE SuspendSleeper(c, t) \/ SuspendWaiter(c, t)
  <2>1. /\ t \in allThreads \ (suspended \cup zombie) /\ curthread[c] = t
        /\ suspended' = suspended \cup {t}
        /\ UNCHANGED <<allThreads, zombie, curthread, prev>>
    BY <1>1, Suspending, Zenon DEF MoveToSleepQueue, cpus
  <2>2. ThreadState(t) = "ready" /\ ThreadState(t)' = "blocked"
    BY <2>1, Zenon DEF ThreadState
  <2>3. \A s \in Thread : s # t => ThreadState(s)' = ThreadState(s)
    BY <2>1 DEF ThreadState
  <2>4. QED
    BY <2>1, <2>2, <2>3, OneMoves, SameProcessors, Zenon DEF Abstract!Block
<1>2. CASE ExitThread(c, t)
  <2>1. /\ Running(c, t, "run") /\ zombie' = zombie \cup {t}
        /\ UNCHANGED <<allThreads, suspended, curthread, prev>>
    BY <1>2, Zenon DEF ExitThread, cpus
  <2>2. t \in allThreads \ (suspended \cup zombie) /\ curthread[c] = t
    BY <2>1, RunningFacts, ConstantFacts, Zenon DEF Running, IInv, RunInv, PCs
  <2>3. ThreadState(t) = "ready" /\ ThreadState(t)' = "dead"
    BY <2>1, <2>2, Zenon DEF ThreadState
  <2>4. \A s \in Thread : s # t => ThreadState(s)' = ThreadState(s)
    BY <2>1 DEF ThreadState
  <2>5. QED
    BY <2>1, <2>2, <2>3, <2>4, OneMoves, SameProcessors, Zenon DEF Abstract!Die
<1>3. QED
  BY <1>1, <1>2, Zenon

\* The start of a processor
LEMMA StartImplements ==
  ASSUME IInv, NEW c \in CPU, StartAP(c)
  PROVE  Abstract!Start(c, IdleThread[c])
<1>1. PICK t \in Thread : t = IdleThread[c]
  BY ConstantFacts, Zenon
<1>2. /\ curthread[c] = None /\ curthread' = [curthread EXCEPT ![c] = t]
      /\ suspended' = suspended \ {t} /\ UNCHANGED <<allThreads, zombie, prev>>
  BY <1>1, Zenon DEF StartAP, MoveToRunQueue
<1>3. prev[c] = None /\ t \in suspended /\ t \in allThreads \ zombie /\ t # None
  BY <1>1, <1>2, ConstantFacts, Zenon DEF IInv, ContextInv, IdleInv
<1>4. \A d \in CPU : t \notin Contexts(d)
  <2> SUFFICES ASSUME NEW d \in CPU, t \in Contexts(d)
               PROVE  FALSE
    BY Zenon
  <2>1. d = c
    BY <1>1, Zenon DEF IInv, IdleInv
  <2>2. QED
    BY <1>2, <1>3, <2>1, Zenon DEF Contexts
<1>5. Abstract!Released(t)
  BY <1>4, Zenon DEF Abstract!Released
<1>6. Abstract!Move(t, "blocked", "ready")
  <2>1. ThreadState(t) = "blocked" /\ ThreadState(t)' = "ready"
    BY <1>2, <1>3, Zenon DEF ThreadState
  <2>2. \A s \in Thread : s # t => ThreadState(s)' = ThreadState(s)
    BY <1>2 DEF ThreadState
  <2>3. QED
    BY <2>1, <2>2, OneMoves, Zenon
<1>7. [d \in CPU |-> Contexts(d)]' = [[d \in CPU |-> Contexts(d)] EXCEPT ![c] = {t}]
  <2>1. curthread'[c] = t /\ \A d \in CPU \ {c} : curthread'[d] = curthread[d]
    BY <1>2, Zenon DEF IInv, TypeOK
  <2>2. Contexts(c)' = {t}
    BY <1>2, <1>3, <2>1, Zenon DEF Contexts
  <2>3. \A d \in CPU \ {c} : Contexts(d)' = Contexts(d)
    BY <1>2, <2>1, Zenon DEF Contexts
  <2>4. QED
    BY <2>2, <2>3, Zenon
<1>8. QED
  BY <1>1, <1>2, <1>5, <1>6, <1>7, Zenon DEF Abstract!Start

\* Schedule goes on with a thread that can run and that no other processor uses.
LEMMA ScheduleImplements ==
  ASSUME IInv, NEW c \in CPU, curthread[c] # None, prev[c] = None, Schedule(c)
  PROVE  \E t \in Thread : Abstract!Switch(c, t)
<1>1. PICK new : ScheduledTo(c, new)
  BY ScheduleFacts, Zenon
<1>2. PICK cur \in Thread : cur = curthread[c]
  BY Zenon DEF IInv, TypeOK
<1>3. /\ new \in Thread /\ new \in allThreads \ (suspended' \cup zombie) /\ Eligible(c, new)
      /\ suspended' \subseteq suspended
      /\ curthread' = [curthread EXCEPT ![c] = new]
      /\ prev' = [prev EXCEPT ![c] = IF new = cur THEN None ELSE cur]
      /\ UNCHANGED <<allThreads, zombie>>
  BY <1>1, <1>2, Zenon DEF ScheduledTo
<1>4. Contexts(c) = {cur}
  BY <1>2, ConstantFacts, Zenon DEF Contexts
<1>5. ASSUME new # cur
      PROVE  Abstract!Released(new)
  <2>1. ASSUME NEW d \in CPU, new \in Contexts(d)
        PROVE  FALSE
    <3>1. new \notin active
      BY <1>2, <1>3, <1>5, Zenon DEF Eligible
    <3>2. new \in IdleThreads
      BY <2>1, <3>1, Zenon DEF IInv, ContextInv
    <3>3. d = c
      BY <1>3, <2>1, <3>2, Zenon DEF Eligible, IInv, IdleInv
    <3>4. QED
      BY <1>4, <1>5, <2>1, <3>3, Zenon
  <2>2. QED
    BY <2>1, Zenon DEF Abstract!Released
<1>6. PICK W : W = suspended \ suspended'
  BY Zenon
<1>7. \A s \in Thread : ThreadState(s)' = IF s \in W THEN "ready" ELSE ThreadState(s)
  <2>1. suspended \subseteq allThreads /\ suspended \cap zombie = {}
    BY Zenon DEF IInv, QueueMembership
  <2>2. QED
    BY <1>3, <1>6, <2>1 DEF ThreadState
<1>8. W \in SUBSET {s \in Thread : ThreadState(s) = "blocked"}
  BY <1>6, Zenon DEF IInv, QueueMembership, TypeOK, ThreadState
<1>9. ThreadState(new)' = "ready"
  BY <1>3, Zenon DEF ThreadState
<1>10. [d \in CPU |-> Contexts(d)]' =
         [[d \in CPU |-> Contexts(d)] EXCEPT ![c] = Contexts(c) \cup {new}]
  <2>1. /\ curthread'[c] = new /\ prev'[c] = IF new = cur THEN None ELSE cur
        /\ \A d \in CPU \ {c} : curthread'[d] = curthread[d] /\ prev'[d] = prev[d]
    BY <1>3, Zenon DEF IInv, TypeOK
  <2>2. Contexts(c)' = {cur} \cup {new}
    BY <1>2, <1>3, <2>1, ConstantFacts DEF Contexts
  <2>3. \A d \in CPU \ {c} : Contexts(d)' = Contexts(d)
    BY <2>1, Zenon DEF Contexts
  <2>4. QED
    BY <1>4, <2>2, <2>3, Zenon
<1>11. [s \in Thread |-> ThreadState(s)]' =
         [s \in Thread |-> IF s \in W THEN "ready" ELSE [r \in Thread |-> ThreadState(r)][s]]
  BY <1>7, Zenon
<1>12. Abstract!Switch(c, new)
  <2>1. W \in SUBSET {s \in Thread : [r \in Thread |-> ThreadState(r)][s] = "blocked"}
    BY <1>8, Zenon
  <2>2. [s \in Thread |-> ThreadState(s)]'[new] = "ready"
    BY <1>3, <1>9, Zenon
  <2>3. [d \in CPU |-> Contexts(d)][c] = {curthread[c]}
    BY <1>2, <1>4, Zenon
  <2>4. new = curthread[c] \/ Abstract!Released(new)
    BY <1>2, <1>5, Zenon
  <2>5. QED
    BY <1>3, <1>10, <1>11, <2>1, <2>2, <2>3, <2>4, Zenon DEF Abstract!Switch
<1>13. QED
  BY <1>3, <1>12, Zenon

\* scheduler_release leaves the thread before.
LEMMA ReleaseImplements ==
  ASSUME IInv, NEW c \in CPU, scheduler_release(c)
  PROVE  curthread[c] # None /\ Abstract!Leave(c)
<1>1. /\ prev[c] # None /\ prev' = [prev EXCEPT ![c] = None]
      /\ UNCHANGED <<allThreads, suspended, zombie, curthread>>
  BY Zenon DEF scheduler_release
<1>2. curthread[c] # None
  BY <1>1, Zenon DEF IInv, ContextInv
<1>3. prev'[c] = None /\ \A d \in CPU \ {c} : prev'[d] = prev[d]
  BY <1>1, Zenon DEF IInv, TypeOK
<1>4. Contexts(c)' = {curthread[c]} /\ \A d \in CPU \ {c} : Contexts(d)' = Contexts(d)
  BY <1>1, <1>2, <1>3, Zenon DEF Contexts
<1>5. [d \in CPU |-> Contexts(d)]' = [[d \in CPU |-> Contexts(d)] EXCEPT ![c] = {curthread[c]}]
  BY <1>4, Zenon
<1>6. UNCHANGED [t \in Thread |-> ThreadState(t)]
  BY <1>1 DEF ThreadState
<1>7. QED
  BY <1>1, <1>2, <1>5, <1>6, Zenon DEF Abstract!Leave

\* Every step of the scheduler is a step of the abstract one, or leaves it alone.
LEMMA SchedulerStepImplements ==
  ASSUME IInv, [Next]_vars
  PROVE  [Abstract!Next]_(Abstract!vars)
<1>1. ASSUME UNCHANGED <<allThreads, suspended, zombie, curthread, prev>>
      PROVE  UNCHANGED Abstract!vars
  <2>1. UNCHANGED <<curthread, [c \in CPU |-> Contexts(c)]>>
    BY <1>1, SameProcessors, Zenon
  <2>2. UNCHANGED [t \in Thread |-> ThreadState(t)]
    BY <1>1 DEF ThreadState
  <2>3. QED
    BY <2>1, <2>2, Zenon DEF Abstract!vars
<1>2. ASSUME NEW c \in CPU, InterruptReturn(c) \/ \E t \in Thread : CallSchedule(c, t)
      PROVE  Abstract!Next
  <2>1. IInv /\ curthread[c] # None /\ prev[c] = None /\ Schedule(c)
    BY <1>2, Scheduling, Zenon
  <2>2. QED
    BY <2>1, ScheduleImplements, Zenon DEF Abstract!Next
<1>3. ASSUME NEW c \in CPU, StartAP(c)
      PROVE  Abstract!Next
  BY <1>3, StartImplements, ConstantFacts, Zenon DEF Abstract!Next
<1>4. ASSUME NEW c \in CPU, NEW t \in Thread,
             \/ InitThread(t) \/ ResumeThread(t) \/ Destroy(t)
             \/ TimerInterrupt(c) \/ scheduler_release(c)
             \/ \E deadline \in 1 .. MaxTicks : SetTimeout(c, t, deadline)
             \/ SuspendSleeper(c, t) \/ SuspendWaiter(c, t) \/ ExitThread(c, t)
      PROVE  [Abstract!Next]_(Abstract!vars)
  <2>1. CASE InitThread(t) \/ ResumeThread(t) \/ Destroy(t)
    BY <2>1, ThreadStepImplements, Zenon DEF Abstract!Next
  <2>2. CASE SuspendSleeper(c, t) \/ SuspendWaiter(c, t) \/ ExitThread(c, t)
    BY <2>2, EndImplements, Zenon DEF Abstract!Next
  <2>3. CASE scheduler_release(c)
    BY <2>3, ReleaseImplements, Zenon DEF Abstract!Next
  <2>4. CASE TimerInterrupt(c) \/ \E deadline \in 1 .. MaxTicks : SetTimeout(c, t, deadline)
    <3>1. UNCHANGED <<allThreads, suspended, zombie, curthread, prev>>
      BY <2>4, Zenon DEF TimerInterrupt, SetTimeout, flags, cpus
    <3>2. QED
      BY <1>1, <3>1, Zenon
  <2>5. QED
    BY <1>4, <2>1, <2>2, <2>3, <2>4, Zenon
<1>5. CASE UNCHANGED vars
  <2>1. UNCHANGED <<allThreads, suspended, zombie, curthread, prev>>
    BY <1>5, Zenon DEF vars, flags, cpus
  <2>2. QED
    BY <1>1, <2>1, Zenon
<1>6. QED
  BY <1>2, <1>3, <1>4, <1>5, StepKinds, Zenon

\* Whatever kern/scheduler.cpp does with its queues, flags and priorities, and
\* however processors interleave: only ready threads are run, each by one processor
\* until that one has left its stack, and only dead threads are freed.
THEOREM SchedulerImplements == Spec => ImplementsAbstractScheduler
<1>1. Init => Abstract!Init
  <2> SUFFICES ASSUME Init
               PROVE  Abstract!Init
    BY Zenon
  <2>1. /\ allThreads = IdleThreads /\ suspended = IdleThreads \ {IdleThread[BSP]} /\ zombie = {}
        /\ curthread = [c \in CPU |-> IF c = BSP THEN IdleThread[c] ELSE None]
        /\ prev = [c \in CPU |-> None]
    BY Zenon DEF Init
  <2>2. \A t \in Thread : ThreadState(t) \in {"free", "blocked", "ready"}
    BY <2>1, Zenon DEF ThreadState
  <2>3. ThreadState(IdleThread[BSP]) = "ready" /\ IdleThread[BSP] \in Thread
    BY <2>1, ConstantFacts, Zenon DEF ThreadState
  <2>4. [t \in Thread |-> ThreadState(t)] \in [Thread -> {"free", "blocked", "ready"}]
    BY <2>2, Zenon
  <2>5. curthread \in
          [CPU -> {t \in Thread : [s \in Thread |-> ThreadState(s)][t] = "ready"} \cup {None}]
    BY <2>1, <2>3, Zenon
  <2>6. \A c, d \in CPU : (c # d /\ curthread[c] # None) => curthread[c] # curthread[d]
    BY <2>1, ConstantFacts, Zenon
  <2>7. [c \in CPU |-> Contexts(c)] = [c \in CPU |-> {curthread[c]} \ {None}]
    BY <2>1, Zenon DEF Contexts
  <2>8. QED
    BY <2>4, <2>5, <2>6, <2>7, Zenon DEF Abstract!Init
<1>2. IInv /\ [Next]_vars => [Abstract!Next]_(Abstract!vars)
  BY SchedulerStepImplements, Zenon
<1>3. QED
  BY <1>1, <1>2, Invariance, PTL DEF Spec, ImplementsAbstractScheduler, Abstract!Spec
=============================================================================
