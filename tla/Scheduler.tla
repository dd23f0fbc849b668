----------------------------- MODULE Scheduler -----------------------------
(***************************************************************************)
(* The thread scheduler of the kernel (kern/scheduler.cpp), with the       *)
(* operations of kern/thread.cpp that drive it, the timer interrupt and    *)
(* the start of the application processors (arch/amd64/smp.cpp).           *)
(*                                                                         *)
(* Every action that the code performs with schedLock held is one step:    *)
(* schedLock is a spinlock taken with interrupts disabled.  A context      *)
(* switch is two such steps, Schedule and scheduler_release, and other     *)
(* CPUs run between them.                                                  *)
(***************************************************************************)
EXTENDS Lists, FiniteSets

CONSTANTS
  NumCPUs,     \* number of processors; processor 0 is the boot processor
  Thread,      \* every thread that may ever exist
  IdleThread,  \* the idle thread of each processor (PCPU idlethread)
  Priority,    \* t_priority: 0 is the highest
  MaxTicks,    \* bound on the tick counter
  None         \* no thread (nullptr)

CPU == 0 .. NumCPUs - 1
BSP == 0
IdleThreads == {IdleThread[c] : c \in CPU}

ASSUME SchedulerAssumption ==
  /\ NumCPUs \in Nat \ {0}
  /\ IdleThread \in [CPU -> Thread]
  /\ \A c, d \in CPU : IdleThread[c] = IdleThread[d] => c = d
  /\ Priority \in [Thread -> Nat]
  /\ MaxTicks \in Nat
  /\ None \notin Thread

VARIABLES
  allThreads,      \* the threads that exist
  sched_runqueue,  \* threads that can run, by priority
  sched_sleepqueue,\* suspended threads, those with a timeout first
  active,          \* threads with THREAD_SCHED_ACTIVE
  suspended,       \* threads with THREAD_SCHED_SUSPENDED
  zombie,          \* threads with THREAD_FLAG_ZOMBIE
  timed,           \* threads with THREAD_FLAG_TIMEOUT
  t_timeout,       \* the tick at which a timed thread is to wake up
  ticks,           \* time::ticks
  curthread,       \* PCPU curthread; None: the processor is not started
  prev,            \* the thread a processor switched from and must release
  irq,             \* processors inside the timer interrupt handler
  pc               \* where a thread is, see below

queues == <<sched_runqueue, sched_sleepqueue>>
flags == <<active, suspended, zombie, timed>>
cpus == <<curthread, prev, irq>>
vars == <<allThreads, queues, flags, t_timeout, ticks, cpus, pc>>

(***************************************************************************)
(* Where a thread is in the code:                                          *)
(*   run    in code of its own, may be preempted                           *)
(*   arm    in SleepUntilTick, THREAD_FLAG_TIMEOUT set, before Suspend     *)
(*   sleep  in SleepUntilTick, between Suspend and Schedule                *)
(*   wait   in SleepQueue::Sleep, between Suspend and Schedule             *)
(*   exit   in Terminate, after ExitThread                                 *)
(* Interrupts are disabled in "wait" and in "exit".                        *)
(***************************************************************************)
PCs == {"run", "arm", "sleep", "wait", "exit"}
Preemptible == {"run", "arm", "sleep"}

-----------------------------------------------------------------------------
\* The queues

\* Mutants: a queue that is not kept in order; a thread put before its equals.
AtTheEnd(q, t) == Len(q) + 1
BeforeEquals(q, t) ==
  CHOOSE i \in 1 .. Len(q) + 1 :
    /\ i <= Len(q) => Priority[q[i]] >= Priority[t]
    /\ \A j \in 1 .. i - 1 : Priority[q[j]] < Priority[t]

\* Where AddThreadToRunQueue puts t: before the first less urgent thread.
RunQueuePosition(q, t) ==
  CHOOSE i \in 1 .. Len(q) + 1 :
    /\ i <= Len(q) => Priority[q[i]] > Priority[t]
    /\ \A j \in 1 .. i - 1 : Priority[q[j]] <= Priority[t]

AddThreadToRunQueue(q, t) == Insert(q, RunQueuePosition(q, t), t)

\* Where AddThreadToSleepQueue puts t: threads without a timeout go last, one
\* with a timeout before the first thread that does not wake up earlier.
SleepQueuePosition(q, t) ==
  CHOOSE i \in 1 .. Len(q) + 1 :
    LET Earlier(s) == s \in timed /\ t_timeout[s] < t_timeout[t]
    IN IF t \in timed
       THEN /\ i <= Len(q) => ~Earlier(q[i])
            /\ \A j \in 1 .. i - 1 : Earlier(q[j])
       ELSE i = Len(q) + 1

AddThreadToSleepQueue(q, t) == Insert(q, SleepQueuePosition(q, t), t)

\* The thread that WakeupSleepingThreads wakes up: it looks only at the front.
Expired ==
  {t \in timed : /\ sched_sleepqueue # <<>>
                 /\ t = Head(sched_sleepqueue)
                 /\ t_timeout[t] <= ticks}

\* Mutant: a thread that is active elsewhere is not skipped.
EligibleIfActive(c, t) == t \in IdleThreads => t = IdleThread[c]

\* The threads PickNextThreadToSchedule accepts on processor c.
Eligible(c, t) ==
  /\ t \in IdleThreads => t = IdleThread[c]
  /\ t \in active => t = curthread[c]

PickNextThreadToSchedule(c, q) ==
  q[CHOOSE i \in 1 .. Len(q) :
      /\ Eligible(c, q[i])
      /\ \A j \in 1 .. i - 1 : ~Eligible(c, q[j])]

\* Mutant: zombies are not left out.
RequeueZombie(q, t) ==
  IF t \in suspended \ Expired THEN q
  ELSE AddThreadToRunQueue(IF t \in zombie THEN q ELSE Remove(q, t), t)

\* What Schedule does with the current thread: behind its equals, unless it is
\* suspended or a zombie.
Requeue(q, t) ==
  IF t \in (suspended \ Expired) \cup zombie THEN q
  ELSE AddThreadToRunQueue(Remove(q, t), t)

-----------------------------------------------------------------------------
\* At boot: the boot processor runs its idle thread, the idle threads of the
\* other processors are created but not yet resumed (startup.cpp, smp.cpp).
Init ==
  /\ allThreads = IdleThreads
  /\ sched_runqueue = <<IdleThread[BSP]>>
  /\ sched_sleepqueue = [i \in 1 .. NumCPUs - 1 |-> IdleThread[i]]
  /\ active = {}
  /\ suspended = IdleThreads \ {IdleThread[BSP]}
  /\ zombie = {}
  /\ timed = {}
  /\ t_timeout = [t \in Thread |-> 0]
  /\ ticks = 0
  /\ curthread = [c \in CPU |-> IF c = BSP THEN IdleThread[c] ELSE None]
  /\ prev = [c \in CPU |-> None]
  /\ irq = {}
  /\ pc = [t \in Thread |-> "run"]

\* Thread t executes its own code on processor c.
Running(c, t, where) ==
  /\ curthread[c] = t
  /\ prev[c] = None
  /\ c \notin irq
  /\ pc[t] = where

\* Mutant: the timeout stays armed.
MoveStillTimed(t) ==
  /\ sched_sleepqueue' = Remove(sched_sleepqueue, t)
  /\ sched_runqueue' = AddThreadToRunQueue(sched_runqueue, t)
  /\ suspended' = suspended \ {t}
  /\ UNCHANGED timed

\* ResumeThread: back to the runqueue, any timeout is cancelled.
MoveToRunQueue(t) ==
  /\ sched_sleepqueue' = Remove(sched_sleepqueue, t)
  /\ sched_runqueue' = AddThreadToRunQueue(sched_runqueue, t)
  /\ suspended' = suspended \ {t}
  /\ timed' = timed \ {t}

\* SuspendThread
MoveToSleepQueue(t) ==
  /\ sched_runqueue' = Remove(sched_runqueue, t)
  /\ sched_sleepqueue' = AddThreadToSleepQueue(sched_sleepqueue, t)
  /\ suspended' = suspended \cup {t}

-----------------------------------------------------------------------------
\* mp_ap_startup: an application processor becomes its idle thread.
StartAP(c) ==
  /\ c # BSP
  /\ curthread[c] = None
  /\ curthread' = [curthread EXCEPT ![c] = IdleThread[c]]
  /\ MoveToRunQueue(IdleThread[c])
  /\ UNCHANGED <<allThreads, active, zombie, t_timeout, ticks, prev, irq, pc>>

\* thread_alloc / kthread_alloc: a new thread is suspended.
InitThread(t) ==
  /\ t \notin allThreads
  /\ allThreads' = allThreads \cup {t}
  /\ suspended' = suspended \cup {t}
  /\ sched_sleepqueue' = Append(sched_sleepqueue, t)
  /\ pc' = [pc EXCEPT ![t] = "run"]
  /\ UNCHANGED <<sched_runqueue, active, zombie, timed, t_timeout, ticks, cpus>>

\* Thread::Resume, by whoever created the thread or wakes it up, also before its
\* timeout; ResumeThread panics when the thread is not suspended.
ResumeThread(t) ==
  /\ t \in suspended
  /\ MoveToRunQueue(t)
  /\ UNCHANGED <<allThreads, active, zombie, t_timeout, ticks, cpus, pc>>

\* SleepUntilTick sets the deadline and the flag ...  The caller computed the
\* deadline from an earlier value of ticks: it may have passed by now.
SetTimeout(c, t, deadline) ==
  /\ Running(c, t, "run")
  /\ t \notin IdleThreads
  /\ t_timeout' = [t_timeout EXCEPT ![t] = deadline]
  /\ timed' = timed \cup {t}
  /\ pc' = [pc EXCEPT ![t] = "arm"]
  /\ UNCHANGED <<allThreads, queues, active, suspended, zombie, ticks, cpus>>

\* ... and suspends the thread; it may have been preempted in between.
SuspendSleeper(c, t) ==
  /\ Running(c, t, "arm")
  /\ MoveToSleepQueue(t)
  /\ pc' = [pc EXCEPT ![t] = "sleep"]
  /\ UNCHANGED <<allThreads, active, zombie, timed, t_timeout, ticks, cpus>>

\* Mutant: the idle thread may be suspended.
AnyThread(t) == TRUE

\* Thread::Suspend asserts that the idle thread is not suspended.
MaySuspend(t) == t \notin IdleThreads

\* SleepQueue::Sleep suspends the thread.
SuspendWaiter(c, t) ==
  /\ Running(c, t, "run")
  /\ MaySuspend(t)
  /\ MoveToSleepQueue(t)
  /\ pc' = [pc EXCEPT ![t] = "wait"]
  /\ UNCHANGED <<allThreads, active, zombie, timed, t_timeout, ticks, cpus>>

\* Terminate: ExitThread leaves interrupts disabled.
ExitThread(c, t) ==
  /\ Running(c, t, "run")
  /\ t \notin IdleThreads
  /\ sched_runqueue' = Remove(sched_runqueue, t)
  /\ zombie' = zombie \cup {t}
  /\ pc' = [pc EXCEPT ![t] = "exit"]
  /\ UNCHANGED <<allThreads, sched_sleepqueue, active, suspended, timed,
                 t_timeout, ticks, cpus>>

\* Mutant: Destroy does not wait until the thread is released.
IsZombie(t) == t \in zombie

\* Thread::Destroy spins until the zombie is no longer active.
MayDestroy(t) == t \in zombie \ active

\* Thread::Destroy, by a thread that waits for t: it frees the stack of t.
Destroy(t) ==
  /\ MayDestroy(t)
  /\ allThreads' = allThreads \ {t}
  /\ zombie' = zombie \ {t}
  /\ UNCHANGED <<queues, active, suspended, timed, t_timeout, ticks, cpus, pc>>

\* The critical section of Schedule: wake up at most one sleeping thread, pick
\* the next one, put the current one behind its equals, switch.
Schedule(c) ==
  LET cur == curthread[c]
      awake == IF Expired = {} THEN sched_runqueue
               ELSE AddThreadToRunQueue(sched_runqueue, Head(sched_sleepqueue))
      new == PickNextThreadToSchedule(c, awake)
  IN /\ sched_sleepqueue' = IF Expired = {} THEN sched_sleepqueue
                            ELSE Tail(sched_sleepqueue)
     /\ suspended' = suspended \ Expired
     /\ timed' = timed \ Expired
     /\ sched_runqueue' = Requeue(awake, cur)
     /\ active' = active \cup {new}
     /\ curthread' = [curthread EXCEPT ![c] = new]
     /\ prev' = [prev EXCEPT ![c] = IF new = cur THEN None ELSE cur]
     /\ UNCHANGED <<allThreads, zombie, t_timeout, ticks>>

\* Schedule called by the current thread: the end of SleepUntilTick, of
\* SleepQueue::Sleep and of Terminate; in "run", a thread that yields.
CallSchedule(c, t) ==
  /\ \E where \in PCs \ {"arm"} : Running(c, t, where)
  /\ t \notin IdleThreads
  /\ Schedule(c)
  /\ pc' = [pc EXCEPT ![t] = IF pc[t] = "exit" THEN "exit" ELSE "run"]
  /\ UNCHANGED irq

\* The timer interrupt; only the boot processor counts ticks (OnTick).
TimerInterrupt(c) ==
  /\ \E t \in Thread, where \in Preemptible : Running(c, t, where)
  /\ ticks' = IF c = BSP /\ ticks < MaxTicks THEN ticks + 1 ELSE ticks
  /\ irq' = irq \cup {c}
  /\ UNCHANGED <<allThreads, queues, flags, t_timeout, curthread, prev, pc>>

\* The end of irq::InvokeHandler: the timer asked for a reschedule.
InterruptReturn(c) ==
  /\ c \in irq
  /\ Schedule(c)
  /\ irq' = irq \ {c}
  /\ UNCHANGED pc

\* scheduler_release, on the stack of the new thread: by Schedule when it
\* returns from SwitchTo, by thread_trampoline for a thread that never ran.
scheduler_release(c) ==
  /\ prev[c] # None
  /\ active' = active \ {prev[c]}
  /\ prev' = [prev EXCEPT ![c] = None]
  /\ UNCHANGED <<allThreads, queues, suspended, zombie, timed, t_timeout, ticks,
                 curthread, irq, pc>>

CpuStep(c) ==
  \/ StartAP(c)
  \/ TimerInterrupt(c)
  \/ InterruptReturn(c)
  \/ scheduler_release(c)
  \/ \E t \in Thread :
       \/ \E deadline \in 1 .. MaxTicks : SetTimeout(c, t, deadline)
       \/ SuspendSleeper(c, t)
       \/ SuspendWaiter(c, t)
       \/ ExitThread(c, t)
       \/ CallSchedule(c, t)

Next ==
  \/ \E c \in CPU : CpuStep(c)
  \/ \E t \in Thread : InitThread(t) \/ Destroy(t)
  \/ \E t \in Thread \ IdleThreads : ResumeThread(t)

Spec == Init /\ [][Next]_vars

\* A processor that is started does not stop (that it is ever started is not
\* assumed).  The steps InterruptReturn, scheduler_release and the Schedule of a
\* thread that has suspended itself or exited are possible until they are taken,
\* so weak fairness of each says that no processor stays where it is possible.
\* The timer is periodic and its interrupt stays pending while interrupts are
\* disabled: every started processor is interrupted again and again.  Nothing is
\* assumed of the code the threads run: they need never suspend or yield.
Fairness ==
  \A c \in CPU :
    /\ []<>(curthread[c] = None \/ c \in irq)
    /\ []<>(c \notin irq)
    /\ []<>(prev[c] = None)
    /\ []<>(\A t \in Thread, where \in PCs \ {"run", "arm"} : ~Running(c, t, where))

FairSpec == Spec /\ Fairness

-----------------------------------------------------------------------------
\* Properties

\* The queues of scheduler.cpp hold existing threads, the processors run known ones.
TypeOK ==
  /\ allThreads \subseteq Thread
  /\ sched_runqueue \in Seq(allThreads)
  /\ sched_sleepqueue \in Seq(allThreads)
  /\ active \subseteq Thread
  /\ suspended \subseteq Thread
  /\ zombie \subseteq Thread
  /\ timed \subseteq Thread
  /\ t_timeout \in [Thread -> 0 .. MaxTicks]
  /\ ticks \in 0 .. MaxTicks
  /\ curthread \in [CPU -> Thread \cup {None}]
  /\ prev \in [CPU -> Thread \cup {None}]
  /\ irq \subseteq CPU
  /\ pc \in [Thread -> PCs]

\* What the Prove<> checks of scheduler.cpp assert at each operation, as one
\* invariant: a thread is on the sleepqueue exactly while it is suspended, on
\* the runqueue exactly while it exists and is neither suspended nor a zombie,
\* and on neither queue once it is a zombie or freed; never twice on a queue.
QueueMembership ==
  /\ NoDuplicates(sched_runqueue)
  /\ NoDuplicates(sched_sleepqueue)
  /\ Members(sched_runqueue) = allThreads \ (suspended \cup zombie)
  /\ Members(sched_sleepqueue) = suspended
  /\ suspended \cup zombie \subseteq allThreads
  /\ suspended \cap zombie = {}

\* The contexts (kernel stacks) a processor is using: that of its current
\* thread and, until scheduler_release, that of the thread it switched from.
Contexts(c) == {curthread[c], prev[c]} \ {None}

\* No thread runs on two processors: a thread that some processor is still
\* switching away from is not picked by another one.
OneProcessorPerThread ==
  \A c, d \in CPU : c # d => Contexts(c) \cap Contexts(d) = {}

\* Thread::Destroy frees the kernel stack: no processor may still be using it.
NoFreedContext == \A c \in CPU : Contexts(c) \subseteq allThreads

\* PickNextThreadToSchedule never ends in "nothing on the runqueue for cpu":
\* whatever is suspended or exits, the idle thread can be picked.
AlwaysEligible ==
  \A c \in CPU : (curthread[c] # None /\ prev[c] = None) =>
    \E i \in 1 .. Len(sched_runqueue) : Eligible(c, sched_runqueue[i])

\* A list of suspended threads, those that wake up first at the front.
ByDeadline(q) ==
  \A i, j \in 1 .. Len(q) : i < j =>
    (q[j] \in timed => q[i] \in timed /\ t_timeout[q[i]] <= t_timeout[q[j]])

\* "We'll only look at the first item as we expect them to be added in a sorted
\* way" (WakeupSleepingThreads): the first thread of the sleepqueue is the next
\* one to wake up, whatever was suspended, resumed early and woken up before.
SleepQueueSorted == ByDeadline(sched_sleepqueue)

\* THREAD_FLAG_TIMEOUT does not outlive the sleep it was set for, however that
\* ends (WakeupSleepingThreads, ResumeThread): left behind, it would put a
\* deadline of the past on the next wait of the thread on a sleep queue.
NoStaleTimeout ==
  \A t \in timed : pc[t] = "arm" \/ (t \in suspended /\ pc[t] \in {"sleep", "run"})

\* Thread t can run, and fewer threads than there are started processors are more
\* urgent.
Competes(t) ==
  /\ t \in Members(sched_runqueue)
  /\ Cardinality({s \in Members(sched_runqueue) : Priority[s] < Priority[t]})
       < Cardinality({c \in CPU : curthread[c] # None})

\* Round-robin scheduling within a priority level (AddThreadToRunQueue): a thread
\* that competes is current on some processor before long, however many equals it
\* has.
RunnableThreadRuns ==
  \A t \in Thread \ IdleThreads :
    Competes(t) ~> (~Competes(t) \/ \E c \in CPU : curthread[c] = t)

\* Who sleeps until a tick wakes up, although WakeupSleepingThreads looks at
\* one thread per call and never past the first one of the queue.
SleeperWakesUp ==
  \A t \in Thread \ IdleThreads : (t \in timed \cap suspended) ~> (t \notin suspended)

\* A zombie never runs again: once the processor has switched away from it, no
\* step makes it current.
ZombieStaysDead ==
  [][\A t \in zombie, c \in CPU : curthread'[c] = t => curthread[c] = t]_vars

\* A processor that switches never picks a less urgent thread than one that was
\* waiting on the runqueue and that no other processor is using.
MostUrgentFirst ==
  [][\A c \in CPU : (curthread[c] # None /\ curthread'[c] # curthread[c]) =>
       \A t \in Members(sched_runqueue) \ (active \cup IdleThreads) :
         Priority[curthread'[c]] <= Priority[t]]_vars

-----------------------------------------------------------------------------
\* The inductive invariant

\* A list of threads, the most urgent ones first.
ByPriority(q) == \A i, j \in 1 .. Len(q) : i < j => Priority[q[i]] <= Priority[q[j]]

\* AddThreadToRunQueue keeps the runqueue in order.
RunQueueSorted == ByPriority(sched_runqueue)

\* THREAD_SCHED_ACTIVE marks the threads whose context some processor uses,
\* except that an idle thread is not marked until it is first switched to.
\* A processor is not interrupted in the middle of a context switch.
ContextInv ==
  /\ \A c \in CPU : curthread[c] = None => prev[c] = None /\ c \notin irq
  /\ \A c \in irq : prev[c] = None
  /\ \A c \in CPU : prev[c] = None \/ prev[c] # curthread[c]
  /\ \A c \in CPU : Contexts(c) \ IdleThreads \subseteq active
  /\ \A t \in active : \E c \in CPU : t \in Contexts(c)

\* The idle threads exist, never sleep once their processor is started, and
\* are used by their own processor only.
IdleInv ==
  /\ IdleThreads \subseteq allThreads \ (zombie \cup timed)
  /\ \A c \in CPU : pc[IdleThread[c]] = "run"
  /\ \A c \in CPU : IdleThread[c] \in suspended <=> curthread[c] = None
  /\ \A c, d \in CPU : IdleThread[c] \in Contexts(d) => c = d

\* A thread that executes code of its own is neither suspended nor a zombie.
RunInv ==
  \A c \in CPU : (curthread[c] # None /\ pc[curthread[c]] \in {"run", "arm"}) =>
    curthread[c] \notin suspended \cup zombie

\* The facts of the scheduler that together are preserved by every step:
\* OneProcessorPerThread and NoFreedContext rest on THREAD_SCHED_ACTIVE being
\* exact (ContextInv), QueueMembership on what a running thread can be (RunInv).
IInv ==
  /\ TypeOK
  /\ QueueMembership
  /\ OneProcessorPerThread
  /\ NoFreedContext
  /\ ContextInv
  /\ IdleInv
  /\ RunInv

\* Only a thread that can still run or wake up has a timeout: with NoStaleTimeout,
\* none that is put on the sleepqueue without one is taken for a sleeper.
SleepInv ==
  /\ SleepQueueSorted
  /\ NoStaleTimeout
  /\ timed \subseteq allThreads \ zombie

-----------------------------------------------------------------------------
\* The queues and flags of the scheduler implement AbstractScheduler.

ThreadState(t) ==
  CASE t \notin allThreads -> "free"
    [] t \in zombie -> "dead"
    [] t \in suspended -> "blocked"
    [] OTHER -> "ready"

Abstract ==
  INSTANCE AbstractScheduler WITH
    state <- [t \in Thread |-> ThreadState(t)],
    on <- curthread,
    holds <- [c \in CPU |-> Contexts(c)]

\* The scheduler as a whole: whatever the interleaving of processors, timer
\* and wakeups, threads are only run when ready and by one processor at a time,
\* and freed only once they are dead and left.
ImplementsAbstractScheduler == Abstract!Spec
=============================================================================
