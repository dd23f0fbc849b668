------------------------------ MODULE Process -------------------------------
(***************************************************************************)
(* The life of a process (kern/process.cpp, kern/thread.cpp): clone, exit  *)
(* and waitpid, on any number of processors.  A process has one thread     *)
(* (AddThread asserts it), so a process and its thread share a name, which *)
(* is also the process id.  Mutexes and semaphores do what modules Mutex   *)
(* and Semaphore show of them.  A critical section in which nothing can    *)
(* block is one step, so process_mtx, which protects only such sections    *)
(* here, is never held between steps.  Memory never runs out.  The process *)
(* group, the descriptors and the current directory of a process are left  *)
(* out: no step here depends on them.                                      *)
(***************************************************************************)
EXTENDS Lists

CONSTANTS
  MaxPid,   \* the last process id that is handed out
  Status,   \* the exit statuses
  Orphans,  \* whether programs exit before they have waited for their children
  None

init == 1
Pid == init .. MaxPid

ASSUME ProcessAssumption ==
  /\ MaxPid \in Nat \ {0}
  /\ Orphans \in BOOLEAN
  /\ None \notin Pid \cup Status

VARIABLES
  pc,              \* where the thread of each process is
  other,           \* the process that this thread works on
  next,            \* the position of WaitAndLock in p_children
  process_curpid,  \* the next process id
  p_state,         \* "none" when there is no such Process object
  p_exit_status,
  p_refcount,
  p_parent,
  p_children,      \* the children, in the order of the list
  p_lock,          \* the thread that holds the mutex of the process
  p_child_wait,    \* the units of the semaphore
  thread,          \* the Thread object of the process
  reported         \* to whom waitpid returned which status of each process

local == <<other, next>>
memory == <<p_state, p_exit_status, p_refcount, p_parent>>
vars == <<pc, local, process_curpid, memory, p_children, p_lock,
          p_child_wait, thread, reported>>

(***************************************************************************)
(* A thread is in no step ("none") before Resume and after its last        *)
(* Schedule.  Thread objects: "ready" is on the run queue or suspended,    *)
(* "zombie" has run ExitThread and is still on its processor, "inactive"   *)
(* is a zombie that its processor has switched away from.                  *)
(***************************************************************************)
Cloning == {"link", "lock", "thread"}
Exiting == {"exit", "signal", "unlock", "schedule"}
Waiting == {"wait", "scan", "check", "sleep"}
Reaping == {"destroy", "reap", "delete"}
PCs == {"none", "user"} \cup Cloning \cup Exiting \cup Waiting \cup Reaping

Goto(p, where) == pc' = [pc EXCEPT ![p] = where]

\* The state after init-userland.cpp has made init and resumed its thread.
Init ==
  /\ pc = [p \in Pid |-> IF p = init THEN "user" ELSE "none"]
  /\ other = [p \in Pid |-> None]
  /\ next = [p \in Pid |-> 1]
  /\ process_curpid = init + 1
  /\ p_state = [p \in Pid |-> IF p = init THEN "active" ELSE "none"]
  /\ p_exit_status = [p \in Pid |-> None]
  /\ p_refcount = [p \in Pid |-> IF p = init THEN 2 ELSE 0]
  /\ p_parent = [p \in Pid |-> IF p = init THEN init ELSE None]
  /\ p_children = [p \in Pid |-> <<>>]
  /\ p_lock = [p \in Pid |-> None]
  /\ p_child_wait = [p \in Pid |-> 0]
  /\ thread = [p \in Pid |-> IF p = init THEN "ready" ELSE "none"]
  /\ reported = [p \in Pid |-> None]

Unlocked(q) == p_lock[q] = None
Lock(p, q) == Unlocked(q) /\ p_lock' = [p_lock EXCEPT ![q] = p]
Unlock(q) == p_lock' = [p_lock EXCEPT ![q] = None]

-----------------------------------------------------------------------------
(* sys_clone.                                                              *)

\* A mutant of ProcessAlloc: every child is given to init.
ProcessAllocOfInit(p) ==
  LET c == process_curpid IN
  /\ pc[p] = "user" /\ c \in Pid
  /\ process_curpid' = c + 1
  /\ p_state' = [p_state EXCEPT ![c] = "active"]
  /\ p_parent' = [p_parent EXCEPT ![c] = init]
  /\ p_refcount' = [p_refcount EXCEPT ![c] = 1]
  /\ other' = [other EXCEPT ![p] = c]
  /\ Goto(p, "link")
  /\ UNCHANGED <<next, p_exit_status, p_children, p_lock, p_child_wait,
                 thread, reported>>

\* process_alloc_ex: the object exists, nobody can find it yet.
ProcessAlloc(p) ==
  LET c == process_curpid IN
  /\ pc[p] = "user" /\ c \in Pid
  /\ process_curpid' = c + 1
  /\ p_state' = [p_state EXCEPT ![c] = "active"]
  /\ p_parent' = [p_parent EXCEPT ![c] = p]
  /\ p_refcount' = [p_refcount EXCEPT ![c] = 1]
  /\ other' = [other EXCEPT ![p] = c]
  /\ Goto(p, "link")
  /\ UNCHANGED <<next, p_exit_status, p_children, p_lock, p_child_wait,
                 thread, reported>>

LinkChild(p) ==
  /\ pc[p] = "link" /\ Unlocked(p)
  /\ p_children' = [p_children EXCEPT ![p] = Append(@, other[p])]
  /\ Goto(p, "lock")
  /\ UNCHANGED <<local, process_curpid, memory, p_lock, p_child_wait,
                 thread, reported>>

\* The child is locked before it is in process_all, until its thread exists.
LockChild(p) ==
  /\ pc[p] = "lock"
  /\ Lock(p, other[p])
  /\ Goto(p, "thread")
  /\ UNCHANGED <<local, process_curpid, memory, p_children, p_child_wait, thread,
                 reported>>

\* A mutant of ThreadClone: AddThread takes no reference.
ThreadCloneUncounted(p) ==
  LET c == other[p] IN
  /\ pc[p] = "thread"
  /\ thread' = [thread EXCEPT ![c] = "ready"]
  /\ Unlock(c)
  /\ pc' = [pc EXCEPT ![p] = "user", ![c] = "user"]
  /\ other' = [other EXCEPT ![p] = None]
  /\ UNCHANGED <<next, process_curpid, p_state, p_exit_status, p_refcount, p_parent,
                 p_children, p_child_wait, reported>>

\* VMSpace::Clone (module VMSpace), thread_clone with AddThread, Unlock, Resume.
ThreadClone(p) ==
  LET c == other[p] IN
  /\ pc[p] = "thread"
  /\ p_refcount' = [p_refcount EXCEPT ![c] = @ + 1]
  /\ thread' = [thread EXCEPT ![c] = "ready"]
  /\ Unlock(c)
  /\ pc' = [pc EXCEPT ![p] = "user", ![c] = "user"]
  /\ other' = [other EXCEPT ![p] = None]
  /\ UNCHANGED <<next, process_curpid, p_state, p_exit_status, p_parent,
                 p_children, p_child_wait, reported>>

-----------------------------------------------------------------------------
(* Thread::Terminate, from sys_exit or the default action of a signal.     *)

\* A mutant of Terminate: the process is not locked.
TerminateUnlocked(p, status) ==
  /\ pc[p] = "user" /\ p # init
  /\ p_state' = [p_state EXCEPT ![p] = "zombie"]
  /\ p_exit_status' = [p_exit_status EXCEPT ![p] = status]
  /\ Goto(p, "exit")
  /\ UNCHANGED <<local, process_curpid, p_refcount, p_parent, p_children, p_lock,
                 p_child_wait, thread, reported>>

\* Terminate up to ExitThread: Process::Exit, thread_cleanup, and t_refcount,
\* which is 1 until here.
Terminate(p, status) ==
  /\ pc[p] = "user" /\ p # init
  /\ Lock(p, p)
  /\ p_state' = [p_state EXCEPT ![p] = "zombie"]
  /\ p_exit_status' = [p_exit_status EXCEPT ![p] = status]
  /\ Goto(p, "exit")
  /\ UNCHANGED <<local, process_curpid, p_refcount, p_parent, p_children,
                 p_child_wait, thread, reported>>

\* scheduler::ExitThread (module Scheduler): interrupts stay disabled.
ExitThread(p) ==
  /\ pc[p] = "exit"
  /\ thread' = [thread EXCEPT ![p] = "zombie"]
  /\ Goto(p, "signal")
  /\ UNCHANGED <<local, process_curpid, memory, p_children, p_lock,
                 p_child_wait, reported>>

\* A mutant of SignalExit: the unit is given only to a parent that sleeps.
SignalExitIfAsleep(p) ==
  /\ pc[p] = "signal"
  /\ p_child_wait' = [p_child_wait EXCEPT ![p_parent[p]] =
                       IF pc[p_parent[p]] = "sleep" THEN @ + 1 ELSE @]
  /\ Goto(p, "unlock")
  /\ UNCHANGED <<local, process_curpid, memory, p_children, p_lock,
                 thread, reported>>

SignalExit(p) ==
  /\ pc[p] = "signal"
  /\ p_child_wait' = [p_child_wait EXCEPT ![p_parent[p]] = @ + 1]
  /\ Goto(p, "unlock")
  /\ UNCHANGED <<local, process_curpid, memory, p_children, p_lock,
                 thread, reported>>

UnlockExited(p) ==
  /\ pc[p] = "unlock"
  /\ Unlock(p)
  /\ Goto(p, "schedule")
  /\ UNCHANGED <<local, process_curpid, memory, p_children, p_child_wait,
                 thread, reported>>

\* The last Schedule and scheduler_release on the processor it leaves.
Schedule(p) ==
  /\ pc[p] = "schedule"
  /\ thread' = [thread EXCEPT ![p] = "inactive"]
  /\ Goto(p, "none")
  /\ UNCHANGED <<local, process_curpid, memory, p_children, p_lock,
                 p_child_wait, reported>>

-----------------------------------------------------------------------------
(* sys_waitpid and WaitAndLock.                                            *)

WaitPid(p) ==
  /\ pc[p] = "user"
  /\ Goto(p, "wait")
  /\ UNCHANGED <<local, process_curpid, memory, p_children, p_lock,
                 p_child_wait, thread, reported>>

\* The head of the loop: the process locks itself.
WaitLock(p) ==
  /\ pc[p] = "wait"
  /\ Lock(p, p)
  /\ next' = [next EXCEPT ![p] = 1]
  /\ Goto(p, "scan")
  /\ UNCHANGED <<other, process_curpid, memory, p_children, p_child_wait,
                 thread, reported>>

LockNextChild(p) ==
  /\ pc[p] = "scan" /\ next[p] <= Len(p_children[p])
  /\ Lock(p, p_children[p][next[p]])
  /\ Goto(p, "check")
  /\ UNCHANGED <<local, process_curpid, memory, p_children, p_child_wait,
                 thread, reported>>

SkipChild(p) ==
  LET c == p_children[p][next[p]] IN
  /\ pc[p] = "check" /\ p_state[c] # "zombie"
  /\ Unlock(c)
  /\ next' = [next EXCEPT ![p] = @ + 1]
  /\ Goto(p, "scan")
  /\ UNCHANGED <<other, process_curpid, memory, p_children, p_child_wait,
                 thread, reported>>

\* The zombie leaves the list and stays locked; the parent unlocks itself.
FoundZombie(p) ==
  LET c == p_children[p][next[p]] IN
  /\ pc[p] = "check" /\ p_state[c] = "zombie"
  /\ p_children' = [p_children EXCEPT ![p] = Remove(@, c)]
  /\ other' = [other EXCEPT ![p] = c]
  /\ Unlock(p)
  /\ Goto(p, "destroy")
  /\ UNCHANGED <<next, process_curpid, memory, p_child_wait, thread, reported>>

NoZombie(p) ==
  /\ pc[p] = "scan" /\ next[p] > Len(p_children[p])
  /\ Unlock(p)
  /\ Goto(p, "sleep")
  /\ UNCHANGED <<local, process_curpid, memory, p_children, p_child_wait,
                 thread, reported>>

\* p_child_wait.Wait()
Sleep(p) ==
  /\ pc[p] = "sleep" /\ p_child_wait[p] > 0
  /\ p_child_wait' = [p_child_wait EXCEPT ![p] = @ - 1]
  /\ Goto(p, "wait")
  /\ UNCHANGED <<local, process_curpid, memory, p_children, p_lock,
                 thread, reported>>

\* A mutant of Released: a zombie is taken to be off its processor.
ReleasedEarly(t) == thread[t] \in {"zombie", "inactive"}

\* Thread::Destroy waits until the processor has left the thread.
Released(t) == thread[t] = "inactive"

DestroyThread(p) ==
  LET c == other[p] IN
  /\ pc[p] = "destroy" /\ Released(c)
  /\ thread' = [thread EXCEPT ![c] = "none"]
  /\ p_refcount' = [p_refcount EXCEPT ![c] = @ - 1]
  /\ Goto(p, "reap")
  /\ UNCHANGED <<local, process_curpid, p_state, p_exit_status, p_parent,
                 p_children, p_lock, p_child_wait, reported>>

\* waitpid gives up the reference of the parent; ~Process starts with Unlock.
Reap(p) ==
  LET c == other[p] IN
  /\ pc[p] = "reap"
  /\ reported' = [reported EXCEPT ![c] = <<p, p_exit_status[c]>>]
  /\ p_refcount' = [p_refcount EXCEPT ![c] = @ - 1]
  /\ IF p_refcount[c] = 1
     THEN Unlock(c) /\ Goto(p, "delete")
     ELSE UNCHANGED p_lock /\ Goto(p, "user")
  /\ UNCHANGED <<local, process_curpid, p_state, p_exit_status, p_parent,
                 p_children, p_child_wait, thread>>

\* The end of ~Process: vmspace_destroy, process_all.remove, delete.
DeleteProcess(p) ==
  LET c == other[p] IN
  /\ pc[p] = "delete"
  /\ p_state' = [p_state EXCEPT ![c] = "none"]
  /\ other' = [other EXCEPT ![p] = None]
  /\ Goto(p, "user")
  /\ UNCHANGED <<next, process_curpid, p_exit_status, p_refcount, p_parent,
                 p_children, p_lock, p_child_wait, thread, reported>>

-----------------------------------------------------------------------------
\* A step of p inside a system call or exit, which p takes when it can.
Continue(p) ==
  \/ LinkChild(p) \/ LockChild(p) \/ ThreadClone(p)
  \/ ExitThread(p) \/ SignalExit(p) \/ UnlockExited(p) \/ Schedule(p)
  \/ WaitLock(p) \/ LockNextChild(p) \/ SkipChild(p) \/ FoundZombie(p)
  \/ NoZombie(p) \/ Sleep(p) \/ DestroyThread(p) \/ Reap(p)
  \/ DeleteProcess(p)

\* A program calls clone, waitpid or exit.  What programs do is an assumption:
\* unless Orphans, they wait for their children before they exit.
SystemCall(p) ==
  \/ ProcessAlloc(p) \/ WaitPid(p)
  \/ /\ Orphans \/ p_children[p] = <<>>
     /\ \E status \in Status : Terminate(p, status)

Next == \E p \in Pid : Continue(p) \/ SystemCall(p)

Spec == Init /\ [][Next]_vars

\* Every thread keeps running.  There are finitely many processes, so a mutex
\* that is wanted is not taken for ever by others.
LiveSpec == Spec /\ \A p \in Pid : WF_vars(Continue(p))

-----------------------------------------------------------------------------
Children(p) == Members(p_children[p])

\* The objects exist that a thread uses while it clones, exits or waits: itself,
\* its own process, the process it makes or destroys and the children it scans.
\* Its parent, which it signals when it exits, is the matter of ParentExists.
NoUseAfterFree ==
  \A p \in Pid : pc[p] # "none" =>
    /\ p_state[p] # "none" /\ thread[p] # "none"
    /\ other[p] # None => p_state[other[p]] # "none"
    /\ \A c \in Children(p) : p_state[c] # "none"

\* p_parent is the "Parent process, if any": SignalExit uses it without a check.
ParentExists ==
  \A p \in Pid : pc[p] # "none" => p_state[p_parent[p]] # "none"

\* When WaitAndLock has found a zombie its assertions hold: the zombie still
\* has its thread, and the thread is a zombie too
\* ("process zombie without zombie thread?").
ZombieHasZombieThread ==
  \A p \in Pid : pc[p] = "destroy" =>
    thread[other[p]] \in {"zombie", "inactive"}

\* When waitpid gives up the reference of the parent that was the last one
\* ("this should destroy it"), and no process loses its last one before.
ReapDestroys ==
  \A p \in Pid :
    /\ pc[p] = "reap" => p_refcount[other[p]] = 1
    /\ pc[p] # "none" => p_refcount[p] > 0

\* A parent in waitpid with a child that has exited gets out of waitpid.
WaitReturns ==
  \A p \in Pid :
    (pc[p] \in Waiting /\ \E c \in Children(p) : p_state[c] = "zombie")
      ~> (pc[p] \notin Waiting)

\* clone, exit and waitpid keep the promises of AbstractProcess: every exit is
\* reported once, to the parent, with the status of the exit.
Abstract ==
  INSTANCE AbstractProcess
    WITH Process <- Pid, status <- p_exit_status,
         parent <- [p \in Pid |-> IF p = init THEN None ELSE p_parent[p]]

ImplementsAbstractProcess == Abstract!Spec

-----------------------------------------------------------------------------
(* The inductive invariant.                                                *)

\* Processes, threads and locks of the kernel are well formed.
ProcTypeOK ==
  /\ pc \in [Pid -> PCs]
  /\ other \in [Pid -> Pid \cup {None}]
  /\ next \in [Pid -> Nat \ {0}]
  /\ process_curpid \in Nat \ {0, init}
  /\ p_state \in [Pid -> {"none", "active", "zombie"}]
  /\ p_exit_status \in [Pid -> Status \cup {None}]
  /\ p_refcount \in [Pid -> Int]
  /\ p_parent \in [Pid -> Pid \cup {None}]
  /\ p_children \in [Pid -> Seq(Pid)]
  /\ p_lock \in [Pid -> Pid \cup {None}]
  /\ p_child_wait \in [Pid -> Nat]
  /\ thread \in [Pid -> {"none", "ready", "zombie", "inactive"}]
  /\ reported \in [Pid -> (Pid \X (Status \cup {None})) \cup {None}]

\* The thread of p runs and has not begun to exit.
Live(p) == pc[p] \notin Exiting \cup {"none"}

(***************************************************************************)
(* The life of process c with parent p, from ProcessAlloc to               *)
(* DeleteProcess.                                                          *)
(***************************************************************************)
Made(p, c) ==
  /\ pc[p] \in Cloning /\ other[p] = c
  /\ pc[p] = "link" <=> c \notin Children(p)
  /\ pc[c] = "none" /\ thread[c] = "none" /\ p_state[c] = "active"
  /\ p_refcount[c] = 1 /\ p_exit_status[c] = None /\ reported[c] = None

Runs(p, c) ==
  /\ c \in Children(p) /\ other[p] # c
  /\ Live(c) \/ pc[c] = "exit"
  /\ thread[c] = "ready" /\ p_refcount[c] = 2 /\ reported[c] = None
  /\ p_state[c] = IF Live(c) THEN "active" ELSE "zombie"
  /\ p_exit_status[c] = None <=> Live(c)

Exited(p, c) ==
  /\ \/ c \in Children(p) /\ other[p] # c
     \/ /\ c \notin Children(p) /\ other[p] = c
        /\ pc[p] = "destroy" /\ pc[c] \in {"schedule", "none"}
  /\ pc[c] \in {"signal", "unlock", "schedule", "none"}
  /\ thread[c] = IF pc[c] = "none" THEN "inactive" ELSE "zombie"
  /\ p_state[c] = "zombie" /\ p_refcount[c] = 2
  /\ p_exit_status[c] # None /\ reported[c] = None

Reaped(p, c) ==
  /\ c \notin Children(p) /\ other[p] = c /\ pc[p] = "reap"
  /\ pc[c] = "none" /\ thread[c] = "none" /\ p_state[c] = "zombie"
  /\ p_refcount[c] = 1 /\ p_exit_status[c] # None /\ reported[c] = None

Buried(p, c) ==
  /\ c \notin Children(p) /\ other[p] = c /\ pc[p] = "delete"
  /\ pc[c] = "none" /\ thread[c] = "none" /\ p_state[c] = "zombie"

Gone(p, c) ==
  /\ c \notin Children(p) /\ other[p] # c
  /\ pc[c] = "none" /\ thread[c] = "none" /\ p_state[c] = "none"

LifeOf(p, c) ==
  Made(p, c) \/ Runs(p, c) \/ Exited(p, c) \/ Reaped(p, c) \/ Buried(p, c) \/ Gone(p, c)

\* A process id that process_alloc has not handed out.
Unborn(c) ==
  /\ p_parent[c] = None
  /\ pc[c] = "none" /\ thread[c] = "none" /\ p_state[c] = "none"
  /\ p_exit_status[c] = None /\ reported[c] = None

\* Every process is somewhere in its life, and init lives for ever.
LifeInv ==
  /\ p_parent[init] = init /\ Live(init)
  /\ p_state[init] = "active" /\ thread[init] = "ready"
  /\ p_refcount[init] = 2 /\ p_exit_status[init] = None
  /\ \A c \in Pid \ {init} :
       \/ c >= process_curpid /\ Unborn(c)
       \/ /\ c < process_curpid /\ p_parent[c] \in Pid /\ p_parent[c] < c
          /\ LifeOf(p_parent[c], c)

\* Only the children of a process are on its list, once.
ChildrenInv ==
  \A p \in Pid :
    /\ NoDuplicates(p_children[p])
    /\ \A c \in Children(p) : c # init /\ p_parent[c] = p

\* What a thread works on: a child of its process.
WorksOn(p) ==
  /\ other[p] # None <=> pc[p] \in Cloning \cup Reaping
  /\ other[p] # None => p_parent[other[p]] = p /\ other[p] # p

OtherInv == \A p \in Pid : WorksOn(p)

\* The locks that p has: its own, that of the child it looks at, that of the child
\* it makes or destroys.  They keep a parent from a child that is exiting.
LocksOf(p) ==
  /\ pc[p] \in {"exit", "signal", "unlock", "scan", "check"} => p_lock[p] = p
  /\ pc[p] = "check" =>
       /\ next[p] <= Len(p_children[p])
       /\ p_lock[p_children[p][next[p]]] = p
  /\ pc[p] \in {"thread", "destroy", "reap"} => p_lock[other[p]] = p

LockInv == \A p \in Pid : LocksOf(p)

ProcInv ==
  /\ ProcTypeOK /\ LifeInv /\ ChildrenInv /\ OtherInv /\ LockInv

\* No process exits that has children: what programs promise when ~Orphans.
ParentsWait == \A p \in Pid : p_children[p] # <<>> => Live(p)
=============================================================================
