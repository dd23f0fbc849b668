# TLA+ models of the Ananas kernel

Models, model-checking runs and proofs for the Ananas kernel: the thread
scheduler, the sleep queues with mutexes, semaphores and condition variables on
top of them, the I/O buffer cache, address spaces, processes, the inode cache and
the page allocator. Paths are relative to `src/kernel/` unless they start with
`src/`.

## The system

| part | code | state | operations | modelled by |
|---|---|---|---|---|
| scheduler | `kern/scheduler.cpp`, `kern/thread.cpp`, `kern/pcpu.cpp`, `arch/amd64/smp.cpp` | runqueue, sleepqueue, flags and timeout of each thread, current thread of each processor, ticks | InitThread, ResumeThread, SuspendThread, ExitThread, Schedule, scheduler_release, SleepUntilTick, Destroy, timer interrupt | `Scheduler`, `AbstractScheduler` |
| lists | `src/include/ananas/util/list.h` | head and tail pointers | insert, remove, push_back, pop_front | `Lists` |
| sleep queues | `kern/sleepqueue.cpp` | spinlock, sleepers, waiter of each thread | PrepareToSleep, Sleep, Unsleep, WakeupOne, WakeupAll | `SleepQueue` |
| mutexes | `kern/lock.cpp` | owner | Lock, TryLock, Unlock | `Mutex` |
| semaphores | `kern/lock.cpp` | count | Signal, Wait, TryWait, WaitAndDrain | `Semaphore` |
| condition variables | `kern/condvar.cpp` | (its sleep queue) | Wait, Signal, Broadcast | `ConditionVariable` |
| I/O buffer cache | `kern/bio.cpp`, `vfs/core.cpp` | freelist, buckets, flags, status and data of each buffer | getblk, bread, Write, Release, Wait, Done | `Bio` |
| address spaces | `vm/`, `sys/vmop.cpp` | areas, pages, counts, page tables | map, exec, fork, exit, store, fault | `VMSpace`, `AbstractMemory` |
| processes | `kern/process.cpp`, `kern/thread.cpp`, `sys/` | state, references, children, locks | clone, exit, waitpid | `Process`, `AbstractProcess` |
| inode cache, directory entries | `vfs/icache.cpp`, `vfs/dentry.cpp` | lists, references, flags, mutexes | vfs_get_inode, PurgeEntries, ref, deref | `ICache` |
| page allocator | `kern/page.cpp` | free lists, bitmap, orders | page_zone_add, page_alloc, page_free | `Pages` |
| process groups and terminals, file descriptors, local sockets, interrupts, kernel mappings, signals, shared memory | `kern/processgroup.cpp`, `dev/generic/tty.cpp`, `kern/fd.cpp`, `net/socket_local.cpp`, `kern/irq.cpp`, `kern/kmem.cpp`, `kern/signal.cpp`, `kern/shm.cpp` | | | not modelled |
| devices, file systems, system calls, machine-dependent code, consoles, debugger, user space | the rest | | | not modelled |

`PROJECT.json` lists every part with its status, and maps each definition to the
lines it models.

The parts form layers. A thread that must wait puts itself on a sleep queue and
calls `Thread::Suspend` and `Schedule`; whoever wakes it up calls
`Thread::Resume`. Mutexes, semaphores and condition variables are a few lines
each around a sleep queue; the buffer cache, processes and the inode cache use
them. The models follow the layers. Each one assumes of the layer below what that
layer's own model shows:

* `Scheduler` takes each section under `schedLock` (a spinlock with interrupts
  disabled) as one step;
* `SleepQueue` has the spinlock of the queue, which is held across calls, as
  state, and uses of the scheduler only who is suspended. Its
  `SuspendedWhileWaiting` is what ResumeThread and SuspendThread ask of their
  callers, and the guards of `ResumeThread` and `SuspendWaiter` in `Scheduler`;
* `Mutex` and `Semaphore` extend `SleepQueue`; `ConditionVariable` extends
  `Mutex` and adds a second queue;
* `Bio` takes sections under a mutex, and Wait, Signal and Broadcast, as steps;
* `Process` takes mutexes and semaphores by what they do, and of the scheduler that
  a zombie stays on its processor until the next thread has been switched to;
* `VMSpace` takes what is done under the lock of a page as one step; fork, exec and
  exit of `VMSpace` are the address space's share of those of `Process`.

### What is hard about it

The scheduler lock is given up before a processor has left the stack of the
thread it switches from. Zombies are freed by other processors. A sleep queue
marks and resumes a waiter after its lock was given up. Mutexes and semaphores
use atomic operations and barging. WaitAndDrain discards signals. The buffer
cache sleeps with pointers it must not use afterwards, signals in places where
the lock is not held, and has to survive failing transfers. Pages are shared by
processes that fork, write, execute and exit at the same time, and their counts
decide who may write. A parent frees a child whose thread is still leaving its
processor. The inode cache gives up its lock in the middle of a lookup.
`PROJECT.json` ("hazards") lists the lines where this bites, each with the
properties that would notice, or the reason why none does.

## Modules

**`Scheduler`.** One variable for each queue and each flag of a thread (a flag is
the set of threads that have it), `curthread` and `ticks` as in the code.
`prev[c]` is the thread processor `c` has switched from and not yet released,
`irq` the processors inside the timer interrupt, `pc[t]` where thread `t` is in
SleepUntilTick, SleepQueue::Sleep or Terminate. `Schedule` is the whole critical
section: at most one sleeper is woken up, the next thread is picked, the current
one is put behind its equals. `InterruptReturn` and `CallSchedule` are its two
callers. Threads are created, resumed by anybody when they are suspended (before
their timeout too, which ResumeThread then takes away), and destroyed when they are
zombies; idle threads are those of `pcpu_init`. The only
affinity modelled is that of the idle threads.

**`AbstractScheduler`.** What the rest of the kernel relies on, without queues and
flags: threads are free, blocked, ready or dead; a processor holds the contexts
it uses; a context is held by one processor at most and freed when nobody holds
it. `ImplementsAbstractScheduler` states that `Scheduler` implements it.

**`Lists`.** The intrusive lists as sequences of distinct items.

**`SleepQueue`.** Waiters (`w_sq`, `w_signalled`), the list and the spinlock of each
queue, and `victim[w]`, the waiter that waker `w` has dequeued and will signal and
resume in two later steps. `GoToSleep` stands for Suspend and the unlock that
follows; `Reacquire` for the return from Schedule.

**`Mutex`, `Semaphore`, `ConditionVariable`.** One action for each atomic access: the
compare-and-exchange of TryLock, the read and the exchange of TryWait, each
call into the sleep queue. `Semaphore` has two kinds of users: threads in Wait,
and drainers, which do what the OHCI root hub thread does: WaitAndDrain, then
look for work. `ConditionVariable` has threads that put items and signal, and
threads that wait until there is one, as BIO::Done and BIO::Wait do.

**`Bio`.** Threads call vfs_bread, look at the block, or change it and call Write, and
Release it. A device completes the transfers in any order and may fail each one.
`completing` has the buffers for which Done has set the flag and not yet
broadcast. Abstractions: the bucket of a buffer follows from its block; all
blocks have one length; a thread has one buffer at a time; AllocateData
succeeds, so CleanupBuffers is not reached; the device finishes Done of a buffer
before it completes the next transfer of the same buffer.

**`VMSpace`.** For each process its areas, the page that backs each address and the
page table; for each page its count, its flag Promoted and its contents; the pages
of the inode of one file. A step is what a process does under the lock of one
page: a fork copies one page per step, an exit gives up one page per step, and
other processes run in between. A fault promotes, reads from the file, duplicates
or clears a page, as HandleFault decides. Abstractions: an address is a page; a
process has one thread; exec and exit leave the page table as it is until it is
written again, as the code does; programs stay inside their areas. `Mapping` is
what programs and the loader map. `Map` is FreeRange with the first area that
overlaps, and nothing in it asks whether there are others; `Mappable` is what is assumed
of programs: they map over one area at most, and with `Splits` false not over a part of
an area that has pages (finding 2 is about programs that do). The counts of dentries are
not modelled.

**`AbstractMemory`.** Each process has a memory of its own; fork copies it, a store
changes one address of one process.

**`Process`.** The threads of all processes at once, each at a place (`pc`) in clone,
exit or waitpid. A process id is also the name of the process and of its only
thread. The references of the parent and of the thread (`p_refcount`), the locks of
processes, the list of children and the semaphore `p_child_wait` are state. `Terminate`
asks what Process::Exit asks, that the process is not init. That programs wait for their
children before they exit is assumed of the programs (`SystemCall`) when `Orphans` is
false: the kernel does not give orphans to init, and their `p_parent` dangles (finding 4).

**`AbstractProcess`.** A process is made by its parent, exits once with a status, and is
reported once, to its parent, with that status.

**`ICache`.** Threads in vfs_get_inode, with the steps of the lookup and of
PurgeEntries at which the lock of the cache is given up and taken; inodes on the
lists, their mutex, references, flags and number; and of the dentry cache how many
unused entries keep each inode. A thread that has an inode may write it, with the second
reference that vfs_set_inode_dirty takes. A hit of dcache_lookup is no action: it
changes no inode, and an unused entry is never hit because dentry_deref has taken its
parent away.

**`Pages`.** One zone of the buddy allocator: the loop of page_zone_add, allocation of
a number of bytes, and page_free. `MergedOrder` gives the order at which the
merging loop ends in closed form; all its iterations are part of one step.

**`MC*`** give the constants values, and symmetry where it is sound. The **proof modules** hold the
theorems.

## Runs

| run | instance | distinct states | shows |
|---|---|---|---|
| `scheduler` | 2 processors, 2 idle threads, 2 workers, 2 ticks | 74,403 | safety, action properties, refinement, liveness |
| `condvar` | 3 threads, 2 queues, at most 2 items | 44,658 | mutex and condition variable, safety and liveness |
| `semaphore` | 1 drainer, 2 wakers, 4 signals | 6,521 | safety and liveness of WaitAndDrain |
| `bio` | 2 buffers, 3 threads, 3 blocks, 2 values | 996,607 | safety |
| `memory` | 3 processes, 3 pages, 1 address, 3 kinds of mapping | 221,627 | safety and refinement |
| `process` | 4 processes, 2 statuses | 196,502 | safety, liveness and refinement |
| `icache` | 3 threads, 3 INodes, 2 numbers | 2,090,435 | safety |
| `pages` | 11 pages, 4 orders, 4 lengths | 6,781 | safety |
| `semaphore_lost_unit` | 2 threads | | finding 1 |
| `memory_split` | 1 process, 3 addresses | | finding 2 |
| `inode_twice` | as `icache` | | finding 3 |
| `process_orphan` | 3 processes | | finding 4 |

What the properties say is written above each of them. In short:

* **Scheduler.** Queues and flags agree (`QueueMembership`), a context is used by
  one processor (`OneProcessorPerThread`) and not after it was freed
  (`NoFreedContext`), there is always a thread to run (`AlwaysEligible`), the
  sleepqueue is in order (`SleepQueueSorted`), no timeout outlives the sleep it was
  for (`NoStaleTimeout`), zombies never run again, the most urgent thread is picked,
  everybody wakes up, equals take turns.
* **Locks.** Whoever is resumed is suspended (`SuspendedWhileWaiting`), exclusion, no
  lost wakeups, no lost or duplicated units, no work and no item left while the
  thread that should see it sleeps.
* **Buffers.** One owner (`OneOwner`), on the freelist exactly when not busy
  (`FreeUnlessBusy`), one valid buffer per block (`UniqueBlock`), what is served
  from the cache is what is on the device (`Coherent`), nobody who waits for a busy
  buffer is forgotten (`NoBusyWaiterForgotten`).
* **Memory.** The count of a page is the number of its users (`RefcountsExact`), who can
  write to a private page has it alone (`WritersAreAlone`), the page table is what
  the areas and pages make it (`TranslationsCurrent`), and programs see a memory of
  their own.
* **Processes.** A thread on its way out, its parent in clone and its parent in waitpid use
  nothing that was freed (`NoUseAfterFree`), the assertions of WaitAndLock hold
  (`ZombieHasZombieThread`), waitpid drops the last reference (`ReapDestroys`), and a
  parent learns of every exit. `ParentExists` is about the one pointer that
  `NoUseAfterFree` leaves out.
* **Inodes.** References are exact, and an inode that is held is not discarded.
* **Pages.** Blocks partition the zone, free buddies are merged, requests fit.

### Bounds

Two processors and four threads suffice for one thread to be switched from on
one processor while it is picked, resumed or destroyed on the other, with both
priorities that the kernel uses; two ticks let a timeout pass before, during and
after a switch and give two sleepers different deadlines and late ones. Three threads put an owner, a sleeper and a barging thread or waker on
a mutex and on a condition variable at once. Four signals from two wakers let
signals arrive before, in and after a drain. Three blocks for two buffers, with
three threads, make a buffer change its block while somebody waits for it. Three
processes let a page be shared by a process, its child and its grandchild while one
copies, one exits and one forks; with three pages the last free page is used up,
and a process that needs another one waits in the model (the kernel panics). One
address suffices for the counts, because pages are never moved between addresses
except by splits; the proofs cover any number. Init and three others give parents that
wait, children that exit, one that is made, and grandchildren. Three threads and three inodes let one purge while one adds and one
holds. Eleven pages are three free blocks of different orders at the end of the zone.
`MaxTicks`, `MaxSignals`, `MaxItems`, `MaxVirt`, `MaxPid` and `MaxCached` are bounds of the
models only; the timer goes on interrupting when the counter has reached its bound.

Deadlock is not checked where threads may rightly stop: in `semaphore` and
`condvar` when all signals or items are used up; in `bio`, where threads wait for ever
for a buffer that is forgotten or signalled too early (see the hazards at
`vfs/core.cpp:30` and `kern/bio.cpp:285`); in `process`, where waitpid without
children sleeps for ever (there is no ECHILD); in `icache`, when the bound on INodes
stops GrowCache.

### Fairness

* **Scheduler.** On a processor that was started the timer, which is periodic and stays
  pending while interrupts are disabled, interrupts again and again; interrupt handlers
  and switches complete; and a thread that has suspended itself or exited gets to the
  call of Schedule that follows. Each is a state that is reached again and again
  (`Fairness`). Nothing is assumed of the code threads run, and no processor has to start.
* **Mutex, semaphore, condition variable.** Each thread finishes the call it is in, and
  an owner unlocks (weak fairness per thread). No thread has to call Lock or Wait,
  except the root hub thread, which waits in an endless loop. Spinlocks are
  not fair in the code, and only weak fairness is assumed for them.
* **Processes.** Every thread inside a system call goes on when it can (weak fairness
  per thread); no process has to call anything.

## Findings

1. `semaphore_lost_unit`: TryWait (`kern/lock.cpp:168`) reports that there are no
   more units when its exchange fails because another thread took a different unit.
   Wait goes to sleep while a unit is left.
2. `memory_split`: when a program maps over the middle of an area,
   MigratePagesToNewVA (`vm/vmspace.cpp:44`) takes the pages of the part behind the gap
   from the start of the old area, whose first pages were moved away before
   (`vm/vmspace.cpp:52`): it gets pages of the gap or none. The program finds other
   contents there, and the pages that were there are given up.
3. `inode_twice`: icache_lookup_locked (`vfs/icache.cpp:206`) does not look again after
   the lock of the cache was given up to purge entries. Two threads that look for
   one inode in a full cache both add it.
4. `process_orphan`: SignalExit (`kern/process.cpp:214`) uses `p_parent`, which is the
   "Parent process, if any" (`include/kernel/process.h:94`) and has no reference
   (`kern/process.cpp:81`: "XXX should we take a ref here?"). A process that exits before
   its child is reaped and freed, and the child signals what was its semaphore.
5. `scheduler`, which passes: the comment at `kern/scheduler.cpp:9-10` says that "The
   current thread is never on either of these queues". The code keeps it on the runqueue
   (line 252 asserts it, 264-265 move it), and `QueueMembership` states that.


## Proofs

The theorems hold for every number of processors, threads, buffers, blocks, pages,
processes, addresses and values, from the named assumptions of the modules
(`SchedulerAssumption`, `BioAssumption`, `VMSpaceAssumption` and so on: there is a
processor, idle threads are distinct, `None` is not a thread). Each is an invariance
proof: the initial states satisfy an inductive invariant, every action preserves it,
and it implies the property.

**`ListProofs`**: what Insert and Remove do to the members of a list and that they
keep items distinct.

**`SchedulerProofs`**: `IInv` adds to the four properties that THREAD_SCHED_ACTIVE
is exact (`ContextInv`), what holds of idle threads (`IdleInv`), and that a
thread that executes its own code is neither suspended nor a zombie (`RunInv`).
`OneProcessorPerThread` alone is not inductive: that the picked thread is used by
nobody follows from its active flag only if the flag covers all contexts, the ones
being switched from included. The flag of an idle thread is not set until it is
first switched to, so idle threads need their affinity. Theorems: `Invariance`,
`TypeCorrect`, `QueuesMatchFlags`, `MutualExclusion`, `NoUseAfterDestroy`,
`PickSucceeds`.

The action properties follow from `IInv` once each action is classified: a call of
Schedule, the start of a processor, or a step that changes no current thread
(`StepKinds`). `ZombiesStayDead` needs only that a zombie is on no queue. For
`UrgentThreadsFirst` the runqueue must be sorted (`RunQueueSorted`, theorem
`QueueInOrder`): the lemmas `AddSorted` and `RemoveSorted` show that the loop of
AddThreadToRunQueue and removals keep the order, and the first eligible thread of a
sorted queue is the most urgent one. `SleepInv` joins `SleepQueueSorted` and
`NoStaleTimeout`: the sleepqueue stays in order because a thread on it keeps its flag and
its deadline until it is taken off, and the flag goes away then, whether the timeout or
ResumeThread does it (`SleepInvariance`, `SleepersInOrder`, `TimeoutsEnd`).
`SchedulerImplements` is the refinement: each
action maps to the step of `AbstractScheduler` that its name suggests or to a
stutter, with `IInv` for the guards (a picked thread is ready and held by nobody, a
destroyed one is held by nobody).

**`LockProofs`**: first, each operation of a sleep queue preserves `SqInv`, and the
semaphore, the mutex and the condition variable cite these lemmas. `SqInv` is per queue
and per waker, because who holds the spinlock, who is on the list and who was dequeued
are known together only.

* Semaphores: `SemInv` says what each place in Wait and Signal implies, and
  contains `UnitsConserved`. Theorems: `SemInvariance`, `NoUnitTwice`,
  `SemaphoreResumesSuspended`. `NoUnitWhileAsleep` is false when two threads wait
  (finding 1). `SoleWaiterGetsUnits` proves it for a semaphore with one waiting
  thread, any number of wakers, any counts, and with or without WaitAndDrain: the
  thread holds the spinlock from PrepareToSleep on, so the Signal that made its
  exchange fail has yet to look at the queue (`SoleWaiterInv`).
* Mutexes: `MutexInv` is `SqInv` with what each place in Lock and Unlock implies.
  `NoLostWakeup` is part of it: it is kept by Unlock because the waker is then under
  way, and by a thread going to sleep because its second TryLock failed under the
  spinlock. Theorems: `MutexInvariance`, `LockExcludes`, `WakeupsArrive`,
  `ResumesOnlySuspended`.
* Condition variables: `CvInv` has the places of both Wait and Lock, two queues at
  once, and the mutex's own invariant, which has to survive the Unlock in the middle
  of Wait. That no signal is lost is a count, `ItemsCovered`: while a thread sleeps on
  the condition variable there are at most as many items as `Tokens`, the threads
  that will look for an item or wake up one that will. Each step adds or uses up
  at most one token and one item, or passes a token on. Put raises both at once, since
  it is followed by a Signal; Wait is called only when there is no item.
  Theorems: `CvInvariance`, `CvSafety` (`MutualExclusion`,
  `NoLostWakeup`, `SuspendedWhileWaiting`), `NoSignalLost` (`NoItemWhileAsleep`).

The theorems about mutexes and condition variables assume `Waker = Thread`, which is
how their specifications use the sleep queues: only threads unlock and signal.

**`BioProofs`**: `BioInv` adds who is on which list of waiters (`WaitInv`), what a thread
at each place has got (`OwnInv`), that a transfer has an owner who waits for it
(`TransferInv`), and what the buffers contain (`ContentsInv`). `Coherent` needs
`UniqueBlock`: a write that completes changes the block on the device, and no
other buffer may claim to have it. Theorems: `BioInvariance`,
`BuffersAreExclusive`, `FreelistIsExact`, `BlocksAreUnique`, `CacheIsCoherent`,
`BusyWaitersAreWoken`.

**`VMSpaceProofs`**: `MemInv`, for programs that do not
split areas with pages (`~Splits`, a hypothesis of each theorem; finding 2 shows
that it is needed). The counts are exact only if a process has a page once
(`HeldOnce`), a fork knows how far it has come (`ForkInv`), areas do not overlap and
stay within the file (`AreasInv`), and a process that is gone has nothing left
(`DeadInv`). `WritersAreAlone` follows from `TranslationsCurrent` and
`PromotedAlone`: a page table allows writing only when the page is promoted, and a
promoted page of a private area is not shared, because Clone takes the flag away and
Promote gives it back only to the last user, whom the exact count identifies.
Theorems: `MemoryInvariant`, `CountsExact`, `PageTablesCurrent`, `CopyOnWrite`.

The second half of the module shows that programs see memories of their own. What a process reads at an
address is its page, or else the file or zero (`AbstractMemory`'s state is computed
that way). A lemma for each step says which abstract step it is: faults, the pages
copied by a fork and the pages given up by an exit are stutters, a store changes one
address of one process, FreeRange, exec and exit unmap, the new area shows zeroes or the
file where nothing was, and the end of a fork gives the child the memory of its parent.
`ViewInv` is needed besides `MemInv`: the pages of the inode hold the file and no process
has them (`InodeView`), and only private areas are written (`AreaView`, `CallView`); a
store into a page cannot be seen elsewhere because of `WritersAreAlone`. Theorems:
`ViewInvariance`, `PrivateMemories` (the refinement). Besides `~Splits` they assume
`PrivateWrites`: no mapping is both shared and writable, since such pages are meant
to be seen by others (and Promote copies them, see below).

**`ICacheProofs`**: `ICacheInv` adds to the two properties of the run that an INode is on
one list (`ListsInv`), and that who reads an INode has it locked and pending under the
right number (`ReaderInv`). The properties need each other: PurgeEntries discards an INode
whose count is not positive, so nobody loses an INode only because the count is exact, and
the count stays exact because an INode of the free list has no user. `icache_mtx`
is in the argument only through the steps that it makes atomic: who holds it across steps
does not matter. Theorems: `ICacheInvariance`,
`ReferencesCounted`, `HeldInodesStay`. That two INodes are never the same inode is not
provable: it is false (finding 3).

**`ProcessProofs`**: the center of `ProcInv` is `LifeInv`: every process is at one stage of
its life (`LifeOf`: being made, running, exited, reaped, buried, gone), and a stage says at
once where the process is, where its parent is, whether it is on the parent's list, and
what its state, thread and count are. None of the properties is inductive without it: that
the thread of a zombie is a zombie needs that the child keeps its lock from Process::Exit
to SignalExit (`LockInv`), and that the parent holds it from WaitAndLock to ~Process.
Theorems: `ProcInvariance`, `NothingUsedAfterFree`, `ZombiesHaveThreads`, `WaitDestroys`,
`ProcessesImplement` (the refinement: process_alloc, Process::Exit and the end of waitpid
are the steps of `AbstractProcess`, all others stutter). They hold in the model
whether or not programs wait for their children, but `NothingUsedAfterFree` does not
speak of `p_parent`: a signal to a parent that is gone only counts up in the model, and
what the kernel does after such a write is not modelled. `ParentsExist` is about that
signal, and is proved for programs that wait (`~Orphans`): a process that has children has
then not begun to exit (`ParentsWait`), so it was not reaped. Finding 4 shows that the
hypothesis is needed.

**`PagesProofs`**: `PagesInv` says that the free lists and the blocks of the callers are
two sets of aligned blocks that tile the free pages and the rest of the zone (`Tiles`),
that a bit is set for the first page of an owned block and for pages not added yet
(`BitmapInv`), that `p_order` of the first page of a free block is its order
(`OrdersInv`), and that no two halves of a block are both free (`BuddiesInv`). `Partition`
is not inductive: that the buddy which page_free_index merges with is a free block of that
order, and not a page in the middle of some block, follows from the bit and `p_order` only
because blocks are aligned and the block that is freed lies in no larger one
(`MergesFree`). A block of order `hi` is the block of order `lo` around a page together with
the buddies met on the way up, each page once (`Ladder`, `LadderCovers`); merging
(`MergeTiles`) and splitting (`SplitTiles`) replace one side of that by the other, so
neither changes which pages are tiled. `FullyMerged` follows from `BuddiesInv` from order to
order: both halves of a block are in free blocks, and if these were two they would be
buddies. The steps from order to order use that a nonempty set of naturals has a least
element (`FirstNat`, `Upwards`) instead of induction. Theorems: `PagesInvariance`,
`ZonePartitioned`, `FreeBlocksMerged`, `BlocksFit`. Besides `PagesAssumption` they rest on
`PowersOfTwo`, what `1 << k` is for the orders there are: a fact of arithmetic that the
prover, which knows nothing about exponents, has to be told, and that TLC evaluates for
the orders of the run. `PagesAssumption` bounds `Length` by the largest block: the
assertion of page_alloc_order (`kern/page.cpp:224`) asks that of its callers.

Only model-checked: liveness (`SleeperWakesUp`, `RunnableThreadRuns`, `SleeperIsWoken`,
`WorkIsDone`, `ItemsAreTaken`, `WaitReturns`), which is out of the prover's reach.

## Not modelled

* Most of the repository's lines are imported: the C library, dlmalloc, ACPICA, the
  terminal emulator, image and font libraries. They are not modelled, nor are the
  programs that use them, so the models cover a small share of all lines and the
  larger part of the kernel's own concurrent code.
* Drivers, partition tables, on-disk formats, program loading, consoles, the
  debugger and the machine-dependent code: hardware protocols, data layout or
  input and output.
* User space: the C library, the linker, the window manager and the programs.
* File descriptors, local sockets, interrupt threads, kernel mappings, shared memory
  and the lookup of names: the hazards list what is known to be delicate there.
* Process groups, sessions and terminals: the counts of groups are not those of their
  members. setpgid takes no reference (`kern/processgroup.cpp:127`), and the terminal
  changes the one it has without a lock (`dev/generic/tty.cpp:294`).
* The counts of dentries, which dentry_ref changes without a lock
  (`vfs/dentry.cpp:210`).
* In the modelled parts: kill, the failure paths of clone and waitpid, several
  threads in a process, maps over two areas at once (FreeRange frees the first only), shared writable mappings (Promote copies their pages too),
  Thread::Wait (a wait that begins after SignalWaiters is not woken up), affinity,
  process_lookup during the destruction of a process, a thread with two buffers,
  blocks asked for with different lengths.
* Memory ordering: atomic operations are sequentially consistent in the code
  (the default of `util::atomic`), plain variables are guarded by locks.
  The unguarded updates of `t_flags` are listed as a hazard.
