-------------------------------- MODULE Bio --------------------------------
(***************************************************************************)
(* The I/O buffer cache (kern/bio.cpp): threads that read a block, look at *)
(* it or change and write it, and release its buffer, and a device that    *)
(* completes the transfers.                                                *)
(*                                                                         *)
(* Each stretch of code with mtx_cache or b_objlock held is one step, and  *)
(* so are Wait, Signal and Broadcast of a condition variable: that they    *)
(* behave so is what Mutex and ConditionVariable are about.  Buffers are   *)
(* found by their block, whichever bucket that puts them in; all blocks    *)
(* have the same length.                                                   *)
(***************************************************************************)
EXTENDS Lists

CONSTANTS
  NumberOfBuffers,
  Thread,
  Block,   \* the blocks of the device
  Value,   \* what a block may contain
  Zero,    \* what the blocks contain at first
  None     \* nullptr

Buf == 1 .. NumberOfBuffers

ASSUME BioAssumption ==
  NumberOfBuffers \in Nat \ {0} /\ Zero \in Value /\ None \notin Block \cup Buf

VARIABLES
  bio_freelist,  \* the buffers that are free
  b_block,       \* the block of each buffer, None if it was never used
  busy,          \* the buffers with cflag::Busy
  invalid,       \* the buffers with cflag::Invalid
  done,          \* the buffers with oflag::Done
  failed,        \* the buffers whose b_status is a failure
  data,          \* b_data, the contents of the buffers
  disk,          \* the contents of the blocks on the device
  io,            \* the transfer each buffer is waiting for
  completing,    \* the buffers whose b_cv_done Done has yet to broadcast
  needed,        \* the threads waiting on cv_buffer_needed, in order
  cv_busy,       \* the threads waiting on b_cv_busy of each buffer
  pc,            \* where each thread is, see below
  want,          \* the block that each thread asks getblk for
  own            \* the buffer that each thread has got

cflags == <<busy, invalid>>
oflags == <<done, failed>>
device == <<data, disk, io, completing>>
waiters == <<needed, cv_busy>>
vars == <<bio_freelist, b_block, cflags, oflags, device, waiters, pc, want, own>>

(***************************************************************************)
(* Where a thread is:                                                      *)
(*   out        not in the buffer cache                                    *)
(*   getblk     about to lock mtx_cache in getblk, or to restart           *)
(*   busywait   waiting on b_cv_busy of the buffer of its block            *)
(*   needwait   waiting on cv_buffer_needed                                *)
(*   bread      getblk has returned                                        *)
(*   read       in BIO::Wait of bread, before it looks at Done             *)
(*   readsleep  waiting on b_cv_done there                                 *)
(*   have       bread has returned the block                               *)
(*   write      in BIO::Wait of Write, before it looks at Done             *)
(*   writesleep waiting on b_cv_done there                                 *)
(*   release    Write is about to call Release                             *)
(*   unbusy     in Release, before it locks mtx_cache                      *)
(*   broadcast  in Release, before it broadcasts b_cv_busy                 *)
(***************************************************************************)
PCs == {"out", "getblk", "busywait", "needwait", "bread", "read", "readsleep",
        "have", "write", "writesleep", "release", "unbusy", "broadcast"}
OwnerPCs == {"bread", "read", "readsleep", "have", "write", "writesleep",
             "release", "unbusy"}

Init ==
  /\ bio_freelist = [i \in Buf |-> i]
  /\ b_block = [b \in Buf |-> None]
  /\ busy = {} /\ invalid = {} /\ done = {} /\ failed = {}
  /\ data = [b \in Buf |-> Zero]
  /\ disk = [k \in Block |-> Zero]
  /\ io = [b \in Buf |-> "none"]
  /\ completing = {}
  /\ needed = <<>>
  /\ cv_busy = [b \in Buf |-> {}]
  /\ pc = [t \in Thread |-> "out"]
  /\ want = [t \in Thread |-> None]
  /\ own = [t \in Thread |-> None]

Goto(t, where) == pc' = [pc EXCEPT ![t] = where]

-----------------------------------------------------------------------------
\* getblk

\* Mutant: busy buffers are overlooked.
IncoreNotBusy(k) == {b \in Buf \ (invalid \cup busy) : b_block[b] = k}

\* incore
Incore(k) == {b \in Buf \ invalid : b_block[b] = k}

bread(t, k) ==
  /\ pc[t] = "out"
  /\ want' = [want EXCEPT ![t] = k]
  /\ Goto(t, "getblk")
  /\ UNCHANGED <<bio_freelist, b_block, cflags, oflags, device, waiters, own>>

\* Mutant: the buffer stays on the freelist.
GetCachedListed(t) ==
  \E b \in Incore(want[t]) \ busy :
    /\ pc[t] = "getblk"
    /\ busy' = busy \cup {b}
    /\ own' = [own EXCEPT ![t] = b]
    /\ want' = [want EXCEPT ![t] = None]
    /\ Goto(t, "bread")
    /\ UNCHANGED <<bio_freelist, b_block, invalid, oflags, device, waiters>>

\* The block is in the cache and its buffer is not busy.
GetCached(t) ==
  \E b \in Incore(want[t]) \ busy :
    /\ pc[t] = "getblk"
    /\ busy' = busy \cup {b}
    /\ bio_freelist' = Remove(bio_freelist, b)
    /\ own' = [own EXCEPT ![t] = b]
    /\ want' = [want EXCEPT ![t] = None]
    /\ Goto(t, "bread")
    /\ UNCHANGED <<b_block, invalid, oflags, device, waiters>>

\* It is busy: wait until it is released, then start again.
WaitBusy(t) ==
  \E b \in Incore(want[t]) \cap busy :
    /\ pc[t] = "getblk"
    /\ cv_busy' = [cv_busy EXCEPT ![b] = @ \cup {t}]
    /\ Goto(t, "busywait")
    /\ UNCHANGED <<bio_freelist, b_block, cflags, oflags, device, needed, want, own>>

\* It is not in the cache: the first buffer of the freelist is used for it.
GetNewBuffer(t) ==
  LET b == Head(bio_freelist)
  IN /\ pc[t] = "getblk"
     /\ Incore(want[t]) = {}
     /\ bio_freelist # <<>>
     /\ bio_freelist' = Tail(bio_freelist)
     /\ busy' = busy \cup {b}
     /\ invalid' = invalid \ {b}
     /\ done' = done \ {b}
     /\ failed' = failed \ {b}
     /\ b_block' = [b_block EXCEPT ![b] = want[t]]
     /\ own' = [own EXCEPT ![t] = b]
     /\ want' = [want EXCEPT ![t] = None]
     /\ Goto(t, "bread")
     /\ UNCHANGED <<device, waiters>>

\* Nor is any buffer free: wait for one, then start again.
WaitBuffer(t) ==
  /\ pc[t] = "getblk"
  /\ Incore(want[t]) = {}
  /\ bio_freelist = <<>>
  /\ needed' = Append(needed, t)
  /\ Goto(t, "needwait")
  /\ UNCHANGED <<bio_freelist, b_block, cflags, oflags, device, cv_busy, want, own>>

-----------------------------------------------------------------------------
\* bread

\* The device is asked to read the block, unless the buffer has it.
ReadBIO(t) ==
  /\ pc[t] = "bread"
  /\ io' = IF own[t] \in done THEN io ELSE [io EXCEPT ![own[t]] = "read"]
  /\ Goto(t, "read")
  /\ UNCHANGED <<bio_freelist, b_block, cflags, oflags, data, disk, completing,
                 waiters, want, own>>

\* BIO::Wait: the transfer is not completed.
WaitDone(t) ==
  /\ own[t] \notin done
  /\ \/ pc[t] = "read" /\ Goto(t, "readsleep")
     \/ pc[t] = "write" /\ Goto(t, "writesleep")
  /\ UNCHANGED <<bio_freelist, b_block, cflags, oflags, device, waiters, want, own>>

\* It is, and the caller has the block.
ReadReturns(t) ==
  /\ pc[t] = "read"
  /\ own[t] \in done \ failed
  /\ Goto(t, "have")
  /\ UNCHANGED <<bio_freelist, b_block, cflags, oflags, device, waiters, want, own>>

\* The read failed: vfs_bread returns the failure and drops the buffer.
ReadFails(t) ==
  /\ pc[t] = "read"
  /\ own[t] \in done \cap failed
  /\ own' = [own EXCEPT ![t] = None]
  /\ Goto(t, "out")
  /\ UNCHANGED <<bio_freelist, b_block, cflags, oflags, device, waiters, want>>

\* BIO::Write, when the caller has changed the block.  Only the caller uses the
\* buffer until WriteBIO.
Write(t, v) ==
  LET b == own[t]
  IN /\ pc[t] = "have"
     /\ data' = [data EXCEPT ![b] = v]
     /\ failed' = failed \ {b}
     /\ done' = done \ {b}
     /\ io' = [io EXCEPT ![b] = "write"]
     /\ Goto(t, "write")
     /\ UNCHANGED <<bio_freelist, b_block, cflags, disk, completing, waiters, want, own>>

\* Write calls Release whether the transfer succeeded or not.
WriteReturns(t) ==
  /\ pc[t] = "write"
  /\ own[t] \in done
  /\ Goto(t, "release")
  /\ UNCHANGED <<bio_freelist, b_block, cflags, oflags, device, waiters, want, own>>

-----------------------------------------------------------------------------
\* BIO::Release: cv_buffer_needed is signalled first, ...
Release(t) ==
  /\ pc[t] \in {"have", "release"}
  /\ IF needed = <<>>
     THEN Goto(t, "unbusy") /\ UNCHANGED needed
     ELSE /\ pc' = [pc EXCEPT ![t] = "unbusy", ![Head(needed)] = "getblk"]
          /\ needed' = Tail(needed)
  /\ UNCHANGED <<bio_freelist, b_block, cflags, oflags, device, cv_busy, want, own>>

\* Mutant: the data of a failed transfer stays valid.
UnbusyValid(t) ==
  /\ pc[t] = "unbusy"
  /\ bio_freelist' = IF own[t] \in invalid THEN Insert(bio_freelist, 1, own[t])
                     ELSE Append(bio_freelist, own[t])
  /\ busy' = busy \ {own[t]}
  /\ Goto(t, "broadcast")
  /\ UNCHANGED <<b_block, invalid, oflags, device, waiters, want, own>>

\* ... then the buffer goes to the freelist, in front if its data is invalid, ...
Unbusy(t) ==
  /\ pc[t] = "unbusy"
  /\ invalid' = invalid \cup ({own[t]} \cap failed)
  /\ bio_freelist' = IF own[t] \in invalid' THEN Insert(bio_freelist, 1, own[t])
                     ELSE Append(bio_freelist, own[t])
  /\ busy' = busy \ {own[t]}
  /\ Goto(t, "broadcast")
  /\ UNCHANGED <<b_block, oflags, device, waiters, want, own>>

\* Mutant: nobody is woken up.
BroadcastBusySilently(t) ==
  /\ pc[t] = "broadcast"
  /\ Goto(t, "out")
  /\ own' = [own EXCEPT ![t] = None]
  /\ UNCHANGED <<bio_freelist, b_block, cflags, oflags, device, waiters, want>>

\* ... and whoever waits for this buffer starts again.
BroadcastBusy(t) ==
  /\ pc[t] = "broadcast"
  /\ pc' = [u \in Thread |-> IF u = t THEN "out"
                             ELSE IF u \in cv_busy[own[t]] THEN "getblk"
                             ELSE pc[u]]
  /\ cv_busy' = [cv_busy EXCEPT ![own[t]] = {}]
  /\ own' = [own EXCEPT ![t] = None]
  /\ UNCHANGED <<bio_freelist, b_block, cflags, oflags, device, needed, want>>

-----------------------------------------------------------------------------
\* The device completes the transfers in any order, and finishes one call of
\* BIO::Done before it completes the next transfer of that buffer.  A transfer
\* that fails may or may not have changed its destination.

Transferred(b) ==
  IF io[b] = "read"
  THEN data' = [data EXCEPT ![b] = disk[b_block[b]]] /\ UNCHANGED disk
  ELSE disk' = [disk EXCEPT ![b_block[b]] = data[b]] /\ UNCHANGED data

\* BIO::Done
Done(b) ==
  /\ io[b] # "none"
  /\ b \notin completing
  /\ \/ Transferred(b) /\ failed' = failed \ {b}
     \/ Transferred(b) /\ failed' = failed \cup {b}
     \/ UNCHANGED <<data, disk>> /\ failed' = failed \cup {b}
  /\ done' = done \cup {b}
  /\ io' = [io EXCEPT ![b] = "none"]
  /\ completing' = completing \cup {b}
  /\ UNCHANGED <<bio_freelist, b_block, cflags, waiters, pc, want, own>>

\* Done broadcasts b_cv_done: by now the buffer may have another owner.
DoneBroadcast(b) ==
  /\ b \in completing
  /\ completing' = completing \ {b}
  /\ pc' = [t \in Thread |-> IF own[t] = b /\ pc[t] = "readsleep" THEN "read"
                             ELSE IF own[t] = b /\ pc[t] = "writesleep" THEN "write"
                             ELSE pc[t]]
  /\ UNCHANGED <<bio_freelist, b_block, cflags, oflags, data, disk, io, waiters, want, own>>

-----------------------------------------------------------------------------
Getblk(t) == GetCached(t) \/ WaitBusy(t) \/ GetNewBuffer(t) \/ WaitBuffer(t)

ThreadStep(t) ==
  \/ Getblk(t)
  \/ ReadBIO(t)
  \/ WaitDone(t)
  \/ ReadReturns(t)
  \/ ReadFails(t)
  \/ \E v \in Value : Write(t, v)
  \/ WriteReturns(t)
  \/ Release(t)
  \/ Unbusy(t)
  \/ BroadcastBusy(t)

DeviceStep(b) == Done(b) \/ DoneBroadcast(b)

Next ==
  \/ \E t \in Thread : (\E k \in Block : bread(t, k)) \/ ThreadStep(t)
  \/ \E b \in Buf : DeviceStep(b)

Spec == Init /\ [][Next]_vars

-----------------------------------------------------------------------------
\* Properties

\* The lists, flags and contents of the buffers of bio.cpp are well formed.
BioTypeOK ==
  /\ bio_freelist \in Seq(Buf)
  /\ b_block \in [Buf -> Block \cup {None}]
  /\ busy \subseteq Buf /\ invalid \subseteq Buf
  /\ done \subseteq Buf /\ failed \subseteq Buf
  /\ data \in [Buf -> Value]
  /\ disk \in [Block -> Value]
  /\ io \in [Buf -> {"none", "read", "write"}]
  /\ completing \subseteq Buf
  /\ needed \in Seq(Thread)
  /\ cv_busy \in [Buf -> SUBSET Thread]
  /\ pc \in [Thread -> PCs]
  /\ want \in [Thread -> Block \cup {None}]
  /\ own \in [Thread -> Buf \cup {None}]

Owns(t, b) == own[t] = b /\ pc[t] \in OwnerPCs

\* "The bio was not busy, so it must be on the freelist - claim it from there so
\* that active bio's are never freed" (getblk): a buffer is on the freelist, and
\* there only once, exactly while it is not busy.
FreeUnlessBusy ==
  NoDuplicates(bio_freelist) /\ Members(bio_freelist) = Buf \ busy

\* "The resulting BIO is always locked (BUSY)": no buffer that getblk returned
\* is returned to another thread before its owner has released it.
OneOwner ==
  \A t, u \in Thread, b \in Buf :
    /\ Owns(t, b) => b \in busy
    /\ Owns(t, b) /\ Owns(u, b) => t = u

\* A block is never in two buffers with valid data, although threads that look
\* for it wait and start again in between.
UniqueBlock ==
  \A b, c \in Buf \ invalid : (b_block[b] # None /\ b_block[b] = b_block[c]) => b = c

\* Whoever reads a block sees what is on the device, and sees it for as long as
\* it has the buffer: a transfer that failed and a buffer that was used for
\* another block leave nothing behind.
Coherent ==
  \A b \in Buf \ invalid :
    (b_block[b] # None /\ (b \notin busy \/ \E t \in Thread : Owns(t, b) /\ pc[t] = "have"))
      => data[b] = disk[b_block[b]]

\* Nobody waits on b_cv_busy of a buffer that is not busy, unless the thread
\* that released it is about to wake up all who wait.
NoBusyWaiterForgotten ==
  \A b \in Buf : cv_busy[b] # {} =>
    b \in busy \/ \E u \in Thread : own[u] = b /\ pc[u] = "broadcast"

-----------------------------------------------------------------------------
\* The inductive invariant

\* Who is on a list of waiters waits there and nowhere else.
WaitInv ==
  /\ NoDuplicates(needed)
  /\ \A t \in Members(needed) : pc[t] = "needwait"
  /\ \A b \in Buf : \A t \in cv_busy[b] : pc[t] = "busywait"
  /\ \A b, c \in Buf : cv_busy[b] \cap cv_busy[c] # {} => b = c
  /\ \A t \in Thread :
       pc[t] \in {"getblk", "busywait", "needwait"} => want[t] \in Block

\* What a thread has got: a busy buffer with its block, which nobody has found
\* invalid; with the contents of the block when the thread is to look at it.
HasItsBuffer(t) ==
  /\ own[t] \in Buf <=> pc[t] \in OwnerPCs \cup {"broadcast"}
  /\ pc[t] \in OwnerPCs => own[t] \in busy \ invalid /\ b_block[own[t]] \in Block
  /\ pc[t] = "have" => own[t] \in done \ failed
  /\ pc[t] \in {"release", "unbusy"} => own[t] \in done

OwnInv == \A t \in Thread : HasItsBuffer(t)

\* A transfer belongs to a thread that waits for it ("bio already done" in
\* BIO::Done never happens).
TransferInv ==
  \A b \in Buf : io[b] # "none" =>
    /\ b \notin done
    /\ \E t \in Thread : /\ Owns(t, b)
                         /\ pc[t] \in {"read", "readsleep", "write", "writesleep"}

\* What a buffer contains whose last transfer did not fail, and that the others
\* are marked invalid by the time they are free.
ContentsInv ==
  /\ invalid \subseteq failed
  /\ \A b \in Buf \ (busy \cup invalid) : b_block[b] # None => b \in done \ failed
  /\ \A b \in done \ failed : b_block[b] # None => data[b] = disk[b_block[b]]

\* The facts of the buffer cache that together are preserved by every step:
\* Coherent rests on the contents being known (ContentsInv), which needs that no
\* other buffer has the block (UniqueBlock) when it is written.
BioInv ==
  /\ BioTypeOK
  /\ FreeUnlessBusy
  /\ OneOwner
  /\ UniqueBlock
  /\ NoBusyWaiterForgotten
  /\ WaitInv
  /\ OwnInv
  /\ TransferInv
  /\ ContentsInv
=============================================================================
