----------------------------- MODULE BioProofs ------------------------------
(***************************************************************************)
(* The buffer cache for any number of buffers, blocks and threads: every   *)
(* busy buffer has one owner, no block is in two buffers, and whoever reads *)
(* a block sees what is on the device.                                     *)
(***************************************************************************)
EXTENDS Bio, ListProofs

\* The buffers as initBIO leaves them satisfy the invariant.
LEMMA BioInitInv ==
  ASSUME Init
  PROVE  BioInv
<1>1. NumberOfBuffers \in Nat /\ Zero \in Value /\ None \notin Block /\ None \notin Buf
  BY BioAssumption, Zenon
<1>2. Holds(bio_freelist, Buf)
  <2>1. bio_freelist \in [1 .. NumberOfBuffers -> Buf]
    BY Zenon DEF Init, Buf
  <2>2. /\ \A x \in Buf : \E i \in 1 .. NumberOfBuffers : bio_freelist[i] = x
        /\ \A i, j \in 1 .. NumberOfBuffers :
             bio_freelist[i] = bio_freelist[j] => i = j
    BY Zenon DEF Init, Buf
  <2>3. QED
    BY <1>1, <2>1, <2>2, HoldsIntro, Zenon
<1>3. BioTypeOK
  BY <1>1, <1>2 DEF Init, BioTypeOK, PCs, Holds
<1>4. FreeUnlessBusy
  BY <1>2, Zenon DEF Init, FreeUnlessBusy, Holds
<1>5. OneOwner /\ UniqueBlock /\ NoBusyWaiterForgotten
  BY Zenon DEF Init, OneOwner, Owns, OwnerPCs, UniqueBlock, NoBusyWaiterForgotten
<1>6. WaitInv
  BY DEF Init, WaitInv, NoDuplicates, Members
<1>7. OwnInv /\ TransferInv /\ ContentsInv
  BY <1>1, Zenon DEF Init, OwnInv, HasItsBuffer, OwnerPCs, TransferInv, ContentsInv
<1>8. QED
  BY <1>3, <1>4, <1>5, <1>6, <1>7, Zenon DEF BioInv

-----------------------------------------------------------------------------
\* The freelist

\* getblk takes from the freelist what it marks busy, and Release puts back what
\* it unmarks.
LEMMA FreelistPreserved ==
  ASSUME BioInv, Next
  PROVE  FreeUnlessBusy' /\ bio_freelist' \in Seq(Buf)
<1>1. Holds(bio_freelist, Buf \ busy) /\ busy \subseteq Buf
  BY HoldsMembers, Zenon DEF BioInv, BioTypeOK, FreeUnlessBusy
<1>2. UNCHANGED <<bio_freelist, busy>> => Holds(bio_freelist', Buf \ busy')
  BY <1>1, Zenon
<1>3. ASSUME NEW t \in Thread, ThreadStep(t)
      PROVE  Holds(bio_freelist', Buf \ busy')
  <2>1. CASE GetCached(t)
    <3>1. PICK b \in Buf \ busy : /\ busy' = busy \cup {b}
                                  /\ bio_freelist' = Remove(bio_freelist, b)
      BY <2>1, Zenon DEF GetCached, Incore
    <3>2. Holds(bio_freelist', (Buf \ busy) \ {b})
      BY <1>1, <3>1, RemoveHolds, Zenon
    <3>3. (Buf \ busy) \ {b} = Buf \ busy'
      BY <3>1, Zenon
    <3>4. QED
      BY <3>2, <3>3, Zenon
  <2>2. CASE GetNewBuffer(t)
    <3>1. Holds(bio_freelist', (Buf \ busy) \ {Head(bio_freelist)})
      BY <1>1, <2>2, TailHolds, Zenon DEF GetNewBuffer
    <3>2. (Buf \ busy) \ {Head(bio_freelist)} = Buf \ busy'
      BY <2>2, Zenon DEF GetNewBuffer
    <3>3. QED
      BY <3>1, <3>2, Zenon
  <2>3. CASE Unbusy(t)
    <3> DEFINE b == own[t]
    <3>1. b \in busy
      BY <2>3, Zenon DEF BioInv, OwnInv, HasItsBuffer, Unbusy, OwnerPCs
    <3>2. Holds(bio_freelist', (Buf \ busy) \cup {b})
      <4>1. CASE bio_freelist' = Append(bio_freelist, b)
        BY <1>1, <3>1, <4>1, AppendHolds, Zenon
      <4>2. CASE bio_freelist' = Insert(bio_freelist, 1, b)
        <5>1. 1 \in 1 .. Len(bio_freelist) + 1
          BY <1>1, HoldsFacts
        <5>2. QED
          BY <1>1, <3>1, <4>2, <5>1, InsertHolds, Zenon
      <4>3. QED
        BY <2>3, <4>1, <4>2, Zenon DEF Unbusy
    <3>3. (Buf \ busy) \cup {b} = Buf \ busy'
      BY <1>1, <2>3, <3>1, Zenon DEF Unbusy
    <3>4. QED
      BY <3>2, <3>3, Zenon
  <2>4. QED
    BY <1>2, <1>3, <2>1, <2>2, <2>3, Zenon
    DEF ThreadStep, Getblk, WaitBusy, WaitBuffer, ReadBIO, WaitDone, ReadReturns,
        ReadFails, Write, WriteReturns, Release, BroadcastBusy, cflags
<1>4. Holds(bio_freelist', Buf \ busy')
  BY <1>2, <1>3, Zenon DEF Next, bread, DeviceStep, Done, DoneBroadcast, cflags
<1>5. bio_freelist' \in Seq(Buf)
  BY <1>4, HoldsType, Zenon
<1>6. QED
  BY <1>4, <1>5, Zenon DEF Holds, FreeUnlessBusy

-----------------------------------------------------------------------------
\* The types

\* Every step of bio.cpp keeps the types.
LEMMA BioTypePreserved ==
  ASSUME BioInv, Next
  PROVE  BioTypeOK'
<1>1. bio_freelist' \in Seq(Buf)
  BY FreelistPreserved, Zenon
<1>2. BioTypeOK /\ None \notin Block /\ None \notin Buf
  BY BioAssumption, Zenon DEF BioInv
<1>3. ASSUME NEW t \in Thread, NEW k \in Block, bread(t, k)
      PROVE  BioTypeOK'
  BY <1>1, <1>2, <1>3, Zenon
  DEF bread, Goto, BioTypeOK, PCs, cflags, oflags, device, waiters
<1>4. ASSUME NEW t \in Thread, Getblk(t)
      PROVE  BioTypeOK'
  <2>1. CASE GetCached(t)
    BY <1>1, <1>2, <2>1
    DEF GetCached, Incore, Goto, BioTypeOK, PCs, oflags, device, waiters
  <2>2. CASE WaitBusy(t)
    BY <1>1, <1>2, <2>2
    DEF WaitBusy, Incore, Goto, BioTypeOK, PCs, cflags, oflags, device
  <2>3. CASE GetNewBuffer(t)
    <3>1. Head(bio_freelist) \in Buf
      BY <1>2, <2>3 DEF GetNewBuffer, BioTypeOK
    <3>2. QED
      BY <1>1, <1>2, <2>3, <3>1, Zenon
      DEF GetNewBuffer, Goto, BioTypeOK, PCs, device, waiters
  <2>4. CASE WaitBuffer(t)
    <3>1. needed' \in Seq(Thread)
      BY <1>2, <2>4 DEF WaitBuffer, BioTypeOK
    <3>2. QED
      BY <1>1, <1>2, <2>4, <3>1, Zenon
      DEF WaitBuffer, Goto, BioTypeOK, PCs, cflags, oflags, device
  <2>5. QED
    BY <1>4, <2>1, <2>2, <2>3, <2>4, Zenon DEF Getblk
<1>5. ASSUME NEW t \in Thread,
             ReadBIO(t) \/ WaitDone(t) \/ ReadReturns(t) \/ ReadFails(t) \/ WriteReturns(t)
      PROVE  BioTypeOK'
  <2>1. CASE ReadBIO(t)
    BY <1>1, <1>2, <2>1, Zenon DEF ReadBIO, Goto, BioTypeOK, PCs, cflags, oflags, waiters
  <2>2. CASE WaitDone(t)
    BY <1>1, <1>2, <2>2 DEF WaitDone, Goto, BioTypeOK, PCs, cflags, oflags, device, waiters
  <2>3. CASE ReadReturns(t)
    BY <1>1, <1>2, <2>3, Zenon
    DEF ReadReturns, Goto, BioTypeOK, PCs, cflags, oflags, device, waiters
  <2>4. CASE ReadFails(t)
    BY <1>1, <1>2, <2>4, Zenon
    DEF ReadFails, Goto, BioTypeOK, PCs, cflags, oflags, device, waiters
  <2>5. CASE WriteReturns(t)
    BY <1>1, <1>2, <2>5, Zenon
    DEF WriteReturns, Goto, BioTypeOK, PCs, cflags, oflags, device, waiters
  <2>6. QED
    BY <1>5, <2>1, <2>2, <2>3, <2>4, <2>5, Zenon
<1>6. ASSUME NEW t \in Thread, NEW v \in Value, Write(t, v)
      PROVE  BioTypeOK'
  BY <1>1, <1>2, <1>6, Zenon DEF Write, Goto, BioTypeOK, PCs, cflags, waiters
<1>7. ASSUME NEW t \in Thread, Release(t)
      PROVE  BioTypeOK'
  <2>1. needed' \in Seq(Thread)
    <3>1. needed \in Seq(Thread)
      BY <1>2, Zenon DEF BioTypeOK
    <3>2. CASE needed = <<>>
      BY <1>7, <3>1, <3>2, Zenon DEF Release
    <3>3. CASE needed # <<>> /\ needed' = Tail(needed)
      BY <3>1, <3>3
    <3>4. QED
      BY <1>7, <3>2, <3>3, Zenon DEF Release
  <2>2. pc' \in [Thread -> PCs]
    BY <1>2, <1>7 DEF Release, Goto, BioTypeOK, PCs
  <2>3. QED
    BY <1>1, <1>2, <1>7, <2>1, <2>2, Zenon
    DEF Release, BioTypeOK, cflags, oflags, device
<1>8. ASSUME NEW t \in Thread, Unbusy(t) \/ BroadcastBusy(t)
      PROVE  BioTypeOK'
  <2>1. CASE Unbusy(t)
    BY <1>1, <1>2, <2>1, Zenon DEF Unbusy, Goto, BioTypeOK, PCs, oflags, device, waiters
  <2>2. CASE BroadcastBusy(t)
    <3>1. pc' \in [Thread -> PCs]
      BY <1>2, <2>2, Zenon DEF BroadcastBusy, BioTypeOK, PCs
    <3>2. cv_busy' \in [Buf -> SUBSET Thread] /\ own' \in [Thread -> Buf \cup {None}]
      BY <1>2, <2>2, Zenon DEF BroadcastBusy, BioTypeOK
    <3>3. QED
      BY <1>1, <1>2, <2>2, <3>1, <3>2, Zenon
      DEF BroadcastBusy, BioTypeOK, cflags, oflags, device
  <2>3. QED
    BY <1>8, <2>1, <2>2, Zenon
<1>9. ASSUME NEW b \in Buf, Done(b)
      PROVE  BioTypeOK'
  <2>1. b_block[b] \in Block
    BY <1>9, Zenon DEF BioInv, TransferInv, OwnInv, HasItsBuffer, Owns, Done
  <2>2. data' \in [Buf -> Value] /\ disk' \in [Block -> Value]
    <3>1. data \in [Buf -> Value] /\ disk \in [Block -> Value]
      BY <1>2, Zenon DEF BioTypeOK
    <3>2. Transferred(b) => data' \in [Buf -> Value] /\ disk' \in [Block -> Value]
      BY <2>1, <3>1, Zenon DEF Transferred
    <3>3. QED
      BY <1>9, <3>1, <3>2, Zenon DEF Done
  <2>3. QED
    BY <1>1, <1>2, <1>9, <2>2, Zenon DEF Done, BioTypeOK, cflags, waiters
<1>10. ASSUME NEW b \in Buf, DoneBroadcast(b)
       PROVE  BioTypeOK'
  BY <1>1, <1>2, <1>10, Zenon DEF DoneBroadcast, BioTypeOK, PCs, cflags, oflags, waiters
<1>11. QED
  BY <1>3, <1>4, <1>5, <1>6, <1>7, <1>8, <1>9, <1>10, Zenon DEF Next, ThreadStep, DeviceStep

-----------------------------------------------------------------------------
\* The lists of waiters

\* The threads on the lists of cv_buffer_needed and of each b_cv_busy wait there.
LEMMA WaitersPreserved ==
  ASSUME BioInv, Next
  PROVE  WaitInv'
<1>1. /\ pc \in [Thread -> PCs] /\ needed \in Seq(Thread)
      /\ cv_busy \in [Buf -> SUBSET Thread] /\ want \in [Thread -> Block \cup {None}]
      /\ own \in [Thread -> Buf \cup {None}]
  BY Zenon DEF BioInv, BioTypeOK
<1>2. Holds(needed, Members(needed)) /\ Members(needed) \subseteq Thread
  BY <1>1, HoldsMembers DEF BioInv, WaitInv, Members
<1>3. /\ \A t \in Members(needed) : pc[t] = "needwait"
      /\ \A b \in Buf : \A t \in cv_busy[b] : pc[t] = "busywait"
      /\ \A b, c \in Buf : cv_busy[b] \cap cv_busy[c] # {} => b = c
      /\ \A t \in Thread :
           pc[t] \in {"getblk", "busywait", "needwait"} => want[t] \in Block
  BY Zenon DEF BioInv, WaitInv
<1>4. ASSUME NEW t \in Thread, NEW where,
             pc[t] \notin {"busywait", "needwait"},
             where \notin {"getblk", "busywait", "needwait"},
             Goto(t, where), UNCHANGED waiters,
             want' = want \/ want' = [want EXCEPT ![t] = None]
      PROVE  WaitInv'
  <2>1. NoDuplicates(needed') /\ Members(needed') = Members(needed)
    BY <1>2, <1>4, Zenon DEF Holds, waiters
  <2>2. \A u \in Thread : u # t => pc'[u] = pc[u] /\ want'[u] = want[u]
    BY <1>1, <1>4, Zenon DEF Goto
  <2>3. pc'[t] = where
    BY <1>1, <1>4, Zenon DEF Goto
  <2>4. QED
    BY <1>1, <1>2, <1>3, <1>4, <2>1, <2>2, <2>3, Zenon DEF WaitInv, waiters
<1>5. ASSUME NEW t \in Thread, NEW k \in Block, bread(t, k)
      PROVE  WaitInv'
  <2>1. NoDuplicates(needed') /\ Members(needed') = Members(needed) /\ cv_busy' = cv_busy
    BY <1>2, <1>5, Zenon DEF Holds, bread, waiters
  <2>2. \A u \in Thread : u # t => pc'[u] = pc[u] /\ want'[u] = want[u]
    BY <1>1, <1>5, Zenon DEF bread, Goto
  <2>3. pc[t] = "out" /\ pc'[t] = "getblk" /\ want'[t] \in Block
    BY <1>1, <1>5, Zenon DEF bread, Goto
  <2>4. QED
    BY <1>1, <1>2, <1>3, <2>1, <2>2, <2>3, Zenon DEF WaitInv
<1>6. ASSUME NEW t \in Thread, WaitBusy(t)
      PROVE  WaitInv'
  <2>1. NoDuplicates(needed') /\ Members(needed') = Members(needed) /\ want' = want
    BY <1>2, <1>6, Zenon DEF Holds, WaitBusy
  <2>2. PICK c \in Buf : cv_busy' = [cv_busy EXCEPT ![c] = @ \cup {t}]
    BY <1>6, Zenon DEF WaitBusy, Incore
  <2>3. pc[t] = "getblk" /\ pc' = [pc EXCEPT ![t] = "busywait"]
    BY <1>6, Zenon DEF WaitBusy, Goto
  <2>4. \A b \in Buf : t \notin cv_busy[b]
    BY <1>3, <2>3, Zenon
  <2>5. /\ \A b \in Buf : \A u \in cv_busy'[b] : pc'[u] = "busywait"
        /\ \A b, d \in Buf : cv_busy'[b] \cap cv_busy'[d] # {} => b = d
    BY <1>1, <1>3, <2>2, <2>3, <2>4
  <2>6. QED
    BY <1>1, <1>2, <1>3, <2>1, <2>3, <2>5, Zenon DEF WaitInv
<1>7. ASSUME NEW t \in Thread, WaitBuffer(t)
      PROVE  WaitInv'
  <2>1. pc[t] = "getblk" /\ pc' = [pc EXCEPT ![t] = "needwait"]
    BY <1>7, Zenon DEF WaitBuffer, Goto
  <2>2. Holds(needed', Members(needed) \cup {t})
    BY <1>2, <1>3, <1>7, <2>1, AppendHolds, Zenon DEF WaitBuffer
  <2>3. NoDuplicates(needed') /\ Members(needed') = Members(needed) \cup {t}
    BY <2>2, Zenon DEF Holds
  <2>4. cv_busy' = cv_busy /\ want' = want
    BY <1>7, Zenon DEF WaitBuffer
  <2>5. QED
    BY <1>1, <1>2, <1>3, <2>1, <2>3, <2>4, Zenon DEF WaitInv
<1>8. ASSUME NEW t \in Thread, Release(t)
      PROVE  WaitInv'
  <2>1. CASE needed = <<>>
    BY <1>4, <1>8, <2>1, Zenon DEF Release, waiters
  <2>2. CASE needed # <<>>
    <3> DEFINE h == Head(needed)
    <3>1. h \in Members(needed) /\ Holds(needed', Members(needed) \ {h})
      BY <1>2, <1>8, <2>2, TailHolds, Zenon DEF Release
    <3>2. NoDuplicates(needed') /\ Members(needed') = Members(needed) \ {h}
      BY <3>1, Zenon DEF Holds
    <3>3. /\ pc[t] \in {"have", "release"}
          /\ pc' = [pc EXCEPT ![t] = "unbusy", ![h] = "getblk"]
          /\ cv_busy' = cv_busy /\ want' = want
      BY <1>8, <2>2, Zenon DEF Release
    <3>4. h \in Thread /\ pc[h] = "needwait" /\ h # t
      BY <1>2, <1>3, <3>1, <3>3, Zenon
    <3> HIDE DEF h
    <3>5. /\ pc'[t] = "unbusy" /\ pc'[h] = "getblk"
          /\ \A u \in Thread : u # t /\ u # h => pc'[u] = pc[u]
      BY <1>1, <3>3, <3>4, Zenon
    <3>6. QED
      BY <1>1, <1>2, <1>3, <3>2, <3>3, <3>4, <3>5, Zenon DEF WaitInv
  <2>3. QED
    BY <2>1, <2>2, Zenon
<1>9. ASSUME NEW t \in Thread, BroadcastBusy(t)
      PROVE  WaitInv'
  <2>1. NoDuplicates(needed') /\ Members(needed') = Members(needed) /\ want' = want
    BY <1>2, <1>9, Zenon DEF Holds, BroadcastBusy
  <2>2. own[t] \in Buf /\ pc[t] = "broadcast"
    BY <1>9, Zenon DEF BroadcastBusy, BioInv, OwnInv, HasItsBuffer
  <2>3. \A u \in Thread : pc'[u] = IF u = t THEN "out"
                                   ELSE IF u \in cv_busy[own[t]] THEN "getblk"
                                   ELSE pc[u]
    BY <1>9, Zenon DEF BroadcastBusy
  <2>4. cv_busy' = [cv_busy EXCEPT ![own[t]] = {}]
    BY <1>9, Zenon DEF BroadcastBusy
  <2>5. /\ \A b \in Buf : \A u \in cv_busy'[b] : pc'[u] = "busywait"
        /\ \A b, d \in Buf : cv_busy'[b] \cap cv_busy'[d] # {} => b = d
    BY <1>1, <1>3, <2>2, <2>3, <2>4, Zenon
  <2>6. QED
    BY <1>1, <1>2, <1>3, <2>1, <2>2, <2>3, <2>5, Zenon DEF WaitInv
<1>10. ASSUME NEW b \in Buf, DoneBroadcast(b)
       PROVE  WaitInv'
  <2>1. NoDuplicates(needed') /\ Members(needed') = Members(needed)
    BY <1>2, <1>10, Zenon DEF Holds, DoneBroadcast, waiters
  <2>2. \A u \in Thread : IF pc[u] \in {"readsleep", "writesleep"}
                          THEN pc'[u] \in {"read", "readsleep", "write", "writesleep"}
                          ELSE pc'[u] = pc[u]
    BY <1>10, Zenon DEF DoneBroadcast
  <2>3. QED
    BY <1>1, <1>2, <1>3, <1>10, <2>1, <2>2, Zenon DEF WaitInv, DoneBroadcast, waiters
<1>11. ASSUME NEW b \in Buf, Done(b)
       PROVE  WaitInv'
  BY <1>2, <1>3, <1>11, Zenon DEF Done, Holds, WaitInv, waiters
<1>12. ASSUME NEW t \in Thread, ThreadStep(t)
       PROVE  WaitInv'
  BY <1>4, <1>6, <1>7, <1>8, <1>9, <1>12, Zenon
  DEF ThreadStep, Getblk, GetCached, GetNewBuffer, ReadBIO, WaitDone, ReadReturns,
      ReadFails, Write, WriteReturns, Unbusy
<1>13. QED
  BY <1>5, <1>10, <1>11, <1>12, Zenon DEF Next, DeviceStep

\* A step of a thread leaves the others alone, except that it may wake them up.
LEMMA OthersStay ==
  ASSUME BioInv, NEW t \in Thread, ThreadStep(t) \/ \E k \in Block : bread(t, k),
         NEW u \in Thread, u # t
  PROVE  /\ own'[u] = own[u]
         /\ pc'[u] = pc[u] \/ (pc[u] \in {"busywait", "needwait"} /\ pc'[u] = "getblk")
<1>1. pc \in [Thread -> PCs] /\ own \in [Thread -> Buf \cup {None}]
  BY Zenon DEF BioInv, BioTypeOK
<1>2. own'[u] = own[u]
  BY <1>1, Zenon DEF ThreadStep, Getblk, bread, GetCached, WaitBusy, GetNewBuffer, WaitBuffer,
     ReadBIO, WaitDone, ReadReturns, ReadFails, Write, WriteReturns, Release, Unbusy,
     BroadcastBusy
<1>3. CASE Release(t)
  <2>1. CASE needed = <<>>
    BY <1>1, <1>2, <1>3, <2>1, Zenon DEF Release, Goto
  <2>2. CASE needed # <<>>
    <3>1. needed \in Seq(Thread) /\ \A h \in Members(needed) : pc[h] = "needwait"
      BY Zenon DEF BioInv, BioTypeOK, WaitInv
    <3>2. Head(needed) \in Members(needed) /\ Head(needed) \in Thread
      BY <2>2, <3>1 DEF Members
    <3>3. pc' = [pc EXCEPT ![t] = "unbusy", ![Head(needed)] = "getblk"]
      BY <1>3, <2>2, Zenon DEF Release
    <3>4. QED
      BY <1>1, <1>2, <3>1, <3>2, <3>3, Zenon
  <2>3. QED
    BY <2>1, <2>2, Zenon
<1>4. CASE BroadcastBusy(t)
  <2>1. own[t] \in Buf
    BY <1>4, Zenon DEF BroadcastBusy, BioInv, OwnInv, HasItsBuffer
  <2>2. \A v \in cv_busy[own[t]] : pc[v] = "busywait"
    BY <2>1, Zenon DEF BioInv, WaitInv
  <2>3. pc'[u] = pc[u] \/ (u \in cv_busy[own[t]] /\ pc'[u] = "getblk")
    BY <1>4, Zenon DEF BroadcastBusy
  <2>4. QED
    BY <1>2, <2>2, <2>3, Zenon
<1>5. CASE \E where : Goto(t, where)
  BY <1>1, <1>2, <1>5, Zenon DEF Goto
<1>6. QED
  BY <1>3, <1>4, <1>5, Zenon
  DEF ThreadStep, Getblk, bread, GetCached, WaitBusy, GetNewBuffer, WaitBuffer, ReadBIO,
      WaitDone, ReadReturns, ReadFails, Write, WriteReturns, Unbusy

\* A thread that waits on b_cv_busy in getblk is not forgotten by Release.
LEMMA BusyWaitersPreserved ==
  ASSUME BioInv, Next
  PROVE  NoBusyWaiterForgotten'
<1>1. /\ cv_busy \in [Buf -> SUBSET Thread] /\ pc \in [Thread -> PCs]
      /\ own \in [Thread -> Buf \cup {None}]
      /\ \A b \in Buf : cv_busy[b] # {} =>
           b \in busy \/ \E u \in Thread : own[u] = b /\ pc[u] = "broadcast"
  BY Zenon DEF BioInv, BioTypeOK, NoBusyWaiterForgotten
<1>2. ASSUME NEW t \in Thread, ThreadStep(t) \/ \E k \in Block : bread(t, k), NEW b \in Buf,
             NEW u \in Thread, own[u] = b, pc[u] = "broadcast", u # t
      PROVE  own'[u] = b /\ pc'[u] = "broadcast"
  BY <1>2, OthersStay, Zenon
<1>3. ASSUME NEW t \in Thread, WaitBusy(t)
      PROVE  NoBusyWaiterForgotten'
  <2>1. PICK c \in busy : cv_busy' = [cv_busy EXCEPT ![c] = cv_busy[c] \cup {t}]
    BY <1>3, Zenon DEF WaitBusy
  <2>2. busy' = busy /\ pc[t] = "getblk"
    BY <1>3, Zenon DEF WaitBusy, cflags
  <2>3. \A b \in Buf : b # c => cv_busy'[b] = cv_busy[b]
    BY <1>1, <2>1, Zenon
  <2>4. QED
    <3>1. ASSUME NEW b \in Buf, cv_busy'[b] # {}, b # c
          PROVE  b \in busy' \/ \E u \in Thread : own'[u] = b /\ pc'[u] = "broadcast"
      <4>1. CASE \E u \in Thread : own[u] = b /\ pc[u] = "broadcast"
        BY <1>2, <1>3, <2>2, <4>1, Zenon DEF ThreadStep, Getblk
      <4>2. QED
        BY <1>1, <2>2, <2>3, <3>1, <4>1, Zenon
    <3>2. QED
      BY <2>2, <3>1, Zenon DEF NoBusyWaiterForgotten
<1>4. ASSUME NEW t \in Thread, Unbusy(t)
      PROVE  NoBusyWaiterForgotten'
  <2>1. cv_busy' = cv_busy /\ busy' = busy \ {own[t]} /\ own' = own
    BY <1>4, Zenon DEF Unbusy, waiters
  <2>2. pc[t] = "unbusy" /\ pc'[t] = "broadcast"
    BY <1>1, <1>4, Zenon DEF Unbusy, Goto
  <2>3. QED
    <3>1. ASSUME NEW b \in Buf, cv_busy'[b] # {}, b # own[t]
          PROVE  b \in busy' \/ \E u \in Thread : own'[u] = b /\ pc'[u] = "broadcast"
      <4>1. CASE b \in busy
        BY <2>1, <3>1, <4>1, Zenon
      <4>2. CASE \E u \in Thread : own[u] = b /\ pc[u] = "broadcast"
        BY <1>2, <1>4, <3>1, <4>2 DEF ThreadStep
      <4>3. QED
        BY <1>1, <2>1, <3>1, <4>1, <4>2, Zenon
    <3>2. QED
      BY <2>1, <2>2, <3>1, Zenon DEF NoBusyWaiterForgotten
<1>5. ASSUME NEW t \in Thread, BroadcastBusy(t)
      PROVE  NoBusyWaiterForgotten'
  <2>1. busy' = busy /\ cv_busy' = [cv_busy EXCEPT ![own[t]] = {}]
    BY <1>5, Zenon DEF BroadcastBusy, cflags
  <2>2. ThreadStep(t)
    BY <1>5, Zenon DEF ThreadStep
  <2>3. SUFFICES ASSUME NEW b \in Buf, cv_busy'[b] # {}
                 PROVE  b \in busy' \/ \E u \in Thread : own'[u] = b /\ pc'[u] = "broadcast"
    BY Zenon DEF NoBusyWaiterForgotten
  <2>4. b # own[t] /\ cv_busy[b] # {}
    BY <1>1, <2>1, <2>3, Zenon
  <2>5. CASE \E u \in Thread : own[u] = b /\ pc[u] = "broadcast"
    BY <1>2, <2>2, <2>4, <2>5
  <2>6. QED
    BY <1>1, <2>1, <2>4, <2>5, Zenon
<1>6. ASSUME NEW t \in Thread, ThreadStep(t) \/ \E k \in Block : bread(t, k),
             pc[t] # "broadcast", busy \subseteq busy', cv_busy' = cv_busy
      PROVE  NoBusyWaiterForgotten'
  BY <1>1, <1>2, <1>6 DEF NoBusyWaiterForgotten
<1>7. ASSUME NEW t \in Thread, ThreadStep(t)
      PROVE  NoBusyWaiterForgotten'
  BY <1>3, <1>4, <1>5, <1>6, <1>7, Zenon
  DEF ThreadStep, Getblk, GetCached, GetNewBuffer, WaitBuffer, ReadBIO, WaitDone,
      ReadReturns, ReadFails, Write, WriteReturns, Release, cflags, waiters
<1>8. ASSUME NEW t \in Thread, NEW k \in Block, bread(t, k)
      PROVE  NoBusyWaiterForgotten'
  BY <1>6, <1>8, Zenon DEF bread, cflags, waiters
<1>9. ASSUME NEW b \in Buf, DeviceStep(b)
      PROVE  NoBusyWaiterForgotten'
  <2>1. busy' = busy /\ cv_busy' = cv_busy /\ own' = own
    BY <1>9, Zenon DEF DeviceStep, Done, DoneBroadcast, cflags, waiters
  <2>2. \A u \in Thread : pc[u] = "broadcast" => pc'[u] = "broadcast"
    BY <1>9, Zenon DEF DeviceStep, Done, DoneBroadcast
  <2>3. QED
    BY <1>1, <2>1, <2>2, Zenon DEF NoBusyWaiterForgotten
<1>10. QED
  BY <1>7, <1>8, <1>9, Zenon DEF Next

-----------------------------------------------------------------------------
\* The owners of the buffers

\* No step takes a buffer away from the thread that getblk gave it to.
LEMMA OwnersPreserved ==
  ASSUME BioInv, Next
  PROVE  OwnInv' /\ OneOwner'
<1>1. BioTypeOK /\ None \notin Buf /\ None \notin Block
  BY BioAssumption, Zenon DEF BioInv
<1>2. OwnInv /\ OneOwner /\ Holds(bio_freelist, Buf \ busy)
  BY HoldsMembers, Zenon DEF BioInv, BioTypeOK, FreeUnlessBusy
\* Of a thread that does not step, only the place it waits at may change.
<1>3. ASSUME NEW t \in Thread, ThreadStep(t) \/ \E k \in Block : bread(t, k),
             NEW x, \A u \in Thread : u # t => ~Owns(u, x),
             \A b \in Buf : b # x => /\ b \in busy => b \in busy'
                                     /\ b \in invalid' => b \in invalid
                                     /\ b_block'[b] = b_block[b]
                                     /\ b \in done => b \in done'
                                     /\ b \in failed' => b \in failed,
             HasItsBuffer(t)',
             \A b \in Buf : Owns(t, b)' => Owns(t, b) \/ b \notin busy
      PROVE  OwnInv' /\ OneOwner'
  <2>1. ASSUME NEW u \in Thread, u # t
        PROVE  HasItsBuffer(u)'
    <3>1. HasItsBuffer(u)
      BY <1>2, Zenon DEF OwnInv
    <3>2. /\ own'[u] = own[u]
          /\ pc'[u] = pc[u] \/ (pc[u] \in {"busywait", "needwait"} /\ pc'[u] = "getblk")
      BY <1>3, <2>1, OthersStay, Zenon
    <3>3. pc[u] \in OwnerPCs => own[u] \in Buf /\ own[u] # x
      BY <1>3, <2>1, <3>1, Zenon DEF HasItsBuffer, Owns
    <3>4. CASE pc[u] \in OwnerPCs
      <4>1. pc'[u] = pc[u]
        BY <3>2, <3>4, Zenon DEF OwnerPCs
      <4>2. /\ own[u] \in busy => own[u] \in busy'
            /\ own[u] \in invalid' => own[u] \in invalid
            /\ b_block'[own[u]] = b_block[own[u]]
            /\ own[u] \in done => own[u] \in done'
            /\ own[u] \in failed' => own[u] \in failed
        BY <1>3, <3>3, <3>4, Zenon
      <4>3. QED
        BY <3>1, <3>2, <3>4, <4>1, <4>2, Zenon DEF HasItsBuffer
    <3>5. CASE pc[u] \notin OwnerPCs
      BY <3>1, <3>2, <3>5, Zenon DEF HasItsBuffer, OwnerPCs
    <3>6. QED
      BY <3>4, <3>5, Zenon
  <2>2. OwnInv'
    BY <1>3, <2>1, Zenon DEF OwnInv
  <2>3. ASSUME NEW u \in Thread, u # t, NEW b \in Buf, Owns(u, b)'
        PROVE  Owns(u, b)
    BY <2>3, <1>3, OthersStay, Zenon DEF Owns, OwnerPCs
  <2>4. ASSUME NEW u \in Thread, NEW w \in Thread, NEW b \in Buf, Owns(u, b)', Owns(w, b)'
        PROVE  u = w
    <3>1. \A y \in Thread : Owns(y, b)' => Owns(y, b) \/ (y = t /\ b \notin busy)
      BY <1>3, <2>3, Zenon
    <3>2. \A y, z \in Thread : /\ Owns(y, b) => b \in busy
                               /\ Owns(y, b) /\ Owns(z, b) => y = z
      BY <1>2, Zenon DEF OneOwner
    <3>3. QED
      BY <2>4, <3>1, <3>2, Zenon
  <2>5. \A u \in Thread, b \in Buf : Owns(u, b)' => b \in busy'
    BY <2>2, Zenon DEF OwnInv, HasItsBuffer, Owns
  <2>6. QED
    BY <2>2, <2>4, <2>5, Zenon DEF OneOwner
\* The buffer a thread has got is nobody else's; nor is one that is free.
<1>4. ASSUME NEW t \in Thread, pc[t] \in OwnerPCs
      PROVE  own[t] \in busy /\ own[t] \in Buf /\ \A u \in Thread : u # t => ~Owns(u, own[t])
  BY <1>2, <1>4, Zenon DEF OwnInv, HasItsBuffer, OneOwner, Owns
<1>5. ASSUME NEW b \in Buf \ busy
      PROVE  \A u \in Thread : ~Owns(u, b)
  BY <1>2, <1>5, Zenon DEF OneOwner
<1>6. ASSUME NEW t \in Thread, GetCached(t)
      PROVE  OwnInv' /\ OneOwner'
  <2>1. PICK b \in Buf \ (busy \cup invalid) :
               /\ b_block[b] = want[t] /\ busy' = busy \cup {b}
               /\ own' = [own EXCEPT ![t] = b]
    BY <1>6, Zenon DEF GetCached, Incore
  <2>2. pc[t] = "getblk" /\ pc'[t] = "bread" /\ own'[t] = b
    BY <1>1, <1>6, <2>1, Zenon DEF GetCached, Goto, BioTypeOK
  <2>3. want[t] \in Block
    BY <2>2, Zenon DEF BioInv, WaitInv
  <2>4. b_block' = b_block /\ invalid' = invalid /\ done' = done /\ failed' = failed
    BY <1>6, Zenon DEF GetCached, oflags
  <2>5. HasItsBuffer(t)'
    BY <2>1, <2>2, <2>3, <2>4 DEF HasItsBuffer, OwnerPCs
  <2>6. QED
    BY <1>3, <1>5, <1>6, <2>1, <2>2, <2>4, <2>5, Zenon DEF ThreadStep, Getblk, Owns
<1>7. ASSUME NEW t \in Thread, GetNewBuffer(t)
      PROVE  OwnInv' /\ OneOwner'
  <2> DEFINE b == Head(bio_freelist)
  <2>1. b \in Buf \ busy
    BY <1>2, <1>7, TailHolds, Zenon DEF GetNewBuffer
  <2>2. /\ pc[t] = "getblk" /\ pc'[t] = "bread" /\ own'[t] = b
        /\ busy' = busy \cup {b} /\ invalid' = invalid \ {b}
        /\ done' = done \ {b} /\ failed' = failed \ {b}
        /\ b_block' = [b_block EXCEPT ![b] = want[t]]
    BY <1>1, <1>7, Zenon DEF GetNewBuffer, Goto, BioTypeOK
  <2>3. want[t] \in Block
    BY <2>2, Zenon DEF BioInv, WaitInv
  <2> HIDE DEF b
  <2>4. HasItsBuffer(t)'
    BY <1>1, <2>1, <2>2, <2>3, Zenon DEF HasItsBuffer, OwnerPCs, BioTypeOK
  <2>5. \A c \in Buf : c # b => b_block'[c] = b_block[c]
    BY <1>1, <2>2, Zenon DEF BioTypeOK
  <2>6. QED
    BY <1>3, <1>5, <1>7, <2>1, <2>2, <2>4, <2>5, Zenon DEF ThreadStep, Getblk, Owns
\* A thread that keeps its buffer, or has none, and changes no flags
<1>8. ASSUME NEW t \in Thread,
             \/ WaitBusy(t) \/ WaitBuffer(t) \/ \E k \in Block : bread(t, k)
             \/ ReadBIO(t) \/ WaitDone(t) \/ ReadReturns(t) \/ WriteReturns(t)
      PROVE  OwnInv' /\ OneOwner'
  <2>1. /\ busy' = busy /\ invalid' = invalid /\ b_block' = b_block
        /\ done' = done /\ failed' = failed /\ own' = own
    BY <1>8, Zenon
    DEF bread, WaitBusy, WaitBuffer, ReadBIO, WaitDone, ReadReturns, WriteReturns,
       cflags, oflags
  <2>2. HasItsBuffer(t)
    BY <1>2, Zenon DEF OwnInv
  <2>3. HasItsBuffer(t)' /\ \A b \in Buf : Owns(t, b)' => Owns(t, b)
    <3>1. CASE WaitBusy(t) \/ WaitBuffer(t) \/ \E k \in Block : bread(t, k)
      <4>1. /\ pc[t] \in {"out", "getblk"}
            /\ pc'[t] \in {"getblk", "busywait", "needwait"}
        BY <1>1, <3>1, Zenon DEF bread, WaitBusy, WaitBuffer, Goto, BioTypeOK
      <4>2. QED
        BY <2>1, <2>2, <4>1, Zenon DEF HasItsBuffer, OwnerPCs, Owns
    <3>2. CASE ReadBIO(t) \/ WaitDone(t)
      <4>1. /\ pc[t] \in {"bread", "read", "write"}
            /\ pc'[t] \in {"read", "readsleep", "writesleep"}
        BY <1>1, <3>2, Zenon DEF ReadBIO, WaitDone, Goto, BioTypeOK
      <4>2. QED
        BY <2>1, <2>2, <4>1, Zenon DEF HasItsBuffer, OwnerPCs, Owns
    <3>3. CASE ReadReturns(t)
      <4>1. pc[t] = "read" /\ pc'[t] = "have" /\ own[t] \in done \ failed
        BY <1>1, <3>3, Zenon DEF ReadReturns, Goto, BioTypeOK
      <4>2. QED
        BY <2>1, <2>2, <4>1, Zenon DEF HasItsBuffer, OwnerPCs, Owns
    <3>4. CASE WriteReturns(t)
      <4>1. pc[t] = "write" /\ pc'[t] = "release" /\ own[t] \in done
        BY <1>1, <3>4, Zenon DEF WriteReturns, Goto, BioTypeOK
      <4>2. QED
        BY <2>1, <2>2, <4>1, Zenon DEF HasItsBuffer, OwnerPCs, Owns
    <3>5. QED
      BY <1>8, <3>1, <3>2, <3>3, <3>4, Zenon
  <2>4. \A u \in Thread : ~Owns(u, None)
    BY <1>1, <1>2, Zenon DEF Owns, OwnInv, HasItsBuffer
  <2>5. QED
    BY <1>3, <1>8, <2>1, <2>3, <2>4, Zenon DEF ThreadStep, Getblk
<1>9. ASSUME NEW t \in Thread, ReadFails(t)
      PROVE  OwnInv' /\ OneOwner'
  <2>1. /\ busy' = busy /\ invalid' = invalid /\ b_block' = b_block
        /\ done' = done /\ failed' = failed
    BY <1>9, Zenon DEF ReadFails, cflags, oflags
  <2>2. pc[t] = "read" /\ pc'[t] = "out" /\ own'[t] = None
    BY <1>1, <1>9, Zenon DEF ReadFails, Goto, BioTypeOK
  <2>3. HasItsBuffer(t)' /\ \A b \in Buf : ~Owns(t, b)'
    BY <1>1, <2>2, Zenon DEF HasItsBuffer, OwnerPCs, Owns
  <2>4. pc[t] \in OwnerPCs
    BY <2>2, Zenon DEF OwnerPCs
  <2>5. QED
    BY <1>3, <1>4, <1>9, <2>1, <2>3, <2>4, Zenon DEF ThreadStep
<1>10. ASSUME NEW t \in Thread, NEW v \in Value, Write(t, v)
       PROVE  OwnInv' /\ OneOwner'
  <2>1. /\ busy' = busy /\ invalid' = invalid /\ b_block' = b_block /\ own' = own
        /\ done' = done \ {own[t]} /\ failed' = failed \ {own[t]}
    BY <1>10, Zenon DEF Write, cflags
  <2>2. pc[t] = "have" /\ pc'[t] = "write"
    BY <1>1, <1>10, Zenon DEF Write, Goto, BioTypeOK
  <2>3. HasItsBuffer(t)
    BY <1>2, Zenon DEF OwnInv
  <2>4. HasItsBuffer(t)' /\ \A b \in Buf : Owns(t, b)' => Owns(t, b)
    BY <2>1, <2>2, <2>3, Zenon DEF HasItsBuffer, OwnerPCs, Owns
  <2>5. pc[t] \in OwnerPCs
    BY <2>2, Zenon DEF OwnerPCs
  <2>6. QED
    BY <1>3, <1>4, <1>10, <2>1, <2>4, <2>5, Zenon DEF ThreadStep
<1>11. ASSUME NEW t \in Thread, Release(t)
       PROVE  OwnInv' /\ OneOwner'
  <2>1. /\ busy' = busy /\ invalid' = invalid /\ b_block' = b_block
        /\ done' = done /\ failed' = failed /\ own' = own
    BY <1>11, Zenon DEF Release, cflags, oflags
  <2>2. pc[t] \in {"have", "release"} /\ pc'[t] = "unbusy"
    <3>1. CASE needed = <<>>
      BY <1>1, <1>11, <3>1, Zenon DEF Release, Goto, BioTypeOK
    <3>2. CASE needed # <<>>
      <4>1. Head(needed) \in Members(needed)
        BY <1>1, <3>2 DEF BioTypeOK, Members
      <4>2. pc[t] \in {"have", "release"} /\ Head(needed) # t
        BY <1>11, <4>1, Zenon DEF Release, BioInv, WaitInv
      <4>3. QED
        BY <1>1, <1>11, <3>2, <4>2, Zenon DEF Release, BioTypeOK
    <3>3. QED
      BY <3>1, <3>2, Zenon
  <2>3. HasItsBuffer(t)
    BY <1>2, Zenon DEF OwnInv
  <2>4. HasItsBuffer(t)' /\ \A b \in Buf : Owns(t, b)' => Owns(t, b)
    BY <2>1, <2>2, <2>3, Zenon DEF HasItsBuffer, OwnerPCs, Owns
  <2>5. pc[t] \in OwnerPCs
    BY <2>2, Zenon DEF OwnerPCs
  <2>6. QED
    BY <1>3, <1>4, <1>11, <2>1, <2>4, <2>5, Zenon DEF ThreadStep
<1>12. ASSUME NEW t \in Thread, Unbusy(t)
       PROVE  OwnInv' /\ OneOwner'
  <2>1. /\ b_block' = b_block /\ own' = own /\ done' = done /\ failed' = failed
        /\ busy' = busy \ {own[t]} /\ \A b \in invalid' : b \in invalid \/ b = own[t]
    BY <1>12, Zenon DEF Unbusy, oflags
  <2>2. pc[t] = "unbusy" /\ pc'[t] = "broadcast"
    BY <1>1, <1>12, Zenon DEF Unbusy, Goto, BioTypeOK
  <2>3. HasItsBuffer(t)
    BY <1>2, Zenon DEF OwnInv
  <2>4. HasItsBuffer(t)' /\ \A b \in Buf : ~Owns(t, b)'
    BY <2>1, <2>2, <2>3, Zenon DEF HasItsBuffer, OwnerPCs, Owns
  <2>5. pc[t] \in OwnerPCs
    BY <2>2, Zenon DEF OwnerPCs
  <2>6. QED
    BY <1>3, <1>4, <1>12, <2>1, <2>4, <2>5, Zenon DEF ThreadStep
<1>13. ASSUME NEW t \in Thread, BroadcastBusy(t)
       PROVE  OwnInv' /\ OneOwner'
  <2>1. /\ busy' = busy /\ invalid' = invalid /\ b_block' = b_block
        /\ done' = done /\ failed' = failed
    BY <1>13, Zenon DEF BroadcastBusy, cflags, oflags
  <2>2. pc'[t] = "out" /\ own'[t] = None
    BY <1>1, <1>13, Zenon DEF BroadcastBusy, BioTypeOK
  <2>3. HasItsBuffer(t)' /\ \A b \in Buf : ~Owns(t, b)'
    BY <1>1, <2>2, Zenon DEF HasItsBuffer, OwnerPCs, Owns
  <2>4. \A u \in Thread : ~Owns(u, None)
    BY <1>1, <1>2, Zenon DEF Owns, OwnInv, HasItsBuffer
  <2>5. QED
    BY <1>3, <1>13, <2>1, <2>3, <2>4, Zenon DEF ThreadStep
<1>14. ASSUME NEW b \in Buf, Done(b)
       PROVE  OwnInv' /\ OneOwner'
  <2>1. /\ busy' = busy /\ invalid' = invalid /\ b_block' = b_block /\ own' = own
        /\ pc' = pc /\ done' = done \cup {b} /\ failed' \subseteq failed \cup {b}
    BY <1>14, Zenon DEF Done, cflags
  <2>2. b \notin done
    BY <1>14, Zenon DEF Done, BioInv, TransferInv
  <2>3. QED
    BY <1>2, <2>1, <2>2, Zenon DEF OwnInv, HasItsBuffer, OneOwner, Owns
<1>15. ASSUME NEW b \in Buf, DoneBroadcast(b)
       PROVE  OwnInv' /\ OneOwner'
  <2>1. /\ busy' = busy /\ invalid' = invalid /\ b_block' = b_block /\ own' = own
        /\ done' = done /\ failed' = failed
    BY <1>15, Zenon DEF DoneBroadcast, cflags, oflags
  <2>2. \A u \in Thread : IF pc[u] \in {"readsleep", "writesleep"}
                          THEN pc'[u] \in {"read", "readsleep", "write", "writesleep"}
                          ELSE pc'[u] = pc[u]
    BY <1>15, Zenon DEF DoneBroadcast
  <2>3. OwnInv'
    BY <1>2, <2>1, <2>2, Zenon DEF OwnInv, HasItsBuffer, OwnerPCs
  <2>4. OneOwner'
    BY <1>2, <2>1, <2>2, Zenon DEF OneOwner, Owns, OwnerPCs
  <2>5. QED
    BY <2>3, <2>4, Zenon
<1>16. QED
  BY <1>6, <1>7, <1>8, <1>9, <1>10, <1>11, <1>12, <1>13, <1>14, <1>15, Zenon
  DEF Next, ThreadStep, Getblk, DeviceStep

-----------------------------------------------------------------------------
\* The blocks, the transfers and the contents of the buffers

\* getblk uses a buffer for a block only when incore finds none.
LEMMA BlocksPreserved ==
  ASSUME BioInv, Next
  PROVE  UniqueBlock'
<1>1. BioTypeOK /\ UniqueBlock /\ Holds(bio_freelist, Buf \ busy)
  BY HoldsMembers, Zenon DEF BioInv, BioTypeOK, FreeUnlessBusy
<1>2. ASSUME b_block' = b_block, invalid \subseteq invalid'
      PROVE  UniqueBlock'
  BY <1>1, <1>2, Zenon DEF UniqueBlock
<1>3. ASSUME NEW t \in Thread, GetNewBuffer(t)
      PROVE  UniqueBlock'
  <2> DEFINE h == Head(bio_freelist)
  <2>1. h \in Buf
    BY <1>1, <1>3, TailHolds, Zenon DEF GetNewBuffer
  <2>2. /\ invalid' = invalid \ {h}
        /\ b_block' = [b_block EXCEPT ![h] = want[t]]
        /\ \A c \in Buf \ invalid : b_block[c] # want[t]
    BY <1>3, Zenon DEF GetNewBuffer, Incore
  <2> HIDE DEF h
  <2>3. b_block'[h] = want[t] /\ \A c \in Buf : c # h => b_block'[c] = b_block[c]
    BY <1>1, <2>1, <2>2, Zenon DEF BioTypeOK
  <2>4. QED
    BY <1>1, <2>1, <2>2, <2>3 DEF UniqueBlock
<1>4. ASSUME NEW t \in Thread, ThreadStep(t), ~GetNewBuffer(t)
      PROVE  b_block' = b_block /\ invalid \subseteq invalid'
  BY <1>4, Zenon
  DEF ThreadStep, Getblk, GetCached, WaitBusy, WaitBuffer, ReadBIO, WaitDone, ReadReturns,
     ReadFails, Write, WriteReturns, Release, Unbusy, BroadcastBusy, cflags
<1>5. ASSUME NEW t \in Thread, NEW k \in Block, bread(t, k)
      PROVE  b_block' = b_block /\ invalid \subseteq invalid'
  BY <1>5, Zenon DEF bread, cflags
<1>6. ASSUME NEW b \in Buf, DeviceStep(b)
      PROVE  b_block' = b_block /\ invalid \subseteq invalid'
  BY <1>6, Zenon DEF DeviceStep, Done, DoneBroadcast, cflags
<1>7. QED
  BY <1>2, <1>3, <1>4, <1>5, <1>6, Zenon DEF Next

\* The thread that started a transfer waits for it until BIO::Done.
LEMMA TransfersPreserved ==
  ASSUME BioInv, Next
  PROVE  TransferInv'
<1> DEFINE Waits == {"read", "readsleep", "write", "writesleep"}
<1>1. BioTypeOK /\ TransferInv /\ OwnInv
  BY Zenon DEF BioInv
\* A thread that does not step goes on waiting for its transfer.
<1>2. ASSUME NEW t \in Thread, ThreadStep(t) \/ \E k \in Block : bread(t, k),
             NEW u \in Thread, u # t, NEW b \in Buf, Owns(u, b), pc[u] \in Waits
      PROVE  Owns(u, b)' /\ pc'[u] \in Waits
  BY <1>2, OthersStay, Zenon DEF Owns
<1>3. ASSUME NEW t \in Thread, ThreadStep(t) \/ \E k \in Block : bread(t, k),
             io' = io, done' \subseteq done,
             \A b \in Buf : (Owns(t, b) /\ pc[t] \in Waits /\ b \notin done)
                            => (Owns(t, b)' /\ pc'[t] \in Waits)
      PROVE  TransferInv'
  BY <1>1, <1>2, <1>3, Zenon DEF TransferInv
<1>4. ASSUME NEW t \in Thread, pc[t] \notin Waits,
             ThreadStep(t) \/ \E k \in Block : bread(t, k),
             \A c \in Buf : c # own[t] => io'[c] = io[c], done' \subseteq done,
             own[t] \in Buf => \/ io'[own[t]] = io[own[t]]
                               \/ own[t] \notin done' /\ own'[t] = own[t] /\ pc'[t] \in Waits
      PROVE  TransferInv'
  <2>1. ASSUME NEW b \in Buf, io[b] # "none"
        PROVE  b \notin done /\ \E u \in Thread : Owns(u, b)' /\ pc'[u] \in Waits
    <3>1. PICK u \in Thread : Owns(u, b) /\ pc[u] \in Waits
      BY <1>1, <2>1, Zenon DEF TransferInv
    <3>2. QED
      BY <1>1, <1>2, <1>4, <2>1, <3>1, Zenon DEF TransferInv
  <2>2. ASSUME NEW b \in Buf, io'[b] # "none", io'[b] # io[b]
        PROVE  b \notin done' /\ Owns(t, b)' /\ pc'[t] \in Waits
    <3>1. b = own[t]
      BY <1>4, <2>2, Zenon
    <3>2. QED
      BY <1>4, <2>2, <3>1, Zenon DEF Owns, OwnerPCs
  <2>3. QED
    BY <1>4, <2>1, <2>2, Zenon DEF TransferInv
<1>5. ASSUME NEW t \in Thread, ReadBIO(t)
      PROVE  TransferInv'
  <2>1. /\ pc[t] = "bread" /\ pc'[t] = "read" /\ own' = own /\ done' = done
        /\ io' = IF own[t] \in done THEN io ELSE [io EXCEPT ![own[t]] = "read"]
    BY <1>1, <1>5, Zenon DEF ReadBIO, Goto, BioTypeOK, oflags
  <2>2. \A c \in Buf : c # own[t] => io'[c] = io[c]
    BY <1>1, <2>1, Zenon DEF BioTypeOK
  <2>3. own'[t] = own[t] /\ pc'[t] \in Waits /\ pc[t] \notin Waits
    BY <2>1, Zenon
  <2>4. own[t] \in done \/ own[t] \notin done'
    BY <2>1, Zenon
  <2>5. own[t] \in done => io'[own[t]] = io[own[t]]
    BY <2>1, Zenon
  <2>6. QED
    BY <1>4, <1>5, <2>1, <2>2, <2>3, <2>4, <2>5, Zenon DEF ThreadStep
<1>6. ASSUME NEW t \in Thread, NEW v \in Value, Write(t, v)
      PROVE  TransferInv'
  <2>1. /\ pc[t] = "have" /\ pc'[t] = "write" /\ own' = own /\ done' = done \ {own[t]}
        /\ io' = [io EXCEPT ![own[t]] = "write"]
    BY <1>1, <1>6, Zenon DEF Write, Goto, BioTypeOK
  <2>2. \A c \in Buf : c # own[t] => io'[c] = io[c]
    BY <1>1, <2>1, Zenon DEF BioTypeOK
  <2>3. own'[t] = own[t] /\ pc'[t] \in Waits /\ pc[t] \notin Waits
    BY <2>1, Zenon
  <2>4. own[t] \notin done' /\ done' \subseteq done
    BY <2>1, Zenon
  <2>5. QED
    BY <1>4, <1>6, <2>2, <2>3, <2>4, Zenon DEF ThreadStep
<1>7. ASSUME NEW t \in Thread, WaitDone(t)
      PROVE  TransferInv'
  <2>1. /\ pc'[t] \in Waits /\ own' = own /\ io' = io /\ done' = done
    BY <1>1, <1>7, Zenon DEF WaitDone, Goto, BioTypeOK, oflags, device
  <2>2. \A b \in Buf : Owns(t, b) => Owns(t, b)'
    BY <2>1, Zenon DEF Owns, OwnerPCs
  <2>3. QED
    BY <1>3, <1>7, <2>1, <2>2, Zenon DEF ThreadStep
<1>8. ASSUME NEW t \in Thread, ReadReturns(t) \/ ReadFails(t) \/ WriteReturns(t)
      PROVE  TransferInv'
  <2>1. own[t] \in done /\ io' = io /\ done' = done
    BY <1>8, Zenon DEF ReadReturns, ReadFails, WriteReturns, oflags, device
  <2>2. QED
    BY <1>3, <1>8, <2>1, Zenon DEF ThreadStep, Owns
<1>9. ASSUME NEW t \in Thread,
             \/ Getblk(t) \/ Release(t) \/ Unbusy(t) \/ BroadcastBusy(t)
             \/ \E k \in Block : bread(t, k)
      PROVE  TransferInv'
  <2>1. pc[t] \notin Waits /\ io' = io /\ done' \subseteq done
    BY <1>9, Zenon DEF Getblk, GetCached, WaitBusy, GetNewBuffer, WaitBuffer, Release, Unbusy,
       BroadcastBusy, bread, oflags, device
  <2>2. QED
    BY <1>3, <1>9, <2>1, Zenon DEF ThreadStep
<1>10. ASSUME NEW b \in Buf, Done(b)
       PROVE  TransferInv'
  <2>1. /\ io' = [io EXCEPT ![b] = "none"] /\ done' = done \cup {b}
        /\ pc' = pc /\ own' = own
    BY <1>10, Zenon DEF Done
  <2>2. QED
    BY <1>1, <2>1, Zenon DEF TransferInv, Owns, BioTypeOK
<1>11. ASSUME NEW b \in Buf, DoneBroadcast(b)
       PROVE  TransferInv'
  <2>1. /\ io' = io /\ done' = done /\ own' = own
        /\ \A u \in Thread : pc[u] \in Waits => pc'[u] \in Waits
    BY <1>11, Zenon DEF DoneBroadcast, oflags
  <2>2. \A u \in Thread, c \in Buf : (Owns(u, c) /\ pc[u] \in Waits) => Owns(u, c)'
    BY <2>1, Zenon DEF Owns, OwnerPCs
  <2>3. QED
    BY <1>1, <2>1, <2>2, Zenon DEF TransferInv
<1>12. QED
  BY <1>5, <1>6, <1>7, <1>8, <1>9, <1>10, <1>11, Zenon DEF Next, ThreadStep, DeviceStep

\* A transfer leaves the buffer and the block equal, or is marked failed.
LEMMA ContentsPreserved ==
  ASSUME BioInv, Next
  PROVE  ContentsInv'
<1>1. BioTypeOK /\ ContentsInv /\ OwnInv /\ UniqueBlock
  BY Zenon DEF BioInv
<1>2. ASSUME b_block' = b_block, busy \subseteq busy', invalid' = invalid, done' = done,
             failed' = failed, data' = data, disk' = disk
      PROVE  ContentsInv'
  BY <1>1, <1>2, Zenon DEF ContentsInv
<1>3. ASSUME NEW t \in Thread, pc[t] \in OwnerPCs
      PROVE  own[t] \in Buf /\ own[t] \in busy \ invalid
  BY <1>1, <1>3, Zenon DEF OwnInv, HasItsBuffer
<1>4. ASSUME NEW t \in Thread, GetNewBuffer(t)
      PROVE  ContentsInv'
  <2> DEFINE h == Head(bio_freelist)
  <2>1. /\ invalid' = invalid \ {h} /\ busy' = busy \cup {h}
        /\ done' = done \ {h} /\ failed' = failed \ {h}
        /\ b_block' = [b_block EXCEPT ![h] = want[t]] /\ data' = data /\ disk' = disk
    BY <1>4, Zenon DEF GetNewBuffer, device
  <2> HIDE DEF h
  <2>2. \A c \in Buf : c # h => b_block'[c] = b_block[c]
    BY <1>1, <2>1, Zenon DEF BioTypeOK
  <2>3. QED
    BY <1>1, <2>1, <2>2, Zenon DEF ContentsInv, BioTypeOK
<1>5. ASSUME NEW t \in Thread, NEW v \in Value, Write(t, v)
      PROVE  ContentsInv'
  <2>1. own[t] \in Buf /\ own[t] \in busy \ invalid
    BY <1>3, <1>5, Zenon DEF Write, OwnerPCs
  <2>2. /\ b_block' = b_block /\ busy' = busy /\ invalid' = invalid /\ disk' = disk
        /\ data' = [data EXCEPT ![own[t]] = v]
        /\ done' = done \ {own[t]} /\ failed' = failed \ {own[t]}
    BY <1>5, Zenon DEF Write, cflags
  <2>3. \A c \in Buf : c # own[t] => data'[c] = data[c]
    BY <1>1, <2>2, Zenon DEF BioTypeOK
  <2>4. QED
    BY <1>1, <2>1, <2>2, <2>3, Zenon DEF ContentsInv, BioTypeOK
<1>6. ASSUME NEW t \in Thread, Unbusy(t)
      PROVE  ContentsInv'
  <2>1. own[t] \in done
    BY <1>1, <1>6, Zenon DEF Unbusy, OwnInv, HasItsBuffer
  <2>2. /\ b_block' = b_block /\ busy' = busy \ {own[t]} /\ disk' = disk /\ data' = data
        /\ invalid' = invalid \cup ({own[t]} \cap failed) /\ done' = done /\ failed' = failed
    BY <1>6, Zenon DEF Unbusy, oflags, device
  <2>3. QED
    BY <1>1, <2>1, <2>2, Zenon DEF ContentsInv
<1>7. ASSUME NEW t \in Thread, ThreadStep(t), ~GetNewBuffer(t), ~Unbusy(t),
             \A v \in Value : ~Write(t, v)
      PROVE  ContentsInv'
  BY <1>2, <1>7, Zenon
  DEF ThreadStep, Getblk, GetCached, WaitBusy, WaitBuffer, ReadBIO, WaitDone,
     ReadReturns, ReadFails, WriteReturns, Release, BroadcastBusy, cflags, oflags, device
<1>8. ASSUME NEW t \in Thread, NEW k \in Block, bread(t, k)
      PROVE  ContentsInv'
  BY <1>2, <1>8, Zenon DEF bread, cflags, oflags, device
<1>9. ASSUME NEW b \in Buf, DoneBroadcast(b)
      PROVE  ContentsInv'
  BY <1>2, <1>9, Zenon DEF DoneBroadcast, cflags, oflags
\* A transfer changes the block of no other buffer with valid data.
<1>10. ASSUME NEW b \in Buf, Done(b)
       PROVE  ContentsInv'
  <2>1. /\ b_block' = b_block /\ busy' = busy /\ invalid' = invalid
        /\ done' = done \cup {b} /\ b \notin done
        /\ failed' = failed \ {b} \/ failed' = failed \cup {b}
    BY <1>10, Zenon DEF Done, cflags, BioInv, TransferInv
  <2>2. b \in busy \ invalid /\ b_block[b] \in Block
    <3>1. PICK t \in Thread : Owns(t, b)
      BY <1>10, Zenon DEF Done, BioInv, TransferInv
    <3>2. QED
      BY <1>1, <3>1, Zenon DEF Owns, OwnInv, HasItsBuffer
  <2>3. /\ invalid' \subseteq failed'
        /\ \A c \in Buf \ (busy' \cup invalid') : b_block'[c] # None => c \in done' \ failed'
    BY <1>1, <2>1, <2>2, Zenon DEF ContentsInv
  <2>4. b \notin failed' => data'[b] = disk'[b_block[b]]
    <3>1. CASE Transferred(b) /\ io[b] = "read"
      BY <1>1, <3>1 DEF Transferred, BioTypeOK
    <3>2. CASE Transferred(b) /\ io[b] # "read"
      BY <1>1, <2>2, <3>2, Zenon DEF Transferred, BioTypeOK
    <3>3. QED
      BY <1>10, <3>1, <3>2, Zenon DEF Done
  <2>5. ASSUME NEW c \in done \ failed, c # b, b_block[c] # None
        PROVE  data'[c] = data[c] /\ disk'[b_block[c]] = disk[b_block[c]]
    <3>1. c \in Buf \ invalid /\ b_block[c] \in Block
      BY <1>1, <2>5, Zenon DEF ContentsInv, BioTypeOK
    <3>2. b_block[c] # b_block[b]
      BY <1>1, <2>2, <2>5, <3>1, Zenon DEF UniqueBlock
    <3>3. CASE Transferred(b)
      BY <1>1, <2>5, <3>1, <3>2, <3>3, Zenon DEF Transferred, BioTypeOK
    <3>4. QED
      BY <1>10, <3>3, Zenon DEF Done
  <2>6. ASSUME NEW c \in done' \ failed', b_block'[c] # None
        PROVE  data'[c] = disk'[b_block'[c]]
    <3>1. CASE c = b
      BY <2>1, <2>4, <2>6, <3>1, Zenon
    <3>2. CASE c # b
      BY <1>1, <2>1, <2>5, <2>6, <3>2, Zenon DEF ContentsInv
    <3>3. QED
      BY <3>1, <3>2, Zenon
  <2>7. QED
    BY <2>3, <2>6, Zenon DEF ContentsInv
<1>11. QED
  BY <1>4, <1>5, <1>6, <1>7, <1>8, <1>9, <1>10, Zenon DEF Next, DeviceStep

-----------------------------------------------------------------------------
\* The theorems

\* The invariant of the buffer cache (kern/bio.cpp) holds at all times, for any
\* number of buffers, threads and blocks.
THEOREM BioInvariance == Spec => []BioInv
<1>1. Init => BioInv
  BY BioInitInv, Zenon
<1>2. BioInv /\ [Next]_vars => BioInv'
  <2>1. ASSUME BioInv, Next
        PROVE  BioInv'
    BY <2>1, FreelistPreserved, BioTypePreserved, WaitersPreserved, BusyWaitersPreserved,
       OwnersPreserved, BlocksPreserved, TransfersPreserved, ContentsPreserved, Zenon DEF BioInv
  <2>2. ASSUME BioInv, UNCHANGED vars
        PROVE  BioInv'
    <3>1. /\ bio_freelist' = bio_freelist /\ b_block' = b_block /\ busy' = busy
          /\ invalid' = invalid /\ done' = done /\ failed' = failed /\ data' = data
          /\ disk' = disk /\ io' = io /\ completing' = completing /\ needed' = needed
          /\ cv_busy' = cv_busy /\ pc' = pc /\ want' = want /\ own' = own
      BY <2>2, Zenon DEF vars, cflags, oflags, device, waiters
    <3>2. BioTypeOK' /\ FreeUnlessBusy' /\ OneOwner' /\ UniqueBlock'
      BY <2>2, <3>1, Zenon DEF BioInv, BioTypeOK, FreeUnlessBusy, OneOwner, Owns, UniqueBlock
    <3>3. NoBusyWaiterForgotten' /\ WaitInv' /\ ContentsInv'
      BY <2>2, <3>1, Zenon DEF BioInv, NoBusyWaiterForgotten, WaitInv, ContentsInv
    <3>4. OwnInv' /\ TransferInv'
      BY <2>2, <3>1, Zenon DEF BioInv, OwnInv, HasItsBuffer, TransferInv, Owns
    <3>5. QED
      BY <3>2, <3>3, <3>4, Zenon DEF BioInv
  <2>3. QED
    BY <2>1, <2>2, Zenon
<1>3. QED
  BY <1>1, <1>2, PTL DEF Spec

\* getblk never gives a buffer to a second thread before its owner has released
\* it.
THEOREM BuffersAreExclusive == Spec => []OneOwner
<1>1. BioInv => OneOwner
  BY Zenon DEF BioInv
<1>2. QED
  BY <1>1, BioInvariance, PTL

\* The freelist of bio.cpp holds exactly the buffers that are not busy, whether
\* they were taken from its front, from its middle or put back at either end.
THEOREM FreelistIsExact == Spec => []FreeUnlessBusy
<1>1. BioInv => FreeUnlessBusy
  BY Zenon DEF BioInv
<1>2. QED
  BY <1>1, BioInvariance, PTL

\* No block of the device is ever in two valid buffers, whichever threads of
\* getblk wait and start again.
THEOREM BlocksAreUnique == Spec => []UniqueBlock
<1>1. BioInv => UniqueBlock
  BY Zenon DEF BioInv
<1>2. QED
  BY <1>1, BioInvariance, PTL

\* What bread returns is what is on the device, whatever transfers failed and
\* whichever buffers were used for other blocks.
THEOREM CacheIsCoherent == Spec => []Coherent
<1>1. BioInv => Coherent
  BY Zenon DEF BioInv, Coherent, ContentsInv, OwnInv, HasItsBuffer, Owns
<1>2. QED
  BY <1>1, BioInvariance, PTL

\* Release forgets no thread that waits on b_cv_busy of its buffer.
THEOREM BusyWaitersAreWoken == Spec => []NoBusyWaiterForgotten
<1>1. BioInv => NoBusyWaiterForgotten
  BY Zenon DEF BioInv
<1>2. QED
  BY <1>1, BioInvariance, PTL
=============================================================================
