---------------------------- MODULE ICacheProofs ----------------------------
(***************************************************************************)
(* Proofs about the inode cache, for any threads, INodes and inodes: the   *)
(* references to an INode are counted exactly although PurgeEntries lets   *)
(* go of the lock of the cache, and an inode that is held stays.           *)
(***************************************************************************)
EXTENDS ICache, FiniteSetTheorems, TLAPS

\* Every variable of the cache keeps its type: the threads, ...
LEMMA TypesOfThreads ==
  ASSUME ICacheInv, NEW t \in Thread,
         \/ \E n \in Inum : GetInode(t, n)
         \/ LockCache(t) \/ FoundPending(t) \/ Found(t) \/ NotFound(t) \/ TakeFree(t)
  PROVE  ICacheTypeOK'
<1> USE DEF ICacheInv, ICacheTypeOK, Goto, PCs, lists, nodes, purge
<1>1. CASE \E n \in Inum : GetInode(t, n)
  BY <1>1 DEF GetInode
<1>2. CASE LockCache(t) \/ FoundPending(t) \/ NotFound(t)
  BY <1>2, Zenon DEF LockCache, FoundPending, NotFound
<1>3. CASE Found(t)
  BY <1>3 DEF Found, Ref, Matching
<1>4. CASE TakeFree(t)
  BY <1>4 DEF TakeFree
<1>5. QED
  BY <1>1, <1>2, <1>3, <1>4, Zenon

\* ... PurgeEntries ...
LEMMA TypesOfPurge ==
  ASSUME ICacheInv, NEW t \in Thread,
         PurgeEntries(t) \/ PurgeDentries(t) \/ Relock(t) \/ Discard(t) \/ Purged(t)
  PROVE  ICacheTypeOK'
<1> USE DEF ICacheInv, ICacheTypeOK, Goto, PCs, lists, nodes, purge
<1>1. CASE PurgeEntries(t) \/ PurgeDentries(t)
  BY <1>1 DEF PurgeEntries, PurgeDentries
<1>2. CASE Relock(t)
  BY <1>2, Zenon DEF Relock
<1>3. CASE Discard(t)
  BY <1>3 DEF Discard
<1>4. CASE Purged(t)
  BY <1>4, Zenon DEF Purged
<1>5. QED
  BY <1>1, <1>2, <1>3, <1>4, Zenon

\* ... and the references.
LEMMA TypesOfReferences ==
  ASSUME ICacheInv, NEW t \in Thread,
         \/ ReadInode(t) \/ ReadFails(t) \/ RefInode(t) \/ WriteInode(t)
         \/ DerefInode(t) \/ DerefDentry(t)
  PROVE  ICacheTypeOK'
<1> USE DEF ICacheInv, ICacheTypeOK, Goto, PCs, lists, nodes, purge
<1>1. pc[t] \in {"read", "have", "dirty"} => inode[t] \in INode
  BY DEF ReaderInv
<1>2. CASE ReadInode(t) \/ ReadFails(t)
  BY <1>1, <1>2 DEF ReadInode, ReadFails, Unlock, Deref
<1>3. CASE DerefInode(t) \/ DerefDentry(t)
  BY <1>1, <1>3 DEF DerefInode, DerefDentry, Deref
<1>4. CASE RefInode(t) \/ WriteInode(t)
  BY <1>1, <1>4 DEF RefInode, WriteInode, Ref, Deref
<1>5. QED
  BY <1>2, <1>3, <1>4, Zenon

-----------------------------------------------------------------------------
\* A thread takes a reference ...
LEMMA HoldersAdd ==
  ASSUME ICacheInv, NEW t \in Thread, NEW i \in INode, inode[t] = None,
         inode' = [inode EXCEPT ![t] = i]
  PROVE  \A j \in INode :
           /\ IsFiniteSet(Holders(j)')
           /\ Cardinality(Holders(j)') = Cardinality(Holders(j)) + (IF j = i THEN 1 ELSE 0)
<1> SUFFICES ASSUME NEW j \in INode
             PROVE  /\ IsFiniteSet(Holders(j)')
                    /\ Cardinality(Holders(j)') = Cardinality(Holders(j)) + (IF j = i THEN 1 ELSE 0)
  BY Zenon
<1>1. inode \in [Thread -> INode \cup {None}] /\ None \notin INode
  BY ICacheAssumption, Zenon DEF ICacheInv, ICacheTypeOK
<1>2. IsFiniteSet(Holders(j)) /\ Cardinality(Holders(j)) \in Nat
  BY FS_CardinalityType, Zenon DEF ICacheInv
<1>3. CASE j = i
  <2>1. Holders(j)' = Holders(j) \cup {t} /\ t \notin Holders(j)
    BY <1>1, <1>3, Zenon DEF Holders
  <2>2. QED
    BY <1>2, <1>3, <2>1, FS_AddElement
<1>4. CASE j # i
  <2>1. Holders(j)' = Holders(j)
    BY <1>1, <1>4, Zenon DEF Holders
  <2>2. QED
    BY <1>2, <1>4, <2>1
<1>5. QED
  BY <1>3, <1>4, Zenon

\* ... or gives one up, to nobody or to a dentry.
LEMMA HoldersRemove ==
  ASSUME ICacheInv, NEW t \in Thread, NEW i \in INode, inode[t] = i,
         inode' = [inode EXCEPT ![t] = None]
  PROVE  \A j \in INode :
           /\ IsFiniteSet(Holders(j)')
           /\ Cardinality(Holders(j)') = Cardinality(Holders(j)) - (IF j = i THEN 1 ELSE 0)
<1> SUFFICES ASSUME NEW j \in INode
             PROVE  /\ IsFiniteSet(Holders(j)')
                    /\ Cardinality(Holders(j)') = Cardinality(Holders(j)) - (IF j = i THEN 1 ELSE 0)
  BY Zenon
<1>1. inode \in [Thread -> INode \cup {None}] /\ None \notin INode
  BY ICacheAssumption, Zenon DEF ICacheInv, ICacheTypeOK
<1>2. IsFiniteSet(Holders(j)) /\ Cardinality(Holders(j)) \in Nat
  BY FS_CardinalityType, Zenon DEF ICacheInv
<1>3. CASE j = i
  <2>1. Holders(j)' = Holders(j) \ {t} /\ t \in Holders(j)
    BY <1>1, <1>3, Zenon DEF Holders
  <2>2. QED
    BY <1>2, <1>3, <2>1, FS_RemoveElement
<1>4. CASE j # i
  <2>1. Holders(j)' = Holders(j)
    BY <1>1, <1>4, Zenon DEF Holders
  <2>2. QED
    BY <1>2, <1>4, <2>1
<1>5. QED
  BY <1>3, <1>4, Zenon

\* Those who write an INode are some of those who hold it.
LEMMA WritersFinite ==
  ASSUME ICacheInv, NEW i \in INode
  PROVE  /\ Writers(i) \subseteq Holders(i) /\ IsFiniteSet(Writers(i))
         /\ Cardinality(Writers(i)) \in Nat
<1>1. Writers(i) \subseteq Holders(i)
  BY Zenon DEF Writers, Holders
<1>2. QED
  BY <1>1, FS_Subset, FS_CardinalityType, Zenon DEF ICacheInv

\* A step of a thread that does not write, before or after.
LEMMA WritersKept ==
  ASSUME ICacheInv, NEW t \in Thread, pc[t] # "dirty", pc'[t] # "dirty",
         \A u \in Thread \ {t} : pc'[u] = pc[u] /\ inode'[u] = inode[u]
  PROVE  \A i \in INode : Writers(i)' = Writers(i)
BY Zenon DEF Writers

\* An INode that is not in the cache, or has no references, is used by nobody.
LEMMA NobodyHolds ==
  ASSUME ICacheInv, NEW i \in INode, i \in icache_inuse => i_refcount[i] <= 0
  PROVE  /\ cached[i] = 0 /\ \A t \in Thread : inode[t] # i
         /\ IsFiniteSet(Holders(i)) /\ Cardinality(Holders(i)) = 0
         /\ Cardinality(Writers(i)) = 0
<1>1. /\ cached[i] \in Nat /\ i # None
      /\ IsFiniteSet(Holders(i)) /\ Cardinality(Holders(i)) \in Nat
  BY ICacheAssumption, FS_CardinalityType, Zenon DEF ICacheInv, ICacheTypeOK
<1>2. CASE i \in icache_inuse
  <2>1. Cardinality(Holders(i)) = 0 /\ cached[i] = 0
    BY <1>1, <1>2, WritersFinite DEF ICacheInv, RefcountExact, ICacheTypeOK
  <2>2. Holders(i) = {}
    BY <1>1, <2>1, FS_EmptySet, Zenon
  <2>3. Writers(i) = {}
    BY <2>2, WritersFinite, Zenon
  <2>4. QED
    BY <1>1, <2>1, <2>2, <2>3, FS_EmptySet, Zenon DEF Holders
<1>3. CASE i \notin icache_inuse
  <2>1. \A t \in Thread : inode[t] # i
    BY <1>1, <1>3 DEF ICacheInv, ReaderInv, HeldInodeStays
  <2>2. Holders(i) = {}
    BY <2>1, Zenon DEF Holders
  <2>3. cached[i] = 0
    BY <1>1, <1>3 DEF ICacheInv, HeldInodeStays
  <2>4. Writers(i) = {}
    BY <2>2, WritersFinite, Zenon
  <2>5. QED
    BY <1>1, <2>1, <2>2, <2>3, <2>4, FS_EmptySet, Zenon
<1>4. QED
  BY <1>2, <1>3, Zenon

-----------------------------------------------------------------------------
(* Where the INodes are and who uses them.                                 *)

Places == ListsInv /\ ReaderInv /\ HeldInodeStays

\* The steps that leave the INodes and who has them alone, the grown list included.
LEMMA PlacesUnchanged ==
  ASSUME ICacheInv, NEW t \in Thread,
         \/ \E n \in Inum : GetInode(t, n)
         \/ LockCache(t) \/ FoundPending(t) \/ NotFound(t)
         \/ PurgeEntries(t) \/ PurgeDentries(t) \/ Relock(t) \/ Purged(t)
  PROVE  Places'
<1> USE DEF ICacheInv, ICacheTypeOK, Goto, PCs, lists, nodes, purge, Places, ListsInv, ReaderInv, HeldInodeStays
<1>1. CASE \E n \in Inum : GetInode(t, n)
  BY <1>1 DEF GetInode
<1>2. CASE LockCache(t) \/ FoundPending(t) \/ NotFound(t)
  BY <1>2 DEF LockCache, FoundPending, NotFound
<1>3. CASE PurgeEntries(t) \/ Relock(t)
  BY <1>3 DEF PurgeEntries, Relock
<1>4. CASE PurgeDentries(t)
  BY <1>4 DEF PurgeDentries
<1>5. CASE Purged(t)
  BY <1>5 DEF Purged
<1>6. QED
  BY <1>1, <1>2, <1>3, <1>4, <1>5, Zenon

\* The lookup finds only an INode that is read and not gone, and takes one of
\* the free list that nobody uses.
LEMMA PlacesLookup ==
  ASSUME ICacheInv, NEW t \in Thread, Found(t) \/ TakeFree(t)
  PROVE  Places'
<1> USE DEF ICacheInv, ICacheTypeOK, Goto, PCs, lists, purge
<1>1. CASE Found(t)
  <2>1. PICK i \in Matching(t) :
          "PENDING" \notin i_flags[i] /\ inode' = [inode EXCEPT ![t] = i]
    BY <1>1, Zenon DEF Found
  <2>2. i \in icache_inuse /\ i_inum[i] = want[t] /\ i_flags[i] = {} /\ i # None
    BY <2>1, ICacheAssumption DEF Matching, ListsInv
  <2>3. QED
    BY <1>1, <2>1, <2>2 DEF Found, Places, ListsInv, ReaderInv, HeldInodeStays
<1>2. CASE TakeFree(t)
  <2>1. PICK i \in icache_free :
          /\ icache_free' = icache_free \ {i}
          /\ icache_inuse' = icache_inuse \cup {i}
          /\ i_mutex' = [i_mutex EXCEPT ![i] = t]
          /\ i_flags' = [i_flags EXCEPT ![i] = {"PENDING"}]
          /\ i_inum' = [i_inum EXCEPT ![i] = want[t]]
          /\ inode' = [inode EXCEPT ![t] = i]
    BY <1>2, Zenon DEF TakeFree
  <2>2. /\ i \in INode /\ i # None /\ i \notin icache_inuse
        /\ cached[i] = 0 /\ \A u \in Thread : inode[u] # i
    BY <2>1, NobodyHolds, ICacheAssumption DEF ListsInv
  <2>3. ListsInv'
    BY <2>1, <2>2, Zenon DEF ListsInv
  <2>4. pc' = [pc EXCEPT ![t] = "read"] /\ want' = want /\ cached' = cached
    BY <1>2, Zenon DEF TakeFree
  <2>5. ReaderInv'
    BY <2>1, <2>2, <2>4 DEF ReaderInv
  <2>6. HeldInodeStays'
    BY <2>1, <2>2, <2>4 DEF HeldInodeStays, ReaderInv
  <2>7. QED
    BY <2>3, <2>5, <2>6, Zenon DEF Places
<1>3. QED
  BY <1>1, <1>2, Zenon

\* PurgeEntries discards only what nobody uses, since the count is exact.
LEMMA PlacesDiscard ==
  ASSUME ICacheInv, NEW t \in Thread, Discard(t)
  PROVE  Places'
<1> USE DEF ICacheInv, ICacheTypeOK
<1>1. PICK i \in todo[t] :
        IF Purgeable(i)
        THEN /\ i_flags' = [i_flags EXCEPT ![i] = @ \cup {"GONE"}]
             /\ icache_inuse' = icache_inuse \ {i}
             /\ icache_free' = icache_free \cup {i}
        ELSE UNCHANGED <<lists, i_flags>>
  BY Zenon DEF Discard
<1>2. i \in INode /\ UNCHANGED <<i_mutex, i_inum, cached, pc, want, inode>>
  BY <1>1, Zenon DEF Discard
<1>3. CASE ~Purgeable(i)
  BY <1>1, <1>2, <1>3 DEF lists, Places, ListsInv, ReaderInv, HeldInodeStays
<1>4. CASE Purgeable(i)
  <2>1. cached[i] = 0 /\ \A u \in Thread : inode[u] # i
    BY <1>2, <1>4, NobodyHolds, Zenon DEF Purgeable
  <2>2. ListsInv'
    BY <1>1, <1>2, <1>4, Zenon DEF ListsInv
  <2>3. ReaderInv'
    BY <1>1, <1>2, <1>4, <2>1 DEF ReaderInv
  <2>4. HeldInodeStays'
    BY <1>1, <1>2, <1>4, <2>1 DEF HeldInodeStays, ReaderInv
  <2>5. QED
    BY <2>2, <2>3, <2>4, Zenon DEF Places
<1>5. QED
  BY <1>3, <1>4, Zenon

\* Reading makes the INode usable for its reader, who is alone; the rest gives
\* references up.
LEMMA PlacesReferences ==
  ASSUME ICacheInv, NEW t \in Thread,
         \/ ReadInode(t) \/ ReadFails(t) \/ RefInode(t) \/ WriteInode(t)
         \/ DerefInode(t) \/ DerefDentry(t)
  PROVE  Places'
<1> USE DEF ICacheInv, ICacheTypeOK, Goto, PCs, lists, nodes, purge
<1>1. None \notin INode
  BY ICacheAssumption, Zenon
<1>2. CASE ReadInode(t)
  <2>1. PICK j \in INode : j = inode[t]
    BY <1>2, Zenon DEF ReadInode, ReaderInv
  <2>2. /\ j \in icache_inuse /\ i_mutex[j] = t
        /\ i_flags[j] = {"PENDING"} /\ i_inum[j] = want[t] /\ pc[t] = "read"
    BY <1>2, <2>1, Zenon DEF ReadInode, ReaderInv
  <2>3. /\ i_flags' = [i_flags EXCEPT ![j] = {}]
        /\ i_mutex' = [i_mutex EXCEPT ![j] = None]
        /\ pc' = [pc EXCEPT ![t] = "have"]
        /\ UNCHANGED <<icache_inuse, icache_free, i_inum, cached, want, inode>>
    BY <1>2, <2>1, <2>2, Zenon DEF ReadInode, Unlock
  <2>4. \A u \in Thread : u # t => inode[u] # j
    <3>1. ASSUME NEW u \in Thread, u # t, inode[u] = j PROVE FALSE
      <4>1. pc[u] \in {"read", "have", "dirty"}
        BY <1>1, <3>1, Zenon DEF ReaderInv
      <4>2. pc[u] = "read" => i_mutex[j] = u
        BY <3>1, Zenon DEF ReaderInv
      <4>3. pc[u] \in {"have", "dirty"} => i_flags[j] = {}
        BY <3>1, Zenon DEF HeldInodeStays
      <4>4. QED
        BY <2>2, <3>1, <4>1, <4>2, <4>3, Zenon
    <3>2. QED
      BY <3>1, Zenon
  <2>5. ListsInv' /\ ReaderInv'
    <3>1. ListsInv'
      BY <2>1, <2>2, <2>3, Zenon DEF ListsInv
    <3>2. ReaderInv'
      <4>1. ASSUME NEW u \in Thread, u # t
            PROVE  /\ inode'[u] # None <=> pc'[u] \in {"read", "have", "dirty"}
                   /\ pc'[u] = "read" =>
                        /\ inode'[u] \in icache_inuse' /\ i_mutex'[inode'[u]] = u
                        /\ i_flags'[inode'[u]] = {"PENDING"} /\ i_inum'[inode'[u]] = want'[u]
        <5>1. pc'[u] = pc[u] /\ inode'[u] = inode[u] /\ inode[u] # j
          BY <2>3, <2>4, <4>1, Zenon
        <5>2. /\ inode[u] # None <=> pc[u] \in {"read", "have", "dirty"}
              /\ pc[u] = "read" =>
                   /\ inode[u] \in icache_inuse /\ i_mutex[inode[u]] = u
                   /\ i_flags[inode[u]] = {"PENDING"} /\ i_inum[inode[u]] = want[u]
          BY Zenon DEF ReaderInv
        <5>3. \A k \in INode : k # j => i_mutex'[k] = i_mutex[k] /\ i_flags'[k] = i_flags[k]
          BY <2>3, Zenon
        <5>4. QED
          BY <2>3, <5>1, <5>2, <5>3, Zenon
      <4>2. pc'[t] = "have" /\ inode'[t] # None
        BY <1>1, <2>1, <2>3, Zenon
      <4>3. QED
        BY <4>1, <4>2, Zenon DEF ReaderInv
    <3>3. QED
      BY <3>1, <3>2, Zenon
  <2>6. HeldInodeStays'
    BY <2>1, <2>2, <2>3, <2>4, Zenon DEF HeldInodeStays
  <2>7. QED
    BY <2>5, <2>6, Zenon DEF Places
<1>3. CASE ReadFails(t)
  BY <1>1, <1>3 DEF ReadFails, Unlock, Deref, Places, ListsInv, ReaderInv, HeldInodeStays
<1>4. CASE DerefInode(t)
  BY <1>1, <1>4 DEF DerefInode, Deref, Places, ListsInv, ReaderInv, HeldInodeStays
<1>5. CASE DerefDentry(t)
  BY <1>1, <1>5 DEF DerefDentry, Places, ListsInv, ReaderInv, HeldInodeStays
<1>6. CASE RefInode(t) \/ WriteInode(t)
  BY <1>1, <1>6 DEF RefInode, WriteInode, Places, ListsInv, ReaderInv, HeldInodeStays
<1>7. QED
  BY <1>2, <1>3, <1>4, <1>5, <1>6, Zenon

-----------------------------------------------------------------------------
(* The references.                                                         *)

Counts == (\A i \in INode : IsFiniteSet(Holders(i))) /\ RefcountExact

\* A step that takes no reference and gives none up; what it discards it does not
\* count any more, and the purged dentries give back theirs.
LEMMA CountsKept ==
  ASSUME ICacheInv, inode' = inode, icache_inuse' \subseteq icache_inuse,
         \A i \in icache_inuse' : i_refcount'[i] - cached'[i] = i_refcount[i] - cached[i],
         \A i \in INode : Writers(i)' = Writers(i), ICacheTypeOK'
  PROVE  Counts'
<1>1. \A i \in INode : /\ Holders(i)' = Holders(i) /\ IsFiniteSet(Holders(i))
                       /\ Cardinality(Holders(i)) \in Nat
  BY FS_CardinalityType, Zenon DEF Holders, ICacheInv
<1>2. RefcountExact'
  <2> SUFFICES ASSUME NEW i \in icache_inuse'
               PROVE  i_refcount'[i] =
                        Cardinality(Holders(i)') + Cardinality(Writers(i)') + cached'[i]
    BY Zenon DEF RefcountExact
  <2>1. i \in INode /\ i \in icache_inuse
    BY Zenon DEF ICacheInv, ICacheTypeOK
  <2>2. i_refcount[i] = Cardinality(Holders(i)) + Cardinality(Writers(i)) + cached[i]
    BY <2>1, Zenon DEF ICacheInv, RefcountExact
  <2>3. /\ i_refcount[i] \in Int /\ cached[i] \in Nat
        /\ i_refcount'[i] \in Int /\ cached'[i] \in Nat
    BY <2>1, Zenon DEF ICacheInv, ICacheTypeOK
  <2>4. i_refcount'[i] - cached'[i] = i_refcount[i] - cached[i]
    BY Zenon
  <2>5. QED
    BY <1>1, <2>1, <2>2, <2>3, <2>4, WritersFinite
<1>3. QED
  BY <1>1, <1>2, Zenon DEF Counts

\* The steps that it applies to: the waits and lists of the lookup, ...
LEMMA CountsUnchanged ==
  ASSUME ICacheInv, ICacheTypeOK', NEW t \in Thread,
         \/ \E n \in Inum : GetInode(t, n)
         \/ LockCache(t) \/ FoundPending(t) \/ NotFound(t)
         \/ PurgeEntries(t) \/ Relock(t) \/ Purged(t) \/ ReadInode(t)
  PROVE  Counts'
<1>1. /\ inode' = inode /\ icache_inuse' = icache_inuse
      /\ i_refcount' = i_refcount /\ cached' = cached
  BY Zenon DEF GetInode, LockCache, FoundPending, NotFound, PurgeEntries, Relock, Purged,
         ReadInode, lists, nodes
<1>2. /\ pc[t] # "dirty" /\ pc'[t] # "dirty"
      /\ \A u \in Thread \ {t} : pc'[u] = pc[u]
  BY Zenon DEF GetInode, LockCache, FoundPending, NotFound, PurgeEntries, Relock, Purged,
         ReadInode, Goto, ICacheInv, ICacheTypeOK
<1>3. \A i \in INode : Writers(i)' = Writers(i)
  BY <1>1, <1>2, WritersKept, Zenon
<1>4. QED
  BY <1>1, <1>3, CountsKept, Zenon

\* ... and PurgeEntries.
LEMMA CountsPurge ==
  ASSUME ICacheInv, ICacheTypeOK', NEW t \in Thread,
         PurgeDentries(t) \/ Discard(t)
  PROVE  Counts'
<1> USE DEF ICacheInv, ICacheTypeOK
<1>0. \A i \in INode : Writers(i)' = Writers(i)
  <2>1. /\ pc[t] # "dirty" /\ pc'[t] # "dirty" /\ inode' = inode
        /\ \A u \in Thread \ {t} : pc'[u] = pc[u]
    BY Zenon DEF PurgeDentries, Discard, Goto
  <2>2. QED
    BY <2>1, WritersKept, Zenon
<1>1. CASE PurgeDentries(t)
  <2>1. /\ inode' = inode /\ icache_inuse' = icache_inuse
        /\ i_refcount' = [i \in INode |-> i_refcount[i] - cached[i]]
        /\ cached' = [i \in INode |-> 0]
    BY <1>1, Zenon DEF PurgeDentries, lists
  <2>2. \A i \in icache_inuse' : i_refcount'[i] - cached'[i] = i_refcount[i] - cached[i]
    BY <2>1
  <2>3. QED
    BY <1>0, <2>1, <2>2, CountsKept, Zenon
<1>2. CASE Discard(t)
  <2>1. inode' = inode /\ cached' = cached
    BY <1>2, Zenon DEF Discard
  <2>2. PICK i \in INode :
          \/ icache_inuse' = icache_inuse /\ i_refcount' = i_refcount
          \/ /\ icache_inuse' = icache_inuse \ {i}
             /\ i_refcount' = [i_refcount EXCEPT ![i] = -1]
    BY <1>2, Zenon DEF Discard, lists
  <2>3. /\ icache_inuse' \subseteq icache_inuse
        /\ \A k \in icache_inuse' : i_refcount'[k] = i_refcount[k]
    BY <2>2, Zenon
  <2>4. QED
    BY <1>0, <2>1, <2>3, CountsKept, Zenon
<1>3. QED
  BY <1>1, <1>2, Zenon

\* The lookup counts the thread that gets the INode.
LEMMA CountsLookup ==
  ASSUME ICacheInv, NEW t \in Thread, Found(t) \/ TakeFree(t)
  PROVE  Counts'
<1> USE DEF ICacheInv, ICacheTypeOK
<1>1. inode[t] = None /\ cached' = cached
  BY Zenon DEF Found, TakeFree, ReaderInv
<1>0. \A i \in INode : Writers(i)' = Writers(i) /\ Cardinality(Writers(i)) \in Nat
  <2>1. /\ pc[t] # "dirty" /\ pc'[t] # "dirty"
        /\ \A u \in Thread \ {t} : pc'[u] = pc[u] /\ inode'[u] = inode[u]
    BY Zenon DEF Found, TakeFree, Goto
  <2>2. QED
    BY <2>1, WritersKept, WritersFinite, Zenon
<1>2. CASE Found(t)
  <2>1. PICK i \in INode :
          /\ inode' = [inode EXCEPT ![t] = i]
          /\ i_refcount' = [i_refcount EXCEPT ![i] = @ + 1]
          /\ icache_inuse' = icache_inuse
    BY <1>2, Zenon DEF Found, Matching, Ref, lists
  <2>2. \A j \in INode :
          /\ IsFiniteSet(Holders(j)')
          /\ Cardinality(Holders(j)') = Cardinality(Holders(j)) + (IF j = i THEN 1 ELSE 0)
    BY <1>1, <2>1, HoldersAdd, Zenon
  <2>3. \A j \in INode : Cardinality(Holders(j)) \in Nat
    BY FS_CardinalityType, Zenon
  <2>4. RefcountExact'
    BY <1>0, <1>1, <2>1, <2>2, <2>3 DEF RefcountExact
  <2>5. QED
    BY <2>2, <2>4, Zenon DEF Counts
<1>3. CASE TakeFree(t)
  <2>1. PICK i \in icache_free :
          /\ inode' = [inode EXCEPT ![t] = i]
          /\ i_refcount' = [i_refcount EXCEPT ![i] = 1]
          /\ icache_inuse' = icache_inuse \cup {i}
    BY <1>3, Zenon DEF TakeFree
  <2>2. /\ i \in INode /\ cached[i] = 0
        /\ Cardinality(Holders(i)) = 0 /\ Cardinality(Writers(i)) = 0
    BY <2>1, NobodyHolds, Zenon DEF ListsInv
  <2>3. \A j \in INode :
          /\ IsFiniteSet(Holders(j)')
          /\ Cardinality(Holders(j)') = Cardinality(Holders(j)) + (IF j = i THEN 1 ELSE 0)
    BY <1>1, <2>1, <2>2, HoldersAdd, Zenon
  <2>4. \A j \in INode : Cardinality(Holders(j)) \in Nat
    BY FS_CardinalityType, Zenon
  <2>5. RefcountExact'
    BY <1>0, <1>1, <2>1, <2>2, <2>3, <2>4 DEF RefcountExact
  <2>6. QED
    BY <2>3, <2>5, Zenon DEF Counts
<1>4. QED
  BY <1>2, <1>3, Zenon

\* A thread that gives up its INode drops the reference or leaves it to a dentry.
LEMMA CountsDeref ==
  ASSUME ICacheInv, NEW t \in Thread,
         ReadFails(t) \/ DerefInode(t) \/ DerefDentry(t)
  PROVE  Counts'
<1> USE DEF ICacheInv, ICacheTypeOK
<1>1. PICK i \in INode : i = inode[t]
  BY DEF ReadFails, DerefInode, DerefDentry, ReaderInv
<1>2. inode' = [inode EXCEPT ![t] = None] /\ icache_inuse' = icache_inuse
  BY Zenon DEF ReadFails, DerefInode, DerefDentry, lists
<1>3. \/ i_refcount' = [i_refcount EXCEPT ![i] = @ - 1] /\ cached' = cached
      \/ i_refcount' = i_refcount /\ cached' = [cached EXCEPT ![i] = @ + 1]
  BY <1>1, Zenon DEF ReadFails, DerefInode, DerefDentry, Deref, nodes
<1>4. \A j \in INode :
        /\ IsFiniteSet(Holders(j)')
        /\ Cardinality(Holders(j)') = Cardinality(Holders(j)) - (IF j = i THEN 1 ELSE 0)
  BY <1>1, <1>2, HoldersRemove, Zenon
<1>5. \A j \in INode : Cardinality(Holders(j)) \in Nat
  BY FS_CardinalityType, Zenon
<1>6. \A j \in INode : Writers(j)' = Writers(j) /\ Cardinality(Writers(j)) \in Nat
  <2>1. /\ pc[t] # "dirty" /\ pc'[t] # "dirty"
        /\ \A u \in Thread \ {t} : pc'[u] = pc[u] /\ inode'[u] = inode[u]
    BY Zenon DEF ReadFails, DerefInode, DerefDentry, Goto
  <2>2. QED
    BY <2>1, WritersKept, WritersFinite, Zenon
<1>7. RefcountExact'
  BY <1>1, <1>2, <1>3, <1>4, <1>5, <1>6 DEF RefcountExact
<1>8. QED
  BY <1>4, <1>7, Zenon DEF Counts

\* vfs_set_inode_dirty counts the thread once more while it writes.
LEMMA CountsWrite ==
  ASSUME ICacheInv, NEW t \in Thread, RefInode(t) \/ WriteInode(t)
  PROVE  Counts'
<1> USE DEF ICacheInv, ICacheTypeOK
<1>1. PICK i \in INode : i = inode[t]
  BY DEF RefInode, WriteInode, ReaderInv
<1>2. /\ inode' = inode /\ cached' = cached /\ icache_inuse' = icache_inuse
      /\ \A u \in Thread \ {t} : pc'[u] = pc[u]
  BY Zenon DEF RefInode, WriteInode, Goto, lists
<1>3. \A j \in INode :
        /\ Holders(j)' = Holders(j) /\ IsFiniteSet(Holders(j))
        /\ Cardinality(Holders(j)) \in Nat /\ Cardinality(Writers(j)) \in Nat
        /\ j # i => Writers(j)' = Writers(j)
  <2>1. \A j \in INode : Holders(j)' = Holders(j)
    BY <1>2, Zenon DEF Holders
  <2>2. \A j \in INode : j # i => Writers(j)' = Writers(j)
    BY <1>1, <1>2, Zenon DEF Writers
  <2>3. QED
    BY <2>1, <2>2, WritersFinite, FS_CardinalityType, Zenon
<1>4. IsFiniteSet(Writers(i))
  BY WritersFinite, Zenon
<1>5. \/ /\ i_refcount' = [i_refcount EXCEPT ![i] = @ + 1]
         /\ Cardinality(Writers(i)') = Cardinality(Writers(i)) + 1
      \/ /\ i_refcount' = [i_refcount EXCEPT ![i] = @ - 1]
         /\ Cardinality(Writers(i)') = Cardinality(Writers(i)) - 1
  <2>1. CASE RefInode(t)
    <3>1. pc[t] = "have" /\ pc'[t] = "dirty"
      BY <2>1, Zenon DEF RefInode, Goto
    <3>2. Writers(i)' = Writers(i) \cup {t} /\ t \notin Writers(i)
      BY <1>1, <1>2, <3>1, Zenon DEF Writers
    <3>3. Cardinality(Writers(i)') = Cardinality(Writers(i)) + 1
      BY <1>4, <3>2, FS_AddElement, Zenon
    <3>4. QED
      BY <1>1, <2>1, <3>3, Zenon DEF RefInode, Ref
  <2>2. CASE WriteInode(t)
    <3>1. pc[t] = "dirty" /\ pc'[t] = "have"
      BY <2>2, Zenon DEF WriteInode, Goto
    <3>2. Writers(i)' = Writers(i) \ {t} /\ t \in Writers(i)
      BY <1>1, <1>2, <3>1, Zenon DEF Writers
    <3>3. Cardinality(Writers(i)') = Cardinality(Writers(i)) - 1
      BY <1>4, <3>2, FS_RemoveElement, Zenon
    <3>4. QED
      BY <1>1, <2>2, <3>3, Zenon DEF WriteInode, Deref
  <2>3. QED
    BY <2>1, <2>2, Zenon
<1>6. RefcountExact'
  BY <1>2, <1>3, <1>5 DEF RefcountExact
<1>7. QED
  BY <1>3, <1>6, Zenon DEF Counts

\* A dentry that is recycled gives back its reference, and nothing else changes.
LEMMA Recycled ==
  ASSUME ICacheInv, NEW i \in INode, RecycleDentry(i)
  PROVE  ICacheInv'
<1> USE DEF RecycleDentry, Deref, lists, purge
<1>1. ICacheTypeOK'
  BY DEF ICacheInv, ICacheTypeOK
<1>2. Places'
  BY DEF ICacheInv, ICacheTypeOK, Places, ListsInv, ReaderInv, HeldInodeStays
<1>3. \A j \in icache_inuse' : i_refcount'[j] - cached'[j] = i_refcount[j] - cached[j]
  BY DEF ICacheInv, ICacheTypeOK
<1>4. Counts'
  <2>1. \A j \in INode : Writers(j)' = Writers(j)
    BY Zenon DEF Writers
  <2>2. QED
    BY <1>1, <1>3, <2>1, CountsKept, Zenon
<1>5. QED
  BY <1>1, <1>2, <1>4, Zenon DEF ICacheInv, Places, Counts

-----------------------------------------------------------------------------
\* ICacheInv holds at first and every step of icache.cpp and of the dentry cache
\* preserves it.
THEOREM ICacheInvariance == Spec => []ICacheInv
<1>1. Init => ICacheInv
  <2> SUFFICES ASSUME Init PROVE ICacheInv
    BY Zenon
  <2>1. \A i \in INode : Holders(i) = {}
    BY ICacheAssumption, Zenon DEF Init, Holders
  <2>2. \A i \in INode : IsFiniteSet(Holders(i))
    BY <2>1, FS_EmptySet, Zenon
  <2>3. ICacheTypeOK
    BY ICacheAssumption DEF Init, ICacheTypeOK, PCs
  <2>4. ListsInv /\ ReaderInv /\ HeldInodeStays /\ RefcountExact
    BY DEF Init, ListsInv, ReaderInv, HeldInodeStays, RefcountExact
  <2>5. QED
    BY <2>2, <2>3, <2>4, Zenon DEF ICacheInv
<1>2. ICacheInv /\ [Next]_vars => ICacheInv'
  <2> SUFFICES ASSUME ICacheInv, [Next]_vars PROVE ICacheInv'
    BY Zenon
  <2>1. ICacheTypeOK' /\ Places' /\ Counts' => ICacheInv'
    BY Zenon DEF ICacheInv, Places, Counts
  <2>2. ASSUME NEW t \in Thread,
               \/ \E n \in Inum : GetInode(t, n)
               \/ LockCache(t) \/ FoundPending(t) \/ NotFound(t)
        PROVE  ICacheInv'
    BY <2>1, <2>2, TypesOfThreads, PlacesUnchanged, CountsUnchanged, Zenon
  <2>3. ASSUME NEW t \in Thread, Found(t) \/ TakeFree(t)
        PROVE  ICacheInv'
    BY <2>1, <2>3, TypesOfThreads, PlacesLookup, CountsLookup, Zenon
  <2>4. ASSUME NEW t \in Thread, PurgeEntries(t) \/ Relock(t) \/ Purged(t)
        PROVE  ICacheInv'
    BY <2>1, <2>4, TypesOfPurge, PlacesUnchanged, CountsUnchanged, Zenon
  <2>5. ASSUME NEW t \in Thread, PurgeDentries(t)
        PROVE  ICacheInv'
    BY <2>1, <2>5, TypesOfPurge, PlacesUnchanged, CountsPurge, Zenon
  <2>6. ASSUME NEW t \in Thread, Discard(t)
        PROVE  ICacheInv'
    BY <2>1, <2>6, TypesOfPurge, PlacesDiscard, CountsPurge, Zenon
  <2>7. ASSUME NEW t \in Thread, ReadInode(t)
        PROVE  ICacheInv'
    BY <2>1, <2>7, TypesOfReferences, PlacesReferences, CountsUnchanged, Zenon
  <2>8. ASSUME NEW t \in Thread, ReadFails(t) \/ DerefInode(t) \/ DerefDentry(t)
        PROVE  ICacheInv'
    BY <2>1, <2>8, TypesOfReferences, PlacesReferences, CountsDeref, Zenon
  <2>9. ASSUME NEW t \in Thread, RefInode(t) \/ WriteInode(t)
        PROVE  ICacheInv'
    BY <2>1, <2>9, TypesOfReferences, PlacesReferences, CountsWrite, Zenon
  <2>10. CASE UNCHANGED vars
    BY <2>10 DEF vars, lists, nodes, purge, ICacheInv, ICacheTypeOK, ListsInv, ReaderInv,
                 HeldInodeStays, Holders, Writers, RefcountExact
  <2>11. QED
    BY <2>2, <2>3, <2>4, <2>5, <2>6, <2>7, <2>8, <2>9, <2>10, Recycled, Zenon DEF Next
<1>3. QED
  BY <1>1, <1>2, PTL DEF Spec

\* The count of an INode in the cache is the number of threads and unused dentries
\* that have it, and of threads that write it, although PurgeEntries works on the dentries without icache_mtx.
THEOREM ReferencesCounted == Spec => []RefcountExact
<1>1. ICacheInv => RefcountExact
  BY Zenon DEF ICacheInv
<1>2. QED
  BY <1>1, ICacheInvariance, PTL

\* PurgeEntries and icache_find_item_to_use never take an INode that a thread or a
\* dentry has: it stays the inode that was asked for.
THEOREM HeldInodesStay == Spec => []HeldInodeStays
<1>1. ICacheInv => HeldInodeStays
  BY Zenon DEF ICacheInv
<1>2. QED
  BY <1>1, ICacheInvariance, PTL
=============================================================================
