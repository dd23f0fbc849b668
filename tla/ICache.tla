------------------------------- MODULE ICache -------------------------------
(***************************************************************************)
(* The inode cache (vfs/icache.cpp), and of the dentry cache               *)
(* (vfs/dentry.cpp) what it does to the inodes: an entry without           *)
(* references keeps the reference to its inode until the entry is recycled *)
(* or purged.  The lists of INodes are sets here: their order decides only *)
(* which INode is looked at first.                                         *)
(***************************************************************************)
EXTENDS Integers, FiniteSets

CONSTANTS
  Thread,             \* the threads that look up inodes
  INode,              \* the INode objects there can be
  Inum,               \* the numbers of the inodes on the file system
  initialCacheItems,  \* the INodes there are at first
  growCacheIncrement,
  MaxCached,          \* a bound on the unused dentries of an INode
  None

ASSUME ICacheAssumption ==
  /\ IsFiniteSet(INode)
  /\ initialCacheItems \subseteq INode
  /\ growCacheIncrement \in Nat \ {0}
  /\ MaxCached \in Nat
  /\ None \notin Thread \cup INode \cup Inum

VARIABLES
  icache_mtx,     \* the thread that holds the mutex
  icache_inuse,
  icache_free,
  i_mutex,        \* the thread that holds the mutex of each INode
  i_refcount,
  i_flags,
  i_inum,
  cached,         \* the number of unused dentries of each INode
  pc,
  want,           \* the number that vfs_get_inode looks for
  inode,          \* the INode that a thread reads or holds
  todo,           \* the INodes that PurgeEntries has not looked at
  num_purged      \* how many it has discarded

purge == <<todo, num_purged>>
lists == <<icache_inuse, icache_free>>
nodes == <<i_mutex, i_refcount, i_flags, i_inum>>
vars == <<icache_mtx, lists, nodes, cached, pc, want, inode, purge>>

Goto(t, where) == pc' = [pc EXCEPT ![t] = where]

Init ==
  /\ icache_mtx = None
  /\ icache_inuse = {}
  /\ icache_free = initialCacheItems
  /\ i_mutex = [i \in INode |-> None]
  /\ i_refcount = [i \in INode |-> 0]
  /\ i_flags = [i \in INode |-> {}]
  /\ i_inum = [i \in INode |-> None]
  /\ cached = [i \in INode |-> 0]
  /\ pc = [t \in Thread |-> "out"]
  /\ want = [t \in Thread |-> None]
  /\ inode = [t \in Thread |-> None]
  /\ todo = [t \in Thread |-> {}]
  /\ num_purged = [t \in Thread |-> 0]

-----------------------------------------------------------------------------
(* icache_lookup_locked.                                                   *)

\* vfs_get_inode is called.
GetInode(t, n) ==
  /\ pc[t] = "out"
  /\ want' = [want EXCEPT ![t] = n]
  /\ Goto(t, "lookup")
  /\ UNCHANGED <<icache_mtx, lists, nodes, cached, inode, purge>>

LockCache(t) ==
  /\ pc[t] = "lookup" /\ icache_mtx = None
  /\ icache_mtx' = t
  /\ Goto(t, "search")
  /\ UNCHANGED <<lists, nodes, cached, want, inode, purge>>

Matching(t) == {i \in icache_inuse : i_inum[i] = want[t]}

\* The INode is in the cache but nobody has read it: try again.
FoundPending(t) ==
  /\ pc[t] = "search"
  /\ \E i \in Matching(t) : i_mutex[i] = None /\ "PENDING" \in i_flags[i]
  /\ icache_mtx' = None
  /\ Goto(t, "lookup")
  /\ UNCHANGED <<lists, nodes, cached, want, inode, purge>>

\* A mutant of Ref: the reference is not taken.
Uncounted(i) == UNCHANGED i_refcount /\ i \in INode

Ref(i) == i_refcount' = [i_refcount EXCEPT ![i] = @ + 1]

\* The INode is locked and referenced while the cache is locked.
Found(t) ==
  /\ pc[t] = "search"
  /\ \E i \in Matching(t) :
       /\ i_mutex[i] = None /\ "PENDING" \notin i_flags[i]
       /\ Ref(i)
       /\ inode' = [inode EXCEPT ![t] = i]
  /\ icache_mtx' = None
  /\ Goto(t, "have")
  /\ UNCHANGED <<lists, i_mutex, i_flags, i_inum, cached, want, purge>>

NotFound(t) ==
  /\ pc[t] = "search" /\ Matching(t) = {}
  /\ Goto(t, "find")
  /\ UNCHANGED <<icache_mtx, lists, nodes, cached, want, inode, purge>>

\* icache_find_item_to_use has an INode, which stays locked until it is read.
TakeFree(t) ==
  /\ pc[t] = "find"
  /\ \E i \in icache_free :
       /\ icache_free' = icache_free \ {i}
       /\ icache_inuse' = icache_inuse \cup {i}
       /\ i_mutex' = [i_mutex EXCEPT ![i] = t]
       /\ i_refcount' = [i_refcount EXCEPT ![i] = 1]
       /\ i_flags' = [i_flags EXCEPT ![i] = {"PENDING"}]
       /\ i_inum' = [i_inum EXCEPT ![i] = want[t]]
       /\ inode' = [inode EXCEPT ![t] = i]
  /\ icache_mtx' = None
  /\ Goto(t, "read")
  /\ UNCHANGED <<cached, want, purge>>

-----------------------------------------------------------------------------
(* PurgeEntries, which lets go of icache_mtx.                              *)

PurgeEntries(t) ==
  /\ pc[t] = "find" /\ icache_free = {}
  /\ icache_mtx' = None
  /\ Goto(t, "purge")
  /\ UNCHANGED <<lists, nodes, cached, want, inode, purge>>

\* dcache_purge_old_entries
PurgeDentries(t) ==
  /\ pc[t] = "purge"
  /\ i_refcount' = [i \in INode |-> i_refcount[i] - cached[i]]
  /\ cached' = [i \in INode |-> 0]
  /\ Goto(t, "relock")
  /\ UNCHANGED <<icache_mtx, lists, i_mutex, i_flags, i_inum, want, inode, purge>>

Relock(t) ==
  /\ pc[t] = "relock" /\ icache_mtx = None
  /\ icache_mtx' = t
  /\ todo' = [todo EXCEPT ![t] = icache_inuse]
  /\ num_purged' = [num_purged EXCEPT ![t] = 0]
  /\ Goto(t, "discard")
  /\ UNCHANGED <<lists, nodes, cached, want, inode>>

\* A mutant of Purgeable: references are not looked at.
NotPending(i) == "PENDING" \notin i_flags[i]

Purgeable(i) == i_refcount[i] <= 0 /\ "PENDING" \notin i_flags[i]

\* One INode of the loop: it is skipped or goes to the free list.
Discard(t) ==
  /\ pc[t] = "discard"
  /\ \E i \in todo[t] :
       /\ i_mutex[i] = None
       /\ todo' = [todo EXCEPT ![t] = @ \ {i}]
       /\ IF Purgeable(i)
          THEN /\ i_refcount' = [i_refcount EXCEPT ![i] = -1]
               /\ i_flags' = [i_flags EXCEPT ![i] = @ \cup {"GONE"}]
               /\ icache_inuse' = icache_inuse \ {i}
               /\ icache_free' = icache_free \cup {i}
               /\ num_purged' = [num_purged EXCEPT ![t] = @ + 1]
          ELSE UNCHANGED <<lists, i_refcount, i_flags, num_purged>>
  /\ UNCHANGED <<icache_mtx, i_mutex, i_inum, cached, pc, want, inode>>

\* Back in icache_find_item_to_use, with GrowCache when nothing was purged.
Purged(t) ==
  /\ pc[t] = "discard" /\ todo[t] = {}
  /\ IF num_purged[t] > 0 THEN UNCHANGED icache_free
     ELSE \E new \in SUBSET (INode \ (icache_inuse \cup icache_free)) :
            /\ Cardinality(new) = growCacheIncrement
            /\ icache_free' = icache_free \cup new
  /\ Goto(t, "find")
  /\ UNCHANGED <<icache_mtx, icache_inuse, nodes, cached, want, inode, purge>>

-----------------------------------------------------------------------------
(* The rest of vfs_get_inode, and the references to an inode.              *)

Unlock(i) == i_mutex' = [i_mutex EXCEPT ![i] = None]
Deref(i) == i_refcount' = [i_refcount EXCEPT ![i] = @ - 1]

\* prepare_inode and read_inode succeed.
ReadInode(t) ==
  LET i == inode[t] IN
  /\ pc[t] = "read"
  /\ i_flags' = [i_flags EXCEPT ![i] = @ \ {"PENDING"}]
  /\ Unlock(i)
  /\ Goto(t, "have")
  /\ UNCHANGED <<icache_mtx, lists, i_refcount, i_inum, cached, want, inode, purge>>

\* One of them fails: Unlock and vfs_deref_inode, and PENDING stays.
ReadFails(t) ==
  LET i == inode[t] IN
  /\ pc[t] = "read"
  /\ Unlock(i)
  /\ Deref(i)
  /\ inode' = [inode EXCEPT ![t] = None]
  /\ Goto(t, "out")
  /\ UNCHANGED <<icache_mtx, lists, i_flags, i_inum, cached, want, purge>>

\* vfs_deref_inode by the thread.
DerefInode(t) ==
  LET i == inode[t] IN
  /\ pc[t] = "have" /\ i_mutex[i] = None
  /\ Deref(i)
  /\ inode' = [inode EXCEPT ![t] = None]
  /\ Goto(t, "out")
  /\ UNCHANGED <<icache_mtx, lists, i_mutex, i_flags, i_inum, cached, want, purge>>

\* vfs_set_inode_dirty takes a second reference (vfs_ref_inode) ...
RefInode(t) ==
  LET i == inode[t] IN
  /\ pc[t] = "have" /\ i_mutex[i] = None
  /\ Ref(i)
  /\ Goto(t, "dirty")
  /\ UNCHANGED <<icache_mtx, lists, i_mutex, i_flags, i_inum, cached, want, inode, purge>>

\* ... and gives it up when the inode is written.
WriteInode(t) ==
  LET i == inode[t] IN
  /\ pc[t] = "dirty" /\ i_mutex[i] = None
  /\ Deref(i)
  /\ Goto(t, "have")
  /\ UNCHANGED <<icache_mtx, lists, i_mutex, i_flags, i_inum, cached, want, inode, purge>>

\* The thread used the inode through a dentry and drops its last reference
\* (dentry_deref): the dentry keeps the inode.  It has no parent any more, so that
\* dcache_lookup never finds it again; finding one that is in use touches no inode.
DerefDentry(t) ==
  LET i == inode[t] IN
  /\ pc[t] = "have" /\ cached[i] < MaxCached
  /\ cached' = [cached EXCEPT ![i] = @ + 1]
  /\ inode' = [inode EXCEPT ![t] = None]
  /\ Goto(t, "out")
  /\ UNCHANGED <<icache_mtx, lists, nodes, want, purge>>

\* FindEntryToUse takes an unused dentry for another name.
RecycleDentry(i) ==
  /\ cached[i] > 0 /\ i_mutex[i] = None
  /\ cached' = [cached EXCEPT ![i] = @ - 1]
  /\ Deref(i)
  /\ UNCHANGED <<icache_mtx, lists, i_mutex, i_flags, i_inum, pc, want, inode, purge>>

-----------------------------------------------------------------------------
Next ==
  \/ \E t \in Thread :
       \/ \E n \in Inum : GetInode(t, n)
       \/ LockCache(t) \/ FoundPending(t) \/ Found(t) \/ NotFound(t) \/ TakeFree(t)
       \/ PurgeEntries(t) \/ PurgeDentries(t) \/ Relock(t) \/ Discard(t) \/ Purged(t)
       \/ ReadInode(t) \/ ReadFails(t) \/ RefInode(t) \/ WriteInode(t)
       \/ DerefInode(t) \/ DerefDentry(t)
  \/ \E i \in INode : RecycleDentry(i)

Spec == Init /\ [][Next]_vars

-----------------------------------------------------------------------------
Holders(i) == {t \in Thread : inode[t] = i}
Writers(i) == {t \in Thread : inode[t] = i /\ pc[t] = "dirty"}

\* The references to an INode in the cache are the threads that read or hold it,
\* once more those that write it, and the unused dentries, whatever PurgeEntries
\* does without icache_mtx.
RefcountExact ==
  \A i \in icache_inuse :
    i_refcount[i] = Cardinality(Holders(i)) + Cardinality(Writers(i)) + cached[i]

\* An inode that a thread or a dentry holds stays the inode it asked for: its
\* INode is not discarded, reused for another number or read again ("referencing
\* gone inode").
HeldInodeStays ==
  /\ \A t \in Thread : pc[t] \in {"have", "dirty"} =>
       inode[t] \in icache_inuse /\ i_inum[inode[t]] = want[t] /\ i_flags[inode[t]] = {}
  /\ \A i \in INode : cached[i] > 0 => i \in icache_inuse /\ i_flags[i] = {}

\* "By ensuring we fill the cache we ensure the inode can only exist a single
\* time": two INodes in the cache are never the same inode.
InodeExistsOnce ==
  \A i, j \in icache_inuse : i_inum[i] = i_inum[j] => i = j

-----------------------------------------------------------------------------
\* The inductive invariant

PCs == {"out", "lookup", "search", "find", "purge", "relock", "discard", "read", "have",
        "dirty"}

\* Lists, references, flags and threads of icache.cpp are well formed.
ICacheTypeOK ==
  /\ icache_mtx \in Thread \cup {None}
  /\ icache_inuse \subseteq INode /\ icache_free \subseteq INode
  /\ i_mutex \in [INode -> Thread \cup {None}]
  /\ i_refcount \in [INode -> Int]
  /\ i_flags \in [INode -> SUBSET {"PENDING", "GONE"}]
  /\ i_inum \in [INode -> Inum \cup {None}]
  /\ cached \in [INode -> Nat]
  /\ pc \in [Thread -> PCs]
  /\ want \in [Thread -> Inum \cup {None}]
  /\ inode \in [Thread -> INode \cup {None}]
  /\ todo \in [Thread -> SUBSET INode]
  /\ num_purged \in [Thread -> Nat]

\* An INode is on one list, and one in use is not gone.
ListsInv ==
  /\ icache_inuse \cap icache_free = {}
  /\ \A i \in icache_inuse : "GONE" \notin i_flags[i]

\* Who reads an INode has it locked and pending, in the cache, under the number
\* that was asked for.
ReaderInv ==
  \A t \in Thread :
    /\ inode[t] # None <=> pc[t] \in {"read", "have", "dirty"}
    /\ pc[t] = "read" =>
         /\ inode[t] \in icache_inuse /\ i_mutex[inode[t]] = t
         /\ i_flags[inode[t]] = {"PENDING"} /\ i_inum[inode[t]] = want[t]

\* The facts that the lookup, PurgeEntries and the dentries preserve together: an
\* INode without references has no user, which rests on the exact counts.
ICacheInv ==
  /\ ICacheTypeOK /\ ListsInv /\ ReaderInv
  /\ HeldInodeStays
  /\ \A i \in INode : IsFiniteSet(Holders(i))
  /\ RefcountExact

=============================================================================
