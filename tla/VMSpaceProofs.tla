---------------------------- MODULE VMSpaceProofs ---------------------------
(***************************************************************************)
(* Proofs about VMSpace: for any processes, pages, addresses and mappings, *)
(* as long as programs do not map over a part of an area that has pages,   *)
(* reference counts are exact, page tables are current and a page that can *)
(* be written through a private area is not shared.  If, besides, they map *)
(* nothing both shared and writable, VMSpace implements AbstractMemory:    *)
(* every process sees a memory of its own.                                 *)
(***************************************************************************)
EXTENDS VMSpace, FiniteSetTheorems, TLAPS

-----------------------------------------------------------------------------
(* What the counts of pages say.                                           *)

\* A page is held by finitely many processes.
LEMMA HoldersFinite ==
  ASSUME NEW q
  PROVE  IsFiniteSet(Holders(q)) /\ Cardinality(Holders(q)) \in Nat
BY VMSpaceAssumption, FS_Subset, FS_CardinalityType, Holders(q) \in SUBSET Process, Zenon
DEF Holders

\* Nobody has a page that is free.
LEMMA FreshPage ==
  ASSUME RefcountsExact, NEW q \in VMPage, vp_refcount[q] = 0
  PROVE  Holders(q) = {} /\ q \notin InodePages
<1>1. IsFiniteSet(Holders(q)) /\ Cardinality(Holders(q)) \in Nat
  BY HoldersFinite, Zenon
<1>2. Cardinality(Holders(q)) = 0 /\ q \notin InodePages
  BY <1>1 DEF RefcountsExact
<1>3. QED
  BY <1>1, <1>2, FS_EmptySet, Zenon

\* Who has the last reference to a page has it alone.
LEMMA LastHolder ==
  ASSUME RefcountsExact, NEW q \in VMPage, NEW p \in Holders(q), vp_refcount[q] = 1
  PROVE  Holders(q) = {p} /\ q \notin InodePages
<1>1. IsFiniteSet(Holders(q)) /\ Cardinality(Holders(q)) \in Nat
  BY HoldersFinite, Zenon
<1>2. Cardinality(Holders(q)) # 0
  BY <1>1, FS_EmptySet, Zenon
<1>3. Cardinality(Holders(q)) = 1 /\ q \notin InodePages
  BY <1>1, <1>2 DEF RefcountsExact
<1>4. QED
  BY <1>1, <1>3, FS_Singleton

\* A page that somebody has is not free.
LEMMA HeldPage ==
  ASSUME RefcountsExact, NEW q \in VMPage, NEW p \in Holders(q)
  PROVE  vp_refcount[q] \in Nat \ {0}
<1>1. IsFiniteSet(Holders(q)) /\ Cardinality(Holders(q)) \in Nat
  BY HoldersFinite, Zenon
<1>2. Cardinality(Holders(q)) # 0
  BY <1>1, FS_EmptySet, Zenon
<1>3. QED
  BY <1>1, <1>2 DEF RefcountsExact

\* A process holds the pages of its areas and those that it is giving up.
LEMMA HasPage ==
  ASSUME NEW p \in Process, NEW q \in VMPage
  PROVE  p \in Holders(q) <=> q \in dying[p] \/ \E v \in Virt : va_pages[p][v] = q
BY VMSpaceAssumption, Zenon DEF Holders, PagesOf

\* The same in the next state.
LEMMA HasPageNext ==
  ASSUME NEW p \in Process, NEW q \in VMPage
  PROVE  p \in Holders(q)' <=> q \in dying'[p] \/ \E v \in Virt : va_pages'[p][v] = q
BY VMSpaceAssumption, Zenon DEF Holders, PagesOf

\* The count of a page stays exact when it follows the holders and the inode.
LEMMA CountStep ==
  ASSUME RefcountsExact, NEW q \in VMPage,
         (q \in InodePages)' <=> q \in InodePages,
         \/ Holders(q)' = Holders(q) /\ vp_refcount'[q] = vp_refcount[q]
         \/ \E p \in Process \ Holders(q) :
              Holders(q)' = Holders(q) \cup {p} /\ vp_refcount'[q] = vp_refcount[q] + 1
         \/ \E p \in Holders(q) :
              Holders(q)' = Holders(q) \ {p} /\ vp_refcount'[q] = vp_refcount[q] - 1
  PROVE  (vp_refcount[q] = Cardinality(Holders(q)) + IF q \in InodePages THEN 1 ELSE 0)'
<1>1. IsFiniteSet(Holders(q)) /\ Cardinality(Holders(q)) \in Nat
  BY HoldersFinite, Zenon
<1>2. \A p : p \notin Holders(q) => Cardinality(Holders(q) \cup {p}) = Cardinality(Holders(q)) + 1
  BY <1>1, FS_AddElement, Zenon
<1>3. \A p \in Holders(q) : Cardinality(Holders(q) \ {p}) = Cardinality(Holders(q)) - 1
  BY <1>1, FS_RemoveElement, Zenon
<1>4. vp_refcount[q] = Cardinality(Holders(q)) + IF q \in InodePages THEN 1 ELSE 0
  BY Zenon DEF RefcountsExact
<1>5. QED
  BY <1>1, <1>2, <1>3, <1>4

\* Addresses of areas are addresses.
LEMMA AreaAddresses ==
  ASSUME MemTypeOK, NEW p \in Process, NEW va \in vs_areamap[p]
  PROVE  /\ va \in Area /\ va.write \in BOOLEAN /\ va.private \in BOOLEAN
         /\ Addresses(va) \subseteq Virt
<1>1. va \in Area
  BY Zenon DEF MemTypeOK
<1>2. QED
  BY <1>1, VMSpaceAssumption DEF Area, Addresses, Virt

\* An address is in one area.
LEMMA SameArea ==
  ASSUME AreasInv, NEW p \in Process, NEW a \in vs_areamap[p], NEW b \in vs_areamap[p],
         NEW v, v \in Addresses(a), v \in Addresses(b)
  PROVE  a = b
BY Zenon DEF AreasInv

\* The process that a fork makes.
LEMMA ForkChild ==
  ASSUME MemTypeOK, NEW p \in Process, InFork(p)
  PROVE  todo[p].child \in Process /\ todo[p] = [op |-> "fork", child |-> todo[p].child]
BY Zenon DEF MemTypeOK, InFork, Todo

\* What is read of the file is there.
LEMMA FileOffset ==
  ASSUME MemTypeOK, AreasInv, NEW p \in Process, NEW va \in vs_areamap[p],
         NEW v \in Addresses(va), Backed(va, v)
  PROVE  Offset(va, v) \in DOMAIN File
<1>1. va \in Area /\ InFile(va) /\ va.dentry
  BY AreaAddresses, Zenon DEF AreasInv, Backed
<1>2. DOMAIN File = 0 .. Cardinality(DOMAIN File) - 1 /\ Cardinality(DOMAIN File) \in Nat
  BY VMSpaceAssumption, FS_CardinalityType, Zenon
<1>3. QED
  BY <1>1, <1>2, VMSpaceAssumption DEF Area, Virt, InFile, Offset, Addresses

\* What TranslationsCurrent and PromotedAlone say of one address.
Current(p, va, v) ==
  pte[p][v] = IF va_pages[p][v] = None THEN None
              ELSE Translation(va_pages[p][v], va.write, va_pages[p][v] \in promoted)
Alone(p, va, v) ==
  (va.private /\ va.write /\ va_pages[p][v] \in promoted) => Holders(va_pages[p][v]) = {p}

\* The properties of page tables hold if they hold address by address.
LEMMA EachAddress ==
  ASSUME \A p \in Process : \A va \in vs_areamap'[p] : \A v \in Addresses(va) :
           Current(p, va, v)' /\ Alone(p, va, v)',
         (promoted \cap FreePage = {})'
  PROVE  TranslationsCurrent' /\ PromotedAlone'
BY Zenon DEF TranslationsCurrent, PromotedAlone, Current, Alone

\* A step that leaves an address, its page and who shares the page alone
LEMMA SameAddress ==
  ASSUME MemInv, NEW p \in Process, NEW va \in vs_areamap[p], NEW v \in Addresses(va),
         va_pages'[p][v] = va_pages[p][v], pte'[p][v] = pte[p][v],
         ASSUME NEW q \in VMPage, q = va_pages[p][v]
         PROVE  /\ q \in promoted' <=> q \in promoted
                /\ q \in promoted /\ Holders(q) = {p} => Holders(q)' = {p},
         promoted' \subseteq VMPage
  PROVE  Current(p, va, v)' /\ Alone(p, va, v)'
<1>1. v \in Virt /\ va_pages[p][v] \in VMPage \cup {None}
  BY AreaAddresses DEF MemInv, MemTypeOK
<1>2. Current(p, va, v) /\ Alone(p, va, v)
  BY Zenon DEF MemInv, TranslationsCurrent, PromotedAlone, Current, Alone
<1>3. CASE va_pages[p][v] = None
  BY <1>2, <1>3, VMSpaceAssumption, Zenon DEF Current, Alone
<1>4. CASE va_pages[p][v] \in VMPage
  <2> DEFINE q == va_pages[p][v]
  <2>1. q \in VMPage /\ q # None /\ va_pages'[p][v] = q
    BY <1>4, VMSpaceAssumption, Zenon
  <2>2. /\ q \in promoted' <=> q \in promoted
        /\ q \in promoted /\ Holders(q) = {p} => Holders(q)' = {p}
    BY <2>1, Zenon
  <2>3. Current(p, va, v)'
    BY <1>2, <2>1, <2>2 DEF Current
  <2>4. Alone(p, va, v)'
    BY <1>2, <2>1, <2>2, Zenon DEF Alone
  <2>5. QED
    BY <2>3, <2>4, Zenon
<1>5. QED
  BY <1>1, <1>3, <1>4, Zenon

\* A step of a process outside system calls disturbs no system call.
LEMMA UserStep ==
  ASSUME MemInv, NEW p \in Process, User(p), UNCHANGED <<live, vs_areamap, dying, todo>>,
         \A r \in Process \ {p} : va_pages'[r] = va_pages[r] /\ pte'[r] = pte[r]
  PROVE  CallInv' /\ ForkInv' /\ DeadInv'
<1> USE DEF MemInv
<1>1. CallInv'
  BY Zenon DEF CallInv, User
<1>2. \A r \in Process : InFork(r)' <=> InFork(r)
  BY Zenon DEF InFork
<1>3. ForkInv'
  <2> SUFFICES ASSUME NEW r \in Process, InFork(r)
               PROVE  /\ (todo[r].child \notin live)'
                      /\ vs_areamap'[todo'[r].child] = vs_areamap'[r]
                      /\ \A v \in Virt : va_pages'[todo'[r].child][v] \in {None, va_pages'[r][v]}
                      /\ \A s \in Process : InFork(s)' /\ todo'[s].child = todo'[r].child => s = r
    BY <1>2, Zenon DEF ForkInv
  <2>1. todo[r].child \in Process \ {p} /\ r # p
    BY ForkChild, Zenon DEF ForkInv, User, InFork
  <2>2. QED
    BY <1>2, <2>1, Zenon DEF ForkInv
<1>4. DeadInv'
  BY <1>2, Zenon DEF DeadInv, User
<1>5. QED
  BY <1>1, <1>3, <1>4, Zenon

\* A page that a fault allocates: it is put into an area that had no page there, and
\* into the page table.
LEMMA AssignNewPreserves ==
  ASSUME MemInv, NEW p \in Process, NEW va \in vs_areamap[p], NEW v \in Addresses(va),
         User(p), va_pages[p][v] = None,
         NEW contents \in Value, NEW isPromoted \in BOOLEAN,
         AssignNew(p, va, v, contents, isPromoted),
         UNCHANGED <<live, vs_areamap, dying, todo, i_pages>>
  PROVE  MemInv'
<1> USE DEF MemInv
<1>1. PICK q \in FreePage :
        /\ va_pages' = [va_pages EXCEPT ![p][v] = q]
        /\ pte' = [pte EXCEPT ![p][v] = Translation(q, va.write, isPromoted)]
        /\ vp_refcount' = [vp_refcount EXCEPT ![q] = 1]
        /\ promoted' = IF isPromoted THEN promoted \cup {q} ELSE promoted
        /\ data' = [data EXCEPT ![q] = contents]
  BY Zenon DEF AssignNew
<1>2. /\ q \in VMPage /\ q # None /\ vp_refcount[q] = 0
      /\ v \in Virt /\ va.write \in BOOLEAN
  BY AreaAddresses, VMSpaceAssumption, Zenon DEF FreePage
<1>3. Holders(q) = {} /\ q \notin InodePages
  BY <1>2, FreshPage, Zenon
<1>4. \A r \in Process : q \notin dying[r] /\ \A w \in Virt : va_pages[r][w] # q
  BY <1>2, <1>3, HasPage, Zenon
<1>5. MemTypeOK'
  BY <1>1, <1>2, Zenon DEF MemTypeOK, Translation
<1>6. \A r \in Process, w \in Virt :
        /\ va_pages'[r][w] = IF r = p /\ w = v THEN q ELSE va_pages[r][w]
        /\ pte'[r][w] = IF r = p /\ w = v THEN Translation(q, va.write, isPromoted) ELSE pte[r][w]
  BY <1>1, <1>2, Zenon DEF MemTypeOK
<1>7. CallInv' /\ ForkInv' /\ DeadInv'
  <2>1. \A r \in Process \ {p} : va_pages'[r] = va_pages[r] /\ pte'[r] = pte[r]
    BY <1>1, Zenon DEF MemTypeOK
  <2>2. QED
    BY <2>1, UserStep, Zenon
<1>8. \A x \in VMPage : Holders(x)' = IF x = q THEN {p} ELSE Holders(x)
  <2> SUFFICES ASSUME NEW x \in VMPage
               PROVE  Holders(x)' = IF x = q THEN {p} ELSE Holders(x)
    BY Zenon
  <2>1. \A r \in Process : r \in Holders(x)' <=> IF x = q THEN r = p ELSE r \in Holders(x)
    BY <1>2, <1>4, <1>6, HasPage, HasPageNext, VMSpaceAssumption
  <2>2. Holders(x)' \subseteq Process /\ Holders(x) \subseteq Process
    BY Zenon DEF Holders
  <2>3. QED
    BY <2>1, <2>2, Zenon
<1>9. AreasInv'
  BY <1>6 DEF AreasInv
<1>10. HeldOnce'
  BY <1>4, <1>6, <1>2 DEF HeldOnce
<1>11. RefcountsExact'
  <2> SUFFICES ASSUME NEW x \in VMPage
               PROVE  (vp_refcount[x] = Cardinality(Holders(x)) + IF x \in InodePages THEN 1 ELSE 0)'
    BY Zenon DEF RefcountsExact
  <2>1. (x \in InodePages)' <=> x \in InodePages
    BY Zenon DEF InodePages
  <2>2. vp_refcount'[x] = IF x = q THEN 1 ELSE vp_refcount[x]
    BY <1>1, <1>2, Zenon DEF MemTypeOK
  <2>3. CASE x = q
    <3>1. Holders(x)' = Holders(x) \cup {p} /\ vp_refcount'[x] = vp_refcount[x] + 1
      BY <1>2, <1>3, <1>8, <2>2, <2>3
    <3>2. p \in Process \ Holders(x)
      BY <1>3, <2>3, Zenon
    <3>3. QED
      BY <2>1, <3>1, <3>2, CountStep, Zenon
  <2>4. CASE x # q
    BY <1>8, <2>1, <2>2, <2>4, CountStep, Zenon
  <2>5. QED
    BY <2>3, <2>4, Zenon
<1>12. promoted' \subseteq VMPage /\ (promoted \cap FreePage = {})'
  BY <1>1, <1>2 DEF PromotedAlone, FreePage, MemTypeOK
<1>13. ASSUME NEW r \in Process, NEW a \in vs_areamap[r], NEW w \in Addresses(a)
       PROVE  Current(r, a, w)' /\ Alone(r, a, w)'
  <2>1. w \in Virt
    BY AreaAddresses, Zenon
  <2>2. CASE r = p /\ w = v
    <3>1. a = va
      BY <2>2, SameArea, Zenon
    <3>2. va_pages'[r][w] = q /\ pte'[r][w] = Translation(q, a.write, isPromoted)
      BY <1>6, <2>1, <2>2, <3>1, Zenon
    <3>3. q \in promoted' <=> isPromoted
      BY <1>1, Zenon DEF PromotedAlone
    <3>4. QED
      BY <1>2, <1>8, <2>2, <3>2, <3>3, Zenon DEF Current, Alone
  <2>3. CASE ~(r = p /\ w = v)
    <3>1. va_pages'[r][w] = va_pages[r][w] /\ pte'[r][w] = pte[r][w] /\ va_pages[r][w] # q
      BY <1>4, <1>6, <2>1, <2>3, Zenon
    <3>2. ASSUME NEW x \in VMPage, x = va_pages[r][w]
          PROVE  (x \in promoted' <=> x \in promoted) /\ Holders(x)' = Holders(x)
      BY <1>1, <1>8, <3>1, <3>2, Zenon
    <3>3. QED
      BY <1>12, <3>1, <3>2, SameAddress, Zenon
  <2>4. QED
    BY <2>2, <2>3, Zenon
<1>14. TranslationsCurrent' /\ PromotedAlone'
  BY <1>12, <1>13, EachAddress, Zenon
<1>15. QED
  BY <1>5, <1>7, <1>9, <1>10, <1>11, <1>14, Zenon

\* A fault that first has to read the page of the inode.
LEMMA FaultReadFilePreserves ==
  ASSUME MemInv, NEW p \in Process, NEW va \in vs_areamap[p], NEW v \in Addresses(va),
         FaultReadFile(p, va, v)
  PROVE  MemInv'
<1> USE DEF MemInv
<1> DEFINE o == Offset(va, v)
<1>1. o \in DOMAIN File
  BY FileOffset, Zenon DEF FaultReadFile
<1> HIDE DEF o
<1>2. PICK q \in FreePage :
        /\ i_pages' = [i_pages EXCEPT ![o] = q]
        /\ vp_refcount' = [vp_refcount EXCEPT ![q] = 1]
        /\ data' = [data EXCEPT ![q] = File[o]]
  BY Zenon DEF FaultReadFile, o
<1>3. /\ i_pages[o] = None /\ User(p)
      /\ UNCHANGED <<live, vs_areamap, va_pages, dying, todo, pte, promoted>>
  BY Zenon DEF FaultReadFile, o, Faults
<1>4. q \in VMPage /\ q # None /\ vp_refcount[q] = 0 /\ File[o] \in Value
  BY <1>1, VMSpaceAssumption, Zenon DEF FreePage
<1>5. Holders(q) = {} /\ q \notin InodePages
  BY <1>4, FreshPage, Zenon
<1>6. MemTypeOK'
  BY <1>1, <1>2, <1>3, <1>4, Zenon DEF MemTypeOK
<1>7. \A x : Holders(x)' = Holders(x)
  BY <1>3, Zenon DEF Holders, PagesOf
<1>8. AreasInv' /\ HeldOnce'
  BY <1>3, Zenon DEF AreasInv, HeldOnce
<1>9. CallInv' /\ ForkInv' /\ DeadInv'
  BY <1>3, UserStep, Zenon
<1>10. RefcountsExact'
  <2> SUFFICES ASSUME NEW x \in VMPage
               PROVE  (vp_refcount[x] = Cardinality(Holders(x)) + IF x \in InodePages THEN 1 ELSE 0)'
    BY Zenon DEF RefcountsExact
  <2>1. x \in InodePages' <=> x = q \/ x \in InodePages
    BY <1>1, <1>2, <1>3, VMSpaceAssumption, Zenon DEF InodePages, MemTypeOK
  <2>2. vp_refcount'[x] = IF x = q THEN 1 ELSE vp_refcount[x]
    BY <1>2, <1>4, Zenon DEF MemTypeOK
  <2>3. CASE x = q
    BY <1>5, <1>7, <2>1, <2>2, <2>3, FS_EmptySet
  <2>4. CASE x # q
    BY <1>7, <2>1, <2>2, <2>4, CountStep, Zenon
  <2>5. QED
    BY <2>3, <2>4, Zenon
<1>11. TranslationsCurrent'
  BY <1>3, Zenon DEF TranslationsCurrent
<1>12. PromotedAlone'
  BY <1>2, <1>3, <1>4, <1>7, Zenon DEF PromotedAlone, FreePage, MemTypeOK
<1>13. QED
  BY <1>6, <1>8, <1>9, <1>10, <1>11, <1>12, Zenon

\* A fault on a private area of a file copies the page of the inode.
LEMMA FaultFilePreserves ==
  ASSUME MemInv, NEW p \in Process, NEW va \in vs_areamap[p], NEW v \in Addresses(va),
         FaultFile(p, va, v)
  PROVE  MemInv'
<1> DEFINE contents == data[i_pages[Offset(va, v)]]
           isPromoted == v - va.begin + 1 < va.dlength \/ ~va.part
<1>1. User(p) /\ va_pages[p][v] = None /\ AssignNew(p, va, v, contents, isPromoted)
  BY Zenon DEF FaultFile, Faults
<1>2. UNCHANGED <<live, vs_areamap, dying, todo, i_pages>>
  BY Zenon DEF FaultFile
<1>3. Offset(va, v) \in DOMAIN File
  BY FileOffset, Zenon DEF FaultFile, MemInv
<1>4. contents \in Value
  BY <1>3, Zenon DEF FaultFile, MemInv, MemTypeOK
<1>5. isPromoted \in BOOLEAN
  BY Zenon
<1> HIDE DEF contents, isPromoted
<1>6. QED
  BY <1>1, <1>2, <1>4, <1>5, AssignNewPreserves, Zenon

\* A fault on an anonymous area allocates a page of zeroes.
LEMMA FaultZeroPreserves ==
  ASSUME MemInv, NEW p \in Process, NEW va \in vs_areamap[p], NEW v \in Addresses(va),
         FaultZero(p, va, v)
  PROVE  MemInv'
<1>1. /\ User(p) /\ va_pages[p][v] = None /\ AssignNew(p, va, v, 0, FALSE)
      /\ UNCHANGED <<live, vs_areamap, dying, todo, i_pages>>
  BY Zenon DEF FaultZero, Faults
<1>2. QED
  BY <1>1, VMSpaceAssumption, AssignNewPreserves, Zenon

\* A program stores into a page that its page table lets it write.
LEMMA StorePreserves ==
  ASSUME MemInv, NEW p \in Process, NEW va \in vs_areamap[p], NEW v \in Addresses(va),
         NEW x \in Value, Store(p, va, v, x)
  PROVE  MemInv'
<1> USE DEF MemInv
<1>1. /\ User(p)
      /\ UNCHANGED <<live, vs_areamap, va_pages, dying, todo, pte, vp_refcount, promoted, i_pages>>
  BY Zenon DEF Store
<1>2. v \in Virt /\ pte[p][v] # None
  BY AreaAddresses, Zenon DEF Store
<1>3. pte[p][v].page \in VMPage
  BY <1>2 DEF MemTypeOK
<1>4. MemTypeOK'
  BY <1>1, <1>3, Zenon DEF MemTypeOK, Store
<1>5. \A q : Holders(q)' = Holders(q)
  BY <1>1, Zenon DEF Holders, PagesOf
<1>6. AreasInv' /\ HeldOnce' /\ TranslationsCurrent'
  BY <1>1 DEF AreasInv, HeldOnce, TranslationsCurrent
<1>7. CallInv' /\ ForkInv' /\ DeadInv'
  BY <1>1, UserStep, Zenon
<1>8. RefcountsExact'
  BY <1>1, <1>5, Zenon DEF RefcountsExact, InodePages
<1>9. PromotedAlone'
  BY <1>1, <1>5, Zenon DEF PromotedAlone, FreePage
<1>10. QED
  BY <1>4, <1>6, <1>7, <1>8, <1>9, Zenon

\* The last reference: the page is promoted where it is.
LEMMA PromotePreserves ==
  ASSUME MemInv, NEW p \in Process, NEW va \in vs_areamap[p], NEW v \in Addresses(va),
         FaultPromote(p, va, v), LastReference(va_pages[p][v])
  PROVE  MemInv'
<1> USE DEF MemInv
<1> DEFINE q == va_pages[p][v]
<1>1. /\ q # None /\ vp_refcount[q] = 1 /\ User(p)
      /\ promoted' = promoted \cup {q}
      /\ pte' = [pte EXCEPT ![p][v] = Translation(q, va.write, TRUE)]
      /\ UNCHANGED <<va_pages, vp_refcount, data, live, vs_areamap, dying, todo, i_pages>>
  BY Zenon DEF FaultPromote, Faults, LastReference
<1>2. v \in Virt /\ va.write \in BOOLEAN /\ q \in VMPage
  BY <1>1, AreaAddresses DEF MemTypeOK
<1>3. Holders(q) = {p}
  BY <1>1, <1>2, HasPage, LastHolder
<1>4. MemTypeOK'
  BY <1>1, <1>2, Zenon DEF MemTypeOK, Translation
<1>5. \A x : Holders(x)' = Holders(x)
  BY <1>1, Zenon DEF Holders, PagesOf
<1>6. \A r \in Process, w \in Virt :
        pte'[r][w] = IF r = p /\ w = v THEN Translation(q, va.write, TRUE) ELSE pte[r][w]
  BY <1>1, <1>2, Zenon DEF MemTypeOK
<1>7. AreasInv' /\ HeldOnce'
  BY <1>1, Zenon DEF AreasInv, HeldOnce
<1>8. CallInv' /\ ForkInv' /\ DeadInv'
  <2>1. \A r \in Process \ {p} : pte'[r] = pte[r]
    BY <1>1, Zenon DEF MemTypeOK
  <2>2. QED
    BY <1>1, <2>1, UserStep, Zenon
<1>9. RefcountsExact'
  BY <1>1, <1>5, Zenon DEF RefcountsExact, InodePages
<1>10. promoted' \subseteq VMPage /\ (promoted \cap FreePage = {})'
  BY <1>1, <1>2 DEF PromotedAlone, FreePage, MemTypeOK
<1>11. ASSUME NEW r \in Process, NEW a \in vs_areamap[r], NEW w \in Addresses(a)
       PROVE  Current(r, a, w)' /\ Alone(r, a, w)'
  <2>1. w \in Virt
    BY AreaAddresses, Zenon
  <2>2. CASE r = p /\ w = v
    <3>1. a = va
      BY <2>2, SameArea, Zenon
    <3>2. va_pages'[r][w] = q /\ pte'[r][w] = Translation(q, a.write, TRUE) /\ q \in promoted'
      BY <1>1, <1>6, <2>1, <2>2, <3>1, Zenon
    <3>3. QED
      BY <1>1, <1>3, <1>5, <2>2, <3>2, Zenon DEF Current, Alone
  <2>3. CASE ~(r = p /\ w = v)
    <3>1. va_pages'[r][w] = va_pages[r][w] /\ pte'[r][w] = pte[r][w]
      BY <1>1, <1>6, <2>1, <2>3, Zenon
    <3>2. va_pages[r][w] # q
      <4>1. SUFFICES ASSUME va_pages[r][w] = q PROVE FALSE
        BY Zenon
      <4>2. r = p
        BY <1>2, <1>3, <2>1, <4>1, HasPage, Zenon
      <4>3. QED
        BY <1>1, <1>2, <2>1, <2>3, <4>1, <4>2, Zenon DEF HeldOnce
    <3>3. ASSUME NEW x \in VMPage, x = va_pages[r][w]
          PROVE  (x \in promoted' <=> x \in promoted) /\ Holders(x)' = Holders(x)
      BY <1>1, <1>5, <3>2, <3>3, Zenon
    <3>4. QED
      BY <1>10, <3>1, <3>3, SameAddress, Zenon
  <2>4. QED
    BY <2>2, <2>3, Zenon
<1>12. TranslationsCurrent' /\ PromotedAlone'
  BY <1>1, <1>10, <1>11, EachAddress, Zenon
<1>13. QED
  BY <1>4, <1>7, <1>8, <1>9, <1>12, Zenon

\* The page is shared: the process gets a copy and gives up the page.
LEMMA CopyPreserves ==
  ASSUME MemInv, NEW p \in Process, NEW va \in vs_areamap[p], NEW v \in Addresses(va),
         FaultPromote(p, va, v), ~LastReference(va_pages[p][v])
  PROVE  MemInv'
<1> USE DEF MemInv
<1>0. PICK q : va_pages[p][v] = q
  BY Zenon
<1>1. q # None /\ vp_refcount[q] # 1 /\ User(p)
  BY <1>0, Zenon DEF FaultPromote, Faults, LastReference
<1>2. PICK n \in FreePage :
        /\ va_pages' = [va_pages EXCEPT ![p][v] = n]
        /\ pte' = [pte EXCEPT ![p][v] = Translation(n, va.write, TRUE)]
        /\ vp_refcount' = [vp_refcount EXCEPT ![n] = 1, ![q] = @ - 1]
        /\ promoted' = promoted \cup {n}
        /\ data' = [data EXCEPT ![n] = data[q]]
  BY <1>0, Zenon DEF FaultPromote, Exchanged
<1>3. UNCHANGED <<live, vs_areamap, dying, todo, i_pages>>
  BY Zenon DEF FaultPromote
<1>4. /\ n \in VMPage /\ n # None /\ vp_refcount[n] = 0
      /\ v \in Virt /\ va.write \in BOOLEAN /\ q \in VMPage
  BY <1>0, <1>1, AreaAddresses, VMSpaceAssumption DEF FreePage, MemTypeOK
<1>5. Holders(n) = {} /\ n \notin InodePages
  BY <1>4, FreshPage, Zenon
<1>6. \A r \in Process : n \notin dying[r] /\ \A w \in Virt : va_pages[r][w] # n
  BY <1>4, <1>5, HasPage, Zenon
<1>7. p \in Holders(q) /\ q # n
  BY <1>0, <1>4, <1>6, HasPage, Zenon
<1>8. vp_refcount[q] \in Nat \ {0, 1}
  BY <1>1, <1>4, <1>7, HeldPage, Zenon
<1>9. MemTypeOK'
  <2>1. va_pages' \in [Process -> [Virt -> VMPage \cup {None}]]
    BY <1>2, <1>4, Zenon DEF MemTypeOK
  <2>2. pte' \in [Process -> [Virt -> [page : VMPage, write : BOOLEAN] \cup {None}]]
    BY <1>2, <1>4, Zenon DEF MemTypeOK, Translation
  <2>3. vp_refcount' \in [VMPage -> Nat]
    <3>1. vp_refcount \in [VMPage -> Nat]
      BY Zenon DEF MemTypeOK
    <3>2. vp_refcount' = [x \in VMPage |-> IF x = q THEN vp_refcount[q] - 1
                                          ELSE IF x = n THEN 1 ELSE vp_refcount[x]]
      BY <1>2, <1>4, <1>7, <3>1, Zenon
    <3>3. vp_refcount[q] - 1 \in Nat
      BY <1>8
    <3>4. QED
      BY <3>1, <3>2, <3>3, Zenon
  <2>4. promoted' \subseteq VMPage /\ data' \in [VMPage -> Value]
    BY <1>2, <1>4, Zenon DEF MemTypeOK
  <2>5. QED
    BY <1>3, <2>1, <2>2, <2>3, <2>4, Zenon DEF MemTypeOK
<1>10. \A r \in Process, w \in Virt :
         /\ va_pages'[r][w] = IF r = p /\ w = v THEN n ELSE va_pages[r][w]
         /\ pte'[r][w] = IF r = p /\ w = v THEN Translation(n, va.write, TRUE) ELSE pte[r][w]
  BY <1>2, <1>4, Zenon DEF MemTypeOK
<1>11. CallInv' /\ ForkInv' /\ DeadInv'
  <2>1. \A r \in Process \ {p} : va_pages'[r] = va_pages[r] /\ pte'[r] = pte[r]
    BY <1>2, Zenon DEF MemTypeOK
  <2>2. QED
    BY <1>1, <1>3, <2>1, UserStep, Zenon
<1>12. \A x \in VMPage : Holders(x)' = IF x = n THEN {p} ELSE IF x = q THEN Holders(q) \ {p}
                                      ELSE Holders(x)
  <2> SUFFICES ASSUME NEW x \in VMPage
               PROVE  Holders(x)' = IF x = n THEN {p} ELSE IF x = q THEN Holders(q) \ {p}
                                    ELSE Holders(x)
    BY Zenon
  <2>1. \A w \in Virt : w # v => va_pages[p][w] # q
    BY <1>0, <1>1, <1>4, Zenon DEF HeldOnce
  <2>2. ASSUME NEW r \in Process
        PROVE  r \in Holders(x)' <=> IF x = n THEN r = p ELSE IF x = q THEN r \in Holders(q) /\ r # p
                                    ELSE r \in Holders(x)
    <3>1. dying'[r] = dying[r] /\ q \notin dying[p]
      BY <1>1, <1>3, Zenon DEF User
    <3>2. /\ r \in Holders(x) <=> x \in dying[r] \/ \E w \in Virt : va_pages[r][w] = x
          /\ r \in Holders(x)' <=> x \in dying'[r] \/ \E w \in Virt : va_pages'[r][w] = x
      BY HasPage, HasPageNext, Zenon
    <3>3. CASE r = p
      BY <1>0, <1>4, <1>6, <1>7, <1>10, <2>1, <3>1, <3>2, <3>3, ZenonT(20)
    <3>4. CASE r # p
      <4>1. \A w \in Virt : va_pages'[r][w] = va_pages[r][w]
        BY <1>10, <3>4, Zenon
      <4>2. QED
        BY <1>6, <3>1, <3>2, <3>4, <4>1, Zenon
    <3>5. QED
      BY <3>3, <3>4, Zenon
  <2>3. Holders(x)' \subseteq Process /\ Holders(x) \subseteq Process
    BY Zenon DEF Holders
  <2>4. QED
    BY <2>2, <2>3, Zenon
<1>13. AreasInv'
  <2>1. ASSUME NEW r \in Process, NEW w \in Virt, va_pages'[r][w] # None
        PROVE  \E a \in vs_areamap[r] : w \in Addresses(a)
    <3>1. CASE r = p /\ w = v
      BY <3>1, Zenon
    <3>2. CASE ~(r = p /\ w = v)
      BY <1>10, <2>1, <3>2, Zenon DEF AreasInv
    <3>3. QED
      BY <3>1, <3>2, Zenon
  <2>2. QED
    BY <1>3, <2>1, Zenon DEF AreasInv
<1>14. HeldOnce'
  <2>1. ASSUME NEW r \in Process, NEW w \in Virt, va_pages'[r][w] = n
        PROVE  r = p /\ w = v
    <3>1. va_pages[r][w] # n
      BY <1>6, Zenon
    <3>2. QED
      BY <1>10, <2>1, <3>1, Zenon
  <2>2. ASSUME NEW r \in Process, NEW w \in Virt, va_pages'[r][w] # None,
               NEW u \in Virt, va_pages'[r][u] = va_pages'[r][w]
        PROVE  u = w
    <3>1. CASE va_pages'[r][w] = n
      BY <2>1, <2>2, <3>1, Zenon
    <3>2. CASE va_pages'[r][w] # n
      <4>1. va_pages'[r][w] = va_pages[r][w] /\ va_pages'[r][u] = va_pages[r][u]
        BY <1>10, <2>2, <3>2, Zenon
      <4>2. QED
        BY <2>2, <4>1, Zenon DEF HeldOnce
    <3>3. QED
      BY <3>1, <3>2, Zenon
  <2>3. ASSUME NEW r \in Process, NEW w \in Virt, va_pages'[r][w] # None
        PROVE  va_pages'[r][w] \notin dying[r]
    <3>1. CASE va_pages'[r][w] = n
      BY <1>6, <3>1, Zenon
    <3>2. CASE va_pages'[r][w] # n
      <4>1. va_pages'[r][w] = va_pages[r][w]
        BY <1>10, <3>2, Zenon
      <4>2. QED
        BY <2>3, <4>1, Zenon DEF HeldOnce
    <3>3. QED
      BY <3>1, <3>2, Zenon
  <2>4. QED
    BY <1>3, <2>2, <2>3, Zenon DEF HeldOnce
<1>15. RefcountsExact'
  <2> SUFFICES ASSUME NEW x \in VMPage
               PROVE  (vp_refcount[x] = Cardinality(Holders(x)) + IF x \in InodePages THEN 1 ELSE 0)'
    BY Zenon DEF RefcountsExact
  <2>1. (x \in InodePages)' <=> x \in InodePages
    BY <1>3, Zenon DEF InodePages
  <2>2. vp_refcount'[x] = IF x = n THEN 1 ELSE IF x = q THEN vp_refcount[q] - 1 ELSE vp_refcount[x]
    BY <1>2, <1>4, <1>7, Zenon DEF MemTypeOK
  <2>3. CASE x = n
    <3>1. Holders(x)' = Holders(x) \cup {p} /\ vp_refcount'[x] = vp_refcount[x] + 1
      BY <1>4, <1>5, <1>12, <2>2, <2>3
    <3>2. p \in Process \ Holders(x)
      BY <1>5, <2>3, Zenon
    <3>3. QED
      BY <2>1, <3>1, <3>2, CountStep, Zenon
  <2>4. CASE x = q
    <3>1. Holders(x)' = Holders(x) \ {p} /\ vp_refcount'[x] = vp_refcount[x] - 1
      BY <1>7, <1>12, <2>2, <2>4, Zenon
    <3>2. QED
      BY <1>7, <2>1, <2>4, <3>1, CountStep, Zenon
  <2>5. CASE x # n /\ x # q
    BY <1>12, <2>1, <2>2, <2>5, CountStep, Zenon
  <2>6. QED
    BY <2>3, <2>4, <2>5, Zenon
<1>16. promoted' \subseteq VMPage /\ (promoted \cap FreePage = {})'
  BY <1>2, <1>4, <1>8 DEF PromotedAlone, FreePage, MemTypeOK
<1>17. ASSUME NEW r \in Process, NEW a \in vs_areamap[r], NEW w \in Addresses(a)
       PROVE  Current(r, a, w)' /\ Alone(r, a, w)'
  <2>1. w \in Virt
    BY AreaAddresses, Zenon
  <2>2. CASE r = p /\ w = v
    <3>1. a = va
      BY <2>2, SameArea, Zenon
    <3>2. va_pages'[r][w] = n /\ pte'[r][w] = Translation(n, a.write, TRUE) /\ n \in promoted'
      BY <1>2, <1>10, <2>1, <2>2, <3>1, Zenon
    <3>3. QED
      BY <1>4, <1>12, <2>2, <3>2, Zenon DEF Current, Alone
  <2>3. CASE ~(r = p /\ w = v)
    <3>1. va_pages'[r][w] = va_pages[r][w] /\ pte'[r][w] = pte[r][w] /\ va_pages[r][w] # n
      BY <1>6, <1>10, <2>1, <2>3, Zenon
    <3>2. ASSUME NEW x \in VMPage, x = va_pages[r][w]
          PROVE  (x \in promoted' <=> x \in promoted) /\ (Holders(x) = {r} => Holders(x)' = {r})
      <4>1. x = q => Holders(x) # {r}
        BY <1>0, <1>1, <1>4, <1>7, <2>1, <2>3, <3>2, Zenon DEF HeldOnce
      <4>2. QED
        BY <1>2, <1>12, <3>1, <3>2, <4>1, Zenon
    <3>3. QED
      BY <1>16, <3>1, <3>2, SameAddress, Zenon
  <2>4. QED
    BY <2>2, <2>3, Zenon
<1>18. TranslationsCurrent' /\ PromotedAlone'
  BY <1>3, <1>16, <1>17, EachAddress, Zenon
<1>19. QED
  BY <1>9, <1>11, <1>13, <1>14, <1>15, <1>18, Zenon

\* A process that ends gives up its pages one by one.
LEMMA DerefPagePreserves ==
  ASSUME MemInv, NEW p \in Process, DerefPage(p)
  PROVE  MemInv'
<1> USE DEF MemInv
<1>1. PICK q \in dying[p] :
        /\ dying' = [dying EXCEPT ![p] = @ \ {q}]
        /\ vp_refcount' = [vp_refcount EXCEPT ![q] = @ - 1]
        /\ promoted' = IF vp_refcount[q] = 1 THEN promoted \ {q} ELSE promoted
        /\ data' = IF vp_refcount[q] = 1 THEN [data EXCEPT ![q] = 0] ELSE data
  BY Zenon DEF DerefPage
<1>2. UNCHANGED <<live, vs_areamap, va_pages, todo, pte, i_pages>>
  BY Zenon DEF DerefPage
<1>3. q \in VMPage /\ p \in Holders(q)
  BY HasPage, Zenon DEF MemTypeOK
<1>4. vp_refcount[q] \in Nat \ {0}
  BY <1>3, HeldPage, Zenon
<1>5. \A w \in Virt : va_pages[p][w] # q
  BY <1>3, VMSpaceAssumption, Zenon DEF HeldOnce
<1>6. MemTypeOK'
  BY <1>1, <1>2, <1>3, <1>4, VMSpaceAssumption DEF MemTypeOK
<1>7. \A r \in Process : dying'[r] = IF r = p THEN dying[r] \ {q} ELSE dying[r]
  BY <1>1, Zenon DEF MemTypeOK
<1>8. \A x \in VMPage : Holders(x)' = IF x = q THEN Holders(q) \ {p} ELSE Holders(x)
  <2> SUFFICES ASSUME NEW x \in VMPage
               PROVE  Holders(x)' = IF x = q THEN Holders(q) \ {p} ELSE Holders(x)
    BY Zenon
  <2>1. ASSUME NEW r \in Process
        PROVE  r \in Holders(x)' <=> IF x = q THEN r \in Holders(q) /\ r # p ELSE r \in Holders(x)
    <3>1. /\ r \in Holders(x) <=> x \in dying[r] \/ \E w \in Virt : va_pages[r][w] = x
          /\ r \in Holders(x)' <=> x \in dying'[r] \/ \E w \in Virt : va_pages[r][w] = x
      BY <1>2, HasPage, HasPageNext, Zenon
    <3>2. QED
      BY <1>5, <1>7, <3>1, Zenon
  <2>2. Holders(x)' \subseteq Process /\ Holders(x) \subseteq Process
    BY Zenon DEF Holders
  <2>3. QED
    BY <2>1, <2>2, Zenon
<1>9. AreasInv' /\ HeldOnce'
  <2>1. AreasInv'
    BY <1>2, Zenon DEF AreasInv
  <2>2. \A r \in Process : dying'[r] \subseteq dying[r]
    BY <1>7, Zenon
  <2>3. HeldOnce'
    BY <1>2, <2>2, Zenon DEF HeldOnce
  <2>4. QED
    BY <2>1, <2>3, Zenon
<1>10. CallInv' /\ ForkInv'
  BY <1>2, Zenon DEF CallInv, ForkInv, InFork
<1>11. DeadInv'
  BY <1>2, <1>7, Zenon DEF DeadInv, InFork
<1>12. RefcountsExact'
  <2> SUFFICES ASSUME NEW x \in VMPage
               PROVE  (vp_refcount[x] = Cardinality(Holders(x)) + IF x \in InodePages THEN 1 ELSE 0)'
    BY Zenon DEF RefcountsExact
  <2>1. (x \in InodePages)' <=> x \in InodePages
    BY <1>2, Zenon DEF InodePages
  <2>2. vp_refcount'[x] = IF x = q THEN vp_refcount[q] - 1 ELSE vp_refcount[x]
    BY <1>1, <1>3, Zenon DEF MemTypeOK
  <2>3. CASE x = q
    BY <1>3, <1>8, <2>1, <2>2, <2>3, CountStep, Zenon
  <2>4. CASE x # q
    BY <1>8, <2>1, <2>2, <2>4, CountStep, Zenon
  <2>5. QED
    BY <2>3, <2>4, Zenon
<1>13. promoted' \subseteq VMPage /\ (promoted \cap FreePage = {})'
  BY <1>1, <1>3, <1>4 DEF PromotedAlone, FreePage, MemTypeOK
<1>14. ASSUME NEW r \in Process, NEW a \in vs_areamap[r], NEW w \in Addresses(a)
       PROVE  Current(r, a, w)' /\ Alone(r, a, w)'
  <2>1. w \in Virt
    BY AreaAddresses, Zenon
  <2>2. ASSUME NEW x \in VMPage, x = va_pages[r][w]
        PROVE  (x \in promoted' <=> x \in promoted) /\ (Holders(x) = {r} => Holders(x)' = {r})
    <3>1. x = q => r # p /\ r \in Holders(q)
      BY <1>3, <1>5, <2>1, <2>2, HasPage, Zenon
    <3>2. x = q => vp_refcount[q] # 1
      BY <1>3, <3>1, LastHolder
    <3>3. QED
      BY <1>1, <1>3, <1>8, <2>2, <3>1, <3>2, Zenon
  <2>3. QED
    BY <1>2, <1>13, <2>2, SameAddress, Zenon
<1>15. TranslationsCurrent' /\ PromotedAlone'
  BY <1>2, <1>13, <1>14, EachAddress, Zenon
<1>16. QED
  BY <1>6, <1>9, <1>10, <1>11, <1>12, <1>15, Zenon

-----------------------------------------------------------------------------
\* Replacing the program, exiting and forking

\* A step of a process that is not in a fork, of which only its own areas, pages
\* and call change.
LEMMA CallStep ==
  ASSUME MemInv, NEW p \in live, ~InFork(p), ~InFork(p)', live' = live,
         \A r \in Process \ {p} :
           /\ vs_areamap'[r] = vs_areamap[r] /\ va_pages'[r] = va_pages[r]
           /\ pte'[r] = pte[r] /\ dying'[r] = dying[r] /\ todo'[r] = todo[r],
         todo'[p] # None =>
           /\ todo'[p].op = "map" =>
                /\ InFile(todo'[p].va)
                /\ \A a \in vs_areamap'[p] : Addresses(a) \cap Addresses(todo'[p].va) = {}
           /\ todo'[p].op = "exit" => vs_areamap'[p] = {} /\ va_pages'[p] = NoPages
  PROVE  CallInv' /\ ForkInv' /\ DeadInv'
<1> USE DEF MemInv
<1>0. p \in Process
  BY Zenon DEF MemTypeOK
<1>1. CallInv'
  <2> SUFFICES ASSUME NEW r \in Process, todo'[r] # None
               PROVE  /\ r \in live'
                      /\ todo'[r].op = "map" =>
                           /\ InFile(todo'[r].va)
                           /\ \A a \in vs_areamap'[r] : Addresses(a) \cap Addresses(todo'[r].va) = {}
                      /\ todo'[r].op = "exit" => vs_areamap'[r] = {} /\ va_pages'[r] = NoPages
    BY Zenon DEF CallInv
  <2>1. CASE r = p
    BY <2>1, Zenon
  <2>2. CASE r # p
    BY <2>2, Zenon DEF CallInv
  <2>3. QED
    BY <2>1, <2>2, Zenon
<1>2. \A r \in Process : (InFork(r)' <=> InFork(r)) /\ (InFork(r) => r # p /\ todo'[r] = todo[r])
  BY Zenon DEF InFork
<1>3. ForkInv'
  <2> SUFFICES ASSUME NEW r \in Process, InFork(r)
               PROVE  /\ (todo[r].child \notin live)'
                      /\ (vs_areamap[todo[r].child] = vs_areamap[r])'
                      /\ \A v \in Virt : (va_pages[todo[r].child][v] \in {None, va_pages[r][v]})'
                      /\ \A s \in Process : (InFork(s) /\ todo[s].child = todo[r].child)' => s = r
    BY <1>2, Zenon DEF ForkInv
  <2>1. todo'[r] = todo[r] /\ r # p
    BY <1>2, Zenon
  <2>2. todo[r].child \in Process /\ todo[r].child \notin live
    BY ForkChild, Zenon DEF ForkInv
  <2>3. todo[r].child # p
    BY <2>2, Zenon
  <2>4. /\ vs_areamap'[todo[r].child] = vs_areamap[todo[r].child] /\ vs_areamap'[r] = vs_areamap[r]
        /\ va_pages'[todo[r].child] = va_pages[todo[r].child] /\ va_pages'[r] = va_pages[r]
    BY <2>1, <2>2, <2>3, Zenon
  <2>5. \A s \in Process : (InFork(s) /\ todo[s].child = todo[r].child)' => s = r
    BY <1>2, <2>1, Zenon DEF ForkInv
  <2>6. QED
    BY <2>1, <2>2, <2>4, <2>5, Zenon DEF ForkInv
<1>4. DeadInv'
  <2> SUFFICES ASSUME NEW r \in Process \ live
               PROVE  /\ dying'[r] = {}
                      /\ (\A s \in Process : InFork(s)' => todo'[s].child # r) =>
                           vs_areamap'[r] = {} /\ va_pages'[r] = NoPages /\ pte'[r] = NoPages
    BY Zenon DEF DeadInv
  <2>1. r # p
    BY Zenon
  <2>2. (\A s \in Process : InFork(s)' => todo'[s].child # r) =>
          (\A s \in Process : InFork(s) => todo[s].child # r)
    BY <1>2, Zenon
  <2>3. QED
    BY <2>1, <2>2, Zenon DEF DeadInv
<1>5. QED
  BY <1>1, <1>3, <1>4, Zenon

\* A process gives up the pages of some of its addresses: they are its until they
\* are dereferenced.
LEMMA GiveUp ==
  ASSUME MemInv, NEW p \in Process, dying[p] = {}, NEW S,
         \A r \in Process, w \in Virt :
           va_pages'[r][w] = IF r = p /\ w \in S THEN None ELSE va_pages[r][w],
         \A r \in Process \ {p} : dying'[r] = dying[r],
         \A q \in VMPage : q \in dying'[p] <=> \E w \in Virt : w \in S /\ va_pages[p][w] = q,
         UNCHANGED <<vp_refcount, i_pages>>
  PROVE  /\ HeldOnce' /\ RefcountsExact'
         /\ \A q \in VMPage : Holders(q)' = Holders(q)
<1> USE DEF MemInv
<1>1. ASSUME NEW q \in VMPage
      PROVE  Holders(q)' = Holders(q)
  <2>0. q # None
    BY VMSpaceAssumption, Zenon
  <2>1. ASSUME NEW r \in Process
        PROVE  r \in Holders(q)' <=> r \in Holders(q)
    <3>1. /\ r \in Holders(q) <=> q \in dying[r] \/ \E w \in Virt : va_pages[r][w] = q
          /\ r \in Holders(q)' <=> q \in dying'[r] \/ \E w \in Virt : va_pages'[r][w] = q
      BY HasPage, HasPageNext
    <3>2. CASE r = p
      BY <2>0, <3>1, <3>2
    <3>3. CASE r # p
      BY <3>1, <3>3
    <3>4. QED
      BY <3>2, <3>3, Zenon
  <2>2. Holders(q)' \subseteq Process /\ Holders(q) \subseteq Process
    BY Zenon DEF Holders
  <2>3. QED
    BY <2>1, <2>2, Zenon
<1>2. HeldOnce'
  <2>1. ASSUME NEW r \in Process, NEW w \in Virt, va_pages'[r][w] # None,
               NEW u \in Virt, va_pages'[r][u] = va_pages'[r][w]
        PROVE  u = w
    <3>1. va_pages'[r][w] = va_pages[r][w] /\ va_pages'[r][u] = va_pages[r][u]
      BY <2>1
    <3>2. QED
      BY <2>1, <3>1 DEF HeldOnce
  <2>2. ASSUME NEW r \in Process, NEW w \in Virt, va_pages'[r][w] # None
        PROVE  va_pages'[r][w] \notin dying'[r]
    <3>1. va_pages'[r][w] = va_pages[r][w] /\ (r = p => w \notin S)
      BY <2>2
    <3>2. va_pages[r][w] \in VMPage
      BY <2>2, <3>1 DEF MemTypeOK
    <3>3. CASE r = p
      <4>1. \A u \in Virt : u \in S => va_pages[p][u] # va_pages[p][w]
        BY <2>2, <3>1, <3>3 DEF HeldOnce
      <4>2. QED
        BY <3>1, <3>2, <3>3, <4>1, Zenon
    <3>4. CASE r # p
      BY <2>2, <3>1, <3>4, Zenon DEF HeldOnce
    <3>5. QED
      BY <3>3, <3>4, Zenon
  <2>3. QED
    BY <2>1, <2>2 DEF HeldOnce
<1>3. RefcountsExact'
  <2> SUFFICES ASSUME NEW x \in VMPage
               PROVE  (vp_refcount[x] = Cardinality(Holders(x)) + IF x \in InodePages THEN 1 ELSE 0)'
    BY Zenon DEF RefcountsExact
  <2>1. (x \in InodePages)' <=> x \in InodePages
    BY DEF InodePages
  <2>2. QED
    BY <1>1, <2>1, CountStep, Zenon
<1>4. QED
  BY <1>1, <1>2, <1>3, Zenon

\* PrepareForExecute and vmspace_destroy delete all areas.
LEMMA DeleteAreasPreserves ==
  ASSUME MemInv, NEW p \in Process, User(p), DeleteAreas(p),
         \/ UNCHANGED todo
         \/ todo' = [todo EXCEPT ![p] = [op |-> "exit"]]
  PROVE  MemInv'
<1> USE DEF MemInv
<1>1. /\ vs_areamap' = [vs_areamap EXCEPT ![p] = {}]
      /\ va_pages' = [va_pages EXCEPT ![p] = NoPages]
      /\ dying' = [dying EXCEPT ![p] = PagesOf(p)]
      /\ UNCHANGED <<live, pte, vp_refcount, promoted, data, i_pages>>
  BY Zenon DEF DeleteAreas, pagevars
<1>2. p \in live /\ todo[p] = None /\ dying[p] = {}
  BY Zenon DEF User
<1>3. PagesOf(p) \subseteq VMPage /\ \A q \in VMPage : q \in PagesOf(p) <=> \E w \in Virt : va_pages[p][w] = q
  BY VMSpaceAssumption DEF PagesOf, MemTypeOK
<1>4. todo' \in [Process -> Todo] /\ (todo'[p] = None \/ todo'[p] = [op |-> "exit"])
  <2>1. [op |-> "exit"] \in Todo /\ todo \in [Process -> Todo]
    BY Zenon DEF MemTypeOK, Todo
  <2>2. QED
    BY <1>2, <2>1, Zenon
<1>5. MemTypeOK'
  BY <1>1, <1>3, <1>4, Zenon DEF MemTypeOK, NoPages
<1>6. /\ vs_areamap'[p] = {} /\ va_pages'[p] = NoPages /\ dying'[p] = PagesOf(p)
      /\ \A r \in Process \ {p} :
           /\ vs_areamap'[r] = vs_areamap[r] /\ va_pages'[r] = va_pages[r]
           /\ pte'[r] = pte[r] /\ dying'[r] = dying[r] /\ todo'[r] = todo[r]
  BY <1>1, Zenon DEF MemTypeOK
<1>7. CallInv' /\ ForkInv' /\ DeadInv'
  <2>1. ~InFork(p) /\ ~InFork(p)'
    BY <1>2, <1>4 DEF InFork
  <2>2. todo'[p] # None => todo'[p].op = "exit"
    BY <1>4
  <2>3. QED
    BY <1>1, <1>2, <1>6, <2>1, <2>2, CallStep, Zenon
<1>8. \A r \in Process, w \in Virt :
        va_pages'[r][w] = IF r = p /\ w \in Virt THEN None ELSE va_pages[r][w]
  BY <1>6 DEF NoPages
<1>9. HeldOnce' /\ RefcountsExact' /\ \A q \in VMPage : Holders(q)' = Holders(q)
  BY <1>1, <1>2, <1>3, <1>6, <1>8, GiveUp
<1>10. AreasInv'
  <2>1. \A w \in Virt : va_pages'[p][w] = None
    BY <1>8, Zenon
  <2>2. QED
    BY <1>6, <2>1 DEF AreasInv
<1>11. ASSUME NEW r \in Process, NEW a \in vs_areamap'[r], NEW w \in Addresses(a)
       PROVE  Current(r, a, w)' /\ Alone(r, a, w)'
  <2>1. r # p /\ a \in vs_areamap[r]
    BY <1>6, Zenon
  <2>2. va_pages'[r][w] = va_pages[r][w] /\ pte'[r][w] = pte[r][w]
    BY <1>6, <2>1, Zenon
  <2>3. promoted' \subseteq VMPage
    BY <1>5, Zenon DEF MemTypeOK
  <2>4. QED
    BY <1>1, <1>9, <2>1, <2>2, <2>3, SameAddress, Zenon
<1>12. TranslationsCurrent' /\ PromotedAlone'
  <2>1. (promoted \cap FreePage = {})'
    BY <1>1, Zenon DEF PromotedAlone, FreePage
  <2>2. QED
    BY <1>11, <2>1, EachAddress, Zenon
<1>13. QED
  BY <1>5, <1>7, <1>9, <1>10, <1>12, Zenon

\* ... and is gone when none is left.
LEMMA DestroyEndPreserves ==
  ASSUME MemInv, NEW p \in Process, DestroyEnd(p)
  PROVE  MemInv'
<1> USE DEF MemInv
<1>1. /\ todo[p] # None /\ todo[p].op = "exit" /\ dying[p] = {}
      /\ live' = live \ {p}
      /\ pte' = [pte EXCEPT ![p] = NoPages]
      /\ todo' = [todo EXCEPT ![p] = None]
      /\ UNCHANGED <<vs_areamap, va_pages, dying, vp_refcount, promoted, data, i_pages>>
  BY Zenon DEF DestroyEnd, pagevars
<1>2. vs_areamap[p] = {} /\ va_pages[p] = NoPages /\ p \in live
  BY <1>1, Zenon DEF CallInv
<1>3. MemTypeOK'
  BY <1>1, Zenon DEF MemTypeOK, NoPages, Todo
<1>4. \A r \in Process \ {p} : pte'[r] = pte[r] /\ todo'[r] = todo[r]
  BY <1>1, Zenon DEF MemTypeOK
<1>5. pte'[p] = NoPages /\ todo'[p] = None
  BY <1>1, Zenon DEF MemTypeOK
<1>6. AreasInv' /\ HeldOnce'
  BY <1>1 DEF AreasInv, HeldOnce
<1>7. CallInv'
  BY <1>1, <1>4, <1>5, Zenon DEF CallInv
<1>8. \A r \in Process : (InFork(r)' <=> InFork(r)) /\ (InFork(r) => r # p /\ todo'[r] = todo[r])
  BY <1>1, <1>4, <1>5, Zenon DEF InFork
<1>9. ForkInv'
  <2> SUFFICES ASSUME NEW r \in Process, InFork(r)
               PROVE  /\ (todo[r].child \notin live)'
                      /\ (vs_areamap[todo[r].child] = vs_areamap[r])'
                      /\ \A v \in Virt : (va_pages[todo[r].child][v] \in {None, va_pages[r][v]})'
                      /\ \A s \in Process : (InFork(s) /\ todo[s].child = todo[r].child)' => s = r
    BY <1>8, Zenon DEF ForkInv
  <2>1. todo'[r] = todo[r]
    BY <1>8, Zenon
  <2>2. \A s \in Process : (InFork(s) /\ todo[s].child = todo[r].child)' => s = r
    BY <1>8, <2>1, Zenon DEF ForkInv
  <2>3. QED
    BY <1>1, <2>1, <2>2 DEF ForkInv
<1>10. DeadInv'
  <2> SUFFICES ASSUME NEW r \in Process \ live'
               PROVE  /\ dying'[r] = {}
                      /\ (\A s \in Process : InFork(s)' => todo'[s].child # r) =>
                           vs_areamap'[r] = {} /\ va_pages'[r] = NoPages /\ pte'[r] = NoPages
    BY Zenon DEF DeadInv
  <2>1. CASE r = p
    BY <1>1, <1>2, <1>5, <2>1, Zenon
  <2>2. CASE r # p
    <3>1. r \in Process \ live
      BY <1>1, <2>2, Zenon
    <3>2. (\A s \in Process : InFork(s)' => todo'[s].child # r) =>
            (\A s \in Process : InFork(s) => todo[s].child # r)
      BY <1>8, Zenon
    <3>3. QED
      BY <1>1, <1>4, <2>2, <3>1, <3>2, Zenon DEF DeadInv
  <2>3. QED
    BY <2>1, <2>2, Zenon
<1>11. RefcountsExact' /\ \A q \in VMPage : Holders(q)' = Holders(q)
  BY <1>1 DEF RefcountsExact, Holders, PagesOf, InodePages
<1>12. ASSUME NEW r \in Process, NEW a \in vs_areamap'[r], NEW w \in Addresses(a)
       PROVE  Current(r, a, w)' /\ Alone(r, a, w)'
  <2>1. r # p /\ a \in vs_areamap[r]
    BY <1>1, <1>2, Zenon
  <2>2. va_pages'[r][w] = va_pages[r][w] /\ pte'[r][w] = pte[r][w]
    BY <1>1, <1>4, <2>1, Zenon
  <2>3. promoted' \subseteq VMPage
    BY <1>3, Zenon DEF MemTypeOK
  <2>4. QED
    BY <1>1, <1>11, <2>1, <2>2, <2>3, SameAddress, Zenon
<1>13. TranslationsCurrent' /\ PromotedAlone'
  <2>1. (promoted \cap FreePage = {})'
    BY <1>1, Zenon DEF PromotedAlone, FreePage
  <2>2. QED
    BY <1>12, <2>1, EachAddress, Zenon
<1>14. QED
  BY <1>3, <1>6, <1>7, <1>9, <1>10, <1>11, <1>13, Zenon

\* Fork makes the areas of the child, which has nothing before ...
LEMMA ClonePreserves ==
  ASSUME MemInv, NEW p \in Process, NEW child \in Process, Clone(p, child)
  PROVE  MemInv'
<1> USE DEF MemInv
<1>1. /\ p \in live /\ todo[p] = None /\ dying[p] = {} /\ child \notin live
      /\ todo' = [todo EXCEPT ![p] = [op |-> "fork", child |-> child]]
      /\ vs_areamap' = [vs_areamap EXCEPT ![child] = vs_areamap[p]]
      /\ UNCHANGED <<live, va_pages, dying, pte, vp_refcount, promoted, data, i_pages>>
  BY Zenon DEF Clone, User, pagevars
<1>2. \A r \in Process : InFork(r) => todo[r].child # child
  <2> SUFFICES ASSUME NEW r \in Process, InFork(r), todo[r].child = child
               PROVE  FALSE
    BY Zenon
  <2>1. todo[r] = [op |-> "fork", child |-> child]
    BY ForkChild, Zenon
  <2>2. QED
    BY <2>1, Zenon DEF Clone
<1>3. vs_areamap[child] = {} /\ va_pages[child] = NoPages /\ pte[child] = NoPages
  BY <1>1, <1>2, Zenon DEF DeadInv
<1>4. MemTypeOK'
  <2>1. [op |-> "fork", child |-> child] \in Todo
    BY Zenon DEF Todo
  <2>2. todo' \in [Process -> Todo]
    BY <1>1, <2>1, Zenon DEF MemTypeOK
  <2>3. vs_areamap' \in [Process -> SUBSET Area]
    BY <1>1, Zenon DEF MemTypeOK
  <2>4. QED
    BY <1>1, <2>2, <2>3, Zenon DEF MemTypeOK
<1>5. /\ p # child
      /\ vs_areamap'[child] = vs_areamap[p]
      /\ \A r \in Process \ {child} : vs_areamap'[r] = vs_areamap[r]
  BY <1>1, Zenon DEF MemTypeOK
<1>6. /\ todo'[p] = [op |-> "fork", child |-> child]
      /\ \A r \in Process \ {p} : todo'[r] = todo[r]
  BY <1>1, Zenon DEF MemTypeOK
<1>7. todo'[p] # None /\ todo'[p].op = "fork" /\ todo'[p].child = child
  BY <1>6, VMSpaceAssumption
<1>8. CallInv'
  <2>1. \A r \in Process : todo[r] # None => r # child
    BY <1>1, Zenon DEF CallInv
  <2>2. \A r \in Process : todo[r] # None => r # p
    BY <1>1, Zenon
  <2>3. QED
    BY <1>1, <1>5, <1>6, <1>7, <2>1, <2>2 DEF CallInv
<1>9. \A r \in Process :
        /\ InFork(r)' <=> (r = p \/ InFork(r))
        /\ InFork(r) => r # p /\ r # child /\ todo'[r] = todo[r]
  BY <1>1, <1>6, <1>7, Zenon DEF InFork, CallInv
<1>10. ForkInv'
  <2> SUFFICES ASSUME NEW r \in Process, InFork(r)'
               PROVE  /\ (todo[r].child \notin live)'
                      /\ (vs_areamap[todo[r].child] = vs_areamap[r])'
                      /\ \A v \in Virt : (va_pages[todo[r].child][v] \in {None, va_pages[r][v]})'
                      /\ \A s \in Process : (InFork(s) /\ todo[s].child = todo[r].child)' => s = r
    BY Zenon DEF ForkInv
  <2>1. CASE r = p
    <3>1. todo'[r].child = child
      BY <1>7, <2>1, Zenon
    <3>2. \A v \in Virt : va_pages'[child][v] = None
      BY <1>1, <1>3, Zenon DEF NoPages
    <3>3. \A s \in Process : (InFork(s) /\ todo[s].child = todo[r].child)' => s = r
      BY <1>2, <1>9, <2>1, <3>1, SMTT(20)
    <3>4. QED
      BY <1>1, <1>5, <2>1, <3>1, <3>2, <3>3
  <2>2. CASE r # p
    <3>1. InFork(r) /\ todo'[r] = todo[r] /\ r # child
      BY <1>9, <2>2, Zenon
    <3>2. todo[r].child \in Process /\ todo[r].child # child
      BY <1>2, <3>1, ForkChild, Zenon
    <3>3. \A s \in Process : (InFork(s) /\ todo[s].child = todo[r].child)' => s = r
      BY <1>7, <1>9, <3>1, <3>2 DEF ForkInv
    <3>4. vs_areamap'[todo[r].child] = vs_areamap[todo[r].child] /\ vs_areamap'[r] = vs_areamap[r]
      BY <1>5, <3>1, <3>2, Zenon
    <3>5. QED
      BY <1>1, <3>1, <3>3, <3>4 DEF ForkInv
  <2>3. QED
    BY <2>1, <2>2, Zenon
<1>11. DeadInv'
  <2> SUFFICES ASSUME NEW r \in Process \ live
               PROVE  /\ dying'[r] = {}
                      /\ (\A s \in Process : InFork(s)' => todo'[s].child # r) =>
                           vs_areamap'[r] = {} /\ va_pages'[r] = NoPages /\ pte'[r] = NoPages
    BY <1>1, Zenon DEF DeadInv
  <2>1. (\A s \in Process : InFork(s)' => todo'[s].child # r) =>
          r # child /\ (\A s \in Process : InFork(s) => todo[s].child # r)
    BY <1>7, <1>9, Zenon
  <2>2. QED
    BY <1>1, <1>5, <2>1, Zenon DEF DeadInv
<1>12. AreasInv'
  <2> SUFFICES ASSUME NEW r \in Process
               PROVE  /\ \A a \in vs_areamap'[r] : InFile(a)
                      /\ \A a, b \in vs_areamap'[r] : Addresses(a) \cap Addresses(b) # {} => a = b
                      /\ \A v \in Virt : va_pages'[r][v] # None => \E a \in vs_areamap'[r] : v \in Addresses(a)
    BY Zenon DEF AreasInv
  <2>1. CASE r = child
    <3>1. \A v \in Virt : va_pages'[r][v] = None
      BY <1>1, <1>3, <2>1, Zenon DEF NoPages
    <3>2. QED
      BY <1>5, <2>1, <3>1, Zenon DEF AreasInv
  <2>2. CASE r # child
    BY <1>1, <1>5, <2>2, Zenon DEF AreasInv
  <2>3. QED
    BY <2>1, <2>2, Zenon
<1>13. HeldOnce' /\ RefcountsExact' /\ \A q \in VMPage : Holders(q)' = Holders(q)
  BY <1>1 DEF HeldOnce, RefcountsExact, Holders, PagesOf, InodePages
<1>14. promoted' \subseteq VMPage /\ (promoted \cap FreePage = {})'
  BY <1>1, Zenon DEF PromotedAlone, FreePage, MemTypeOK
<1>15. ASSUME NEW r \in Process, NEW a \in vs_areamap'[r], NEW w \in Addresses(a)
       PROVE  Current(r, a, w)' /\ Alone(r, a, w)'
  <2>1. CASE r = child
    <3>1. a \in vs_areamap[p]
      BY <1>5, <2>1, Zenon
    <3>2. w \in Virt
      BY <3>1, AreaAddresses, Zenon
    <3>3. va_pages'[r][w] = None /\ pte'[r][w] = None
      BY <1>1, <1>3, <2>1, <3>2, Zenon DEF NoPages
    <3>4. None \notin promoted'
      BY <1>14, VMSpaceAssumption, Zenon
    <3>5. QED
      BY <3>3, <3>4, Zenon DEF Current, Alone
  <2>2. CASE r # child
    <3>1. a \in vs_areamap[r]
      BY <1>5, <2>2, Zenon
    <3>2. QED
      BY <1>1, <1>13, <1>14, <3>1, SameAddress, Zenon
  <2>3. QED
    BY <2>1, <2>2, Zenon
<1>16. TranslationsCurrent' /\ PromotedAlone'
  BY <1>14, <1>15, EachAddress, Zenon
<1>17. QED
  BY <1>4, <1>8, <1>10, <1>11, <1>12, <1>13, <1>16, Zenon

\* ... and ends when the child has every page.
LEMMA CloneEndPreserves ==
  ASSUME MemInv, NEW p \in Process, CloneEnd(p)
  PROVE  MemInv'
<1> USE DEF MemInv
<1>0. PICK child : child = todo[p].child
  BY Zenon
<1>1. /\ InFork(p)
      /\ live' = live \cup {child}
      /\ todo' = [todo EXCEPT ![p] = None]
      /\ UNCHANGED <<vs_areamap, va_pages, dying, pte, vp_refcount, promoted, data, i_pages>>
  BY <1>0, Zenon DEF CloneEnd, pagevars, InFork
<1>2. child \in Process
  BY <1>0, <1>1, ForkChild, Zenon
<1>3. MemTypeOK'
  BY <1>1, <1>2, Zenon DEF MemTypeOK, Todo
<1>4. todo'[p] = None /\ \A r \in Process \ {p} : todo'[r] = todo[r]
  BY <1>1, Zenon DEF MemTypeOK
<1>5. CallInv'
  BY <1>1, <1>4, Zenon DEF CallInv
<1>6. \A r \in Process : InFork(r)' <=> r # p /\ InFork(r)
  BY <1>4, Zenon DEF InFork
<1>7. ForkInv'
  <2> SUFFICES ASSUME NEW r \in Process, r # p, InFork(r)
               PROVE  /\ (todo[r].child \notin live)'
                      /\ (vs_areamap[todo[r].child] = vs_areamap[r])'
                      /\ \A v \in Virt : (va_pages[todo[r].child][v] \in {None, va_pages[r][v]})'
                      /\ \A s \in Process : (InFork(s) /\ todo[s].child = todo[r].child)' => s = r
    BY <1>6, Zenon DEF ForkInv
  <2>1. todo'[r] = todo[r] /\ todo[r].child # child
    BY <1>0, <1>1, <1>4, Zenon DEF ForkInv
  <2>2. \A s \in Process : (InFork(s) /\ todo[s].child = todo[r].child)' => s = r
    BY <1>4, <1>6, <2>1, Zenon DEF ForkInv
  <2>3. QED
    BY <1>1, <2>1, <2>2 DEF ForkInv
<1>8. DeadInv'
  <2> SUFFICES ASSUME NEW r \in Process \ live'
               PROVE  /\ dying'[r] = {}
                      /\ (\A s \in Process : InFork(s)' => todo'[s].child # r) =>
                           vs_areamap'[r] = {} /\ va_pages'[r] = NoPages /\ pte'[r] = NoPages
    BY Zenon DEF DeadInv
  <2>1. r \in Process \ live /\ r # child
    BY <1>1, Zenon
  <2>2. (\A s \in Process : InFork(s)' => todo'[s].child # r) =>
          (\A s \in Process : InFork(s) => todo[s].child # r)
    BY <1>0, <1>4, <1>6, <2>1, Zenon
  <2>3. QED
    BY <1>1, <2>1, <2>2, Zenon DEF DeadInv
<1>9. AreasInv' /\ HeldOnce' /\ RefcountsExact'
  BY <1>1 DEF AreasInv, HeldOnce, RefcountsExact, Holders, PagesOf, InodePages
<1>10. TranslationsCurrent'
  BY <1>1, Zenon DEF TranslationsCurrent
<1>11. PromotedAlone'
  <2>1. \A q : Holders(q)' = Holders(q)
    BY <1>1, Zenon DEF Holders, PagesOf
  <2>2. FreePage' = FreePage
    BY <1>1, Zenon DEF FreePage
  <2>3. QED
    BY <1>1, <2>1, <2>2, Zenon DEF PromotedAlone
<1>12. QED
  BY <1>3, <1>5, <1>7, <1>8, <1>9, <1>10, <1>11, Zenon

\* Changing one value of a function of functions keeps its type.
LEMMA UpdateType ==
  ASSUME NEW P, NEW V, NEW T, NEW f \in [P -> [V -> T]], NEW a \in P, NEW v \in V, NEW t \in T
  PROVE  [f EXCEPT ![a][v] = t] \in [P -> [V -> T]]
BY Zenon

\* Fork shares one page with the child.  When the page must be copied on write, it
\* is not promoted any more; nobody else has it then.
LEMMA ClonePagePreserves ==
  ASSUME MemInv, NEW p \in Process, ClonePage(p)
  PROVE  MemInv'
<1> USE DEF MemInv
<1>0. PICK child : child = todo[p].child
  BY Zenon
<1>1. InFork(p) /\ UNCHANGED <<live, vs_areamap, dying, todo, data, i_pages>>
  BY Zenon DEF ClonePage, InFork
<1>2. PICK v \in Virt, va \in vs_areamap[p], q \in VMPage :
        /\ q = va_pages[p][v] /\ q # None /\ va_pages[child][v] = None
        /\ v \in Addresses(va)
        /\ vp_refcount' = [vp_refcount EXCEPT ![q] = @ + 1]
        /\ promoted' = IF va.private /\ va.write THEN promoted \ {q} ELSE promoted
        /\ va_pages' = [va_pages EXCEPT ![child][v] = q]
        /\ pte' = [pte EXCEPT ![child][v] = [page |-> q, write |-> va.write /\ q \in promoted'],
                              ![p][v] = SourceTranslation(p, va, v)]
  <2>1. PICK v \in Unshared(p), va \in vs_areamap[p] :
          /\ v \in Addresses(va)
          /\ vp_refcount' = [vp_refcount EXCEPT ![va_pages[p][v]] = @ + 1]
          /\ promoted' = ClonedFlags(va_pages[p][v], va.private /\ va.write)
          /\ va_pages' = [va_pages EXCEPT ![todo[p].child][v] = va_pages[p][v]]
          /\ pte' = [pte EXCEPT ![todo[p].child][v] = Translation(va_pages[p][v], va.write,
                                                                va_pages[p][v] \in promoted'),
                                ![p][v] = SourceTranslation(p, va, v)]
    BY Zenon DEF ClonePage
  <2>2. v \in Virt /\ va_pages[p][v] # None /\ va_pages[child][v] = None
    BY <1>0, Zenon DEF Unshared
  <2>3. promoted' = IF va.private /\ va.write THEN promoted \ {va_pages[p][v]} ELSE promoted
    BY <2>1, Zenon DEF ClonedFlags
  <2>4. pte' = [pte EXCEPT ![child][v] = [page |-> va_pages[p][v],
                                         write |-> va.write /\ va_pages[p][v] \in promoted'],
                          ![p][v] = SourceTranslation(p, va, v)]
    BY <1>0, <2>1, Zenon DEF Translation
  <2>5. v \in Addresses(va) /\ va_pages' = [va_pages EXCEPT ![child][v] = va_pages[p][v]]
    BY <1>0, <2>1, Zenon
  <2>6. vp_refcount' = [vp_refcount EXCEPT ![va_pages[p][v]] = @ + 1]
    BY <2>1, Zenon
  <2>7. va_pages[p][v] \in VMPage
    BY <2>2 DEF MemTypeOK
  <2>8. QED
    BY <2>2, <2>3, <2>4, <2>5, <2>6, <2>7, Zenon
<1>3. /\ child \in Process /\ child \notin live /\ p \in live /\ child # p /\ dying[child] = {}
      /\ vs_areamap[child] = vs_areamap[p]
      /\ \A w \in Virt : va_pages[child][w] \in {None, va_pages[p][w]}
  <2>1. child \in Process /\ child \notin live /\ p \in live
    BY <1>0, <1>1, ForkChild, Zenon DEF ForkInv, CallInv, InFork
  <2>2. dying[child] = {}
    BY <2>1, Zenon DEF DeadInv
  <2>3. /\ vs_areamap[child] = vs_areamap[p]
        /\ \A w \in Virt : va_pages[child][w] \in {None, va_pages[p][w]}
    BY <1>0, <1>1, Zenon DEF ForkInv
  <2>4. QED
    BY <2>1, <2>2, <2>3, Zenon
<1>4. q \in VMPage /\ va.write \in BOOLEAN /\ va.private \in BOOLEAN
  BY <1>2, AreaAddresses, Zenon DEF MemTypeOK
<1>5. /\ \A w \in Virt : va_pages[p][w] = q => w = v
      /\ \A w \in Virt : va_pages[child][w] # q
  BY <1>2, <1>3 DEF HeldOnce
<1>6. p \in Holders(q) /\ child \notin Holders(q)
  BY <1>2, <1>3, <1>4, <1>5, HasPage
<1>7. Current(p, va, v) /\ Alone(p, va, v)
  BY <1>2, Zenon DEF TranslationsCurrent, PromotedAlone, Current, Alone
<1>8. SourceTranslation(p, va, v) = [page |-> q, write |-> va.write /\ q \in promoted']
  <2>1. pte[p][v] = Translation(q, va.write, q \in promoted)
    BY <1>2, <1>7, Zenon DEF Current
  <2>2. CASE va.private /\ va.write /\ q \in promoted
    <3>1. SourceTranslation(p, va, v) = Translation(q, va.write, FALSE)
      BY <1>2, <2>2, Zenon DEF SourceTranslation
    <3>2. q \notin promoted'
      BY <1>2, <2>2, Zenon
    <3>3. QED
      BY <3>1, <3>2, Zenon DEF Translation
  <2>3. CASE ~(va.private /\ va.write /\ q \in promoted)
    <3>1. SourceTranslation(p, va, v) = Translation(q, va.write, q \in promoted)
      BY <1>2, <2>1, <2>3, Zenon DEF SourceTranslation
    <3>2. q \in promoted' <=> q \in promoted
      BY <1>2, <2>3, Zenon
    <3>3. QED
      BY <3>1, <3>2, Zenon DEF Translation
  <2>4. QED
    BY <2>2, <2>3, Zenon
<1>9. PICK t : t = [page |-> q, write |-> va.write /\ q \in promoted']
  BY Zenon
<1>10. t \in [page : VMPage, write : BOOLEAN]
  BY <1>4, <1>9, Zenon
<1>11. MemTypeOK'
  <2>1. va_pages' \in [Process -> [Virt -> VMPage \cup {None}]]
    BY <1>2, <1>3, <1>4, Zenon DEF MemTypeOK
  <2>2. pte' = [pte EXCEPT ![child][v] = t, ![p][v] = t]
    BY <1>2, <1>8, <1>9, Zenon
  <2>3. pte' \in [Process -> [Virt -> [page : VMPage, write : BOOLEAN] \cup {None}]]
    <3> DEFINE T == [page : VMPage, write : BOOLEAN] \cup {None}
    <3>1. pte \in [Process -> [Virt -> T]] /\ t \in T
      BY <1>10, Zenon DEF MemTypeOK
    <3> HIDE DEF T
    <3>2. [pte EXCEPT ![child][v] = t] \in [Process -> [Virt -> T]]
      BY <1>3, <3>1, UpdateType, Zenon
    <3>3. [[pte EXCEPT ![child][v] = t] EXCEPT ![p][v] = t] \in [Process -> [Virt -> T]]
      BY <3>1, <3>2, UpdateType, Zenon
    <3>4. QED
      BY <2>2, <3>3, Zenon DEF T
  <2>4. vp_refcount' \in [VMPage -> Nat] /\ promoted' \subseteq VMPage
    BY <1>2, <1>4 DEF MemTypeOK
  <2>5. QED
    BY <1>1, <2>1, <2>3, <2>4, Zenon DEF MemTypeOK
<1>12. \A r \in Process, w \in Virt :
         va_pages'[r][w] = IF r = child /\ w = v THEN q ELSE va_pages[r][w]
  BY <1>2, <1>3, Zenon DEF MemTypeOK
<1>13. \A r \in Process, w \in Virt :
         pte'[r][w] = IF (r = child \/ r = p) /\ w = v THEN t ELSE pte[r][w]
  <2>1. pte' = [pte EXCEPT ![child][v] = t, ![p][v] = t]
    BY <1>2, <1>8, <1>9, Zenon
  <2>2. QED
    BY <1>2, <1>3, <2>1, SMTT(20) DEF MemTypeOK
<1>14. \A r \in Process :
         /\ r # child => va_pages'[r] = va_pages[r]
         /\ r # child /\ r # p => pte'[r] = pte[r]
  BY <1>2, <1>3, Zenon DEF MemTypeOK
<1>15. \A x \in VMPage : Holders(x)' = IF x = q THEN Holders(q) \cup {child} ELSE Holders(x)
  <2> SUFFICES ASSUME NEW x \in VMPage
               PROVE  Holders(x)' = IF x = q THEN Holders(q) \cup {child} ELSE Holders(x)
    BY Zenon
  <2>1. ASSUME NEW r \in Process
        PROVE  r \in Holders(x)' <=> IF x = q THEN r \in Holders(q) \/ r = child ELSE r \in Holders(x)
    <3>1. /\ r \in Holders(x) <=> x \in dying[r] \/ \E w \in Virt : va_pages[r][w] = x
          /\ r \in Holders(x)' <=> x \in dying[r] \/ \E w \in Virt : va_pages'[r][w] = x
      BY <1>1, HasPage, HasPageNext, Zenon
    <3>2. CASE r = child
      <4>1. x # None
        BY VMSpaceAssumption, Zenon
      <4>2. QED
        BY <1>2, <1>12, <3>1, <3>2, <4>1
    <3>3. CASE r # child
      BY <1>14, <3>1, <3>3, Zenon
    <3>4. QED
      BY <3>2, <3>3, Zenon
  <2>2. Holders(x)' \subseteq Process /\ Holders(x) \subseteq Process
    BY Zenon DEF Holders
  <2>3. QED
    BY <1>3, <2>1, <2>2, Zenon
<1>16. CallInv'
  BY <1>1, <1>3, <1>14, Zenon DEF CallInv
<1>17. \A r \in Process : (InFork(r)' <=> InFork(r)) /\ (InFork(r) => r # child)
  BY <1>1, <1>3, Zenon DEF InFork, CallInv
<1>18. ForkInv'
  <2> SUFFICES ASSUME NEW r \in Process, InFork(r)
               PROVE  \A w \in Virt : (va_pages[todo[r].child][w] \in {None, va_pages[r][w]})'
    BY <1>1, <1>17, Zenon DEF ForkInv
  <2>1. todo[r].child \in Process /\ va_pages'[r] = va_pages[r]
    BY <1>14, <1>17, ForkChild, ZenonT(20)
  <2>2. CASE r = p
    <3>1. \A w \in Virt : va_pages[child][w] \in {None, va_pages[p][w]}
      BY <1>0, <1>1, Zenon DEF ForkInv
    <3>2. \A w \in Virt : va_pages'[child][w] \in {None, va_pages[p][w]}
      BY <1>2, <1>3, <1>12, <3>1
    <3>3. todo'[r].child = child
      BY <1>0, <1>1, <2>2, Zenon
    <3>4. QED
      BY <2>1, <2>2, <3>2, <3>3, Zenon
  <2>3. CASE r # p
    <3>1. todo[r].child # child
      BY <1>0, <1>1, <2>3, Zenon DEF ForkInv
    <3>2. va_pages'[todo[r].child] = va_pages[todo[r].child]
      BY <1>14, <2>1, <3>1, Zenon
    <3>3. QED
      BY <1>1, <2>1, <3>2, Zenon DEF ForkInv
  <2>4. QED
    BY <2>2, <2>3, Zenon
<1>19. DeadInv'
  <2> SUFFICES ASSUME NEW r \in Process \ live
               PROVE  /\ dying'[r] = {}
                      /\ (\A s \in Process : InFork(s)' => todo'[s].child # r) =>
                           vs_areamap'[r] = {} /\ va_pages'[r] = NoPages /\ pte'[r] = NoPages
    BY <1>1, Zenon DEF DeadInv
  <2>1. (\A s \in Process : InFork(s)' => todo'[s].child # r) =>
          r # child /\ (\A s \in Process : InFork(s) => todo[s].child # r)
    BY <1>0, <1>1, <1>17, Zenon
  <2>2. r # p
    BY <1>3, Zenon
  <2>3. QED
    BY <1>1, <1>14, <2>1, <2>2, Zenon DEF DeadInv
<1>20. AreasInv'
  <2>1. ASSUME NEW r \in Process, NEW w \in Virt, va_pages'[r][w] # None
        PROVE  \E a \in vs_areamap[r] : w \in Addresses(a)
    <3>1. CASE r = child /\ w = v
      BY <1>2, <1>3, <3>1, Zenon
    <3>2. CASE ~(r = child /\ w = v)
      <4>1. va_pages'[r][w] = va_pages[r][w]
        BY <1>12, <3>2, Zenon
      <4>2. QED
        BY <2>1, <4>1, Zenon DEF AreasInv
    <3>3. QED
      BY <3>1, <3>2, Zenon
  <2>2. QED
    BY <1>1, <2>1, Zenon DEF AreasInv
<1>21. HeldOnce'
  <2>1. ASSUME NEW r \in Process, NEW w \in Virt, va_pages'[r][w] # None,
               NEW u \in Virt, va_pages'[r][u] = va_pages'[r][w]
        PROVE  u = w
    <3>1. CASE r = child
      <4>1. /\ va_pages'[r][w] = q => w = v
            /\ va_pages'[r][u] = q => u = v
        BY <1>5, <1>12, <3>1, Zenon
      <4>2. CASE va_pages'[r][w] = q
        BY <2>1, <4>1, <4>2, Zenon
      <4>3. CASE va_pages'[r][w] # q
        <5>1. va_pages'[r][w] = va_pages[r][w] /\ va_pages'[r][u] = va_pages[r][u]
          BY <1>12, <2>1, <4>3, Zenon
        <5>2. QED
          BY <2>1, <5>1, Zenon DEF HeldOnce
      <4>4. QED
        BY <4>2, <4>3, Zenon
    <3>2. CASE r # child
      BY <1>14, <2>1, <3>2 DEF HeldOnce
    <3>3. QED
      BY <3>1, <3>2, Zenon
  <2>2. ASSUME NEW r \in Process, NEW w \in Virt, va_pages'[r][w] # None
        PROVE  va_pages'[r][w] \notin dying[r]
    <3>1. CASE r = child
      BY <1>3, <3>1, Zenon
    <3>2. CASE r # child
      BY <1>14, <2>2, <3>2, Zenon DEF HeldOnce
    <3>3. QED
      BY <3>1, <3>2, Zenon
  <2>3. QED
    BY <1>1, <2>1, <2>2, Zenon DEF HeldOnce
<1>22. \A x \in VMPage : vp_refcount'[x] = IF x = q THEN vp_refcount[q] + 1 ELSE vp_refcount[x]
  BY <1>2, <1>4, Zenon DEF MemTypeOK
<1>23. RefcountsExact'
  <2> SUFFICES ASSUME NEW x \in VMPage
               PROVE  (vp_refcount[x] = Cardinality(Holders(x)) + IF x \in InodePages THEN 1 ELSE 0)'
    BY Zenon DEF RefcountsExact
  <2>1. (x \in InodePages)' <=> x \in InodePages
    BY <1>1, Zenon DEF InodePages
  <2>2. CASE x = q
    BY <1>3, <1>6, <1>15, <1>22, <2>1, <2>2, CountStep, Zenon
  <2>3. CASE x # q
    BY <1>15, <1>22, <2>1, <2>3, CountStep, Zenon
  <2>4. QED
    BY <2>2, <2>3, Zenon
<1>24. promoted' \subseteq VMPage /\ (promoted \cap FreePage = {})'
  <2>1. promoted' \subseteq promoted /\ promoted \subseteq VMPage
    BY <1>2, Zenon DEF MemTypeOK
  <2>2. vp_refcount[q] \in Nat
    BY <1>4, Zenon DEF MemTypeOK
  <2>3. QED
    BY <1>22, <2>1, <2>2 DEF PromotedAlone, FreePage
<1>25. ASSUME NEW r \in Process, NEW a \in vs_areamap[r], NEW w \in Addresses(a)
       PROVE  Current(r, a, w)' /\ Alone(r, a, w)'
  <2>1. w \in Virt
    BY AreaAddresses, Zenon
  <2>2. CASE (r = child \/ r = p) /\ w = v
    <3>1. a = va
      BY <1>2, <1>3, <2>2, SameArea, Zenon
    <3>2. va_pages'[r][w] = q /\ pte'[r][w] = [page |-> q, write |-> a.write /\ q \in promoted']
      <4>1. va_pages'[r][w] = q
        BY <1>2, <1>3, <1>12, <2>2
      <4>2. pte'[r][w] = t
        BY <1>13, <2>1, <2>2, Zenon
      <4>3. QED
        BY <1>9, <3>1, <4>1, <4>2, Zenon
    <3>3. a.private /\ a.write => q \notin promoted'
      BY <1>2, <3>1, Zenon
    <3>4. Current(r, a, w)'
      BY <1>2, <3>2, Zenon DEF Current, Translation
    <3>5. Alone(r, a, w)'
      BY <3>2, <3>3, Zenon DEF Alone
    <3>6. QED
      BY <3>4, <3>5, Zenon
  <2>3. CASE ~((r = child \/ r = p) /\ w = v)
    <3>1. va_pages'[r][w] = va_pages[r][w] /\ pte'[r][w] = pte[r][w]
      BY <1>12, <1>13, <2>1, <2>3, Zenon
    <3>2. ASSUME NEW x \in VMPage, x = va_pages[r][w]
          PROVE  (x \in promoted' <=> x \in promoted) /\ (Holders(x) = {r} => Holders(x)' = {r})
      <4>1. CASE x # q
        BY <1>2, <1>15, <4>1, Zenon
      <4>2. CASE x = q
        <5>1. r # p /\ r # child /\ r \in Holders(q)
          BY <1>4, <1>5, <2>1, <2>3, <3>2, <4>2, HasPage, Zenon
        <5>2. Holders(q) # {p} /\ Holders(q) # {r}
          BY <1>6, <5>1, Zenon
        <5>3. ~(va.private /\ va.write /\ q \in promoted)
          BY <1>2, <1>7, <5>2, Zenon DEF Alone
        <5>4. QED
          BY <1>2, <4>2, <5>2, <5>3, Zenon
      <4>3. QED
        BY <4>1, <4>2, Zenon
    <3>3. QED
      BY <1>24, <3>1, <3>2, SameAddress, Zenon
  <2>4. QED
    BY <2>2, <2>3, Zenon
<1>26. TranslationsCurrent' /\ PromotedAlone'
  BY <1>1, <1>24, <1>25, EachAddress, Zenon
<1>27. QED
  BY <1>11, <1>16, <1>18, <1>19, <1>20, <1>21, <1>23, <1>26, Zenon

-----------------------------------------------------------------------------
(* mmap, exec and the theorems.                                            *)

\* The area that a process is mapping.
LEMMA MapArea ==
  ASSUME MemTypeOK, NEW p \in Process, todo[p] # None, todo[p].op = "map"
  PROVE  todo[p].va \in Area /\ Addresses(todo[p].va) \subseteq Virt
<1>1. todo[p].va \in Area
  BY Zenon DEF MemTypeOK, Todo
<1>2. QED
  BY <1>1, VMSpaceAssumption DEF Area, Addresses, Virt

\* Map adds an area that overlaps no other one.
LEMMA MapEndPreserves ==
  ASSUME MemInv, NEW p \in Process, MapEnd(p)
  PROVE  MemInv'
<1> USE DEF MemInv
<1>0. PICK va : va = todo[p].va
  BY Zenon
<1>1. /\ todo[p] # None /\ todo[p].op = "map" /\ dying[p] = {}
      /\ vs_areamap' = [vs_areamap EXCEPT ![p] = @ \cup {va}]
      /\ pte' = [pte EXCEPT ![p] = [v \in Virt |-> IF v \in Addresses(va) THEN None ELSE @[v]]]
      /\ todo' = [todo EXCEPT ![p] = None]
      /\ UNCHANGED <<live, va_pages, dying, vp_refcount, promoted, data, i_pages>>
  BY <1>0, Zenon DEF MapEnd, pagevars
<1>2. va \in Area /\ Addresses(va) \subseteq Virt
  BY <1>0, <1>1, MapArea, Zenon
<1>3. p \in live /\ InFile(va) /\ \A a \in vs_areamap[p] : Addresses(a) \cap Addresses(va) = {}
  BY <1>0, <1>1, Zenon DEF CallInv
<1>4. MemTypeOK'
  <2>1. vs_areamap' \in [Process -> SUBSET Area]
    BY <1>1, <1>2, Zenon DEF MemTypeOK
  <2>2. pte' \in [Process -> [Virt -> [page : VMPage, write : BOOLEAN] \cup {None}]]
    BY <1>1 DEF MemTypeOK
  <2>3. todo' \in [Process -> Todo]
    BY <1>1, Zenon DEF MemTypeOK, Todo
  <2>4. QED
    BY <1>1, <2>1, <2>2, <2>3, Zenon DEF MemTypeOK
<1>5. /\ vs_areamap'[p] = vs_areamap[p] \cup {va} /\ todo'[p] = None
      /\ \A w \in Virt : pte'[p][w] = IF w \in Addresses(va) THEN None ELSE pte[p][w]
      /\ \A r \in Process \ {p} :
           vs_areamap'[r] = vs_areamap[r] /\ pte'[r] = pte[r] /\ todo'[r] = todo[r]
  BY <1>1, Zenon DEF MemTypeOK
<1>6. CallInv' /\ ForkInv' /\ DeadInv'
  <2>1. ~InFork(p) /\ ~InFork(p)'
    BY <1>1, <1>5, Zenon DEF InFork
  <2>2. QED
    BY <1>1, <1>3, <1>5, <2>1, CallStep, Zenon
<1>7. \A w \in Addresses(va) : va_pages[p][w] = None
  BY <1>2, <1>3, Zenon DEF AreasInv
<1>8. HeldOnce' /\ RefcountsExact' /\ \A q \in VMPage : Holders(q)' = Holders(q)
  BY <1>1 DEF HeldOnce, RefcountsExact, Holders, PagesOf, InodePages
<1>9. AreasInv'
  <2> SUFFICES ASSUME NEW r \in Process
               PROVE  /\ \A a \in vs_areamap'[r] : InFile(a)
                      /\ \A a, b \in vs_areamap'[r] : Addresses(a) \cap Addresses(b) # {} => a = b
                      /\ \A v \in Virt : va_pages'[r][v] # None => \E a \in vs_areamap'[r] : v \in Addresses(a)
    BY Zenon DEF AreasInv
  <2>1. CASE r = p
    <3>1. \A a \in vs_areamap'[r] : InFile(a)
      BY <1>3, <1>5, <2>1, Zenon DEF AreasInv
    <3>2. \A a, b \in vs_areamap'[r] : Addresses(a) \cap Addresses(b) # {} => a = b
      BY <1>3, <1>5, <2>1, Zenon DEF AreasInv
    <3>3. \A v \in Virt : va_pages'[r][v] # None => \E a \in vs_areamap'[r] : v \in Addresses(a)
      BY <1>1, <1>5, <2>1, Zenon DEF AreasInv
    <3>4. QED
      BY <3>1, <3>2, <3>3, Zenon
  <2>2. CASE r # p
    BY <1>1, <1>5, <2>2, Zenon DEF AreasInv
  <2>3. QED
    BY <2>1, <2>2, Zenon
<1>10. promoted' \subseteq VMPage /\ (promoted \cap FreePage = {})'
  BY <1>1, Zenon DEF PromotedAlone, FreePage, MemTypeOK
<1>11. ASSUME NEW r \in Process, NEW a \in vs_areamap'[r], NEW w \in Addresses(a)
       PROVE  Current(r, a, w)' /\ Alone(r, a, w)'
  <2>1. CASE r = p /\ a = va
    <3>1. va_pages'[r][w] = None /\ pte'[r][w] = None
      BY <1>1, <1>2, <1>5, <1>7, <2>1, Zenon
    <3>2. None \notin promoted'
      BY <1>10, VMSpaceAssumption, Zenon
    <3>3. QED
      BY <3>1, <3>2, Zenon DEF Current, Alone
  <2>2. CASE ~(r = p /\ a = va)
    <3>1. a \in vs_areamap[r]
      BY <1>5, <2>2, Zenon
    <3>2. w \in Virt /\ (r = p => w \notin Addresses(va))
      BY <1>3, <3>1, AreaAddresses, Zenon
    <3>3. va_pages'[r][w] = va_pages[r][w] /\ pte'[r][w] = pte[r][w]
      BY <1>1, <1>5, <3>2, Zenon
    <3>4. QED
      BY <1>1, <1>8, <1>10, <3>1, <3>3, SameAddress, Zenon
  <2>3. QED
    BY <2>1, <2>2, Zenon
<1>12. TranslationsCurrent' /\ PromotedAlone'
  BY <1>10, <1>11, EachAddress, Zenon
<1>13. QED
  BY <1>4, <1>6, <1>8, <1>9, <1>12, Zenon

\* What sys_vmop_map and the loader ask for is an area within the file.
LEMMA NewAreaOK ==
  ASSUME NEW m \in Mapping
  PROVE  NewArea(m) \in Area /\ InFile(NewArea(m)) /\ NewArea(m).begin < NewArea(m).end
<1>1. /\ m.begin \in 0 .. MaxVirt - 1 /\ m.end \in 1 .. MaxVirt /\ m.begin < m.end
      /\ m.write \in BOOLEAN /\ m.private \in BOOLEAN /\ m.part \in BOOLEAN
      /\ m.offset \in DOMAIN File \cup {None}
  BY VMSpaceAssumption, Zenon DEF Virt
<1>2. DOMAIN File = 0 .. Cardinality(DOMAIN File) - 1 /\ Cardinality(DOMAIN File) \in Nat /\ MaxVirt \in Nat
  BY VMSpaceAssumption, FS_CardinalityType, Zenon
<1>3. PICK n \in Nat : n = Cardinality(DOMAIN File)
  BY <1>2, Zenon
<1>4. PICK e : e = IF m.offset # None /\ m.end - m.begin > n - m.offset THEN m.begin + (n - m.offset)
                   ELSE m.end
  BY Zenon
<1>5. NewArea(m) = [begin |-> m.begin, end |-> e,
                    write |-> m.write, private |-> m.private, part |-> m.part,
                    dentry |-> m.offset # None,
                    doffset |-> IF m.offset # None THEN m.offset ELSE 0,
                    dlength |-> IF m.offset # None THEN m.end - m.begin ELSE 0]
  BY <1>3, <1>4, Zenon DEF NewArea
<1>6. CASE m.offset = None
  <2>1. e = m.end
    BY <1>4, <1>6, Zenon
  <2>2. NewArea(m) = [begin |-> m.begin, end |-> m.end,
                      write |-> m.write, private |-> m.private, part |-> m.part,
                      dentry |-> FALSE, doffset |-> 0, dlength |-> 0]
    BY <1>5, <1>6, <2>1, Zenon
  <2>3. QED
    BY <1>1, <2>2 DEF Area, Virt, InFile
<1>7. CASE m.offset # None
  <2>1. m.offset \in 0 .. n - 1
    BY <1>1, <1>2, <1>3, <1>7, Zenon
  <2>2. e \in 1 .. MaxVirt /\ m.begin < e /\ e - m.begin <= n - m.offset
    <3>1. CASE m.end - m.begin > n - m.offset
      <4>1. e = m.begin + (n - m.offset)
        BY <1>4, <1>7, <3>1, Zenon
      <4>2. /\ m.begin \in Int /\ 0 <= m.begin /\ m.end \in Int /\ m.end <= MaxVirt
            /\ m.offset \in Int /\ m.offset <= n - 1 /\ n \in Int /\ MaxVirt \in Int
        BY <1>1, <1>2, <2>1
      <4>3. e \in Int /\ 1 <= e /\ e <= MaxVirt /\ m.begin < e /\ e - m.begin <= n - m.offset
        BY <3>1, <4>1, <4>2
      <4>4. QED
        BY <4>2, <4>3
    <3>2. CASE ~(m.end - m.begin > n - m.offset)
      <4>1. e = m.end
        BY <1>4, <3>2, Zenon
      <4>2. QED
        BY <1>1, <1>2, <2>1, <3>2, <4>1, SMTT(20)
    <3>3. QED
      BY <3>1, <3>2, Zenon
  <2>3. NewArea(m) \in Area
    BY <1>1, <1>2, <1>5, <1>7, <2>1, <2>2, SMTT(20) DEF Area, Virt
  <2>4. InFile(NewArea(m))
    BY <1>1, <1>3, <1>5, <1>7, <2>1, <2>2 DEF InFile
  <2>5. QED
    BY <1>5, <2>2, <2>3, <2>4
<1>8. QED
  BY <1>6, <1>7, Zenon

\* FreeRange leaves of an area what is in front of the gap and behind it.
LEMMA PiecesOK ==
  ASSUME NEW old \in Area, NEW begin \in Int, NEW end \in Int,
         old.begin <= begin, begin < end, end <= old.end
  PROVE  /\ \A a \in Pieces(old, begin, end) :
              /\ a \in Area /\ (InFile(old) => InFile(a))
              /\ Addresses(a) \subseteq Addresses(old)
              /\ Addresses(a) \cap (begin .. end - 1) = {}
         /\ \A a, b \in Pieces(old, begin, end) : Addresses(a) \cap Addresses(b) # {} => a = b
<1>1. /\ old.begin \in 0 .. MaxVirt - 1 /\ old.end \in 1 .. MaxVirt
      /\ old.doffset \in Int /\ old.dlength \in Int /\ old.dentry \in BOOLEAN /\ MaxVirt \in Nat
  BY VMSpaceAssumption, Zenon DEF Area, Virt
<1>2. \A a \in Pieces(old, begin, end) :
        \/ a = Piece(old, old.begin, begin) /\ old.begin < begin
        \/ a = Piece(old, end, old.end) /\ end < old.end
  BY DEF Pieces
<1>3. ASSUME NEW b \in Int, NEW e \in Int, old.begin <= b, b < e, e <= old.end
      PROVE  LET a == Piece(old, b, e)
             IN a \in Area /\ (InFile(old) => InFile(a)) /\ Addresses(a) = b .. e - 1
  <2>1. b \in Virt /\ e \in 1 .. MaxVirt
    BY <1>1, <1>3 DEF Virt
  <2>2. Piece(old, b, e) \in Area
    <3>1. CASE old.dentry
      <4>1. Piece(old, b, e) =
              [old EXCEPT !.begin = b, !.end = e, !.doffset = old.doffset + (b - old.begin),
                          !.dlength = old.dlength - (b - old.begin)]
        BY <3>1, Zenon DEF Piece
      <4>2. old.doffset + (b - old.begin) \in Int /\ old.dlength - (b - old.begin) \in Int
        BY <1>1
      <4>3. QED
        BY <2>1, <4>1, <4>2, Zenon DEF Area
    <3>2. CASE ~old.dentry
      BY <2>1, <3>2, Zenon DEF Piece, Area
    <3>3. QED
      BY <3>1, <3>2, Zenon
  <2>3. Piece(old, b, e).begin = b /\ Piece(old, b, e).end = e
    BY Zenon DEF Piece, Area
  <2>4. InFile(old) => InFile(Piece(old, b, e))
    <3>1. Piece(old, b, e).dentry = old.dentry
      BY Zenon DEF Piece, Area
    <3>2. old.dentry => Piece(old, b, e).doffset = old.doffset + (b - old.begin)
      BY Zenon DEF Piece, Area
    <3>3. Cardinality(DOMAIN File) \in Nat
      BY VMSpaceAssumption, FS_CardinalityType, Zenon
    <3>4. QED
      BY <1>1, <1>3, <2>3, <3>1, <3>2, <3>3 DEF InFile
  <2>5. QED
    BY <2>2, <2>3, <2>4, Zenon DEF Addresses
<1>4. Addresses(old) = old.begin .. old.end - 1
  BY Zenon DEF Addresses
<1>5. old.begin < begin =>
        LET a == Piece(old, old.begin, begin)
        IN a \in Area /\ (InFile(old) => InFile(a)) /\ Addresses(a) = old.begin .. begin - 1
  BY <1>1, <1>3
<1>6. end < old.end =>
        LET a == Piece(old, end, old.end)
        IN a \in Area /\ (InFile(old) => InFile(a)) /\ Addresses(a) = end .. old.end - 1
  BY <1>1, <1>3
<1>7. \A a \in Pieces(old, begin, end) :
        /\ a \in Area /\ (InFile(old) => InFile(a))
        /\ Addresses(a) \subseteq Addresses(old)
        /\ Addresses(a) \cap (begin .. end - 1) = {}
  <2> SUFFICES ASSUME NEW a \in Pieces(old, begin, end)
               PROVE  /\ a \in Area /\ (InFile(old) => InFile(a))
                      /\ Addresses(a) \subseteq Addresses(old)
                      /\ Addresses(a) \cap (begin .. end - 1) = {}
    BY Zenon
  <2>1. a \in Area /\ (InFile(old) => InFile(a))
    BY <1>2, <1>5, <1>6, Zenon
  <2>2. Addresses(a) = old.begin .. begin - 1 \/ Addresses(a) = end .. old.end - 1
    BY <1>2, <1>5, <1>6, Zenon
  <2>3. Addresses(a) \subseteq Addresses(old) /\ Addresses(a) \cap (begin .. end - 1) = {}
    <3>1. CASE Addresses(a) = old.begin .. begin - 1
      BY <1>1, <1>4, <3>1, SMTT(20)
    <3>2. CASE Addresses(a) = end .. old.end - 1
      BY <1>1, <1>4, <3>2
    <3>3. QED
      BY <2>2, <3>1, <3>2, Zenon
  <2>4. QED
    BY <2>1, <2>3, Zenon
<1>8. ASSUME NEW a \in Pieces(old, begin, end), NEW b \in Pieces(old, begin, end), a # b
      PROVE  Addresses(a) \cap Addresses(b) = {}
  <2>1. (old.begin .. begin - 1) \cap (end .. old.end - 1) = {}
    BY <1>1
  <2>2. CASE a = Piece(old, old.begin, begin) /\ old.begin < begin
    <3>1. b = Piece(old, end, old.end) /\ end < old.end
      BY <1>2, <1>8, <2>2, Zenon
    <3>2. QED
      BY <1>5, <1>6, <2>1, <2>2, <3>1, Zenon
  <2>3. CASE a = Piece(old, end, old.end) /\ end < old.end
    <3>1. b = Piece(old, old.begin, begin) /\ old.begin < begin
      BY <1>2, <1>8, <2>3, Zenon
    <3>2. QED
      BY <1>5, <1>6, <2>1, <2>3, <3>1, Zenon
  <2>4. QED
    BY <1>2, <2>2, <2>3, Zenon
<1>9. QED
  BY <1>7, <1>8, Zenon

\* When the whole area goes, or it has no pages, MigratePagesToNewVA moves none.
LEMMA MigrateOK ==
  ASSUME NEW old \in Area, NEW begin \in Int, NEW end \in Int, NEW pages,
         old.begin <= begin, begin < end, end <= old.end,
         \/ begin = old.begin /\ end = old.end
         \/ \A v \in Addresses(old) : pages[v] = None
  PROVE  \A v \in Virt : MigratePages(pages, old, begin, end)[v] =
                           IF v \in Addresses(old) THEN None ELSE pages[v]
<1> SUFFICES ASSUME NEW v \in Virt
             PROVE  MigratePages(pages, old, begin, end)[v] =
                      IF v \in Addresses(old) THEN None ELSE pages[v]
  BY Zenon
<1>1. /\ old.begin \in 0 .. MaxVirt - 1 /\ old.end \in 1 .. MaxVirt
      /\ v \in Int /\ MaxVirt \in Nat
  BY VMSpaceAssumption DEF Area, Virt
<1>2. Addresses(old) = old.begin .. old.end - 1
  BY Zenon DEF Addresses
<1>3. MigratePages(pages, old, begin, end)[v] =
        CASE v \notin Addresses(old) \/ v < begin -> pages[v]
          [] v \in Addresses(old) /\ v >= end /\ v - (end - old.begin) >= begin ->
               pages[v - (end - old.begin)]
          [] OTHER -> None
  BY Zenon DEF MigratePages
<1>4. CASE v \notin Addresses(old)
  BY <1>3, <1>4, Zenon
<1>5. CASE v \in Addresses(old)
  <2>1. CASE begin = old.begin /\ end = old.end
    <3>1. ~(v < begin) /\ ~(v >= end)
      BY <1>1, <1>2, <1>5, <2>1
    <3>2. QED
      BY <1>3, <1>5, <3>1, Zenon
  <2>2. CASE \A w \in Addresses(old) : pages[w] = None
    <3>1. v - (end - old.begin) >= begin => v - (end - old.begin) \in Addresses(old)
      BY <1>1, <1>2, <1>5, SMTT(20)
    <3>2. QED
      BY <1>1, <1>3, <1>5, <2>2, <3>1, Zenon
  <2>3. QED
    BY <2>1, <2>2, Zenon
<1>6. QED
  BY <1>4, <1>5, Zenon

\* What Map takes out: the one area that overlaps, cut at begin and end.
Cut(p, va, old, begin, end) ==
  /\ Overlapping(p, va) = {old}
  /\ old \in Area /\ InFile(old) /\ Addresses(old) \subseteq Virt
  /\ old.begin <= begin /\ begin < end /\ end <= old.end
  /\ Addresses(old) \cap Addresses(va) \subseteq begin .. end - 1
  /\ \/ begin = old.begin /\ end = old.end
     \/ \A v \in Addresses(old) : va_pages[p][v] = None
  /\ vs_areamap' = [vs_areamap EXCEPT ![p] = (@ \ {old}) \cup Pieces(old, begin, end)]
  /\ va_pages' = [va_pages EXCEPT ![p] = MigratePages(va_pages[p], old, begin, end)]
  /\ dying' = [dying EXCEPT ![p] =
       PagesOf(p) \ {MigratePages(va_pages[p], old, begin, end)[v] : v \in Virt}]

\* Map cuts the area in front of what is mapped and behind it.
LEMMA MapCuts ==
  ASSUME MemInv, ~Splits, NEW p \in Process, NEW va \in Area, va.begin < va.end,
         Mappable(p, va), Map(p, va), Overlapping(p, va) # {}
  PROVE  \E old \in vs_areamap[p], begin \in Int, end \in Int : Cut(p, va, old, begin, end)
<1> DEFINE old == FirstArea(Overlapping(p, va))
           begin == IF va.begin > old.begin THEN va.begin ELSE old.begin
           end == IF va.end < old.end THEN va.end ELSE old.end
           kept == MigratePages(va_pages[p], old, begin, end)
<1>1. /\ old \in vs_areamap[p] /\ Overlapping(p, va) = {old}
      /\ Addresses(old) = Addresses(va) \/ \A v \in Addresses(old) : va_pages[p][v] = None
  <2>1. PICK a \in vs_areamap[p] :
          /\ Overlapping(p, va) = {a}
          /\ Addresses(a) = Addresses(va) \/ \A v \in Addresses(a) : va_pages[p][v] = None
    BY Zenon DEF Mappable
  <2> HIDE DEF old
  <2>2. a.begin <= a.begin
    BY <2>1, VMSpaceAssumption DEF MemInv, MemTypeOK, Area, Virt
  <2>3. a = old
    BY <2>1, <2>2, Zenon DEF old, FirstArea
  <2>4. QED
    BY <2>1, <2>3, Zenon
<1>2. begin = IF va.begin > old.begin THEN va.begin ELSE old.begin
  BY Zenon
<1>3. end = IF va.end < old.end THEN va.end ELSE old.end
  BY Zenon
<1>4. kept = MigratePages(va_pages[p], old, begin, end)
  BY Zenon
<1>5. /\ vs_areamap' = [vs_areamap EXCEPT ![p] = (@ \ {old}) \cup Pieces(old, begin, end)]
      /\ va_pages' = [va_pages EXCEPT ![p] = kept]
      /\ dying' = [dying EXCEPT ![p] = PagesOf(p) \ {kept[v] : v \in Virt}]
  BY Zenon DEF Map
<1> HIDE DEF old, begin, end, kept
<1>6. old \in Area /\ InFile(old) /\ Addresses(old) \subseteq Virt
  BY <1>1, AreaAddresses, Zenon DEF MemInv, AreasInv
<1>7. /\ old.begin \in Int /\ old.end \in Int /\ va.begin \in Int /\ va.end \in Int
      /\ Addresses(old) = old.begin .. old.end - 1 /\ Addresses(va) = va.begin .. va.end - 1
  BY <1>6, VMSpaceAssumption DEF Area, Virt, Addresses
<1>8. Addresses(old) \cap Addresses(va) # {}
  BY <1>1, Zenon DEF Overlapping
<1>9. /\ begin \in Int /\ end \in Int /\ old.begin <= begin /\ begin < end /\ end <= old.end
       /\ Addresses(old) \cap Addresses(va) \subseteq begin .. end - 1
  <2>1. begin \in Int /\ old.begin <= begin /\ va.begin <= begin /\ begin \in {va.begin, old.begin}
    BY <1>2, <1>7
  <2>2. end \in Int /\ end <= old.end /\ end <= va.end /\ end \in {va.end, old.end}
    BY <1>3, <1>7
  <2>3. PICK x \in Int : /\ old.begin <= x /\ x < old.end
                         /\ va.begin <= x /\ x < va.end
    BY <1>7, <1>8
  <2>4. begin < end
    BY <1>7, <2>1, <2>2, <2>3
  <2>5. \A y \in Int : old.begin <= y /\ y <= old.end - 1 /\ va.begin <= y /\ y <= va.end - 1 =>
                         begin <= y /\ y <= end - 1
    BY <1>7, <2>1, <2>2, Zenon
  <2>6. Addresses(old) \cap Addresses(va) \subseteq begin .. end - 1
    BY <1>7, <2>1, <2>2, <2>5
  <2>7. QED
    BY <2>1, <2>2, <2>4, <2>6, Zenon
<1>10. \/ begin = old.begin /\ end = old.end
       \/ \A v \in Addresses(old) : va_pages[p][v] = None
  <2>1. old.begin < old.end
    BY <1>7, <1>9
  <2>2. old.begin \in Addresses(old) /\ old.end - 1 \in Addresses(old)
    BY <1>7, <2>1
  <2>3. va.begin \in Addresses(va) /\ va.end - 1 \in Addresses(va)
    BY <1>7
  <2> SUFFICES ASSUME Addresses(old) = Addresses(va)
               PROVE  begin = old.begin /\ end = old.end
    BY <1>1, Zenon
  <2>4. old.begin \in va.begin .. va.end - 1 /\ old.end - 1 \in va.begin .. va.end - 1
    BY <1>7, <2>2, Zenon
  <2>5. va.begin \in old.begin .. old.end - 1 /\ va.end - 1 \in old.begin .. old.end - 1
    BY <1>7, <2>3, Zenon
  <2>6. old.begin = va.begin /\ old.end = va.end
    BY <1>7, <2>4, <2>5
  <2>7. QED
    BY <1>2, <1>3, <2>6, Zenon
<1> old \in vs_areamap[p] /\ begin \in Int /\ end \in Int
  BY <1>1, <1>9, Zenon
<1>11. /\ va_pages' = [va_pages EXCEPT ![p] = MigratePages(va_pages[p], old, begin, end)]
       /\ dying' = [dying EXCEPT ![p] =
            PagesOf(p) \ {MigratePages(va_pages[p], old, begin, end)[v] : v \in Virt}]
  BY <1>4, <1>5, Zenon
<1> WITNESS old \in vs_areamap[p], begin \in Int, end \in Int
<1>12. QED
  BY <1>1, <1>5, <1>6, <1>9, <1>10, <1>11, Zenon DEF Cut

\* FreeRange deletes what is where a new area goes.
LEMMA MapPreserves ==
  ASSUME MemInv, ~Splits, NEW p \in Process, NEW va \in Area, InFile(va), va.begin < va.end,
         Mappable(p, va), Map(p, va)
  PROVE  MemInv'
<1> USE DEF MemInv
<1>1. /\ p \in live /\ todo[p] = None /\ dying[p] = {}
      /\ todo' = [todo EXCEPT ![p] = [op |-> "map", va |-> va]]
      /\ UNCHANGED <<live, pte, vp_refcount, promoted, data, i_pages>>
  BY Zenon DEF Map, User, pagevars
<1>2. /\ todo' \in [Process -> Todo] /\ todo'[p].op = "map" /\ todo'[p].va = va
      /\ \A r \in Process \ {p} : todo'[r] = todo[r]
  <2>1. [op |-> "map", va |-> va] \in Todo /\ todo \in [Process -> Todo]
    BY Zenon DEF Todo, MemTypeOK
  <2>2. QED
    BY <1>1, <2>1, Zenon
<1>3. ~InFork(p) /\ ~InFork(p)'
  BY <1>1, <1>2, Zenon DEF InFork
<1>4. promoted' \subseteq VMPage /\ (promoted \cap FreePage = {})'
  BY <1>1, Zenon DEF PromotedAlone, FreePage, MemTypeOK
<1>5. CASE Overlapping(p, va) = {}
  <2>1. UNCHANGED <<vs_areamap, va_pages, dying>>
    BY <1>5, Zenon DEF Map
  <2>2. MemTypeOK'
    BY <1>1, <1>2, <2>1, Zenon DEF MemTypeOK
  <2>3. \A a \in vs_areamap[p] : Addresses(a) \cap Addresses(va) = {}
    BY <1>5, Zenon DEF Overlapping
  <2>4. CallInv' /\ ForkInv' /\ DeadInv'
    <3>1. todo'[p] # None =>
            /\ todo'[p].op = "map" =>
                 /\ InFile(todo'[p].va)
                 /\ \A a \in vs_areamap'[p] : Addresses(a) \cap Addresses(todo'[p].va) = {}
            /\ todo'[p].op = "exit" => vs_areamap'[p] = {} /\ va_pages'[p] = NoPages
      BY <1>2, <2>1, <2>3, Zenon
    <3>2. QED
      BY <1>1, <1>2, <1>3, <2>1, <3>1, CallStep, Zenon
  <2>5. AreasInv' /\ HeldOnce'
    BY <2>1, Zenon DEF AreasInv, HeldOnce
  <2>6. RefcountsExact'
    BY <1>1, <2>1, SMTT(20) DEF RefcountsExact, InodePages, Holders, PagesOf
  <2>7. TranslationsCurrent' /\ PromotedAlone'
    BY <1>1, <2>1 DEF TranslationsCurrent, PromotedAlone, FreePage, Holders, PagesOf
  <2>8. QED
    BY <2>2, <2>4, <2>5, <2>6, <2>7, Zenon
<1>6. CASE Overlapping(p, va) # {}
  <2>1. PICK old \in vs_areamap[p], begin \in Int, end \in Int :
          Cut(p, va, old, begin, end)
    BY <1>6, MapCuts, Zenon
  <2> USE DEF Cut
  <2>5. PICK kept : kept = MigratePages(va_pages[p], old, begin, end)
    BY Zenon
  <2>6. /\ vs_areamap' = [vs_areamap EXCEPT ![p] = (@ \ {old}) \cup Pieces(old, begin, end)]
        /\ va_pages' = [va_pages EXCEPT ![p] = kept]
        /\ dying' = [dying EXCEPT ![p] = PagesOf(p) \ {kept[v] : v \in Virt}]
    BY <2>1, <2>5, Zenon
  <2>7. old \in Area /\ InFile(old) /\ Addresses(old) \subseteq Virt
    BY <2>1, Zenon
  <2>8. /\ old.begin \in Int /\ old.end \in Int /\ va.begin \in Int /\ va.end \in Int
        /\ Addresses(old) = old.begin .. old.end - 1 /\ Addresses(va) = va.begin .. va.end - 1
    BY <2>7, VMSpaceAssumption DEF Area, Virt, Addresses
  <2>10. /\ old.begin <= begin /\ begin < end /\ end <= old.end
         /\ Addresses(old) \cap Addresses(va) \subseteq begin .. end - 1
    BY <2>1, Zenon
  <2>11. \/ begin = old.begin /\ end = old.end
         \/ \A v \in Addresses(old) : va_pages[p][v] = None
    BY <2>1, Zenon
  <2>12. \A v \in Virt : kept[v] = IF v \in Addresses(old) THEN None ELSE va_pages[p][v]
    BY <2>5, <2>7, <2>10, <2>11, MigrateOK
  <2>13. kept \in [Virt -> VMPage \cup {None}]
    <3>1. kept = [v \in Virt |-> kept[v]]
      BY <2>5 DEF MigratePages
    <3>2. \A v \in Virt : va_pages[p][v] \in VMPage \cup {None}
      BY DEF MemTypeOK
    <3>3. \A v \in Virt : kept[v] \in VMPage \cup {None}
      BY <2>12, <3>2, Zenon
    <3>4. QED
      BY <3>1, <3>3, Zenon
  <2>14. PICK P : P = Pieces(old, begin, end)
    BY Zenon
  <2>15. \A a \in P : /\ a \in Area /\ InFile(a) /\ Addresses(a) \subseteq Addresses(old)
                      /\ Addresses(a) \cap (begin .. end - 1) = {}
    BY <2>7, <2>10, <2>14, PiecesOK, Zenon
  <2>16. \A a, b \in P : Addresses(a) \cap Addresses(b) # {} => a = b
    BY <2>7, <2>10, <2>14, PiecesOK, Zenon
  <2>17. PagesOf(p) \subseteq VMPage
    BY SMTT(20) DEF PagesOf, MemTypeOK
  <2>18. MemTypeOK'
    <3>1. vs_areamap' \in [Process -> SUBSET Area]
      BY <2>6, <2>14, <2>15, Zenon DEF MemTypeOK
    <3>2. va_pages' \in [Process -> [Virt -> VMPage \cup {None}]]
      BY <2>6, <2>13, Zenon DEF MemTypeOK
    <3>3. dying' \in [Process -> SUBSET VMPage]
      BY <2>6, <2>17, Zenon DEF MemTypeOK
    <3>4. QED
      BY <1>1, <1>2, <3>1, <3>2, <3>3, SMTT(20) DEF MemTypeOK
  <2>19. /\ vs_areamap'[p] = (vs_areamap[p] \ {old}) \cup P
         /\ va_pages'[p] = kept /\ dying'[p] = PagesOf(p) \ {kept[v] : v \in Virt}
         /\ \A r \in Process \ {p} :
              vs_areamap'[r] = vs_areamap[r] /\ va_pages'[r] = va_pages[r] /\ dying'[r] = dying[r]
    BY <2>6, <2>14, Zenon DEF MemTypeOK
  <2>20. \A a \in vs_areamap[p] : a # old => Addresses(a) \cap Addresses(old) = {}
    BY Zenon DEF AreasInv
  <2>21. CallInv' /\ ForkInv' /\ DeadInv'
    <3>1. \A a \in vs_areamap[p] : a # old => Addresses(a) \cap Addresses(va) = {}
      BY <2>1, Zenon DEF Overlapping
    <3>2. \A a \in P : Addresses(a) \cap Addresses(va) = {}
      BY <2>10, <2>15, Zenon
    <3>3. \A a \in vs_areamap'[p] : Addresses(a) \cap Addresses(va) = {}
      BY <2>19, <3>1, <3>2, Zenon
    <3>4. todo'[p] # None =>
            /\ todo'[p].op = "map" =>
                 /\ InFile(todo'[p].va)
                 /\ \A a \in vs_areamap'[p] : Addresses(a) \cap Addresses(todo'[p].va) = {}
            /\ todo'[p].op = "exit" => vs_areamap'[p] = {} /\ va_pages'[p] = NoPages
      BY <1>2, <3>3, Zenon
    <3>5. QED
      BY <1>1, <1>2, <1>3, <2>19, <3>4, CallStep, Zenon
  <2>22. \A r \in Process, w \in Virt :
           va_pages'[r][w] = IF r = p /\ w \in Addresses(old) THEN None ELSE va_pages[r][w]
    BY <2>12, <2>19, Zenon
  <2>23. \A q \in VMPage : q \in dying'[p] <=>
                             \E w \in Virt : w \in Addresses(old) /\ va_pages[p][w] = q
    <3> SUFFICES ASSUME NEW q \in VMPage
                 PROVE  q \in dying'[p] <=> \E w \in Virt : w \in Addresses(old) /\ va_pages[p][w] = q
      BY Zenon
    <3>1. q # None
      BY VMSpaceAssumption, Zenon
    <3>2. q \in PagesOf(p) <=> \E w \in Virt : va_pages[p][w] = q
      BY <3>1, Zenon DEF PagesOf
    <3>3. q \in {kept[v] : v \in Virt} <=>
            \E w \in Virt : w \notin Addresses(old) /\ va_pages[p][w] = q
      BY <2>12, <3>1, Zenon
    <3>4. \A w, u \in Virt : va_pages[p][w] = q /\ va_pages[p][u] = q => w = u
      BY <3>1, Zenon DEF HeldOnce
    <3>5. q \in dying'[p] <=> q \in PagesOf(p) /\ q \notin {kept[v] : v \in Virt}
      BY <2>19, Zenon
    <3>6. QED
      BY <3>2, <3>3, <3>4, <3>5, Zenon
  <2>24. HeldOnce' /\ RefcountsExact' /\ \A q \in VMPage : Holders(q)' = Holders(q)
    <3>1. PICK S : S = Addresses(old)
      BY Zenon
    <3>2. \A r \in Process, w \in Virt :
            va_pages'[r][w] = IF r = p /\ w \in S THEN None ELSE va_pages[r][w]
      BY <2>22, <3>1, Zenon
    <3>3. \A r \in Process \ {p} : dying'[r] = dying[r]
      BY <2>19, Zenon
    <3>4. \A q \in VMPage : q \in dying'[p] <=> \E w \in Virt : w \in S /\ va_pages[p][w] = q
      BY <2>23, <3>1, Zenon
    <3>5. dying[p] = {} /\ UNCHANGED <<vp_refcount, i_pages>>
      BY <1>1, Zenon
    <3>6. QED
      BY <3>2, <3>3, <3>4, <3>5, GiveUp, Zenon
  <2>25. AreasInv'
    <3> SUFFICES ASSUME NEW r \in Process
                 PROVE  /\ \A a \in vs_areamap'[r] : InFile(a)
                        /\ \A a, b \in vs_areamap'[r] : Addresses(a) \cap Addresses(b) # {} => a = b
                        /\ \A v \in Virt : va_pages'[r][v] # None =>
                             \E a \in vs_areamap'[r] : v \in Addresses(a)
      BY Zenon DEF AreasInv
    <3>1. CASE r = p
      <4>1. \A a \in vs_areamap'[p] : InFile(a)
        BY <2>15, <2>19, Zenon DEF AreasInv
      <4>2. ASSUME NEW a \in vs_areamap'[p], NEW b \in vs_areamap'[p],
                   Addresses(a) \cap Addresses(b) # {}
            PROVE  a = b
        <5>1. CASE a \in vs_areamap[p] \ {old} /\ b \in vs_areamap[p] \ {old}
          BY <4>2, <5>1, Zenon DEF AreasInv
        <5>2. CASE a \in P /\ b \in P
          BY <2>16, <4>2, <5>2, Zenon
        <5>3. CASE a \in P /\ b \in vs_areamap[p] \ {old}
          BY <2>15, <2>20, <4>2, <5>3, Zenon
        <5>4. CASE b \in P /\ a \in vs_areamap[p] \ {old}
          BY <2>15, <2>20, <4>2, <5>4, Zenon
        <5>5. QED
          BY <2>19, <5>1, <5>2, <5>3, <5>4, Zenon
      <4>3. ASSUME NEW v \in Virt, va_pages'[p][v] # None
            PROVE  \E a \in vs_areamap'[p] : v \in Addresses(a)
        <5>1. v \notin Addresses(old) /\ va_pages[p][v] # None
          BY <2>22, <4>3, Zenon
        <5>2. PICK a \in vs_areamap[p] : v \in Addresses(a)
          BY <5>1, Zenon DEF AreasInv
        <5>3. QED
          BY <2>19, <5>1, <5>2, Zenon
      <4>4. QED
        BY <3>1, <4>1, <4>2, <4>3, Zenon
    <3>2. CASE r # p
      BY <2>19, <3>2, Zenon DEF AreasInv
    <3>3. QED
      BY <3>1, <3>2, Zenon
  <2>26. ASSUME NEW r \in Process, NEW a \in vs_areamap'[r], NEW w \in Addresses(a)
         PROVE  Current(r, a, w)' /\ Alone(r, a, w)'
    <3>1. CASE r = p /\ a \in P
      <4>1. w \in Addresses(old) /\ w \in Virt /\ P # {}
        BY <2>7, <2>15, <3>1, Zenon
      <4>2. va_pages[p][w] = None
        <5>1. ~(begin = old.begin /\ end = old.end)
          BY <2>8, <2>14, <4>1 DEF Pieces
        <5>2. QED
          BY <2>11, <4>1, <5>1, Zenon
      <4>3. pte[p][w] = None
        BY <4>1, <4>2, Zenon DEF TranslationsCurrent
      <4>4. va_pages'[r][w] = None /\ pte'[r][w] = None
        BY <1>1, <2>22, <3>1, <4>1, <4>2, <4>3, Zenon
      <4>5. None \notin promoted'
        BY <1>4, VMSpaceAssumption, Zenon
      <4>6. QED
        BY <4>4, <4>5, Zenon DEF Current, Alone
    <3>2. CASE ~(r = p /\ a \in P)
      <4>1. a \in vs_areamap[r] /\ (r = p => a # old)
        BY <2>19, <3>2, Zenon
      <4>2. w \in Virt /\ (r = p => w \notin Addresses(old))
        BY <2>20, <4>1, AreaAddresses, Zenon
      <4>3. va_pages'[r][w] = va_pages[r][w] /\ pte'[r][w] = pte[r][w]
        BY <1>1, <2>22, <4>2, Zenon
      <4>4. QED
        BY <1>1, <1>4, <2>24, <4>1, <4>3, SameAddress, ZenonT(20)
    <3>3. QED
      BY <3>1, <3>2, Zenon
  <2>27. TranslationsCurrent' /\ PromotedAlone'
    BY <1>4, <2>26, EachAddress, Zenon
  <2>28. QED
    BY <2>18, <2>21, <2>24, <2>25, <2>27, Zenon
<1>7. QED
  BY <1>5, <1>6, Zenon

\* The invariant

\* The invariant holds when no process but the first is alive.
LEMMA MemInit ==
  ASSUME Init
  PROVE  MemInv
<1> USE VMSpaceAssumption DEF Init
<1>1. MemTypeOK
  BY Zenon DEF MemTypeOK, NoPages, Todo
<1>2. /\ \A p \in Process : vs_areamap[p] = {} /\ va_pages[p] = NoPages /\ pte[p] = NoPages
      /\ \A p \in Process : dying[p] = {} /\ todo[p] = None
      /\ \A p \in Process, v \in Virt : va_pages[p][v] = None
  BY Zenon DEF NoPages
<1>3. AreasInv /\ HeldOnce /\ CallInv /\ ForkInv /\ DeadInv
  BY <1>2, Zenon DEF AreasInv, HeldOnce, CallInv, ForkInv, InFork, DeadInv
<1>4. RefcountsExact
  <2> SUFFICES ASSUME NEW q \in VMPage
               PROVE  vp_refcount[q] = Cardinality(Holders(q)) + IF q \in InodePages THEN 1 ELSE 0
    BY Zenon DEF RefcountsExact
  <2>1. Holders(q) = {}
    BY <1>2 DEF Holders, PagesOf
  <2>2. q \notin InodePages
    BY Zenon DEF InodePages
  <2>3. QED
    BY <2>1, <2>2, FS_EmptySet
<1>5. TranslationsCurrent /\ PromotedAlone
  BY <1>2, Zenon DEF TranslationsCurrent, PromotedAlone
<1>6. QED
  BY <1>1, <1>3, <1>4, <1>5, Zenon DEF MemInv

\* Every fault and every store keeps the invariant.
LEMMA AccessPreserves ==
  ASSUME MemInv, NEW p \in Process, Access(p)
  PROVE  MemInv'
<1>1. PICK va \in vs_areamap[p] : \E v \in Addresses(va) :
        \/ \E x \in Value : Store(p, va, v, x)
        \/ FaultPromote(p, va, v) \/ FaultReadFile(p, va, v)
        \/ FaultFile(p, va, v) \/ FaultZero(p, va, v)
  BY Zenon DEF Access
<1>2. PICK v \in Addresses(va) :
        \/ \E x \in Value : Store(p, va, v, x)
        \/ FaultPromote(p, va, v) \/ FaultReadFile(p, va, v)
        \/ FaultFile(p, va, v) \/ FaultZero(p, va, v)
  BY <1>1, Zenon
<1>3. CASE \E x \in Value : Store(p, va, v, x)
  BY <1>3, StorePreserves, Zenon
<1>4. CASE FaultPromote(p, va, v)
  BY <1>4, PromotePreserves, CopyPreserves, Zenon
<1>5. CASE FaultReadFile(p, va, v)
  BY <1>5, FaultReadFilePreserves, Zenon
<1>6. CASE FaultFile(p, va, v)
  BY <1>6, FaultFilePreserves, Zenon
<1>7. CASE FaultZero(p, va, v)
  BY <1>7, FaultZeroPreserves, Zenon
<1>8. QED
  BY <1>2, <1>3, <1>4, <1>5, <1>6, <1>7, Zenon

\* Every step keeps the invariant.
LEMMA MemNext ==
  ASSUME MemInv, ~Splits, [Next]_vars
  PROVE  MemInv'
<1>1. CASE Next
  <2>1. PICK p \in Process :
          \/ \E m \in Mapping : Mappable(p, NewArea(m)) /\ Map(p, NewArea(m))
          \/ MapEnd(p) \/ PrepareForExecute(p) \/ Destroy(p) \/ DestroyEnd(p) \/ DerefPage(p)
          \/ \E child \in Process : Clone(p, child)
          \/ ClonePage(p) \/ CloneEnd(p) \/ Access(p)
    BY <1>1, Zenon DEF Next
  <2>2. CASE \E m \in Mapping : Mappable(p, NewArea(m)) /\ Map(p, NewArea(m))
    BY <2>2, NewAreaOK, MapPreserves, Zenon
  <2>3. CASE MapEnd(p)
    BY <2>3, MapEndPreserves, Zenon
  <2>4. CASE PrepareForExecute(p)
    BY <2>4, DeleteAreasPreserves, Zenon DEF PrepareForExecute
  <2>5. CASE Destroy(p)
    BY <2>5, DeleteAreasPreserves, Zenon DEF Destroy
  <2>6. CASE DestroyEnd(p)
    BY <2>6, DestroyEndPreserves, Zenon
  <2>7. CASE DerefPage(p)
    BY <2>7, DerefPagePreserves, Zenon
  <2>8. CASE \E child \in Process : Clone(p, child)
    BY <2>8, ClonePreserves, Zenon
  <2>9. CASE ClonePage(p)
    BY <2>9, ClonePagePreserves, Zenon
  <2>10. CASE CloneEnd(p)
    BY <2>10, CloneEndPreserves, Zenon
  <2>11. CASE Access(p)
    BY <2>11, AccessPreserves, Zenon
  <2>12. QED
    BY <2>1, <2>2, <2>3, <2>4, <2>5, <2>6, <2>7, <2>8, <2>9, <2>10, <2>11, Zenon
<1>2. CASE UNCHANGED vars
  <2>1. UNCHANGED <<live, vs_areamap, va_pages, dying, todo, pte, vp_refcount, promoted, data, i_pages>>
    BY <1>2, Zenon DEF vars, pagevars
  <2>2. MemTypeOK' /\ AreasInv' /\ HeldOnce'
    BY <2>1, Zenon DEF MemInv, MemTypeOK, AreasInv, HeldOnce
  <2>3. CallInv' /\ ForkInv' /\ DeadInv'
    BY <2>1, Zenon DEF MemInv, CallInv, ForkInv, DeadInv, InFork
  <2>4. \A q : Holders(q)' = Holders(q)
    BY <2>1, Zenon DEF Holders, PagesOf
  <2>5. RefcountsExact'
    BY <2>1, <2>4, Zenon DEF MemInv, RefcountsExact, InodePages
  <2>6. TranslationsCurrent'
    BY <2>1, Zenon DEF MemInv, TranslationsCurrent
  <2>7. PromotedAlone'
    BY <2>1, <2>4, Zenon DEF MemInv, PromotedAlone, FreePage
  <2>8. QED
    BY <2>2, <2>3, <2>5, <2>6, <2>7, Zenon DEF MemInv
<1>3. QED
  BY <1>1, <1>2, Zenon

\* Areas, pages, page tables and counts agree (MemInv) in every state, however
\* mappings, faults, forks, execs and exits interleave.
THEOREM MemoryInvariant ==
  ASSUME ~Splits
  PROVE  Spec => []MemInv
<1>1. Init => MemInv
  BY MemInit, Zenon
<1>2. MemInv /\ [Next]_vars => MemInv'
  BY MemNext, Zenon
<1>3. QED
  BY <1>1, <1>2, PTL DEF Spec

\* vp_refcount counts the processes that have the page, and the inode: Deref
\* frees a page exactly when nobody has it any more.
THEOREM CountsExact ==
  ASSUME ~Splits
  PROVE  Spec => []RefcountsExact
<1>1. MemInv => RefcountsExact
  BY Zenon DEF MemInv
<1>2. QED
  BY <1>1, MemoryInvariant, PTL

\* The page table follows VMPage::Map inside the areas of every process.
THEOREM PageTablesCurrent ==
  ASSUME ~Splits
  PROVE  Spec => []TranslationsCurrent
<1>1. MemInv => TranslationsCurrent
  BY Zenon DEF MemInv
<1>2. QED
  BY <1>1, MemoryInvariant, PTL

\* Copy-on-write: VMPage::Clone and Promote never let a process write to a page of
\* a private area that another process also has.
THEOREM CopyOnWrite ==
  ASSUME ~Splits
  PROVE  Spec => []WritersAreAlone
<1>1. MemInv => WritersAreAlone
  <2> SUFFICES ASSUME MemInv, NEW p \in Process, NEW va \in vs_areamap[p], NEW v \in Addresses(va),
                      va.private, pte[p][v] # None, pte[p][v].write
               PROVE  Holders(pte[p][v].page) = {p}
    BY Zenon DEF WritersAreAlone
  <2>1. PICK q : q = va_pages[p][v]
    BY Zenon
  <2>2. q # None /\ pte[p][v] = Translation(q, va.write, q \in promoted)
    BY <2>1, Zenon DEF MemInv, TranslationsCurrent
  <2>3. va.write /\ q \in promoted /\ pte[p][v].page = q
    <3>1. PICK b \in BOOLEAN : b <=> va.write /\ q \in promoted
      BY Zenon
    <3>2. pte[p][v] = [page |-> q, write |-> b]
      BY <2>2, <3>1, Zenon DEF Translation
    <3>3. pte[p][v].page = q /\ b
      BY <3>2
    <3>4. QED
      BY <3>1, <3>3, Zenon
  <2>4. QED
    BY <2>1, <2>3 DEF MemInv, PromotedAlone
<1>2. QED
  BY <1>1, MemoryInvariant, PTL
-----------------------------------------------------------------------------
(* The memory that a process sees.                                         *)

\* Programs map nothing that is shared and may be written.
PrivateWrites == \A m \in Mapping : m.write => m.private

\* What a process sees at an address is decided by the one area it is in.
LEMMA MemoryAt ==
  ASSUME AreasInv, NEW p \in live, p \in Process, NEW a \in vs_areamap[p],
         NEW v \in Virt, v \in Addresses(a)
  PROVE  Memory[p][v] = Contents(p, a, v)
<1>1. AreaAt(vs_areamap[p], v) \in vs_areamap[p] /\ v \in Addresses(AreaAt(vs_areamap[p], v))
  BY Zenon DEF AreaAt
<1>2. AreaAt(vs_areamap[p], v) = a
  BY <1>1, SameArea, Zenon
<1>3. QED
  BY <1>2, Zenon DEF Memory

\* The same after a step
LEMMA MemoryAtNext ==
  ASSUME AreasInv', NEW p \in Process, p \in live', NEW a \in vs_areamap'[p],
         NEW v \in Virt, v \in Addresses(a)
  PROVE  Memory'[p][v] = Contents(p, a, v)'
<1>1. AreaAt(vs_areamap'[p], v) \in vs_areamap'[p] /\ v \in Addresses(AreaAt(vs_areamap'[p], v))
  BY Zenon DEF AreaAt
<1>2. AreaAt(vs_areamap'[p], v) = a
  BY <1>1, Zenon DEF AreasInv
<1>3. QED
  BY <1>2, Zenon DEF Memory

\* Nothing is there outside the areas, nor in a process that does not exist.
LEMMA MemoryNone ==
  ASSUME NEW p \in Process, NEW v \in Virt,
         p \notin live \/ \A a \in vs_areamap[p] : v \notin Addresses(a)
  PROVE  Memory[p][v] = None
BY Zenon DEF Memory

\* The same after a step
LEMMA MemoryNoneNext ==
  ASSUME NEW p \in Process, NEW v \in Virt,
         p \notin live' \/ \A a \in vs_areamap'[p] : v \notin Addresses(a)
  PROVE  Memory'[p][v] = None
BY Zenon DEF Memory

\* The memories are functions of processes and addresses.
LEMMA MemoryFunction ==
  /\ Memory = [p \in Process |-> [v \in Virt |-> Memory[p][v]]]
  /\ Memory' = [p \in Process |-> [v \in Virt |-> Memory'[p][v]]]
BY Zenon DEF Memory

\* An address of a live process has a value or nothing.
LEMMA ContentsValue ==
  ASSUME MemInv, NEW p \in Process, NEW a \in vs_areamap[p], NEW v \in Addresses(a)
  PROVE  Contents(p, a, v) \in Value
<1>1. v \in Virt
  BY AreaAddresses, Zenon DEF MemInv
<1>2. va_pages[p][v] \in VMPage \cup {None} /\ data \in [VMPage -> Value]
  BY <1>1 DEF MemInv, MemTypeOK
<1>3. Backed(a, v) => File[Offset(a, v)] \in Value
  BY FileOffset, VMSpaceAssumption, Zenon DEF MemInv
<1>4. 0 \in Value
  BY VMSpaceAssumption, Zenon
<1>5. QED
  BY <1>2, <1>3, <1>4, Zenon DEF Contents

\* A step that touches neither the areas and pages of a process nor what is in
\* them leaves its memory alone.
LEMMA SameMemory ==
  ASSUME NEW r \in Process, r \in live' <=> r \in live, vs_areamap'[r] = vs_areamap[r],
         \A v \in Virt : va_pages'[r][v] = va_pages[r][v],
         \A v \in Virt : va_pages[r][v] # None =>
                           data'[va_pages[r][v]] = data[va_pages[r][v]]
  PROVE  \A v \in Virt : Memory'[r][v] = Memory[r][v]
<1> SUFFICES ASSUME NEW v \in Virt
             PROVE  Memory'[r][v] = Memory[r][v]
  BY Zenon
<1>1. PICK a : a = AreaAt(vs_areamap[r], v)
  BY Zenon
<1>2. Contents(r, a, v)' = Contents(r, a, v)
  BY Zenon DEF Contents
<1>3. /\ Memory[r][v] = IF r \in live /\ \E va \in vs_areamap[r] : v \in Addresses(va)
                        THEN Contents(r, a, v) ELSE None
      /\ Memory'[r][v] = IF r \in live' /\ \E va \in vs_areamap'[r] : v \in Addresses(va)
                         THEN Contents(r, a, v)' ELSE None
  BY <1>1, Zenon DEF Memory
<1>4. QED
  BY <1>2, <1>3, Zenon

\* No process has a page that is free, nor is it one of the inode.
LEMMA FreePageUnused ==
  ASSUME MemInv, NEW q \in FreePage
  PROVE  /\ q \in VMPage /\ q # None
         /\ \A r \in Process, v \in Virt : va_pages[r][v] # q
         /\ \A o \in DOMAIN File : i_pages[o] # q
<1>1. q \in VMPage /\ vp_refcount[q] = 0 /\ RefcountsExact
  BY Zenon DEF FreePage, MemInv
<1>2. Holders(q) = {} /\ q \notin InodePages
  BY <1>1, FreshPage, Zenon
<1>3. QED
  BY <1>1, <1>2, HasPage, VMSpaceAssumption, Zenon DEF InodePages

-----------------------------------------------------------------------------
\* A page fault that gives an address a new page with what was to be seen there
LEMMA AssignInvisible ==
  ASSUME MemInv, MemInv', NEW p \in live, NEW va \in vs_areamap[p], NEW v \in Addresses(va),
         NEW q \in FreePage, UNCHANGED <<live, vs_areamap>>,
         va_pages' = [va_pages EXCEPT ![p][v] = q],
         data' = [data EXCEPT ![q] = Contents(p, va, v)]
  PROVE  Memory' = Memory
<1>1. /\ p \in Process /\ v \in Virt
      /\ va_pages \in [Process -> [Virt -> VMPage \cup {None}]]
      /\ data \in [VMPage -> Value]
  BY AreaAddresses, Zenon DEF MemInv, MemTypeOK
<1>2. /\ q \in VMPage /\ q # None
      /\ \A r \in Process, w \in Virt : va_pages[r][w] # q
  BY FreePageUnused, Zenon
<1>3. ASSUME NEW r \in Process, NEW w \in Virt
      PROVE  Memory'[r][w] = Memory[r][w]
  <2>1. CASE r # p
    BY <1>1, <1>2, <2>1, SameMemory
  <2>2. CASE r = p /\ w = v
    <3>1. Memory[p][v] = Contents(p, va, v)
      BY <1>1, MemoryAt, Zenon DEF MemInv
    <3>2. Memory'[p][v] = Contents(p, va, v)'
      BY <1>1, MemoryAtNext, Zenon DEF MemInv
    <3>3. va_pages'[p][v] = q /\ data'[q] = Contents(p, va, v)
      BY <1>1, <1>2, Zenon
    <3>4. Contents(p, va, v)' = data'[q]
      BY <1>2, <3>3, Zenon DEF Contents
    <3>5. QED
      BY <2>2, <3>1, <3>2, <3>3, <3>4, Zenon
  <2>3. CASE r = p /\ w # v
    <3>1. PICK a : a = AreaAt(vs_areamap[p], w)
      BY Zenon
    <3>2. va_pages'[p][w] = va_pages[p][w]
      BY <1>1, <2>3, Zenon
    <3>3. va_pages[p][w] # None => data'[va_pages[p][w]] = data[va_pages[p][w]]
      BY <1>1, <1>2, Zenon
    <3>4. Contents(p, a, w)' = Contents(p, a, w)
      BY <3>2, <3>3, Zenon DEF Contents
    <3>5. QED
      BY <1>1, <2>3, <3>1, <3>4, Zenon DEF Memory
  <2>4. QED
    BY <2>1, <2>2, <2>3, Zenon
<1>4. QED
  BY <1>3, MemoryFunction, Zenon

\* A step that changes nothing but pages that nobody has
LEMMA PagesInvisible ==
  ASSUME MemInv, UNCHANGED <<live, vs_areamap, va_pages>>,
         \A r \in Process, v \in Virt : va_pages[r][v] # None =>
            data'[va_pages[r][v]] = data[va_pages[r][v]]
  PROVE  Memory' = Memory
<1>1. ASSUME NEW r \in Process, NEW w \in Virt
      PROVE  Memory'[r][w] = Memory[r][w]
  BY SameMemory, Zenon
<1>2. QED
  BY <1>1, MemoryFunction

\* HandleFault, however it gets the page, is not seen.
LEMMA FaultsInvisible ==
  ASSUME MemInv, ViewInv, MemInv', NEW p \in Process, NEW va \in vs_areamap[p],
         NEW v \in Addresses(va),
         FaultPromote(p, va, v) \/ FaultReadFile(p, va, v) \/ FaultFile(p, va, v)
           \/ FaultZero(p, va, v)
  PROVE  Memory' = Memory
<1>1. /\ v \in Virt
      /\ va_pages[p][v] \in VMPage \cup {None}
      /\ data \in [VMPage -> Value] /\ i_pages \in [DOMAIN File -> VMPage \cup {None}]
      /\ p \in live
  <2>1. v \in Virt
    BY AreaAddresses, Zenon DEF MemInv
  <2>2. User(p)
    BY Zenon DEF FaultPromote, FaultReadFile, FaultFile, FaultZero, Faults
  <2>3. QED
    BY <2>1, <2>2 DEF MemInv, MemTypeOK, User
<1>2. CASE FaultPromote(p, va, v)
  <2>1. CASE LastReference(va_pages[p][v])
    <3>1. UNCHANGED <<live, vs_areamap, va_pages, data>>
      BY <1>2, <2>1, Zenon DEF FaultPromote
    <3>2. QED
      BY <3>1, PagesInvisible, Zenon
  <2>2. CASE ~LastReference(va_pages[p][v])
    <3>1. PICK n \in FreePage :
            /\ va_pages' = [va_pages EXCEPT ![p][v] = n]
            /\ data' = [data EXCEPT ![n] = data[va_pages[p][v]]]
      BY <1>2, <2>2, Zenon DEF FaultPromote
    <3>2. va_pages[p][v] # None /\ UNCHANGED <<live, vs_areamap>>
      BY <1>2, Zenon DEF FaultPromote
    <3>3. Contents(p, va, v) = data[va_pages[p][v]]
      BY <3>2, Zenon DEF Contents
    <3>4. QED
      BY <1>1, <3>1, <3>2, <3>3, AssignInvisible, Zenon
  <2>3. QED
    BY <2>1, <2>2, Zenon
<1>3. CASE FaultReadFile(p, va, v)
  <2>1. PICK q \in FreePage : data' = [data EXCEPT ![q] = File[Offset(va, v)]]
    BY <1>3, Zenon DEF FaultReadFile
  <2>2. UNCHANGED <<live, vs_areamap, va_pages>>
    BY <1>3, Zenon DEF FaultReadFile
  <2>3. \A r \in Process, w \in Virt : va_pages[r][w] # q
    BY FreePageUnused, Zenon
  <2>4. \A r \in Process, w \in Virt : va_pages[r][w] # None =>
           data'[va_pages[r][w]] = data[va_pages[r][w]]
    BY <1>1, <2>1, <2>3 DEF MemInv, MemTypeOK
  <2>5. QED
    BY <2>2, <2>4, PagesInvisible, Zenon
<1>4. CASE FaultFile(p, va, v)
  <2>1. /\ va_pages[p][v] = None /\ Backed(va, v) /\ i_pages[Offset(va, v)] # None
        /\ UNCHANGED <<live, vs_areamap>>
    BY <1>4, Zenon DEF FaultFile
  <2>2. data[i_pages[Offset(va, v)]] = File[Offset(va, v)]
    BY <2>1, FileOffset, Zenon DEF MemInv, ViewInv, InodeView
  <2>3. Contents(p, va, v) = data[i_pages[Offset(va, v)]]
    BY <2>1, <2>2, Zenon DEF Contents
  <2>4. PICK q \in FreePage :
          /\ va_pages' = [va_pages EXCEPT ![p][v] = q]
          /\ data' = [data EXCEPT ![q] = data[i_pages[Offset(va, v)]]]
    BY <1>4, Zenon DEF FaultFile, AssignNew
  <2>5. QED
    BY <1>1, <2>1, <2>3, <2>4, AssignInvisible, Zenon
<1>5. CASE FaultZero(p, va, v)
  <2>1. /\ va_pages[p][v] = None /\ ~Backed(va, v)
        /\ UNCHANGED <<live, vs_areamap>>
    BY <1>5, Zenon DEF FaultZero
  <2>2. Contents(p, va, v) = 0
    BY <2>1, Zenon DEF Contents
  <2>3. PICK q \in FreePage :
          /\ va_pages' = [va_pages EXCEPT ![p][v] = q]
          /\ data' = [data EXCEPT ![q] = 0]
    BY <1>5, Zenon DEF FaultZero, AssignNew
  <2>4. QED
    BY <1>1, <2>1, <2>2, <2>3, AssignInvisible, Zenon
<1>6. QED
  BY <1>2, <1>3, <1>4, <1>5, Zenon

\* A store changes the memory of the process at the address, and no other: the
\* page may be written only when the process is alone with it.
LEMMA StoreIsStore ==
  ASSUME MemInv, ViewInv, MemInv', NEW p \in Process, NEW va \in vs_areamap[p],
         NEW v \in Addresses(va), NEW x \in Value, Store(p, va, v, x)
  PROVE  Abstract!Store(p, v, x)
<1>1. /\ p \in live /\ v \in Virt
      /\ va_pages \in [Process -> [Virt -> VMPage \cup {None}]]
      /\ data \in [VMPage -> Value]
      /\ va.write \in BOOLEAN /\ va.private \in BOOLEAN
  BY AreaAddresses, Zenon DEF MemInv, MemTypeOK, Store, User
<1>2. PICK q : q = va_pages[p][v]
  BY Zenon
<1>3. pte[p][v] # None /\ pte[p][v].write /\ data' = [data EXCEPT ![pte[p][v].page] = x]
      /\ UNCHANGED <<live, vs_areamap, va_pages>>
  BY Zenon DEF Store
<1>4. q # None /\ pte[p][v].page = q /\ va.write /\ q \in promoted
  <2>1. q # None /\ pte[p][v] = Translation(q, va.write, q \in promoted)
    BY <1>2, <1>3, Zenon DEF MemInv, TranslationsCurrent
  <2>2. PICK b \in BOOLEAN : b <=> va.write /\ q \in promoted
    BY Zenon
  <2>3. pte[p][v] = [page |-> q, write |-> b]
    BY <2>1, <2>2, Zenon DEF Translation
  <2>4. pte[p][v].page = q /\ b
    BY <1>3, <2>3, SMTT(20)
  <2>5. QED
    BY <2>1, <2>2, <2>4, Zenon
<1>5. Holders(q) = {p}
  <2>1. va.private
    BY <1>4, Zenon DEF ViewInv, AreaView
  <2>2. QED
    BY <1>2, <1>4, <2>1 DEF MemInv, PromotedAlone
<1>6. q \in VMPage /\ data' = [data EXCEPT ![q] = x] /\ data'[q] = x
  BY <1>1, <1>2, <1>3, <1>4, Zenon
<1>7. \A r \in Process \ {p}, w \in Virt : va_pages[r][w] # q
  BY <1>5, <1>6, HasPage, Zenon
<1>8. \A w \in Virt \ {v} : va_pages[p][w] # q
  BY <1>1, <1>2, <1>4, Zenon DEF MemInv, HeldOnce
<1>9. Memory[p][v] # None
  <2>1. Memory[p][v] = Contents(p, va, v)
    BY <1>1, MemoryAt, Zenon DEF MemInv
  <2>2. QED
    BY <2>1, ContentsValue, VMSpaceAssumption
<1>10. ASSUME NEW r \in Process, NEW w \in Virt
       PROVE  Memory'[r][w] = IF r = p /\ w = v THEN x ELSE Memory[r][w]
  <2>1. CASE r # p
    BY <1>1, <1>3, <1>6, <1>7, <2>1, SameMemory
  <2>2. CASE r = p /\ w = v
    <3>1. Memory'[p][v] = Contents(p, va, v)'
      BY <1>1, <1>3, MemoryAtNext, Zenon DEF MemInv
    <3>2. Contents(p, va, v)' = data'[q]
      BY <1>2, <1>3, <1>4, Zenon DEF Contents
    <3>3. QED
      BY <1>6, <2>2, <3>1, <3>2, Zenon
  <2>3. CASE r = p /\ w # v
    <3>1. PICK a : a = AreaAt(vs_areamap[p], w)
      BY Zenon
    <3>2. va_pages[p][w] # None => data'[va_pages[p][w]] = data[va_pages[p][w]]
      BY <1>1, <1>6, <1>8, <2>3, Zenon
    <3>3. Contents(p, a, w)' = Contents(p, a, w)
      BY <1>3, <3>2, Zenon DEF Contents
    <3>4. QED
      BY <1>3, <2>3, <3>1, <3>3, Zenon DEF Memory
  <2>4. QED
    BY <2>1, <2>2, <2>3, Zenon
<1>11. Memory' = [Memory EXCEPT ![p][v] = x]
  BY <1>1, <1>10, MemoryFunction
<1>12. QED
  BY <1>9, <1>11, Zenon DEF Abstract!Store

-----------------------------------------------------------------------------
\* A step after which a process sees a part of what it saw
LEMMA UnmapStep ==
  ASSUME NEW p \in Process,
         \A r \in Process \ {p}, v \in Virt : Memory'[r][v] = Memory[r][v],
         \A v \in Virt : Memory'[p][v] \in {None, Memory[p][v]}
  PROVE  \E range \in SUBSET Virt : Abstract!Unmap(p, range)
<1> DEFINE range == {v \in Virt : Memory'[p][v] = None}
<1>1. \A v \in Virt : Memory'[p][v] = IF v \in range THEN None ELSE Memory[p][v]
  BY Zenon
<1>2. Memory' = [Memory EXCEPT ![p] = [v \in Virt |-> IF v \in range THEN None ELSE Memory[p][v]]]
  BY <1>1, MemoryFunction
<1>3. range \in SUBSET Virt
  BY Zenon
<1> HIDE DEF range
<1>4. Abstract!Unmap(p, range)
  BY <1>2, Zenon DEF Abstract!Unmap
<1>5. QED
  BY <1>3, <1>4, Zenon

\* What FreeRange leaves of an area shows the same part of the file, with the same
\* rights.
LEMMA PiecesView ==
  ASSUME NEW old \in Area, NEW begin \in Int, NEW end \in Int,
         NEW a \in Pieces(old, begin, end)
  PROVE  /\ a.write = old.write /\ a.private = old.private
         /\ \A v \in Virt : /\ Backed(a, v) <=> Backed(old, v)
                            /\ Backed(a, v) => Offset(a, v) = Offset(old, v)
<1>1. /\ old.begin \in Int /\ old.end \in Int /\ old.doffset \in Int /\ old.dlength \in Int
      /\ old.dentry \in BOOLEAN
  BY VMSpaceAssumption DEF Area, Virt
<1>2. PICK b \in Int, e \in Int : a = Piece(old, b, e)
  BY <1>1 DEF Pieces
<1>3. CASE old.dentry
  <2>1. a = [old EXCEPT !.begin = b, !.end = e,
                        !.doffset = @ + (b - old.begin), !.dlength = @ - (b - old.begin)]
    BY <1>2, <1>3, Zenon DEF Piece
  <2>2. /\ a.write = old.write /\ a.private = old.private /\ a.dentry /\ a.begin = b
        /\ a.doffset = old.doffset + (b - old.begin) /\ a.dlength = old.dlength - (b - old.begin)
    BY <1>3, <2>1, Zenon DEF Area
  <2>3. ASSUME NEW v \in Virt
        PROVE  (Backed(a, v) <=> Backed(old, v)) /\ Offset(a, v) = Offset(old, v)
    <3>1. v \in Int
      BY VMSpaceAssumption DEF Virt
    <3>2. v - a.begin < a.dlength <=> v - old.begin < old.dlength
      BY <1>1, <2>2, <3>1
    <3>3. Offset(a, v) = Offset(old, v)
      BY <1>1, <2>2, <3>1 DEF Offset
    <3>4. QED
      BY <1>3, <2>2, <3>2, <3>3, Zenon DEF Backed
  <2>4. QED
    BY <2>2, <2>3, Zenon
<1>4. CASE ~old.dentry
  <2>1. a = [old EXCEPT !.begin = b, !.end = e]
    BY <1>2, <1>4, Zenon DEF Piece
  <2>2. a.write = old.write /\ a.private = old.private /\ a.dentry = old.dentry
    BY <2>1, Zenon DEF Area
  <2>3. QED
    BY <1>4, <2>2, Zenon DEF Backed
<1>5. QED
  BY <1>3, <1>4, Zenon

\* FreeRange takes addresses away and changes nothing else.
LEMMA MapIsUnmap ==
  ASSUME MemInv, MemInv', ~Splits, NEW p \in Process, NEW va \in Area, va.begin < va.end,
         Mappable(p, va), Map(p, va)
  PROVE  \E range \in SUBSET Virt : Abstract!Unmap(p, range)
<1>1. p \in live /\ UNCHANGED <<live, data>>
  BY Zenon DEF Map, User, pagevars
<1>2. CASE Overlapping(p, va) = {}
  <2>1. UNCHANGED <<vs_areamap, va_pages>>
    BY <1>2, Zenon DEF Map
  <2>2. \A r \in Process, v \in Virt : Memory'[r][v] = Memory[r][v]
    BY <1>1, <2>1, SameMemory, Zenon
  <2>3. QED
    BY <2>2, UnmapStep, Zenon
<1>3. CASE Overlapping(p, va) # {}
  <2>1. PICK old \in vs_areamap[p], begin \in Int, end \in Int :
          Cut(p, va, old, begin, end)
    BY <1>3, MapCuts, Zenon
  <2> USE DEF Cut
  <2>2. PICK kept : kept = MigratePages(va_pages[p], old, begin, end)
    BY Zenon
  <2>3. \A v \in Virt : kept[v] = IF v \in Addresses(old) THEN None ELSE va_pages[p][v]
    BY <2>1, <2>2, MigrateOK
  <2>4. PICK P : P = Pieces(old, begin, end)
    BY Zenon
  <2>5. /\ vs_areamap'[p] = (vs_areamap[p] \ {old}) \cup P /\ va_pages'[p] = kept
        /\ \A r \in Process \ {p} : vs_areamap'[r] = vs_areamap[r] /\ va_pages'[r] = va_pages[r]
    BY <2>1, <2>2, <2>4, Zenon DEF MemInv, MemTypeOK
  <2>6. \A r \in Process \ {p}, v \in Virt : Memory'[r][v] = Memory[r][v]
    BY <1>1, <2>5, SameMemory, Zenon
  <2>7. ASSUME NEW v \in Virt
        PROVE  Memory'[p][v] \in {None, Memory[p][v]}
    <3>1. CASE \A a \in vs_areamap'[p] : v \notin Addresses(a)
      BY <3>1, MemoryNoneNext, Zenon
    <3>2. ASSUME NEW a \in vs_areamap[p] \ {old}, v \in Addresses(a)
          PROVE  Memory'[p][v] = Memory[p][v]
      <4>1. v \notin Addresses(old)
        BY <3>2, SameArea, Zenon DEF MemInv
      <4>2. va_pages'[p][v] = va_pages[p][v]
        BY <2>3, <2>5, <4>1, Zenon
      <4>3. Contents(p, a, v)' = Contents(p, a, v)
        BY <1>1, <4>2, Zenon DEF Contents
      <4>4. Memory[p][v] = Contents(p, a, v)
        BY <1>1, <3>2, MemoryAt, Zenon DEF MemInv
      <4>5. Memory'[p][v] = Contents(p, a, v)'
        BY <1>1, <2>5, <3>2, MemoryAtNext, Zenon DEF MemInv
      <4>6. QED
        BY <4>3, <4>4, <4>5, Zenon
    <3>3. ASSUME NEW a \in P, v \in Addresses(a)
          PROVE  Memory'[p][v] = Memory[p][v]
      <4>1. v \in Addresses(old)
        BY <2>1, <2>4, <3>3, PiecesOK, Zenon
      <4>2. va_pages[p][v] = None
        <5>1. old.begin \in Int /\ old.end \in Int
          BY <2>1, VMSpaceAssumption DEF Area, Virt
        <5>2. ~(begin = old.begin /\ end = old.end)
          BY <2>4, <3>3, <5>1 DEF Pieces
        <5>3. QED
          BY <2>1, <4>1, <5>2, Zenon
      <4>3. va_pages'[p][v] = None
        BY <2>3, <2>5, <4>1, Zenon
      <4>4. /\ Backed(a, v) <=> Backed(old, v)
            /\ Backed(a, v) => Offset(a, v) = Offset(old, v)
        BY <2>1, <2>4, PiecesView
      <4>5. Contents(p, a, v)' = Contents(p, old, v)
        BY <4>2, <4>3, <4>4, Zenon DEF Contents
      <4>6. Memory[p][v] = Contents(p, old, v)
        BY <1>1, <4>1, MemoryAt, Zenon DEF MemInv
      <4>7. Memory'[p][v] = Contents(p, a, v)'
        BY <1>1, <2>5, <3>3, MemoryAtNext, Zenon DEF MemInv
      <4>8. QED
        BY <4>5, <4>6, <4>7, Zenon
    <3>4. QED
      BY <2>5, <3>1, <3>2, <3>3, Zenon
  <2>8. QED
    BY <2>6, <2>7, UnmapStep, Zenon
<1>4. QED
  BY <1>2, <1>3, Zenon

\* PrepareForExecute, Destroy and DestroyEnd take a whole memory away.
LEMMA DeleteIsUnmap ==
  ASSUME MemInv, MemInv', NEW p \in Process,
         PrepareForExecute(p) \/ Destroy(p) \/ DestroyEnd(p)
  PROVE  \E range \in SUBSET Virt : Abstract!Unmap(p, range)
<1>1. /\ \A r \in Process \ {p} : /\ r \in live' <=> r \in live
                                  /\ vs_areamap'[r] = vs_areamap[r] /\ va_pages'[r] = va_pages[r]
      /\ data' = data
      /\ p \notin live' \/ vs_areamap'[p] = {}
  <2>1. CASE DeleteAreas(p)
    BY <2>1, Zenon DEF DeleteAreas, MemInv, MemTypeOK, pagevars
  <2>2. CASE DestroyEnd(p)
    BY <2>2, Zenon DEF DestroyEnd, pagevars
  <2>3. QED
    BY <2>1, <2>2, Zenon DEF PrepareForExecute, Destroy
<1>2. \A r \in Process \ {p}, v \in Virt : Memory'[r][v] = Memory[r][v]
  BY <1>1, SameMemory, Zenon
<1>3. \A v \in Virt : Memory'[p][v] = None
  BY <1>1, MemoryNoneNext, Zenon
<1>4. QED
  BY <1>2, <1>3, UnmapStep, Zenon

\* The new area shows zeroes or the file, where nothing was.
LEMMA MapEndIsMap ==
  ASSUME MemInv, ViewInv, MemInv', NEW p \in Process, MapEnd(p)
  PROVE  \E range \in SUBSET Virt : Abstract!Map(p, range)
<1>1. PICK va : va = todo[p].va
  BY Zenon
<1>2. /\ todo[p] # None /\ todo[p].op = "map"
      /\ vs_areamap' = [vs_areamap EXCEPT ![p] = @ \cup {va}]
      /\ UNCHANGED <<live, va_pages, data>>
  BY <1>1, Zenon DEF MapEnd, pagevars
<1>3. /\ va \in Area /\ Addresses(va) \subseteq Virt /\ p \in live /\ InFile(va)
      /\ \A a \in vs_areamap[p] : Addresses(a) \cap Addresses(va) = {}
      /\ va.dentry => va.end - va.begin <= va.dlength
  BY <1>1, <1>2, MapArea, Zenon DEF MemInv, CallInv, ViewInv, CallView
<1>4. /\ va.begin \in Int /\ va.end \in Int /\ va.doffset \in Int /\ va.dlength \in Int
      /\ va.dentry \in BOOLEAN
      /\ Addresses(va) = va.begin .. va.end - 1
  BY <1>3, VMSpaceAssumption DEF Area, Virt, Addresses
<1>5. /\ vs_areamap'[p] = vs_areamap[p] \cup {va}
      /\ \A r \in Process \ {p} : vs_areamap'[r] = vs_areamap[r]
  BY <1>2, Zenon DEF MemInv, MemTypeOK
<1>6. \A r \in Process \ {p}, v \in Virt : Memory'[r][v] = Memory[r][v]
  BY <1>2, <1>5, SameMemory, Zenon
<1>7. ASSUME NEW v \in Virt \ Addresses(va)
      PROVE  Memory'[p][v] = Memory[p][v]
  <2>1. CASE \E a \in vs_areamap[p] : v \in Addresses(a)
    <3>1. PICK a \in vs_areamap[p] : v \in Addresses(a)
      BY <2>1, Zenon
    <3>2. Contents(p, a, v)' = Contents(p, a, v)
      BY <1>2, Zenon DEF Contents
    <3>3. Memory[p][v] = Contents(p, a, v)
      BY <1>3, <3>1, MemoryAt, Zenon DEF MemInv
    <3>4. Memory'[p][v] = Contents(p, a, v)'
      BY <1>2, <1>3, <1>5, <3>1, MemoryAtNext, Zenon DEF MemInv
    <3>5. QED
      BY <3>2, <3>3, <3>4, Zenon
  <2>2. CASE \A a \in vs_areamap[p] : v \notin Addresses(a)
    BY <1>5, <1>7, <2>2, MemoryNone, MemoryNoneNext, Zenon
  <2>3. QED
    BY <2>1, <2>2, Zenon
<1>8. ASSUME NEW v \in Addresses(va)
      PROVE  /\ Memory[p][v] = None
             /\ Memory'[p][v] = IF Backed(va, v) THEN File[Offset(va, v)] ELSE 0
  <2>1. v \in Virt /\ \A a \in vs_areamap[p] : v \notin Addresses(a)
    BY <1>3, <1>8, Zenon
  <2>2. va_pages[p][v] = None
    BY <2>1, Zenon DEF MemInv, AreasInv
  <2>3. Contents(p, va, v)' = IF Backed(va, v) THEN File[Offset(va, v)] ELSE 0
    BY <1>2, <2>2, Zenon DEF Contents
  <2>4. Memory'[p][v] = Contents(p, va, v)'
    BY <1>2, <1>3, <1>5, <2>1, MemoryAtNext, Zenon DEF MemInv
  <2>5. QED
    BY <2>1, <2>3, <2>4, MemoryNone, Zenon
<1>9. PICK delta \in {None} \cup {o - v : o \in DOMAIN File, v \in Virt} :
        \A v \in Addresses(va) :
          Memory'[p][v] = IF delta # None /\ v + delta \in DOMAIN File THEN File[v + delta] ELSE 0
  <2>1. CASE ~va.dentry \/ Addresses(va) = {}
    <3>1. \A v \in Addresses(va) : Memory'[p][v] = 0
      BY <1>8, <2>1, Zenon DEF Backed
    <3>2. QED
      BY <3>1
  <2>2. CASE va.dentry /\ Addresses(va) # {}
    <3>1. DOMAIN File = 0 .. Cardinality(DOMAIN File) - 1 /\ Cardinality(DOMAIN File) \in Nat
      BY VMSpaceAssumption, FS_CardinalityType, Zenon
    <3>2. va.begin < va.end
      BY <1>4, <2>2
    <3>3. va.begin \in Addresses(va) /\ va.begin \in Virt
      BY <1>3, <1>4, <3>2
    <3>4. ASSUME NEW v \in Addresses(va)
          PROVE  v \in Int /\ Offset(va, v) \in DOMAIN File /\ Backed(va, v)
      <4>1. v \in Int /\ va.begin <= v /\ v < va.end
        BY <1>4
      <4>2. va.doffset >= 0 /\ va.doffset + (va.end - va.begin) <= Cardinality(DOMAIN File)
        BY <1>3, <2>2, Zenon DEF InFile
      <4>3. Offset(va, v) \in 0 .. Cardinality(DOMAIN File) - 1
        BY <1>4, <3>1, <4>1, <4>2, SMTT(20) DEF Offset
      <4>4. v - va.begin < va.dlength
        BY <1>3, <1>4, <2>2, <4>1
      <4>5. QED
        BY <2>2, <3>1, <4>1, <4>3, <4>4, Zenon DEF Backed
    <3>5. PICK delta \in Int : delta = va.doffset - va.begin
      BY <1>4
    <3>6. va.doffset \in DOMAIN File
      BY <1>4, <3>3, <3>4 DEF Offset
    <3>7. delta \in {o - v : o \in DOMAIN File, v \in Virt} /\ delta # None
      BY <3>3, <3>5, <3>6, VMSpaceAssumption
    <3>8. \A v \in Addresses(va) : v + delta = Offset(va, v)
      BY <1>4, <3>4, <3>5 DEF Offset
    <3>9. \A v \in Addresses(va) :
            Memory'[p][v] = IF delta # None /\ v + delta \in DOMAIN File THEN File[v + delta] ELSE 0
      BY <1>8, <3>4, <3>7, <3>8, SMTT(20)
    <3>10. QED
      BY <3>7, <3>9
  <2>3. QED
    BY <2>1, <2>2
<1>10. PICK range \in SUBSET Virt : range = Addresses(va)
  BY <1>3
<1>11. \A v \in Virt : Memory'[p][v] =
         CASE v \notin range -> Memory[p][v]
           [] v \in range /\ delta # None /\ v + delta \in DOMAIN File -> File[v + delta]
           [] OTHER -> 0
  BY <1>7, <1>9, <1>10
<1>12. Memory' = [Memory EXCEPT ![p] =
         [v \in Virt |->
           CASE v \notin range -> Memory[p][v]
             [] v \in range /\ delta # None /\ v + delta \in DOMAIN File -> File[v + delta]
             [] OTHER -> 0]]
  BY <1>6, <1>11, MemoryFunction, SMTT(20)
<1>13. \A v \in range : Memory[p][v] = None
  BY <1>8, <1>10
<1>14. Abstract!Map(p, range)
  BY <1>9, <1>12, <1>13 DEF Abstract!Map
<1>15. QED
  BY <1>14

-----------------------------------------------------------------------------
\* ~VMArea frees no page that anybody sees.
LEMMA DerefInvisible ==
  ASSUME MemInv, NEW p \in Process, DerefPage(p)
  PROVE  Memory' = Memory
<1>1. PICK q \in dying[p] :
        data' = IF vp_refcount[q] = 1 THEN [data EXCEPT ![q] = 0] ELSE data
  BY Zenon DEF DerefPage
<1>2. UNCHANGED <<live, vs_areamap, va_pages>>
  BY Zenon DEF DerefPage
<1>3. q \in VMPage /\ data \in [VMPage -> Value] /\ RefcountsExact
  BY Zenon DEF MemInv, MemTypeOK
<1>4. ASSUME NEW r \in Process, NEW v \in Virt, va_pages[r][v] = q
      PROVE  vp_refcount[q] # 1
  <2>1. p \in Holders(q) /\ r \in Holders(q)
    BY <1>3, <1>4, HasPage, Zenon
  <2>2. r # p
    BY <1>3, <1>4, VMSpaceAssumption, Zenon DEF MemInv, HeldOnce
  <2>3. QED
    BY <1>3, <2>1, <2>2, LastHolder, Zenon
<1>5. \A r \in Process, v \in Virt : va_pages[r][v] # None =>
         data'[va_pages[r][v]] = data[va_pages[r][v]]
  BY <1>1, <1>3, <1>4 DEF MemInv, MemTypeOK
<1>6. QED
  BY <1>2, <1>5, PagesInvisible, Zenon

\* What is done to a process that does not run yet is not seen.
LEMMA ChildInvisible ==
  ASSUME NEW child \in Process, child \notin live, UNCHANGED <<live, data>>,
         \A r \in Process \ {child} :
           vs_areamap'[r] = vs_areamap[r] /\ va_pages'[r] = va_pages[r]
  PROVE  Memory' = Memory
<1>1. ASSUME NEW r \in Process, NEW v \in Virt
      PROVE  Memory'[r][v] = Memory[r][v]
  <2>1. CASE r = child
    BY <2>1, MemoryNone, MemoryNoneNext, Zenon
  <2>2. CASE r # child
    BY <2>2, SameMemory, Zenon
  <2>3. QED
    BY <2>1, <2>2, Zenon
<1>2. QED
  BY <1>1, MemoryFunction, Zenon

\* VMSpace::Clone, before the child runs
LEMMA CloneInvisible ==
  ASSUME MemInv, NEW p \in Process, ClonePage(p) \/ \E child \in Process : Clone(p, child)
  PROVE  Memory' = Memory
<1>1. CASE ClonePage(p)
  <2>1. PICK child : child = todo[p].child
    BY Zenon
  <2>2. InFork(p) /\ UNCHANGED <<live, data, vs_areamap>>
    BY <1>1, Zenon DEF ClonePage, InFork
  <2>3. child \in Process /\ child \notin live
    BY <2>1, <2>2, ForkChild, Zenon DEF MemInv, ForkInv
  <2>4. \A r \in Process \ {child} : va_pages'[r] = va_pages[r]
    BY <1>1, <2>1, Zenon DEF ClonePage, MemInv, MemTypeOK
  <2>5. QED
    BY <2>2, <2>3, <2>4, ChildInvisible, Zenon
<1>2. CASE \E child \in Process : Clone(p, child)
  <2>1. PICK child \in Process : Clone(p, child)
    BY <1>2, Zenon
  <2>2. /\ child \notin live /\ UNCHANGED <<live, data, va_pages>>
        /\ \A r \in Process \ {child} : vs_areamap'[r] = vs_areamap[r]
    BY <2>1, Zenon DEF Clone, pagevars, MemInv, MemTypeOK
  <2>3. QED
    BY <2>2, ChildInvisible, Zenon
<1>3. QED
  BY <1>1, <1>2, Zenon

\* When the child runs, it has what its parent has.
LEMMA CloneEndIsFork ==
  ASSUME MemInv, NEW p \in Process, CloneEnd(p)
  PROVE  \E child \in Process : Abstract!Fork(p, child)
<1>1. PICK child : child = todo[p].child
  BY Zenon
<1>2. /\ InFork(p) /\ live' = live \cup {child} /\ Unshared(p) = {}
      /\ UNCHANGED <<vs_areamap, va_pages, data>>
  BY <1>1, Zenon DEF CloneEnd, InFork, pagevars
<1>3. /\ child \in Process /\ child \notin live /\ p \in live
      /\ vs_areamap[child] = vs_areamap[p]
      /\ \A v \in Virt : va_pages[child][v] \in {None, va_pages[p][v]}
  BY <1>1, <1>2, ForkChild, Zenon DEF MemInv, ForkInv, CallInv, InFork
<1>4. \A v \in Virt : va_pages[child][v] = va_pages[p][v]
  BY <1>1, <1>2, <1>3, Zenon DEF Unshared
<1>5. \A r \in Process \ {child}, v \in Virt : Memory'[r][v] = Memory[r][v]
  BY <1>2, <1>3, SameMemory, Zenon
<1>6. ASSUME NEW v \in Virt
      PROVE  Memory'[child][v] = Memory[p][v]
  <2>1. PICK a : a = AreaAt(vs_areamap[p], v)
    BY Zenon
  <2>2. Contents(child, a, v)' = Contents(p, a, v)
    BY <1>2, <1>4, Zenon DEF Contents
  <2>3. /\ Memory[p][v] = IF \E va \in vs_areamap[p] : v \in Addresses(va)
                          THEN Contents(p, a, v) ELSE None
        /\ Memory'[child][v] = IF \E va \in vs_areamap[p] : v \in Addresses(va)
                               THEN Contents(child, a, v)' ELSE None
    BY <1>2, <1>3, <2>1, Zenon DEF Memory
  <2>4. QED
    BY <2>2, <2>3, Zenon
<1>7. Memory[child] = [v \in Virt |-> None]
  BY <1>3, MemoryNone, MemoryFunction, Zenon
<1>8. Memory[p] = [v \in Virt |-> Memory[p][v]]
  BY MemoryFunction, Zenon
<1>9. Memory' = [Memory EXCEPT ![child] = Memory[p]]
  BY <1>3, <1>5, <1>6, <1>8, MemoryFunction
<1>10. Abstract!Fork(p, child)
  BY <1>7, <1>9, Zenon DEF Abstract!Fork, Abstract!Empty
<1>11. QED
  BY <1>3, <1>10, Zenon

-----------------------------------------------------------------------------
\* ViewInv

\* The pages of the inode are left alone by a step that gives no process a page
\* that is neither free nor another process's, and changes no such page.
LEMMA InodeKept ==
  ASSUME MemInv, InodeView, UNCHANGED i_pages,
         \A q \in VMPage \ FreePage :
           Holders(q) = {} => Holders(q)' = {} /\ data'[q] = data[q]
  PROVE  InodeView'
<1> SUFFICES ASSUME NEW o \in DOMAIN File, i_pages'[o] # None
             PROVE  (data[i_pages[o]] = File[o] /\ Holders(i_pages[o]) = {})'
  BY Zenon DEF InodeView
<1>1. PICK q : q = i_pages[o] /\ q = i_pages'[o]
  BY Zenon
<1>2. q \in VMPage /\ q \notin FreePage
  BY <1>1, FreePageUnused, Zenon DEF MemInv, MemTypeOK
<1>3. data[q] = File[o] /\ Holders(q) = {}
  BY <1>1, Zenon DEF InodeView
<1>4. data'[q] = File[o] /\ Holders(q)' = {}
  BY <1>2, <1>3, Zenon
<1>5. Holders(i_pages[o])' = Holders(q)'
  BY <1>1, Zenon DEF Holders, PagesOf
<1>6. QED
  BY <1>1, <1>4, <1>5, Zenon

\* A page that nobody has comes to nobody by moving pages.
LEMMA NoNewHolders ==
  ASSUME NEW q \in VMPage, Holders(q) = {},
         \A r \in Process : dying'[r] \subseteq dying[r] \cup PagesOf(r),
         \A r \in Process, v \in Virt : va_pages'[r][v] = q =>
            \E s \in Process, w \in Virt : va_pages[s][w] = q
  PROVE  Holders(q)' = {}
<1>1. \A r \in Process : /\ q \notin dying[r] /\ q \notin PagesOf(r)
                         /\ \A w \in Virt : va_pages[r][w] # q
  BY VMSpaceAssumption DEF Holders, PagesOf
<1>2. \A r \in Process : q \notin dying'[r] /\ \A v \in Virt : va_pages'[r][v] # q
  BY <1>1, Zenon
<1>3. QED
  BY <1>2, HasPageNext DEF Holders

\* Mapping, deleting and forking
LEMMA CallInodeView ==
  ASSUME MemInv, ViewInv, ~Splits, NEW p \in Process,
         \/ \E m \in Mapping : Mappable(p, NewArea(m)) /\ Map(p, NewArea(m))
         \/ MapEnd(p) \/ PrepareForExecute(p) \/ Destroy(p) \/ DestroyEnd(p)
         \/ \E child \in Process : Clone(p, child)
         \/ ClonePage(p) \/ CloneEnd(p)
  PROVE  InodeView'
<1>1. /\ va_pages \in [Process -> [Virt -> VMPage \cup {None}]] /\ dying \in [Process -> SUBSET VMPage]
      /\ None \notin VMPage
  BY VMSpaceAssumption, Zenon DEF MemInv, MemTypeOK
<1>2. SUFFICES /\ UNCHANGED <<i_pages, data>>
               /\ \A r \in Process : dying'[r] \subseteq dying[r] \cup PagesOf(r)
               /\ \A q \in VMPage, r \in Process, v \in Virt : va_pages'[r][v] = q =>
                     \E s \in Process, w \in Virt : va_pages[s][w] = q
  BY NoNewHolders, InodeKept, Zenon DEF ViewInv
<1>3. CASE UNCHANGED <<i_pages, data, dying, va_pages>>
  BY <1>3, Zenon
<1>4. ASSUME NEW m \in Mapping, Mappable(p, NewArea(m)), Map(p, NewArea(m)),
             Overlapping(p, NewArea(m)) # {}
      PROVE  /\ UNCHANGED <<i_pages, data>>
             /\ \A r \in Process : dying'[r] \subseteq dying[r] \cup PagesOf(r)
             /\ \A q \in VMPage, r \in Process, v \in Virt : va_pages'[r][v] = q =>
                   \E s \in Process, w \in Virt : va_pages[s][w] = q
  <2>1. PICK va \in Area : va = NewArea(m) /\ va.begin < va.end
    BY NewAreaOK, Zenon
  <2>2. PICK old \in vs_areamap[p], begin \in Int, end \in Int :
          Cut(p, va, old, begin, end)
    BY <1>4, <2>1, MapCuts, Zenon
  <2> USE DEF Cut
  <2>3. PICK kept : kept = MigratePages(va_pages[p], old, begin, end)
    BY Zenon
  <2>4. \A v \in Virt : kept[v] \in {None, va_pages[p][v]}
    <3>1. /\ old \in Area /\ old.begin <= begin /\ begin < end /\ end <= old.end
          /\ \/ begin = old.begin /\ end = old.end
             \/ \A v \in Addresses(old) : va_pages[p][v] = None
      BY <2>2, Zenon
    <3>2. \A v \in Virt : MigratePages(va_pages[p], old, begin, end)[v] =
                            IF v \in Addresses(old) THEN None ELSE va_pages[p][v]
      BY <3>1, MigrateOK, SMTT(60)
    <3>3. QED
      BY <2>3, <3>2, Zenon
  <2>5. va_pages' = [va_pages EXCEPT ![p] = kept]
    BY <2>2, <2>3, Zenon
  <2>6. UNCHANGED <<i_pages, data>>
    BY <1>4, Zenon DEF Map, pagevars
  <2>7. \A r \in Process : dying'[r] \subseteq dying[r] \cup PagesOf(r)
    BY <1>1, <2>2, Zenon
  <2>8. \A q \in VMPage, r \in Process, v \in Virt : va_pages'[r][v] = q =>
           \E s \in Process, w \in Virt : va_pages[s][w] = q
    BY <1>1, <2>4, <2>5, Zenon
  <2>9. QED
    BY <2>6, <2>7, <2>8, Zenon
<1>5. CASE \E m \in Mapping : Mappable(p, NewArea(m)) /\ Map(p, NewArea(m))
  <2>1. PICK m \in Mapping : Mappable(p, NewArea(m)) /\ Map(p, NewArea(m))
    BY <1>5, Zenon
  <2>2. CASE Overlapping(p, NewArea(m)) = {}
    <3>1. UNCHANGED <<i_pages, data, dying, va_pages>>
      BY <2>1, <2>2, Zenon DEF Map, pagevars
    <3>2. QED
      BY <1>3, <3>1, Zenon
  <2>3. QED
    BY <1>4, <2>1, <2>2, Zenon
<1>6. CASE DeleteAreas(p)
  <2>1. UNCHANGED <<i_pages, data>>
    BY <1>6, Zenon DEF DeleteAreas, pagevars
  <2>2. \A r \in Process : dying'[r] \subseteq dying[r] \cup PagesOf(r)
    BY <1>1, <1>6, Zenon DEF DeleteAreas
  <2>3. \A r \in Process, v \in Virt : va_pages'[r][v] \in {None, va_pages[r][v]}
    BY <1>1, <1>6, Zenon DEF DeleteAreas, NoPages
  <2>4. QED
    BY <1>1, <2>1, <2>2, <2>3
<1>7. CASE ClonePage(p)
  <2>1. UNCHANGED <<i_pages, data, dying>>
    BY <1>7, Zenon DEF ClonePage
  <2>2. PICK v \in Virt : va_pages' = [va_pages EXCEPT ![todo[p].child][v] = va_pages[p][v]]
    BY <1>7, Zenon DEF ClonePage, Unshared
  <2>3. \A q \in VMPage, r \in Process, w \in Virt : va_pages'[r][w] = q =>
           va_pages[r][w] = q \/ va_pages[p][v] = q
    BY <1>1, <2>2, Zenon
  <2>4. QED
    BY <2>1, <2>3, Zenon
<1>8. CASE MapEnd(p) \/ DestroyEnd(p) \/ CloneEnd(p) \/ \E child \in Process : Clone(p, child)
  <2>1. UNCHANGED <<i_pages, data, dying, va_pages>>
    BY <1>8, Zenon DEF MapEnd, DestroyEnd, CloneEnd, Clone, pagevars
  <2>2. QED
    BY <1>3, <2>1, Zenon
<1>9. QED
  BY <1>5, <1>6, <1>7, <1>8, Zenon DEF PrepareForExecute, Destroy

\* Giving up pages, storing and page faults
LEMMA PageInodeView ==
  ASSUME MemInv, ViewInv, NEW p \in Process, DerefPage(p) \/ Access(p)
  PROVE  InodeView'
<1>1. /\ va_pages \in [Process -> [Virt -> VMPage \cup {None}]] /\ dying \in [Process -> SUBSET VMPage]
      /\ data \in [VMPage -> Value] /\ None \notin VMPage
  BY VMSpaceAssumption, Zenon DEF MemInv, MemTypeOK
<1>2. CASE DerefPage(p)
  <2>1. PICK q \in dying[p] :
          /\ dying' = [dying EXCEPT ![p] = @ \ {q}]
          /\ data' = IF vp_refcount[q] = 1 THEN [data EXCEPT ![q] = 0] ELSE data
    BY <1>2, Zenon DEF DerefPage
  <2>2. UNCHANGED <<i_pages, va_pages>> /\ q \in VMPage
    BY <1>1, <1>2, Zenon DEF DerefPage
  <2>3. p \in Holders(q)
    BY <2>2, HasPage, Zenon
  <2>4. \A r \in Process : dying'[r] \subseteq dying[r] \cup PagesOf(r)
    BY <1>1, <2>1, Zenon
  <2>5. ASSUME NEW n \in VMPage, Holders(n) = {}
        PROVE  Holders(n)' = {} /\ data'[n] = data[n]
    BY <1>1, <2>1, <2>2, <2>3, <2>4, <2>5, NoNewHolders, Zenon
  <2>6. QED
    BY <2>2, <2>5, InodeKept, Zenon DEF ViewInv
<1>3. ASSUME NEW va \in vs_areamap[p], NEW v \in Addresses(va), NEW x \in Value, Store(p, va, v, x)
      PROVE  InodeView'
  <2>1. /\ UNCHANGED <<i_pages, va_pages, dying>> /\ pte[p][v] # None
        /\ data' = [data EXCEPT ![pte[p][v].page] = x]
    BY <1>3, Zenon DEF Store
  <2>2. v \in Virt
    BY AreaAddresses, Zenon DEF MemInv
  <2>3. va_pages[p][v] # None /\ pte[p][v].page = va_pages[p][v]
    <3>1. /\ va_pages[p][v] # None
          /\ pte[p][v] = Translation(va_pages[p][v], va.write, va_pages[p][v] \in promoted)
      BY <2>1, Zenon DEF MemInv, TranslationsCurrent
    <3>2. PICK b \in BOOLEAN : b <=> va.write /\ va_pages[p][v] \in promoted
      BY Zenon
    <3>3. pte[p][v] = [page |-> va_pages[p][v], write |-> b]
      BY <3>1, <3>2, Zenon DEF Translation
    <3>4. QED
      BY <3>1, <3>3
  <2>4. va_pages[p][v] \in VMPage /\ p \in Holders(va_pages[p][v])
    BY <1>1, <2>2, <2>3, HasPage
  <2>5. ASSUME NEW n \in VMPage, Holders(n) = {}
        PROVE  Holders(n)' = {} /\ data'[n] = data[n]
    BY <1>1, <2>1, <2>3, <2>4, <2>5, NoNewHolders, Zenon
  <2>6. QED
    BY <2>1, <2>5, InodeKept, Zenon DEF ViewInv
<1>4. ASSUME NEW v \in Virt, NEW q \in FreePage, UNCHANGED <<i_pages, dying>>,
             va_pages' = [va_pages EXCEPT ![p][v] = q],
             \A n \in VMPage \ {q} : data'[n] = data[n]
      PROVE  InodeView'
  <2>1. ASSUME NEW n \in VMPage \ FreePage, Holders(n) = {}
        PROVE  Holders(n)' = {} /\ data'[n] = data[n]
    <3>1. n # q
      BY Zenon
    <3>2. \A r \in Process, w \in Virt : va_pages'[r][w] = n => va_pages[r][w] = n
      BY <1>1, <1>4, <3>1, Zenon
    <3>3. QED
      BY <1>4, <2>1, <3>1, <3>2, NoNewHolders, Zenon
  <2>2. QED
    BY <1>4, <2>1, InodeKept, Zenon DEF ViewInv
<1>5. ASSUME NEW va \in vs_areamap[p], NEW v \in Addresses(va),
             FaultPromote(p, va, v) \/ FaultFile(p, va, v) \/ FaultZero(p, va, v)
      PROVE  InodeView'
  <2>1. v \in Virt
    BY AreaAddresses, Zenon DEF MemInv
  <2>2. UNCHANGED <<i_pages, dying>>
    BY <1>5, Zenon DEF FaultPromote, FaultFile, FaultZero
  <2>3. CASE UNCHANGED <<va_pages, data>>
    BY <2>2, <2>3, NoNewHolders, InodeKept, Zenon DEF ViewInv
  <2>4. CASE \E q \in FreePage : \E x : /\ va_pages' = [va_pages EXCEPT ![p][v] = q]
                                        /\ data' = [data EXCEPT ![q] = x]
    BY <1>1, <1>4, <2>1, <2>2, <2>4, Zenon
  <2>5. QED
    BY <1>5, <2>3, <2>4, Zenon DEF FaultPromote, FaultFile, FaultZero, AssignNew
<1>6. ASSUME NEW va \in vs_areamap[p], NEW v \in Addresses(va), FaultReadFile(p, va, v)
      PROVE  InodeView'
  <2>1. PICK q \in FreePage :
          /\ i_pages' = [i_pages EXCEPT ![Offset(va, v)] = q]
          /\ data' = [data EXCEPT ![q] = File[Offset(va, v)]]
    BY <1>6, Zenon DEF FaultReadFile
  <2>2. UNCHANGED <<va_pages, dying>> /\ Backed(va, v)
    BY <1>6, Zenon DEF FaultReadFile
  <2>3. Offset(va, v) \in DOMAIN File /\ i_pages \in [DOMAIN File -> VMPage \cup {None}]
    BY <2>2, FileOffset, Zenon DEF MemInv, MemTypeOK
  <2>4. q \in VMPage /\ Holders(q) = {} /\ \A o \in DOMAIN File : i_pages[o] # q
    BY FreePageUnused, FreshPage, Zenon DEF FreePage, MemInv
  <2>5. \A n : Holders(n)' = Holders(n)
    BY <2>2, Zenon DEF Holders, PagesOf
  <2>6. SUFFICES ASSUME NEW o \in DOMAIN File, i_pages'[o] # None
                 PROVE  (data[i_pages[o]] = File[o] /\ Holders(i_pages[o]) = {})'
    BY Zenon DEF InodeView
  <2>7. PICK n : n = i_pages'[o]
    BY Zenon
  <2>8. Holders(i_pages[o])' = Holders(n)
    BY <2>2, <2>7, Zenon DEF Holders, PagesOf
  <2>9. CASE o = Offset(va, v)
    BY <1>1, <2>1, <2>3, <2>4, <2>7, <2>8, <2>9, Zenon
  <2>10. CASE o # Offset(va, v)
    <3>1. n = i_pages[o] /\ n # q /\ n \in VMPage
      BY <2>1, <2>3, <2>4, <2>6, <2>7, <2>10, Zenon
    <3>2. data[n] = File[o] /\ Holders(n) = {}
      BY <2>6, <2>7, <3>1 DEF ViewInv, InodeView
    <3>3. data'[n] = data[n]
      BY <1>1, <2>1, <3>1, Zenon
    <3>4. QED
      BY <2>7, <2>8, <3>2, <3>3, Zenon
  <2>11. QED
    BY <2>9, <2>10, Zenon
<1>7. QED
  BY <1>2, <1>3, <1>5, <1>6, Zenon DEF Access

\* What programs ask for is private when it can be written, and asks for as much of
\* the file as it maps.
LEMMA NewAreaView ==
  ASSUME PrivateWrites, NEW m \in Mapping
  PROVE  /\ NewArea(m).write => NewArea(m).private
         /\ NewArea(m).dentry => NewArea(m).end - NewArea(m).begin <= NewArea(m).dlength
<1>1. NewArea(m).write = m.write /\ NewArea(m).private = m.private
  BY Zenon DEF NewArea
<1>2. ASSUME NewArea(m).dentry
      PROVE  NewArea(m).end - NewArea(m).begin <= NewArea(m).dlength
  <2>1. m.offset # None
    BY <1>2, Zenon DEF NewArea
  <2>2. m.begin \in Int /\ m.end \in Int /\ m.offset \in DOMAIN File
    BY <2>1, VMSpaceAssumption DEF Virt
  <2>3. PICK n \in Int : n = Cardinality(DOMAIN File) - m.offset
    <3>1. DOMAIN File = 0 .. Cardinality(DOMAIN File) - 1 /\ Cardinality(DOMAIN File) \in Nat
      BY VMSpaceAssumption, FS_CardinalityType, Zenon
    <3>2. QED
      BY <2>2, <3>1
  <2>4. /\ NewArea(m).begin = m.begin /\ NewArea(m).dlength = m.end - m.begin
        /\ NewArea(m).end = IF m.end - m.begin > n THEN m.begin + n ELSE m.end
    BY <2>1, <2>3, Zenon DEF NewArea
  <2>5. QED
    BY <2>2, <2>3, <2>4
<1>3. QED
  BY <1>1, <1>2, Zenon DEF PrivateWrites

\* The rights of areas: they are what was asked for, also when areas are cut and
\* copied.
LEMMA AreaViewNext ==
  ASSUME MemInv, ViewInv, ~Splits, NEW p \in Process,
         \/ \E m \in Mapping : Mappable(p, NewArea(m)) /\ Map(p, NewArea(m))
         \/ MapEnd(p) \/ PrepareForExecute(p) \/ Destroy(p) \/ DestroyEnd(p) \/ DerefPage(p)
         \/ \E child \in Process : Clone(p, child)
         \/ ClonePage(p) \/ CloneEnd(p) \/ Access(p)
  PROVE  AreaView'
<1>1. vs_areamap \in [Process -> SUBSET Area] /\ AreaView
  BY Zenon DEF MemInv, MemTypeOK, ViewInv
<1>2. CASE UNCHANGED vs_areamap
  BY <1>1, <1>2, Zenon DEF AreaView
<1>3. CASE \E m \in Mapping : Mappable(p, NewArea(m)) /\ Map(p, NewArea(m))
  <2>1. PICK m \in Mapping : Mappable(p, NewArea(m)) /\ Map(p, NewArea(m))
    BY <1>3, Zenon
  <2>2. PICK va \in Area : va = NewArea(m) /\ va.begin < va.end
    BY NewAreaOK, Zenon
  <2>3. CASE Overlapping(p, va) = {}
    <3>1. UNCHANGED vs_areamap
      BY <2>1, <2>2, <2>3, Zenon DEF Map
    <3>2. QED
      BY <1>2, <3>1, Zenon
  <2>4. CASE Overlapping(p, va) # {}
    <3>0. Mappable(p, va) /\ Map(p, va) /\ va.begin < va.end
      BY <2>1, <2>2, Zenon
    <3>1. PICK old \in vs_areamap[p], begin \in Int, end \in Int :
            Cut(p, va, old, begin, end)
      BY <2>4, <3>0, MapCuts, Zenon
    <3> USE DEF Cut
    <3>2. old \in Area /\ (old.write => old.private)
      BY <1>1, Zenon DEF AreaView
    <3>3. \A a \in Pieces(old, begin, end) : a.write => a.private
      BY <3>2, PiecesView
    <3>4. QED
      BY <1>1, <3>1, <3>3, Zenon DEF AreaView
  <2>5. QED
    BY <2>3, <2>4, Zenon
<1>4. CASE MapEnd(p)
  <2>1. /\ todo[p] # None /\ todo[p].op = "map"
        /\ vs_areamap' = [vs_areamap EXCEPT ![p] = @ \cup {todo[p].va}]
    BY <1>4, Zenon DEF MapEnd
  <2>2. todo[p].va.write => todo[p].va.private
    BY <2>1, Zenon DEF ViewInv, CallView
  <2>3. QED
    BY <1>1, <2>1, <2>2, Zenon DEF AreaView
<1>5. CASE DeleteAreas(p)
  BY <1>1, <1>5, Zenon DEF DeleteAreas, AreaView
<1>6. CASE \E child \in Process : Clone(p, child)
  BY <1>1, <1>6, Zenon DEF Clone, AreaView
<1>7. CASE DestroyEnd(p) \/ DerefPage(p) \/ ClonePage(p) \/ CloneEnd(p) \/ Access(p)
  <2>1. UNCHANGED vs_areamap
    BY <1>7, Zenon DEF DestroyEnd, DerefPage, ClonePage, CloneEnd, Access, Store, FaultPromote,
                       FaultReadFile, FaultFile, FaultZero
  <2>2. QED
    BY <1>2, <2>1, Zenon
<1>8. QED
  BY <1>3, <1>4, <1>5, <1>6, <1>7, Zenon DEF PrepareForExecute, Destroy

\* What a process is mapping is what it asked for.
LEMMA CallViewNext ==
  ASSUME MemInv, ViewInv, PrivateWrites, NEW p \in Process,
         \/ \E m \in Mapping : Mappable(p, NewArea(m)) /\ Map(p, NewArea(m))
         \/ MapEnd(p) \/ PrepareForExecute(p) \/ Destroy(p) \/ DestroyEnd(p) \/ DerefPage(p)
         \/ \E child \in Process : Clone(p, child)
         \/ ClonePage(p) \/ CloneEnd(p) \/ Access(p)
  PROVE  CallView'
<1>1. todo \in [Process -> Todo] /\ CallView
  BY Zenon DEF MemInv, MemTypeOK, ViewInv
<1>2. CASE UNCHANGED todo
  BY <1>1, <1>2, Zenon DEF CallView
<1>3. CASE \E m \in Mapping : Mappable(p, NewArea(m)) /\ Map(p, NewArea(m))
  <2>1. PICK m \in Mapping : todo' = [todo EXCEPT ![p] = [op |-> "map", va |-> NewArea(m)]]
    BY <1>3, Zenon DEF Map
  <2>2. PICK va : va = NewArea(m)
    BY Zenon
  <2>3. /\ va.write => va.private
        /\ va.dentry => va.end - va.begin <= va.dlength
    BY <2>2, NewAreaView, Zenon
  <2>4. todo'[p].va = va /\ \A r \in Process \ {p} : todo'[r] = todo[r]
    BY <1>1, <2>1, <2>2, Zenon
  <2>5. QED
    BY <1>1, <2>3, <2>4, Zenon DEF CallView
<1>4. ASSUME NEW x, todo' = [todo EXCEPT ![p] = x], x # None => x.op # "map"
      PROVE  CallView'
  BY <1>1, <1>4, Zenon DEF CallView
<1>5. CASE MapEnd(p) \/ DestroyEnd(p) \/ CloneEnd(p)
  <2>1. todo' = [todo EXCEPT ![p] = None]
    BY <1>5, Zenon DEF MapEnd, DestroyEnd, CloneEnd
  <2>2. QED
    BY <1>4, <2>1, Zenon
<1>6. CASE Destroy(p)
  <2>1. todo' = [todo EXCEPT ![p] = [op |-> "exit"]]
    BY <1>6, Zenon DEF Destroy
  <2>2. [op |-> "exit"].op # "map"
    BY Zenon
  <2>3. QED
    BY <1>4, <2>1, <2>2, Zenon
<1>7. CASE \E child \in Process : Clone(p, child)
  <2>1. PICK child \in Process : todo' = [todo EXCEPT ![p] = [op |-> "fork", child |-> child]]
    BY <1>7, Zenon DEF Clone
  <2>2. [op |-> "fork", child |-> child].op # "map"
    BY Zenon
  <2>3. QED
    BY <1>4, <2>1, <2>2, Zenon
<1>8. CASE PrepareForExecute(p) \/ DerefPage(p) \/ ClonePage(p) \/ Access(p)
  <2>1. UNCHANGED todo
    BY <1>8, Zenon DEF PrepareForExecute, DerefPage, ClonePage, Access, Store, FaultPromote,
                       FaultReadFile, FaultFile, FaultZero
  <2>2. QED
    BY <1>2, <2>1, Zenon
<1>9. QED
  BY <1>3, <1>5, <1>6, <1>7, <1>8, Zenon

-----------------------------------------------------------------------------
\* ViewInv holds at the start.
LEMMA ViewInit ==
  ASSUME Init
  PROVE  ViewInv
BY Zenon DEF Init, ViewInv, InodeView, AreaView, CallView

\* Every step preserves ViewInv.
LEMMA ViewNext ==
  ASSUME MemInv, ViewInv, ~Splits, PrivateWrites, [Next]_vars
  PROVE  ViewInv'
<1>1. CASE Next
  <2>1. PICK p \in Process :
          \/ \E m \in Mapping : Mappable(p, NewArea(m)) /\ Map(p, NewArea(m))
          \/ MapEnd(p) \/ PrepareForExecute(p) \/ Destroy(p) \/ DestroyEnd(p) \/ DerefPage(p)
          \/ \E child \in Process : Clone(p, child)
          \/ ClonePage(p) \/ CloneEnd(p) \/ Access(p)
    BY <1>1, Zenon DEF Next
  <2>2. InodeView'
    BY <2>1, CallInodeView, PageInodeView, Zenon
  <2>3. AreaView' /\ CallView'
    BY <2>1, AreaViewNext, CallViewNext, Zenon
  <2>4. QED
    BY <2>2, <2>3, Zenon DEF ViewInv
<1>2. CASE UNCHANGED vars
  <2>1. UNCHANGED <<vs_areamap, va_pages, dying, todo, data, i_pages>>
    BY <1>2, Zenon DEF vars, pagevars
  <2>2. QED
    BY <2>1 DEF ViewInv, InodeView, AreaView, CallView, Holders, PagesOf
<1>3. QED
  BY <1>1, <1>2, Zenon

\* Every step is a step of the abstract memory, or is not seen.
LEMMA StepImplements ==
  ASSUME MemInv, ViewInv, MemInv', ~Splits, [Next]_vars
  PROVE  [Abstract!Next]_Memory
<1>1. CASE Next
  <2>1. PICK p \in Process :
          \/ \E m \in Mapping : Mappable(p, NewArea(m)) /\ Map(p, NewArea(m))
          \/ MapEnd(p) \/ PrepareForExecute(p) \/ Destroy(p) \/ DestroyEnd(p) \/ DerefPage(p)
          \/ \E child \in Process : Clone(p, child)
          \/ ClonePage(p) \/ CloneEnd(p) \/ Access(p)
    BY <1>1, Zenon DEF Next
  <2>2. ASSUME \E range \in SUBSET Virt : Abstract!Unmap(p, range) \/ Abstract!Map(p, range)
        PROVE  Abstract!Next
    BY <2>2, Zenon DEF Abstract!Next
  <2>3. CASE \E m \in Mapping : Mappable(p, NewArea(m)) /\ Map(p, NewArea(m))
    BY <2>2, <2>3, NewAreaOK, MapIsUnmap, Zenon
  <2>4. CASE MapEnd(p)
    BY <2>2, <2>4, MapEndIsMap, Zenon
  <2>5. CASE PrepareForExecute(p) \/ Destroy(p) \/ DestroyEnd(p)
    BY <2>2, <2>5, DeleteIsUnmap, Zenon
  <2>6. CASE DerefPage(p)
    BY <2>6, DerefInvisible, Zenon
  <2>7. CASE ClonePage(p) \/ \E child \in Process : Clone(p, child)
    BY <2>7, CloneInvisible, Zenon
  <2>8. CASE CloneEnd(p)
    BY <2>8, CloneEndIsFork, Zenon DEF Abstract!Next
  <2>9. CASE Access(p)
    <3>1. PICK va \in vs_areamap[p] : \E v \in Addresses(va) :
            \/ \E x \in Value : Store(p, va, v, x)
            \/ FaultPromote(p, va, v) \/ FaultReadFile(p, va, v)
            \/ FaultFile(p, va, v) \/ FaultZero(p, va, v)
      BY <2>9, Zenon DEF Access
    <3>2. PICK v \in Addresses(va) :
            \/ \E x \in Value : Store(p, va, v, x)
            \/ FaultPromote(p, va, v) \/ FaultReadFile(p, va, v)
            \/ FaultFile(p, va, v) \/ FaultZero(p, va, v)
      BY <3>1, Zenon
    <3>3. v \in Virt
      BY AreaAddresses, Zenon DEF MemInv
    <3>4. CASE \E x \in Value : Store(p, va, v, x)
      BY <3>3, <3>4, StoreIsStore, Zenon DEF Abstract!Next
    <3>5. QED
      BY <3>2, <3>4, FaultsInvisible, Zenon
  <2>10. QED
    BY <2>1, <2>3, <2>4, <2>5, <2>6, <2>7, <2>8, <2>9, Zenon
<1>2. CASE UNCHANGED vars
  <2>1. UNCHANGED <<live, vs_areamap, va_pages, data>>
    BY <1>2, Zenon DEF vars, pagevars
  <2>2. QED
    BY <2>1, PagesInvisible, Zenon
<1>3. QED
  BY <1>1, <1>2, Zenon

\* What the refinement rests on holds in every state: the pages LookupOrCreateINodePage
\* shares hold the file and are no process's, whatever is mapped, copied and freed.
THEOREM ViewInvariance ==
  ASSUME ~Splits, PrivateWrites
  PROVE  Spec => []ViewInv
<1>1. Init => ViewInv
  BY ViewInit, Zenon
<1>2. MemInv /\ ViewInv /\ [Next]_vars => ViewInv'
  BY ViewNext, Zenon
<1>3. QED
  BY <1>1, <1>2, MemoryInvariant, PTL DEF Spec

\* vmspace.cpp, vmarea.cpp, vmpage.cpp and vmfault.cpp give every process a memory
\* of its own: mapping makes zeroes or the file appear, a store changes one address
\* of one process, fork copies, and faults, sharing, copying and freeing pages are
\* not seen by any program.
THEOREM PrivateMemories ==
  ASSUME ~Splits, PrivateWrites
  PROVE  Spec => ImplementsAbstractMemory
<1>1. Init => Abstract!Init
  <2>1. SUFFICES ASSUME Init PROVE Memory = [p \in Process |-> [v \in Virt |-> None]]
    BY Zenon DEF Abstract!Init, Abstract!Empty
  <2>2. \A p \in Process, v \in Virt : Memory[p][v] = None
    BY MemoryNone, <2>1, Zenon DEF Init
  <2>3. QED
    BY <2>2, MemoryFunction, Zenon
<1>2. MemInv /\ ViewInv /\ MemInv' /\ [Next]_vars => [Abstract!Next]_Memory
  BY StepImplements, Zenon
<1>3. QED
  BY <1>1, <1>2, MemoryInvariant, ViewInvariance, PTL
  DEF Spec, ImplementsAbstractMemory, Abstract!Spec
=============================================================================
