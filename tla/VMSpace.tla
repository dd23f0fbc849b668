------------------------------ MODULE VMSpace -------------------------------
(***************************************************************************)
(* Virtual memory (vm/vmspace.cpp, vmarea.cpp, vmpage.cpp, vmfault.cpp and *)
(* sys/vmop.cpp): the areas of each process, the pages that back them, and *)
(* the page table the processor looks at.  Pages are filled on demand and  *)
(* shared copy-on-write by fork.                                           *)
(*                                                                         *)
(* A process has one thread, so that its areas are its own; pages are      *)
(* shared, and every use of one is made with its lock held.  A step is     *)
(* what a process does under one page lock, and another process may do     *)
(* anything between two such steps of a system call.  An address stands    *)
(* for a page.  Programs touch no address outside their areas.             *)
(***************************************************************************)
EXTENDS Integers, FiniteSets

CONSTANTS
  Process,
  init,      \* the first process, which never exits
  VMPage,    \* the pages there are
  MaxVirt,   \* addresses are 0 .. MaxVirt - 1
  Value,     \* what an address holds
  File,      \* the contents of the file: a function from offsets to values
  Mapping,   \* what programs map: requests to sys_vmop_map and the loader
  Splits,    \* whether programs map over a part of an area that has pages
  None

Virt == 0 .. MaxVirt - 1

ASSUME VMSpaceAssumption ==
  /\ IsFiniteSet(Process) /\ init \in Process
  /\ MaxVirt \in Nat
  /\ 0 \in Value
  /\ IsFiniteSet(DOMAIN File)
  /\ File \in [0 .. Cardinality(DOMAIN File) - 1 -> Value]
  /\ Mapping \subseteq [begin : Virt, end : 1 .. MaxVirt, write : BOOLEAN, private : BOOLEAN,
                         offset : DOMAIN File \cup {None}, part : BOOLEAN]
  /\ \A m \in Mapping : m.begin < m.end
  /\ Splits \in BOOLEAN
  /\ None \notin Int
  /\ None \notin VMPage \cup Process \cup Value \cup [op : {"fork"}, child : Process]

VARIABLES
  live,         \* the processes that have been created and not destroyed
  vs_areamap,   \* the areas of each process
  va_pages,     \* the page that backs an address of a process, or None
  dying,        \* the pages of areas being deleted that are not dereferenced yet
  todo,         \* what remains to be done of the system call a process is in
  pte,          \* the page table of each process
  vp_refcount,  \* references to each page; 0: a page that is free
  promoted,     \* the pages with the flag Promoted
  data,         \* what is in each page
  i_pages       \* the pages of the inode of the file, by offset

pagevars == <<vp_refcount, promoted, data>>
vars == <<live, vs_areamap, va_pages, dying, todo, pte, pagevars, i_pages>>

Area == [begin : Virt, end : 1 .. MaxVirt, write : BOOLEAN, private : BOOLEAN,
         dentry : BOOLEAN, doffset : Int, dlength : Int, part : BOOLEAN]
Todo == {None} \cup [op : {"map"}, va : Area] \cup [op : {"fork"}, child : Process]
               \cup [op : {"exit"}]

Addresses(va) == va.begin .. va.end - 1
NoPages == [v \in Virt |-> None]

Init ==
  /\ live = {init}
  /\ vs_areamap = [p \in Process |-> {}]
  /\ va_pages = [p \in Process |-> NoPages]
  /\ dying = [p \in Process |-> {}]
  /\ todo = [p \in Process |-> None]
  /\ pte = [p \in Process |-> NoPages]
  /\ vp_refcount = [q \in VMPage |-> 0]
  /\ promoted = {}
  /\ data = [q \in VMPage |-> 0]
  /\ i_pages = [o \in DOMAIN File |-> None]

\* The process is not in a system call.
User(p) == p \in live /\ todo[p] = None /\ dying[p] = {}

PagesOf(p) == {va_pages[p][v] : v \in Virt} \ {None}

-----------------------------------------------------------------------------
\* VMPage

\* Allocate returns a page that is free; when there is none, the kernel panics.
FreePage == {q \in VMPage : vp_refcount[q] = 0}

\* VMPage::Map
Translation(q, write, isPromoted) == [page |-> q, write |-> write /\ isPromoted]

\* AssignPageToVirtualAddress, for an address that had no page
AssignNew(p, va, v, contents, isPromoted) ==
  \E q \in FreePage :
    /\ va_pages' = [va_pages EXCEPT ![p][v] = q]
    /\ pte' = [pte EXCEPT ![p][v] = Translation(q, va.write, isPromoted)]
    /\ vp_refcount' = [vp_refcount EXCEPT ![q] = 1]
    /\ promoted' = IF isPromoted THEN promoted \cup {q} ELSE promoted
    /\ data' = [data EXCEPT ![q] = contents]

\* ~VMArea, one page after the other.  The last reference frees the page; what
\* is in a free page does not matter.
DerefPage(p) ==
  /\ \E q \in dying[p] :
       /\ dying' = [dying EXCEPT ![p] = @ \ {q}]
       /\ vp_refcount' = [vp_refcount EXCEPT ![q] = @ - 1]
       /\ promoted' = IF vp_refcount[q] = 1 THEN promoted \ {q} ELSE promoted
       /\ data' = IF vp_refcount[q] = 1 THEN [data EXCEPT ![q] = 0] ELSE data
  /\ UNCHANGED <<live, vs_areamap, va_pages, todo, pte, i_pages>>

-----------------------------------------------------------------------------
\* Mapping

\* FreeRange: what is left of an area when begin .. end - 1 is taken out of it,
\* as UpdateFileMappingOffset adjusts it
Piece(va, begin, end) ==
  IF va.dentry
  THEN [va EXCEPT !.begin = begin, !.end = end,
                  !.doffset = @ + (begin - va.begin), !.dlength = @ - (begin - va.begin)]
  ELSE [va EXCEPT !.begin = begin, !.end = end]

Pieces(va, begin, end) ==
  {Piece(va, i[1], i[2]) : i \in {j \in {<<va.begin, begin>>, <<end, va.end>>} : j[1] < j[2]}}

\* MigratePagesToNewVA counts the pages of the old area from the start of the
\* new one: the pages of the part behind the gap are taken from too low.
MigratePages(pages, va, begin, end) ==
  [v \in Virt |->
    CASE v \notin Addresses(va) \/ v < begin -> pages[v]
      [] v \in Addresses(va) /\ v >= end /\ v - (end - va.begin) >= begin ->
           pages[v - (end - va.begin)]
      [] OTHER -> None]

Overlapping(p, va) == {old \in vs_areamap[p] : Addresses(old) \cap Addresses(va) # {}}

\* The map of areas is ordered by where they begin; FreeRange looks at them in
\* that order and returns after the first that overlaps.
FirstArea(areas) == CHOOSE a \in areas : \A b \in areas : a.begin <= b.begin

\* MapTo, or MapToDentry, which cuts the area off at the end of the file
NewArea(m) ==
  LET left == Cardinality(DOMAIN File) - m.offset
  IN [begin |-> m.begin,
      end |-> IF m.offset # None /\ m.end - m.begin > left THEN m.begin + left ELSE m.end,
      write |-> m.write, private |-> m.private, part |-> m.part,
      dentry |-> m.offset # None,
      doffset |-> IF m.offset # None THEN m.offset ELSE 0,
      dlength |-> IF m.offset # None THEN m.end - m.begin ELSE 0]

\* sys_vmop_map, and the loader: FreeRange deletes what is there ...
Map(p, va) ==
  /\ User(p)
  /\ todo' = [todo EXCEPT ![p] = [op |-> "map", va |-> va]]
  /\ LET old == FirstArea(Overlapping(p, va))
         begin == IF va.begin > old.begin THEN va.begin ELSE old.begin
         end == IF va.end < old.end THEN va.end ELSE old.end
         kept == MigratePages(va_pages[p], old, begin, end)
     IN IF Overlapping(p, va) = {}
        THEN UNCHANGED <<vs_areamap, va_pages, dying>>
        ELSE /\ vs_areamap' = [vs_areamap EXCEPT ![p] =
                                 (@ \ {old}) \cup Pieces(old, begin, end)]
             /\ va_pages' = [va_pages EXCEPT ![p] = kept]
             /\ dying' = [dying EXCEPT ![p] = PagesOf(p) \ {kept[v] : v \in Virt}]
  /\ UNCHANGED <<live, pte, pagevars, i_pages>>

\* ... and then the new area is inserted, with nothing mapped in it yet.
MapEnd(p) ==
  /\ todo[p] # None /\ todo[p].op = "map" /\ dying[p] = {}
  /\ LET va == todo[p].va
     IN /\ vs_areamap' = [vs_areamap EXCEPT ![p] = @ \cup {va}]
        /\ pte' = [pte EXCEPT ![p] = [v \in Virt |-> IF v \in Addresses(va) THEN None ELSE @[v]]]
  /\ todo' = [todo EXCEPT ![p] = None]
  /\ UNCHANGED <<live, va_pages, dying, pagevars, i_pages>>

\* PrepareForExecute; FreeAllAreas does the same.  The page table is left as it
\* is.
DeleteAreas(p) ==
  /\ vs_areamap' = [vs_areamap EXCEPT ![p] = {}]
  /\ va_pages' = [va_pages EXCEPT ![p] = NoPages]
  /\ dying' = [dying EXCEPT ![p] = PagesOf(p)]
  /\ UNCHANGED <<live, pte, pagevars, i_pages>>

PrepareForExecute(p) == User(p) /\ DeleteAreas(p) /\ UNCHANGED todo

\* vmspace_destroy, when the process is destroyed
Destroy(p) ==
  /\ User(p) /\ p # init
  /\ DeleteAreas(p)
  /\ todo' = [todo EXCEPT ![p] = [op |-> "exit"]]

DestroyEnd(p) ==
  /\ todo[p] # None /\ todo[p].op = "exit" /\ dying[p] = {}
  /\ live' = live \ {p}
  /\ pte' = [pte EXCEPT ![p] = NoPages]
  /\ todo' = [todo EXCEPT ![p] = None]
  /\ UNCHANGED <<vs_areamap, va_pages, dying, pagevars, i_pages>>

-----------------------------------------------------------------------------
\* Fork

\* VMSpace::Clone: the areas first (all of them: nobody else sees the child) ...
Clone(p, child) ==
  /\ User(p)
  /\ child \notin live
  /\ \A r \in Process : todo[r] # [op |-> "fork", child |-> child]
  /\ todo' = [todo EXCEPT ![p] = [op |-> "fork", child |-> child]]
  /\ vs_areamap' = [vs_areamap EXCEPT ![child] = vs_areamap[p]]
  /\ UNCHANGED <<live, va_pages, dying, pte, pagevars, i_pages>>

\* A mutant of ClonedFlags: the page stays promoted.
KeptFlags(q, cow) == promoted

\* VMPage::Clone: a page that is copied on write may not be written before, by
\* either process.
ClonedFlags(q, cow) == IF cow THEN promoted \ {q} ELSE promoted

\* A mutant of SourceTranslation: the page of the parent is not mapped again.
OldTranslation(p, va, v) == pte[p][v]

SourceTranslation(p, va, v) ==
  IF va.private /\ va.write /\ va_pages[p][v] \in promoted
  THEN Translation(va_pages[p][v], va.write, FALSE)
  ELSE pte[p][v]

\* ... then one page after the other, each with its lock held ...
Unshared(p) == {v \in Virt : va_pages[p][v] # None /\ va_pages[todo[p].child][v] = None}

ClonePage(p) ==
  /\ todo[p] # None /\ todo[p].op = "fork"
  /\ \E v \in Unshared(p), va \in vs_areamap[p] :
       LET q == va_pages[p][v]
           cow == va.private /\ va.write
           child == todo[p].child
       IN /\ \A w \in Unshared(p) : v <= w
          /\ v \in Addresses(va)
          /\ vp_refcount' = [vp_refcount EXCEPT ![q] = @ + 1]
          /\ promoted' = ClonedFlags(q, cow)
          /\ va_pages' = [va_pages EXCEPT ![child][v] = q]
          /\ pte' = [pte EXCEPT ![child][v] = Translation(q, va.write, q \in promoted'),
                                ![p][v] = SourceTranslation(p, va, v)]
  /\ UNCHANGED <<live, vs_areamap, dying, todo, data, i_pages>>

\* ... and the child runs.
CloneEnd(p) ==
  /\ todo[p] # None /\ todo[p].op = "fork" /\ Unshared(p) = {}
  /\ live' = live \cup {todo[p].child}
  /\ todo' = [todo EXCEPT ![p] = None]
  /\ UNCHANGED <<vs_areamap, va_pages, dying, pte, pagevars, i_pages>>

-----------------------------------------------------------------------------
\* Memory accesses

\* The program stores to memory, when the page table allows it.
Store(p, va, v, x) ==
  /\ User(p)
  /\ pte[p][v] # None
  /\ pte[p][v].write
  /\ data' = [data EXCEPT ![pte[p][v].page] = x]
  /\ UNCHANGED <<live, vs_areamap, va_pages, dying, todo, pte, vp_refcount, promoted,
                 i_pages>>

\* HandleFault, for an access that the page table does not allow.  A store to
\* an area without Write is refused, which changes nothing here.
Faults(p, v, store) ==
  /\ User(p)
  /\ pte[p][v] # None => store /\ ~pte[p][v].write

\* Mutants of LastReference and Exchanged: a page that two processes share is not
\* copied; the shared page keeps the reference.
FewReferences(q) == vp_refcount[q] <= 2
Added(new, q) == [vp_refcount EXCEPT ![new] = 1]

\* Promote: the last process that has a page keeps it, another one gets a copy
\* and gives up the page.
LastReference(q) == vp_refcount[q] = 1
Exchanged(new, q) == [vp_refcount EXCEPT ![new] = 1, ![q] = @ - 1]

\* Write to a page that is there
FaultPromote(p, va, v) ==
  LET q == va_pages[p][v]
  IN /\ Faults(p, v, TRUE)
     /\ q # None
     /\ va.write
     /\ IF LastReference(q)
        THEN /\ promoted' = promoted \cup {q}
             /\ pte' = [pte EXCEPT ![p][v] = Translation(q, va.write, TRUE)]
             /\ UNCHANGED <<va_pages, vp_refcount, data>>
        ELSE \E n \in FreePage :
             /\ va_pages' = [va_pages EXCEPT ![p][v] = n]
             /\ pte' = [pte EXCEPT ![p][v] = Translation(n, va.write, TRUE)]
             /\ vp_refcount' = Exchanged(n, q)
             /\ promoted' = promoted \cup {n}
             /\ data' = [data EXCEPT ![n] = data[q]]
     /\ UNCHANGED <<live, vs_areamap, dying, todo, i_pages>>

\* HandleDEntryBackedFault: read_off is within va_dlength
Backed(va, v) == va.dentry /\ v - va.begin < va.dlength
Offset(va, v) == v - va.begin + va.doffset

\* GetDEntryBackedPage: the first process that needs a page of the file reads
\* it, with the lock of the new page held.
FaultReadFile(p, va, v) ==
  /\ Faults(p, v, FALSE) /\ va_pages[p][v] = None /\ Backed(va, v)
  /\ i_pages[Offset(va, v)] = None
  /\ \E q \in FreePage :
       /\ i_pages' = [i_pages EXCEPT ![Offset(va, v)] = q]
       /\ vp_refcount' = [vp_refcount EXCEPT ![q] = 1]
       /\ data' = [data EXCEPT ![q] = File[Offset(va, v)]]
  /\ UNCHANGED <<live, vs_areamap, va_pages, dying, todo, pte, promoted>>

\* A full page is duplicated; the last page of a mapping that ends within it
\* is copied to a page that is not promoted.
FaultFile(p, va, v) ==
  /\ Faults(p, v, FALSE) /\ va_pages[p][v] = None /\ Backed(va, v)
  /\ i_pages[Offset(va, v)] # None
  /\ AssignNew(p, va, v, data[i_pages[Offset(va, v)]],
               v - va.begin + 1 < va.dlength \/ ~va.part)
  /\ UNCHANGED <<live, vs_areamap, dying, todo, i_pages>>

FaultZero(p, va, v) ==
  /\ Faults(p, v, FALSE) /\ va_pages[p][v] = None /\ ~Backed(va, v)
  /\ AssignNew(p, va, v, 0, FALSE)
  /\ UNCHANGED <<live, vs_areamap, dying, todo, i_pages>>

-----------------------------------------------------------------------------
Access(p) ==
  \E va \in vs_areamap[p] : \E v \in Addresses(va) :
    \/ \E x \in Value : Store(p, va, v, x)
    \/ FaultPromote(p, va, v) \/ FaultReadFile(p, va, v)
    \/ FaultFile(p, va, v) \/ FaultZero(p, va, v)

\* What is assumed of programs: they map where nothing is, over a whole area, or
\* over a part of one; an area that has pages is cut up only with Splits.
Mappable(p, va) ==
  \/ Overlapping(p, va) = {}
  \/ \E old \in vs_areamap[p] :
       /\ Overlapping(p, va) = {old}
       /\ \/ Addresses(old) = Addresses(va)
          \/ \A v \in Addresses(old) : va_pages[p][v] = None
          \/ Splits

Next ==
  \E p \in Process :
    \/ \E m \in Mapping : Mappable(p, NewArea(m)) /\ Map(p, NewArea(m))
    \/ MapEnd(p)
    \/ PrepareForExecute(p)
    \/ Destroy(p) \/ DestroyEnd(p) \/ DerefPage(p)
    \/ \E child \in Process : Clone(p, child)
    \/ ClonePage(p) \/ CloneEnd(p)
    \/ Access(p)

Spec == Init /\ [][Next]_vars

-----------------------------------------------------------------------------
\* Areas, pages, page tables and counts (vmspace.cpp, vmpage.cpp) are well formed.
MemTypeOK ==
  /\ live \subseteq Process
  /\ vs_areamap \in [Process -> SUBSET Area]
  /\ va_pages \in [Process -> [Virt -> VMPage \cup {None}]]
  /\ dying \in [Process -> SUBSET VMPage]
  /\ todo \in [Process -> Todo]
  /\ pte \in [Process -> [Virt -> [page : VMPage, write : BOOLEAN] \cup {None}]]
  /\ vp_refcount \in [VMPage -> Nat]
  /\ promoted \subseteq VMPage
  /\ data \in [VMPage -> Value]
  /\ i_pages \in [DOMAIN File -> VMPage \cup {None}]

\* Who has a reference to a page, the inode apart.
Holders(q) == {p \in Process : q \in dying[p] \cup PagesOf(p)}
InodePages == {i_pages[o] : o \in DOMAIN File}

\* vp_refcount is what Ref and Deref make it: one for every process that has
\* the page, and one for the inode.  No page is freed while it is used, and
\* none is lost when processes fork, exit and copy in any order.
RefcountsExact ==
  \A q \in VMPage :
    vp_refcount[q] = Cardinality(Holders(q)) + IF q \in InodePages THEN 1 ELSE 0

\* Copy-on-write (VMPage::Clone and Promote): a process that may write to a page
\* of a private area is the only one that has the page.
WritersAreAlone ==
  \A p \in Process : \A va \in vs_areamap[p] : \A v \in Addresses(va) :
    (va.private /\ pte[p][v] # None /\ pte[p][v].write) => Holders(pte[p][v].page) = {p}

\* Inside the areas of a process, the page table is what VMPage::Map last made of
\* the page that backs the address: so HandleFault never promotes a promoted page
\* ("promoting promoted page"), and a read-only area is never writable.
TranslationsCurrent ==
  \A p \in Process : \A va \in vs_areamap[p] : \A v \in Addresses(va) :
    pte[p][v] = IF va_pages[p][v] = None THEN None
                ELSE Translation(va_pages[p][v], va.write, va_pages[p][v] \in promoted)

-----------------------------------------------------------------------------
\* What a process finds at an address, whether the page is there yet or not.
Contents(p, va, v) ==
  CASE va_pages[p][v] # None -> data[va_pages[p][v]]
    [] va_pages[p][v] = None /\ Backed(va, v) -> File[Offset(va, v)]
    [] OTHER -> 0

AreaAt(areas, v) == CHOOSE va \in areas : v \in Addresses(va)

Memory ==
  [p \in Process |-> [v \in Virt |->
    IF p \in live /\ \E va \in vs_areamap[p] : v \in Addresses(va)
    THEN Contents(p, AreaAt(vs_areamap[p], v), v)
    ELSE None]]

Abstract == INSTANCE AbstractMemory WITH mem <- Memory

\* The memory of each process is its own, and fork copies it: sharing, copying
\* and filling pages on demand are not seen by any program.
ImplementsAbstractMemory == Abstract!Spec

-----------------------------------------------------------------------------
\* The inductive invariant, of programs that do not split areas with pages

\* An area that maps the file does not go past the end of it.
InFile(va) ==
  va.dentry => va.doffset >= 0 /\ va.doffset + (va.end - va.begin) <= Cardinality(DOMAIN File)

\* The areas of a process do not overlap, and what has a page is in an area.
AreasInv ==
  \A p \in Process :
    /\ \A a \in vs_areamap[p] : InFile(a)
    /\ \A a, b \in vs_areamap[p] : Addresses(a) \cap Addresses(b) # {} => a = b
    /\ \A v \in Virt : va_pages[p][v] # None => \E a \in vs_areamap[p] : v \in Addresses(a)

\* A process has one reference to a page, not more.
HeldOnce ==
  \A p \in Process : \A v \in Virt : va_pages[p][v] # None =>
    /\ va_pages[p][v] \notin dying[p]
    /\ \A w \in Virt : va_pages[p][w] = va_pages[p][v] => w = v

\* A promoted page is not free, and one of a private area that may be written is
\* not shared.
PromotedAlone ==
  /\ promoted \cap FreePage = {}
  /\ \A p \in Process : \A va \in vs_areamap[p] : \A v \in Addresses(va) :
       (va.private /\ va.write /\ va_pages[p][v] \in promoted) => Holders(va_pages[p][v]) = {p}

InFork(p) == todo[p] # None /\ todo[p].op = "fork"

\* What a process that maps, exits or forks has done so far.
CallInv ==
  \A p \in Process : todo[p] # None =>
    /\ p \in live
    /\ todo[p].op = "map" =>
         /\ InFile(todo[p].va)
         /\ \A a \in vs_areamap[p] : Addresses(a) \cap Addresses(todo[p].va) = {}
    /\ todo[p].op = "exit" => vs_areamap[p] = {} /\ va_pages[p] = NoPages

ForkInv ==
  \A p \in Process : InFork(p) =>
    /\ todo[p].child \notin live
    /\ vs_areamap[todo[p].child] = vs_areamap[p]
    /\ \A v \in Virt : va_pages[todo[p].child][v] \in {None, va_pages[p][v]}
    /\ \A r \in Process : InFork(r) /\ todo[r].child = todo[p].child => r = p

\* A process that does not exist and is not being made has nothing.
DeadInv ==
  \A p \in Process \ live :
    /\ dying[p] = {}
    /\ (\A r \in Process : InFork(r) => todo[r].child # p) =>
         vs_areamap[p] = {} /\ va_pages[p] = NoPages /\ pte[p] = NoPages

\* The facts that VMSpace, VMArea and VMPage preserve together: sharing is
\* safe because a promoted page is not shared, which rests on the counts.
MemInv ==
  /\ MemTypeOK /\ AreasInv /\ HeldOnce /\ CallInv /\ ForkInv /\ DeadInv
  /\ RefcountsExact /\ TranslationsCurrent /\ PromotedAlone

\* The pages of the inode hold the file, and no process has one of them.
InodeView ==
  \A o \in DOMAIN File : i_pages[o] # None =>
    data[i_pages[o]] = File[o] /\ Holders(i_pages[o]) = {}

\* What can be written is private, ...
AreaView ==
  \A p \in Process : \A va \in vs_areamap[p] : va.write => va.private

\* ... also in an area under way, which the file backs up to its end.
CallView ==
  \A p \in Process : (todo[p] # None /\ todo[p].op = "map") =>
    /\ todo[p].va.write => todo[p].va.private
    /\ todo[p].va.dentry => todo[p].va.end - todo[p].va.begin <= todo[p].va.dlength

\* What the refinement needs besides MemInv (VMPage::Duplicate, sys_vmop_map), of
\* programs that map nothing both shared and writable.
ViewInv == InodeView /\ AreaView /\ CallView
=============================================================================
