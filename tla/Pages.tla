------------------------------- MODULE Pages --------------------------------
(***************************************************************************)
(* One zone of physical pages (kern/page.cpp), a buddy allocator.  Every   *)
(* operation holds z_lock, so an operation is one step, and                *)
(* page_alloc_order is a sequence of such steps on one zone after another. *)
(* The pages are the indices in z_base; a free list is a set, as any of    *)
(* its blocks may be at its front.                                         *)
(***************************************************************************)
EXTENDS Naturals, FiniteSets, FiniteSetsExt

CONSTANTS
  z_num_pages,      \* the pages of the zone, after those for its administration
  PAGE_NUM_ORDERS,
  PAGE_SIZE,
  Length            \* the numbers of bytes that callers ask for

ASSUME PagesAssumption ==
  /\ z_num_pages \in Nat \ {0}
  /\ PAGE_NUM_ORDERS \in Nat \ {0}
  /\ PAGE_SIZE \in Nat \ {0}
  /\ Length \subseteq 0 .. PAGE_SIZE * 2^(PAGE_NUM_ORDERS - 1)

\* What `1 << k` is for the orders there are.
ASSUME PowersOfTwo ==
  /\ 2^0 = 1
  /\ \A k \in 0 .. PAGE_NUM_ORDERS : 2^k \in Nat \ {0} /\ 2^(k + 1) = 2 * 2^k

Page == 0 .. z_num_pages - 1
Order == 0 .. PAGE_NUM_ORDERS - 1

VARIABLES
  z_free,         \* the first pages of the free blocks of each order
  z_bitmap,       \* the pages whose bit is set
  z_avail_pages,
  p_order,        \* the order of each page
  added,          \* page_zone_add has freed the pages below this one
  owned           \* the blocks that callers have: first page, order, length

vars == <<z_free, z_bitmap, z_avail_pages, p_order, added, owned>>

Pages(index, order) == index .. index + 2^order - 1

\* The start of page_zone_add: every page is allocated, with order 0.
Init ==
  /\ z_free = [k \in Order |-> {}]
  /\ z_bitmap = Page
  /\ z_avail_pages = 0
  /\ p_order = [i \in Page |-> 0]
  /\ added = 0
  /\ owned = {}

-----------------------------------------------------------------------------
(* page_free_index.                                                        *)

\* The block of order k with this page in it, and the other half of the block
\* of order k + 1.
Block(index, k) == index - (index % 2^k)

Buddy(index, k) ==
  IF index % 2^(k + 1) < 2^k THEN Block(index, k) + 2^k ELSE Block(index, k) - 2^k

\* Mutants of Merges: the order of the buddy is not looked at; the last order
\* is never reached.
MergesAnyOrder(index, k) ==
  LET buddy == Buddy(index, k) IN
  /\ k < PAGE_NUM_ORDERS - 1
  /\ buddy < z_num_pages /\ buddy \notin z_bitmap

MergesTooLittle(index, k) ==
  LET buddy == Buddy(index, k) IN
  /\ k < PAGE_NUM_ORDERS - 2
  /\ buddy < z_num_pages /\ buddy \notin z_bitmap /\ p_order[buddy] = k

\* The condition of the loop that merges, at order k.
Merges(index, k) ==
  LET buddy == Buddy(index, k) IN
  /\ k < PAGE_NUM_ORDERS - 1
  /\ buddy < z_num_pages /\ buddy \notin z_bitmap /\ p_order[buddy] = k

\* The order at which the loop ends: none of its conditions looks at a page
\* that an earlier iteration has changed.
MergedOrder(index, order) ==
  Max({m \in order .. PAGE_NUM_ORDERS - 1 : \A k \in order .. m - 1 : Merges(index, k)})

FreeIndex(index, order) ==
  LET top == MergedOrder(index, order) IN
  /\ z_bitmap' = z_bitmap \ {index}
  /\ z_avail_pages' = z_avail_pages + 2^order
  /\ z_free' = [k \in Order |->
       IF k = top THEN z_free[k] \cup {Block(index, k)}
       ELSE IF k \in order .. top - 1 THEN z_free[k] \ {Buddy(index, k)}
       ELSE z_free[k]]
  /\ p_order' = [i \in Page |->
       LET merged == {k \in order + 1 .. top : Block(index, k) = i}
       IN IF merged = {} THEN p_order[i] ELSE Max(merged)]

\* The loop of page_zone_add.
ZoneAdd ==
  /\ added < z_num_pages
  /\ FreeIndex(added, 0)
  /\ added' = added + 1
  /\ UNCHANGED owned

\* page_free takes the order from the page.
PageFree(b) ==
  /\ b \in owned
  /\ FreeIndex(b.page, p_order[b.page])
  /\ owned' = owned \ {b}
  /\ UNCHANGED added

-----------------------------------------------------------------------------
(* page_alloc_length and page_alloc_zone.                                  *)

\* A mutant of bytes2order: the order is not rounded up.
bytes2orderDown(length) ==
  LET pages == length \div PAGE_SIZE
  IN IF pages = 0 THEN 0 ELSE Max({k \in 0 .. pages : 2^k <= pages})

bytes2order(length) ==
  LET pages == length \div PAGE_SIZE
      order == IF pages = 0 THEN 0 ELSE Max({k \in 0 .. pages : 2^k <= pages})
  IN IF PAGE_SIZE * 2^order < length THEN order + 1 ELSE order

\* The first order from this one up with a free block, if there is one.
Available(order) == {k \in order .. PAGE_NUM_ORDERS - 1 : z_free[k] # {}}

\* The block is split until it has the order: of each split the second half
\* stays free.
PageAlloc(length) ==
  LET order == bytes2order(length)
      alloc_order == Min(Available(order))
  IN /\ added = z_num_pages
     /\ Available(order) # {}
     /\ \E index \in z_free[alloc_order] :
          /\ z_free' = [k \in Order |->
               IF k = alloc_order THEN z_free[k] \ {index}
               ELSE IF k \in order .. alloc_order - 1 THEN z_free[k] \cup {index + 2^k}
               ELSE z_free[k]]
          /\ p_order' = [i \in Page |->
               IF i = index /\ order < alloc_order THEN order
               ELSE LET split == {k \in order .. alloc_order - 1 : i = index + 2^k}
                    IN IF split = {} THEN p_order[i] ELSE Max(split)]
          /\ z_bitmap' = z_bitmap \cup {index}
          /\ owned' = owned \cup {[page |-> index, order |-> order, length |-> length]}
     /\ z_avail_pages' = z_avail_pages - 2^order
     /\ UNCHANGED added

-----------------------------------------------------------------------------
Next ==
  \/ ZoneAdd
  \/ \E length \in Length : PageAlloc(length)
  \/ \E b \in owned : PageFree(b)

Spec == Init /\ [][Next]_vars

-----------------------------------------------------------------------------
FreeBlocks == {b \in Page \X Order : b[1] \in z_free[b[2]]}
OwnedBlocks == {<<b.page, b.order>> : b \in owned}
FreePages == UNION {Pages(b[1], b[2]) : b \in FreeBlocks}
Zone == 0 .. added - 1

\* Every page that page_zone_add has freed is in one block, which is free or
\* has one owner, however blocks have been split and merged, and z_avail_pages
\* counts the free ones.
Partition ==
  LET blocks == FreeBlocks \cup OwnedBlocks IN
  /\ FreeBlocks \cap OwnedBlocks = {}
  /\ \A b, c \in blocks : Pages(b[1], b[2]) \cap Pages(c[1], c[2]) # {} => b = c
  /\ UNION {Pages(b[1], b[2]) : b \in blocks} = Zone
  /\ z_avail_pages = Cardinality(FreePages)

\* Free pages that form an aligned block of some order are in one free block,
\* so page_alloc_zone finds a block whenever there is one: the merging that
\* page_free_index puts off or does twice would show here.
FullyMerged ==
  \A k \in Order : \A i \in {j \in Zone : j % 2^k = 0} :
    Pages(i, k) \subseteq FreePages =>
      \E b \in FreeBlocks : Pages(i, k) \subseteq Pages(b[1], b[2])

\* A caller gets as many bytes as it asked for, in the smallest block that has
\* them, and page_free gives that block back: p_order is still its order.
FittingBlock ==
  \A b \in owned :
    /\ b.length <= PAGE_SIZE * 2^b.order
    /\ b.order > 0 => b.length > PAGE_SIZE * 2^(b.order - 1)
    /\ p_order[b.page] = b.order

-----------------------------------------------------------------------------
\* The inductive invariant

\* Bits, orders and lists are about the pages of the zone.
PagesTypeOK ==
  /\ z_free \in [Order -> SUBSET Page]
  /\ z_bitmap \subseteq Page
  /\ p_order \in [Page -> Order]
  /\ added \in 0 .. z_num_pages
  /\ owned \subseteq [page : Page, order : Order, length : Length]

\* The first pages of the blocks of each order that callers have.
z_owned == [k \in Order |-> {b.page : b \in {c \in owned : c.order = k}}]

\* Lists of aligned blocks that have each of these pages once, and no other.
Tiles(list, pages) ==
  /\ \A k \in Order : \A i \in list[k] : i \in Page /\ i % 2^k = 0
  /\ \A k, m \in Order : \A i \in list[k], j \in list[m] :
       Pages(i, k) \cap Pages(j, m) # {} => i = j /\ k = m
  /\ pages = UNION {UNION {Pages(i, k) : i \in list[k]} : k \in Order}

\* A bit says that a block begins here that a caller has, or that the page is
\* not in use yet: the pages inside a block have no bit, whoever has it.
BitmapInv ==
  /\ z_bitmap = {b.page : b \in owned} \cup (added .. z_num_pages - 1)
  /\ \A b, c \in owned : b.page = c.page => b = c

\* The first page of a free block has the order of the block.
OrdersInv ==
  /\ \A k \in Order : \A i \in z_free[k] : p_order[i] = k
  /\ \A i \in added .. z_num_pages - 1 : p_order[i] = 0

\* Two halves of a block are not both free: they are merged at once.
BuddiesInv ==
  \A k \in Order : k < PAGE_NUM_ORDERS - 1 => \A i \in z_free[k] : Buddy(i, k) \notin z_free[k]

\* The facts that page_zone_add, page_alloc and page_free preserve together.
PagesInv ==
  /\ PagesTypeOK
  /\ Tiles(z_free, FreePages) /\ Tiles(z_owned, Zone \ FreePages)
  /\ FreePages \subseteq Zone /\ z_avail_pages = Cardinality(FreePages)
  /\ BitmapInv /\ OrdersInv /\ BuddiesInv
  /\ FittingBlock
=============================================================================
