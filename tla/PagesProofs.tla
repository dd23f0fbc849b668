---------------------------- MODULE PagesProofs -----------------------------
(***************************************************************************)
(* The page allocator keeps its zone in one piece, for every size of the   *)
(* zone, of a page and of the largest block.                               *)
(***************************************************************************)
EXTENDS Pages, FiniteSetTheorems, WellFoundedInduction, TLAPS

-----------------------------------------------------------------------------
(* Least and largest numbers.                                              *)

\* A nonempty set of naturals has a least element: the first order at which
\* something happens.
LEMMA FirstNat ==
  ASSUME NEW T, T \subseteq Nat, T # {}
  PROVE  \E x \in T : \A y \in T : x <= y
<1>1. PICK x \in T : \A y \in T : ~(<<y, x>> \in OpToRel(<, Nat))
  BY WFMin, NatLessThanWellFounded, Zenon
<1>2. ASSUME NEW y \in T
      PROVE  x <= y
  <2>1. x \in Nat /\ y \in Nat
    BY Zenon
  <2>2. ~(y < x)
    BY <1>1, <2>1, Zenon DEF OpToRel
  <2>3. QED
    BY <2>1, <2>2
<1>3. QED
  BY <1>2, Zenon

\* What holds of one order and then of the next one holds of all orders from it.
LEMMA Upwards ==
  ASSUME NEW lo \in Nat, NEW hi \in Nat, NEW T, lo <= hi, lo \in T,
         \A k \in lo .. hi - 1 : k \in T => k + 1 \in T
  PROVE  hi \in T
<1>1. SUFFICES ASSUME hi \notin T PROVE FALSE
  BY Zenon
<1> DEFINE S == {k \in lo .. hi : k \notin T}
<1>2. S \subseteq Nat /\ hi \in S
  BY <1>1
<1>3. PICK k \in S : \A j \in S : k <= j
  BY <1>2, FirstNat, Zenon
<1>4. k \in lo .. hi /\ k \notin T
  BY Zenon
<1>5. k # lo
  BY <1>4, Zenon
<1>6. k - 1 \in lo .. hi - 1 /\ ~(k <= k - 1) /\ (k - 1) + 1 = k /\ k - 1 \in lo .. hi
  BY <1>4, <1>5
<1>7. k - 1 \in T
  BY <1>3, <1>6, Zenon
<1>8. QED
  BY <1>4, <1>6, <1>7, Zenon

\* Max and Min are what their names say on orders.
LEMMA MaxMin ==
  ASSUME NEW n \in Nat, NEW T, T \subseteq 0 .. n, T # {}
  PROVE  /\ Max(T) \in T /\ \A y \in T : Max(T) >= y
         /\ Min(T) \in T /\ \A y \in T : Min(T) <= y
<1> DEFINE S == {k \in 0 .. n : n - k \in T}
<1>1. S \subseteq Nat /\ S # {}
  <2>1. PICK y \in T : TRUE
    BY Zenon
  <2>2. y \in 0 .. n
    BY <2>1, Zenon
  <2>3. n - y \in 0 .. n /\ n - (n - y) = y
    BY <2>2
  <2>4. n - y \in S
    BY <2>3, Zenon
  <2>5. S \subseteq Nat
    OBVIOUS
  <2>6. QED
    BY <2>4, <2>5, Zenon
<1>2. PICK k \in S : \A j \in S : k <= j
  BY <1>1, FirstNat, Zenon
<1>3. n - k \in T /\ \A y \in T : n - k >= y
  <2>1. k \in 0 .. n /\ n - k \in T
    BY <1>2, Zenon
  <2>2. ASSUME NEW y \in T PROVE n - k >= y
    <3>1. y \in 0 .. n
      BY Zenon
    <3>2. n - y \in 0 .. n /\ n - (n - y) = y
      BY <3>1
    <3>3. k <= n - y
      BY <1>2, <3>2, Zenon
    <3>4. QED
      BY <2>1, <3>1, <3>3
  <2>3. QED
    BY <2>1, <2>2, Zenon
<1>4. PICK m \in T : \A y \in T : m <= y
  <2>1. T \subseteq Nat
    OBVIOUS
  <2>2. QED
    BY <2>1, FirstNat, Zenon
<1>5. QED
  BY <1>3, <1>4, Zenon DEF Max, Min

-----------------------------------------------------------------------------
(* Blocks are aligned.                                                     *)

\* A remainder is determined by what it is left from.
LEMMA ModUnique ==
  ASSUME NEW n \in Nat \ {0}, NEW q \in Nat, NEW r \in 0 .. n - 1
  PROVE  (n * q + r) % n = r
OBVIOUS

\* Each number has a quotient and a remainder.
LEMMA ModExists ==
  ASSUME NEW n \in Nat \ {0}, NEW x \in Nat
  PROVE  x % n \in 0 .. n - 1 /\ \E q \in Nat : x = n * q + (x % n)
<1>1. x % n \in 0 .. n - 1 /\ x \div n \in Nat
  OBVIOUS
<1>2. x = n * (x \div n) + (x % n)
  OBVIOUS
<1>3. QED
  BY <1>1, <1>2, Zenon


\* The first page of the block that a page is in.
LEMMA BlockArith ==
  ASSUME NEW n \in Nat \ {0}, NEW x \in Nat
  PROVE  /\ x - (x % n) \in Nat /\ x - (x % n) <= x /\ x < (x - (x % n)) + n
         /\ (x - (x % n)) % n = 0
<1>1. PICK q \in Nat : x = n * q + (x % n)
  BY ModExists, Zenon
<1>2. x % n \in 0 .. n - 1
  BY ModExists, Zenon
<1>3. n * q \in Nat /\ x - (x % n) = n * q /\ n * q + 0 = n * q /\ 0 \in 0 .. n - 1
  BY <1>1, <1>2
<1>4. (n * q) % n = 0
  BY <1>3, ModUnique, Zenon
<1>5. (x - (x % n)) % n = 0
  BY <1>3, <1>4, Zenon
<1>6. QED
  BY <1>2, <1>3, <1>5

\* There is only one block of a size that a page is in.
LEMMA BlockArithUnique ==
  ASSUME NEW n \in Nat \ {0}, NEW x \in Nat, NEW a \in Nat, a % n = 0, a <= x, x < a + n
  PROVE  x - (x % n) = a
<1>1. PICK q \in Nat : a = n * q + (a % n)
  BY ModExists, Zenon
<1>2. a = n * q + 0
  BY <1>1, Zenon
<1>3. n * q \in Nat /\ a = n * q /\ x - a \in 0 .. n - 1
  BY <1>2
<1>4. x = n * q + (x - a)
  BY <1>3
<1>5. (n * q + (x - a)) % n = x - a
  BY <1>3, ModUnique, Zenon
<1>6. x % n = x - a
  BY <1>4, <1>5, Zenon
<1>7. QED
  BY <1>6

\* The halves of a block of twice the size: which one a page is in is told by
\* its remainder.
LEMMA HalvesArith ==
  ASSUME NEW n \in Nat \ {0}, NEW x \in Nat
  PROVE  LET b == x - (x % n)
             c == x - (x % (2 * n))
         IN /\ x % (2 * n) < n => b = c /\ (c + n) % n = 0
            /\ ~(x % (2 * n) < n) => b = c + n /\ c % n = 0
<1>1. 2 * n \in Nat \ {0}
  OBVIOUS
<1>2. PICK q \in Nat : x = (2 * n) * q + (x % (2 * n))
  BY <1>1, ModExists, Zenon
<1>3. PICK r : r = x % (2 * n)
  BY Zenon
<1>4. r \in 0 .. 2 * n - 1
  BY <1>1, <1>3, ModExists, Zenon
<1>5. n * q \in Nat /\ (2 * n) * q = 2 * (n * q) /\ n * (2 * q) = 2 * (n * q)
  OBVIOUS
<1>6. n * (2 * q + 1) = 2 * (n * q) + n
  OBVIOUS
<1>7. x = 2 * (n * q) + r /\ x - r = 2 * (n * q)
  <2>1. PICK p \in Nat : p = n * q
    BY <1>5, Zenon
  <2>2. x = 2 * p + r
    BY <1>2, <1>3, <1>5, <2>1, Zenon
  <2>3. x - r = 2 * p
    BY <1>4, <2>2
  <2>4. QED
    BY <2>1, <2>2, <2>3, Zenon
<1>8. 2 * q \in Nat /\ 2 * q + 1 \in Nat /\ 0 \in 0 .. n - 1
  OBVIOUS
<1>9. CASE r < n
  <2>1. r \in 0 .. n - 1
    BY <1>4, <1>9
  <2>2. (n * (2 * q) + r) % n = r
    BY <1>8, <2>1, ModUnique, Zenon
  <2>3. x % n = r
    BY <1>5, <1>7, <2>2, Zenon
  <2>4. (n * (2 * q + 1) + 0) % n = 0
    BY <1>8, ModUnique, Zenon
  <2>5. n * (2 * q + 1) + 0 = (x - r) + n
    BY <1>5, <1>6, <1>7
  <2>6. QED
    BY <1>3, <1>9, <2>3, <2>4, <2>5, Zenon
<1>10. CASE ~(r < n)
  <2>1. r - n \in 0 .. n - 1
    BY <1>4, <1>10
  <2>2. (n * (2 * q + 1) + (r - n)) % n = r - n
    BY <1>8, <2>1, ModUnique, Zenon
  <2>3. n * (2 * q + 1) + (r - n) = x
    BY <1>4, <1>5, <1>6, <1>7
  <2>4. x % n = r - n
    BY <2>2, <2>3, Zenon
  <2>5. x - (r - n) = (x - r) + n
    BY <1>4
  <2>6. (n * (2 * q) + 0) % n = 0
    BY <1>8, ModUnique, Zenon
  <2>7. n * (2 * q) + 0 = x - r
    BY <1>5, <1>7
  <2>8. QED
    BY <1>3, <1>10, <2>4, <2>5, <2>6, <2>7, Zenon
<1>11. QED
  BY <1>9, <1>10, Zenon

-----------------------------------------------------------------------------
(* Blocks and buddies.                                                     *)

\* Sizes of blocks.
LEMMA Sizes ==
  ASSUME NEW k \in Order
  PROVE  /\ k \in Nat /\ 2^k \in Nat \ {0} /\ 2^(k + 1) \in Nat \ {0} /\ 2^(k + 1) = 2 * 2^k
         /\ k < PAGE_NUM_ORDERS - 1 => k + 1 \in Order
<1>1. k \in 0 .. PAGE_NUM_ORDERS /\ k + 1 \in 0 .. PAGE_NUM_ORDERS /\ k \in Nat
  BY PagesAssumption DEF Order
<1>2. k < PAGE_NUM_ORDERS - 1 => k + 1 \in Order
  BY PagesAssumption, <1>1 DEF Order
<1>3. QED
  BY <1>1, <1>2, PowersOfTwo, Zenon

\* The pages of a block, and its first one.
LEMMA InPages ==
  ASSUME NEW k \in Order, NEW i \in Nat
  PROVE  /\ \A x : x \in Pages(i, k) <=> x \in Nat /\ i <= x /\ x < i + 2^k
         /\ i \in Pages(i, k)
<1>1. 2^k \in Nat \ {0}
  BY Sizes, Zenon
<1>2. QED
  BY <1>1 DEF Pages

\* A page is in its block, and in no other block of the order.
LEMMA BlockFacts ==
  ASSUME NEW k \in Order, NEW x \in Nat
  PROVE  /\ Block(x, k) \in Nat /\ Block(x, k) % 2^k = 0 /\ Block(x, k) <= x
         /\ x \in Pages(Block(x, k), k)
         /\ \A a \in Nat : a % 2^k = 0 /\ x \in Pages(a, k) => a = Block(x, k)
<1>1. 2^k \in Nat \ {0}
  BY Sizes, Zenon
<1>2. /\ Block(x, k) \in Nat /\ Block(x, k) % 2^k = 0
      /\ Block(x, k) <= x /\ x < Block(x, k) + 2^k
  BY <1>1, BlockArith, Zenon DEF Block
<1>3. x \in Pages(Block(x, k), k)
  BY <1>2, InPages, Zenon
<1>4. ASSUME NEW a \in Nat, a % 2^k = 0, x \in Pages(a, k)
      PROVE  a = Block(x, k)
  <2>1. a <= x /\ x < a + 2^k
    BY <1>4, InPages, Zenon
  <2>2. QED
    BY <1>1, <1>4, <2>1, BlockArithUnique, Zenon DEF Block
<1>5. QED
  BY <1>2, <1>3, <1>4, Zenon

\* A block and its buddy are the halves of the next larger block.
LEMMA Halves ==
  ASSUME NEW k \in Order, NEW x \in Nat
  PROVE  /\ Buddy(x, k) \in Nat /\ Buddy(x, k) % 2^k = 0
         /\ \A y : ~(y \in Pages(Block(x, k), k) /\ y \in Pages(Buddy(x, k), k))
         /\ k < PAGE_NUM_ORDERS - 1 =>
              \A y : y \in Pages(Block(x, k + 1), k + 1) <=>
                       y \in Pages(Block(x, k), k) \/ y \in Pages(Buddy(x, k), k)
<1>1. PICK n \in Nat \ {0} : n = 2^k
  BY Sizes, Zenon
<1>2. 2 * n \in Nat \ {0} /\ 2^(k + 1) = 2 * n
  BY <1>1, Sizes, Zenon
<1>3. PICK b \in Nat, c \in Nat : /\ b = x - (x % n) /\ b = Block(x, k)
                                  /\ c = x - (x % (2 * n)) /\ c = Block(x, k + 1)
  BY <1>1, <1>2, BlockArith, Zenon DEF Block
<1>4. /\ x % (2 * n) < n => b = c /\ (c + n) % n = 0
      /\ ~(x % (2 * n) < n) => b = c + n /\ c % n = 0
  <2>1. /\ x % (2 * n) < n =>
             x - (x % n) = x - (x % (2 * n)) /\ ((x - (x % (2 * n))) + n) % n = 0
        /\ ~(x % (2 * n) < n) =>
             x - (x % n) = (x - (x % (2 * n))) + n /\ (x - (x % (2 * n))) % n = 0
    BY HalvesArith, Zenon
  <2>2. QED
    BY <1>3, <2>1, Zenon
<1>5. PICK d : d = Buddy(x, k)
  BY Zenon
<1>6. d = IF x % (2 * n) < n THEN b + n ELSE b - n
  BY <1>1, <1>2, <1>3, <1>5, Zenon DEF Buddy
<1>7. \/ b = c /\ d = c + n /\ d % n = 0
      \/ b = c + n /\ d = c /\ d % n = 0
  <2>1. (c + n) - n = c
    BY <1>1, <1>3
  <2>2. QED
    BY <1>4, <1>6, <2>1, Zenon
<1>8. d \in Nat
  BY <1>7
<1>9. \A y : ~(y \in Pages(b, k) /\ y \in Pages(d, k))
  <2>1. \A y \in Nat : ~(b <= y /\ y < b + n /\ d <= y /\ y < d + n)
    BY <1>7, <1>8
  <2>2. QED
    BY <1>1, <1>8, <2>1, InPages, Zenon
<1>10. ASSUME k < PAGE_NUM_ORDERS - 1
       PROVE  \A y : y \in Pages(c, k + 1) <=> y \in Pages(b, k) \/ y \in Pages(d, k)
  <2>1. k + 1 \in Order
    BY <1>10, Sizes, Zenon
  <2>2. \A y : y \in Pages(c, k + 1) <=> y \in Nat /\ c <= y /\ y < c + 2 * n
    BY <1>2, <2>1, InPages, Zenon
  <2>3. /\ \A y : y \in Pages(b, k) <=> y \in Nat /\ b <= y /\ y < b + n
        /\ \A y : y \in Pages(d, k) <=> y \in Nat /\ d <= y /\ y < d + n
    BY <1>1, <1>8, InPages, Zenon
  <2>4. \A y \in Nat : c <= y /\ y < c + 2 * n <=>
                         (b <= y /\ y < b + n) \/ (d <= y /\ y < d + n)
    BY <1>7, <1>8
  <2>5. QED
    BY <2>2, <2>3, <2>4, Zenon
<1>11. QED
  BY <1>1, <1>3, <1>5, <1>7, <1>8, <1>9, <1>10, Zenon

\* All pages of a block have the same block and the same buddy.
LEMMA SameBuddy ==
  ASSUME NEW k \in Order, k < PAGE_NUM_ORDERS - 1, NEW x \in Nat, NEW y \in Pages(Block(x, k), k)
  PROVE  Block(y, k) = Block(x, k) /\ Buddy(y, k) = Buddy(x, k)
<1>1. y \in Nat /\ Block(x, k) \in Nat
  BY BlockFacts, InPages, Zenon
<1>2. Block(y, k) = Block(x, k)
  BY <1>1, BlockFacts, Zenon
<1>3. k + 1 \in Order
  BY Sizes, Zenon
<1>4. Block(y, k + 1) = Block(x, k + 1)
  <2>1. y \in Pages(Block(x, k + 1), k + 1)
    BY Halves, Zenon
  <2>2. QED
    BY <1>1, <1>3, <2>1, BlockFacts, Zenon
<1>5. Buddy(y, k) \in Pages(Buddy(x, k), k)
  <2>1. Buddy(y, k) \in Nat /\ Buddy(y, k) \in Pages(Buddy(y, k), k)
    BY <1>1, Halves, InPages, Zenon
  <2>2. Buddy(y, k) \in Pages(Block(x, k + 1), k + 1)
    BY <1>1, <1>4, <2>1, Halves, Zenon
  <2>3. Buddy(y, k) \notin Pages(Block(x, k), k)
    BY <1>1, <1>2, <2>1, Halves, Zenon
  <2>4. QED
    BY <2>2, <2>3, Halves, Zenon
<1>6. Buddy(y, k) = Buddy(x, k)
  <2>1. /\ Buddy(y, k) \in Nat /\ Buddy(y, k) % 2^k = 0 /\ Buddy(y, k) \in Pages(Buddy(y, k), k)
        /\ Buddy(x, k) \in Nat /\ Buddy(x, k) % 2^k = 0
    BY <1>1, Halves, InPages, Zenon
  <2>2. Buddy(y, k) = Block(Buddy(y, k), k) /\ Buddy(x, k) = Block(Buddy(y, k), k)
    BY <1>5, <2>1, BlockFacts, Zenon
  <2>3. QED
    BY <2>2, Zenon
<1>7. QED
  BY <1>2, <1>6, Zenon

\* The buddy of the buddy is the block itself.
LEMMA BuddyOfBuddy ==
  ASSUME NEW k \in Order, k < PAGE_NUM_ORDERS - 1, NEW x \in Nat, NEW y \in Pages(Buddy(x, k), k)
  PROVE  /\ Block(y, k) = Buddy(x, k) /\ Buddy(y, k) = Block(x, k)
         /\ Block(y, k + 1) = Block(x, k + 1)
<1>1. /\ Buddy(x, k) \in Nat /\ Buddy(x, k) % 2^k = 0 /\ Block(x, k) \in Nat
      /\ Block(x, k) % 2^k = 0
  BY Halves, BlockFacts, Zenon
<1>2. y \in Nat
  BY <1>1, InPages, Zenon
<1>3. Block(y, k) = Buddy(x, k)
  BY <1>1, <1>2, BlockFacts, Zenon
<1>4. k + 1 \in Order
  BY Sizes, Zenon
<1>5. Block(y, k + 1) = Block(x, k + 1)
  <2>1. y \in Pages(Block(x, k + 1), k + 1)
    BY Halves, Zenon
  <2>2. Block(x, k + 1) \in Nat /\ Block(x, k + 1) % 2^(k + 1) = 0
    BY <1>4, BlockFacts, Zenon
  <2>3. QED
    BY <1>2, <1>4, <2>1, <2>2, BlockFacts, Zenon
<1>6. PICK z \in Nat : z = Block(x, k)
  BY <1>1, Zenon
<1>7. z \in Pages(Buddy(y, k), k)
  <2>1. z \in Pages(Block(x, k), k)
    BY <1>6, InPages, Zenon
  <2>2. z \in Pages(Block(y, k + 1), k + 1) /\ z \notin Pages(Block(y, k), k)
    BY <1>3, <1>5, <2>1, Halves, Zenon
  <2>3. QED
    BY <1>2, <2>2, Halves, Zenon
<1>8. Buddy(y, k) = Block(x, k)
  <2>1. Buddy(y, k) \in Nat /\ Buddy(y, k) % 2^k = 0
    BY <1>2, Halves, Zenon
  <2>2. z \in Pages(z, k) /\ z % 2^k = 0
    BY <1>1, <1>6, InPages, Zenon
  <2>3. Buddy(y, k) = Block(z, k) /\ z = Block(z, k)
    BY <1>7, <2>1, <2>2, BlockFacts, Zenon
  <2>4. QED
    BY <1>6, <2>3, Zenon
<1>9. QED
  BY <1>3, <1>5, <1>8, Zenon

\* Blocks around a page grow with the order.
LEMMA Nested ==
  ASSUME NEW lo \in Order, NEW hi \in Order, lo <= hi, NEW x \in Nat
  PROVE  Pages(Block(x, lo), lo) \subseteq Pages(Block(x, hi), hi)
<1> DEFINE T == {k \in Order : Pages(Block(x, lo), lo) \subseteq Pages(Block(x, k), k)}
<1>1. lo \in Nat /\ hi \in Nat
  BY Sizes, Zenon
<1>2. lo \in T
  BY Zenon
<1>3. ASSUME NEW k \in lo .. hi - 1, k \in T PROVE k + 1 \in T
  <2>1. k < PAGE_NUM_ORDERS - 1
    BY <1>1, PagesAssumption DEF Order
  <2>2. k \in Order /\ k + 1 \in Order
    BY <1>3, <2>1, Sizes, Zenon
  <2>3. Pages(Block(x, k), k) \subseteq Pages(Block(x, k + 1), k + 1)
    BY <2>1, <2>2, Halves, Zenon
  <2>4. Pages(Block(x, lo), lo) \subseteq Pages(Block(x, k), k)
    BY <1>3, Zenon
  <2>5. QED
    BY <2>2, <2>3, <2>4, Zenon
<1>4. hi \in T
  <2> HIDE DEF T
  <2>1. QED
    BY <1>1, <1>2, <1>3, Upwards, Zenon
<1>5. QED
  BY <1>4, Zenon

\* Of two blocks that share a page, the smaller one is inside the larger one.
LEMMA NestedBlocks ==
  ASSUME NEW lo \in Order, NEW hi \in Order, lo <= hi, NEW a \in Nat, NEW b \in Nat,
         a % 2^lo = 0, b % 2^hi = 0, NEW x, x \in Pages(a, lo), x \in Pages(b, hi)
  PROVE  Pages(a, lo) \subseteq Pages(b, hi)
<1>1. x \in Nat
  BY InPages, Zenon
<1>2. a = Block(x, lo) /\ b = Block(x, hi)
  BY <1>1, BlockFacts, Zenon
<1>3. QED
  BY <1>1, <1>2, Nested, Zenon

\* What is aligned for an order is aligned for all smaller ones.
LEMMA AlignedDown ==
  ASSUME NEW lo \in Order, NEW hi \in Order, lo <= hi, NEW a \in Nat, a % 2^hi = 0
  PROVE  Block(a, lo) = a /\ a % 2^lo = 0
<1>1. Block(a, hi) = a
  BY InPages, BlockFacts, Zenon
<1>2. Block(a, lo) \in Nat /\ Block(a, lo) <= a /\ Block(a, lo) % 2^lo = 0
  BY BlockFacts, Zenon
<1>3. Block(a, lo) \in Pages(Block(a, hi), hi)
  BY <1>2, InPages, Nested, Zenon
<1>4. a <= Block(a, lo)
  BY <1>1, <1>3, InPages, Zenon
<1>5. Block(a, lo) = a
  BY <1>2, <1>4
<1>6. QED
  BY <1>2, <1>5, Zenon

-----------------------------------------------------------------------------
(* A block is what it is merged from: the block of a smaller order and the *)
(* buddies of all orders in between.                                       *)

\* The buddies are inside the large block and apart from the small one and
\* from each other.
LEMMA Ladder ==
  ASSUME NEW lo \in Order, NEW hi \in Order, lo <= hi, NEW x \in Nat, NEW k \in lo .. hi - 1
  PROVE  /\ k \in Order /\ k < PAGE_NUM_ORDERS - 1
         /\ Pages(Buddy(x, k), k) \subseteq Pages(Block(x, hi), hi)
         /\ \A y : ~(y \in Pages(Buddy(x, k), k) /\ y \in Pages(Block(x, lo), lo))
         /\ \A j \in lo .. hi - 1 : j # k =>
              \A y : ~(y \in Pages(Buddy(x, k), k) /\ y \in Pages(Buddy(x, j), j))
<1>1. ASSUME NEW j \in lo .. hi - 1
      PROVE  /\ j \in Order /\ j < PAGE_NUM_ORDERS - 1 /\ j + 1 \in Order
             /\ lo <= j /\ j + 1 <= hi /\ j \in Nat
  BY PagesAssumption DEF Order
<1>2. Pages(Buddy(x, k), k) \subseteq Pages(Block(x, hi), hi)
  <2>1. Pages(Buddy(x, k), k) \subseteq Pages(Block(x, k + 1), k + 1)
    BY <1>1, Halves, Zenon
  <2>2. Pages(Block(x, k + 1), k + 1) \subseteq Pages(Block(x, hi), hi)
    BY <1>1, Nested, Zenon
  <2>3. QED
    BY <2>1, <2>2, Zenon
<1>3. \A y : ~(y \in Pages(Buddy(x, k), k) /\ y \in Pages(Block(x, lo), lo))
  <2>1. Pages(Block(x, lo), lo) \subseteq Pages(Block(x, k), k)
    BY <1>1, Nested, Zenon
  <2>2. QED
    BY <1>1, <2>1, Halves, Zenon
<1>4. ASSUME NEW i \in lo .. hi - 1, NEW j \in lo .. hi - 1, i < j, NEW y,
             y \in Pages(Buddy(x, i), i), y \in Pages(Buddy(x, j), j)
      PROVE  FALSE
  <2>1. i + 1 <= j
    BY <1>1, <1>4
  <2>2. y \in Pages(Block(x, i + 1), i + 1)
    BY <1>1, <1>4, Halves, Zenon
  <2>3. y \in Pages(Block(x, j), j)
    BY <1>1, <2>1, <2>2, Nested, Zenon
  <2>4. QED
    BY <1>1, <1>4, <2>3, Halves, Zenon
<1>5. ASSUME NEW j \in lo .. hi - 1, j # k, NEW y,
             y \in Pages(Buddy(x, k), k), y \in Pages(Buddy(x, j), j)
      PROVE  FALSE
  <2>1. j < k \/ k < j
    BY <1>1, <1>5
  <2>2. QED
    BY <1>4, <1>5, <2>1, Zenon
<1>6. QED
  BY <1>1, <1>2, <1>3, <1>5, Zenon

\* Every page of the large block is in the small one or in a buddy.
LEMMA LadderCovers ==
  ASSUME NEW lo \in Order, NEW hi \in Order, lo <= hi, NEW x \in Nat,
         NEW y \in Pages(Block(x, hi), hi)
  PROVE  y \in Pages(Block(x, lo), lo) \/ \E k \in lo .. hi - 1 : y \in Pages(Buddy(x, k), k)
<1> DEFINE T == {k \in Order : y \in Pages(Block(x, k), k) =>
                   \/ y \in Pages(Block(x, lo), lo)
                   \/ \E j \in lo .. hi - 1 : y \in Pages(Buddy(x, j), j)}
<1>1. lo \in Nat /\ hi \in Nat
  BY Sizes, Zenon
<1>2. lo \in T
  BY Zenon
<1>3. ASSUME NEW k \in lo .. hi - 1, k \in T PROVE k + 1 \in T
  <2>1. k < PAGE_NUM_ORDERS - 1
    BY <1>1, PagesAssumption DEF Order
  <2>2. k \in Order /\ k + 1 \in Order
    BY <1>3, <2>1, Sizes, Zenon
  <2>3. y \in Pages(Block(x, k + 1), k + 1) =>
          y \in Pages(Block(x, k), k) \/ y \in Pages(Buddy(x, k), k)
    BY <2>1, <2>2, Halves, Zenon
  <2>4. QED
    BY <1>3, <2>2, <2>3, Zenon
<1>4. hi \in T
  <2> HIDE DEF T
  <2>1. QED
    BY <1>1, <1>2, <1>3, Upwards, Zenon
<1>5. QED
  BY <1>4, Zenon

-----------------------------------------------------------------------------
(* Lists of blocks that have each page once.                               *)

\* Tiles, page by page.
LEMMA TilesFacts ==
  ASSUME NEW g, NEW Z
  PROVE  Tiles(g, Z) <=>
           /\ \A k \in Order : \A i \in g[k] : i \in Page /\ i % 2^k = 0
           /\ \A k, m \in Order : \A i \in g[k], j \in g[m] : \A y :
                y \in Pages(i, k) /\ y \in Pages(j, m) => i = j /\ k = m
           /\ \A y : y \in Z <=> \E k \in Order : \E i \in g[k] : y \in Pages(i, k)
<1>1. (\A k, m \in Order : \A i \in g[k], j \in g[m] :
         Pages(i, k) \cap Pages(j, m) # {} => i = j /\ k = m)
      <=> \A k, m \in Order : \A i \in g[k], j \in g[m] : \A y :
            y \in Pages(i, k) /\ y \in Pages(j, m) => i = j /\ k = m
  BY Zenon
<1>2. Z = UNION {UNION {Pages(i, k) : i \in g[k]} : k \in Order}
      <=> \A y : y \in Z <=> \E k \in Order : \E i \in g[k] : y \in Pages(i, k)
  <2>1. PICK U : U = UNION {UNION {Pages(i, k) : i \in g[k]} : k \in Order}
    BY Zenon
  <2>2. \A y : y \in U <=> \E k \in Order : \E i \in g[k] : y \in Pages(i, k)
    <3>1. ASSUME NEW y \in U PROVE \E k \in Order : \E i \in g[k] : y \in Pages(i, k)
      <4>1. PICK k \in Order : y \in UNION {Pages(i, k) : i \in g[k]}
        BY <2>1, <3>1, Zenon
      <4>2. QED
        BY <4>1, Zenon
    <3>2. ASSUME NEW y, NEW k \in Order, NEW i \in g[k], y \in Pages(i, k) PROVE y \in U
      <4>1. y \in UNION {Pages(j, k) : j \in g[k]}
        BY <3>2, Zenon
      <4>2. QED
        BY <2>1, <4>1, Zenon
    <3>3. QED
      BY <3>1, <3>2, Zenon
  <2>3. Z = U <=> \A y : y \in Z <=> y \in U
    BY Zenon
  <2>4. QED
    BY <2>1, <2>2, <2>3, Zenon
<1>3. QED
  BY <1>1, <1>2, Zenon DEF Tiles

\* A block beside the others.
LEMMA AddTile ==
  ASSUME NEW g, NEW Z, Tiles(g, Z), NEW k \in Order, NEW i \in Page, i % 2^k = 0,
         \A y \in Pages(i, k) : y \notin Z,
         NEW h, \A m \in Order : \A j : j \in h[m] <=> j \in g[m] \/ (m = k /\ j = i)
  PROVE  Tiles(h, Z \cup Pages(i, k))
<1>1. /\ \A m \in Order : \A j \in g[m] : j \in Page /\ j % 2^m = 0
      /\ \A m, n \in Order : \A a \in g[m], b \in g[n] : \A y :
           y \in Pages(a, m) /\ y \in Pages(b, n) => a = b /\ m = n
      /\ \A y : y \in Z <=> \E m \in Order : \E j \in g[m] : y \in Pages(j, m)
  BY TilesFacts, Zenon
<1>2. \A m \in Order : \A j \in h[m] : j \in Page /\ j % 2^m = 0
  BY <1>1, Zenon
<1>3. ASSUME NEW m \in Order, NEW n \in Order, NEW a \in h[m], NEW b \in h[n], NEW y,
             y \in Pages(a, m), y \in Pages(b, n)
      PROVE  a = b /\ m = n
  <2>1. CASE a \in g[m]
    <3>1. y \in Z
      BY <1>1, <1>3, <2>1, Zenon
    <3>2. b \in g[n]
      BY <1>3, <3>1, Zenon
    <3>3. QED
      BY <1>1, <1>3, <2>1, <3>2, Zenon
  <2>2. CASE m = k /\ a = i
    <3>1. y \notin Z
      BY <1>3, <2>2, Zenon
    <3>2. b \notin g[n]
      BY <1>1, <1>3, <3>1, Zenon
    <3>3. n = k /\ b = i
      BY <3>2, Zenon
    <3>4. QED
      BY <2>2, <3>3, Zenon
  <2>3. QED
    BY <2>1, <2>2, Zenon
<1>4. ASSUME NEW y
      PROVE  y \in Z \cup Pages(i, k) <=> \E m \in Order : \E j \in h[m] : y \in Pages(j, m)
  BY <1>1, Zenon
<1>5. QED
  BY <1>2, <1>3, <1>4, TilesFacts, Zenon

\* A block less.
LEMMA RemoveTile ==
  ASSUME NEW g, NEW Z, Tiles(g, Z), NEW k \in Order, NEW i, i \in g[k],
         NEW h, \A m \in Order : \A j : j \in h[m] <=> j \in g[m] /\ ~(m = k /\ j = i)
  PROVE  Tiles(h, Z \ Pages(i, k))
<1>1. /\ \A m \in Order : \A j \in g[m] : j \in Page /\ j % 2^m = 0
      /\ \A m, n \in Order : \A a \in g[m], b \in g[n] : \A y :
           y \in Pages(a, m) /\ y \in Pages(b, n) => a = b /\ m = n
      /\ \A y : y \in Z <=> \E m \in Order : \E j \in g[m] : y \in Pages(j, m)
  BY TilesFacts, Zenon
<1>2. \A m \in Order : \A j \in h[m] : j \in Page /\ j % 2^m = 0
  BY <1>1, Zenon
<1>3. \A m, n \in Order : \A a \in h[m], b \in h[n] : \A y :
        y \in Pages(a, m) /\ y \in Pages(b, n) => a = b /\ m = n
  BY <1>1, Zenon
<1>4. ASSUME NEW y
      PROVE  y \in Z \ Pages(i, k) <=> \E m \in Order : \E j \in h[m] : y \in Pages(j, m)
  <2>1. ASSUME y \in Z \ Pages(i, k) PROVE \E m \in Order : \E j \in h[m] : y \in Pages(j, m)
    <3>1. PICK m \in Order : \E j \in g[m] : y \in Pages(j, m)
      BY <1>1, <2>1, Zenon
    <3>2. PICK j \in g[m] : y \in Pages(j, m)
      BY <3>1, Zenon
    <3>3. j \in h[m]
      BY <2>1, <3>2, Zenon
    <3>4. QED
      BY <3>2, <3>3, Zenon
  <2>2. ASSUME NEW m \in Order, NEW j \in h[m], y \in Pages(j, m) PROVE y \in Z \ Pages(i, k)
    <3>1. j \in g[m] /\ ~(m = k /\ j = i)
      BY Zenon
    <3>2. y \in Z /\ y \notin Pages(i, k)
      BY <1>1, <2>2, <3>1, Zenon
    <3>3. QED
      BY <3>2, Zenon
  <2>3. QED
    BY <2>1, <2>2, Zenon
<1>5. QED
  BY <1>2, <1>3, <1>4, TilesFacts, Zenon

\* A list with one block for the pieces in the other, the block of order lo and
\* the buddies that it has on the way up.
IsMerge(h, g, lo, hi, x) ==
  \A m \in Order : \A j : j \in h[m] <=>
    \/ m = hi /\ j = Block(x, hi)
    \/ /\ j \in g[m] /\ ~(m = lo /\ j = Block(x, lo))
       /\ ~(m \in lo .. hi - 1 /\ j = Buddy(x, m))

\* A block and the buddies around it become one block.
LEMMA MergeTiles ==
  ASSUME NEW g, NEW Z, Tiles(g, Z), Z \subseteq Page,
         NEW lo \in Order, NEW hi \in Order, lo <= hi, NEW x \in Nat,
         Block(x, lo) \in g[lo], \A k \in lo .. hi - 1 : Buddy(x, k) \in g[k],
         NEW h, IsMerge(h, g, lo, hi, x)
  PROVE  Tiles(h, Z)
<1> USE DEF IsMerge
<1>1. /\ \A m \in Order : \A j \in g[m] : j \in Page /\ j % 2^m = 0
      /\ \A m, n \in Order : \A a \in g[m], b \in g[n] : \A y :
           y \in Pages(a, m) /\ y \in Pages(b, n) => a = b /\ m = n
      /\ \A y : y \in Z <=> \E m \in Order : \E j \in g[m] : y \in Pages(j, m)
  BY TilesFacts, Zenon
<1>2. \A k \in lo .. hi - 1 : k \in Order
  BY Ladder, Zenon
<1>3. ASSUME NEW m \in Order, NEW j \in g[m], NEW y \in Pages(j, m), y \in Pages(Block(x, hi), hi)
      PROVE  (m = lo /\ j = Block(x, lo)) \/ (m \in lo .. hi - 1 /\ j = Buddy(x, m))
  <2>1. CASE y \in Pages(Block(x, lo), lo)
    BY <1>1, <2>1, Zenon
  <2>2. CASE \E k \in lo .. hi - 1 : y \in Pages(Buddy(x, k), k)
    <3>1. PICK k \in lo .. hi - 1 : y \in Pages(Buddy(x, k), k)
      BY <2>2, Zenon
    <3>2. j = Buddy(x, k) /\ m = k
      BY <1>1, <1>2, <3>1, Zenon
    <3>3. QED
      BY <3>2, Zenon
  <2>3. QED
    BY <1>3, <2>1, <2>2, LadderCovers, Zenon
<1>4. \A y \in Pages(Block(x, hi), hi) : y \in Z
  <2>1. ASSUME NEW y \in Pages(Block(x, hi), hi) PROVE y \in Z
    <3>1. CASE y \in Pages(Block(x, lo), lo)
      BY <1>1, <3>1, Zenon
    <3>2. CASE \E k \in lo .. hi - 1 : y \in Pages(Buddy(x, k), k)
      BY <1>1, <1>2, <3>2, Zenon
    <3>3. QED
      BY <3>1, <3>2, LadderCovers, Zenon
  <2>2. QED
    BY <2>1, Zenon
<1>5. Block(x, hi) \in Page /\ Block(x, hi) % 2^hi = 0
  <2>1. Block(x, hi) \in Pages(Block(x, hi), hi) /\ Block(x, hi) % 2^hi = 0
    BY BlockFacts, InPages, Zenon
  <2>2. QED
    BY <1>4, <2>1, Zenon
<1>6. \A m \in Order : \A j \in h[m] : j \in Page /\ j % 2^m = 0
  BY <1>1, <1>5, Zenon
<1>7. ASSUME NEW m \in Order, NEW n \in Order, NEW a \in h[m], NEW b \in h[n], NEW y,
             y \in Pages(a, m), y \in Pages(b, n)
      PROVE  a = b /\ m = n
  <2>1. CASE y \in Pages(Block(x, hi), hi)
    <3>1. m = hi /\ a = Block(x, hi)
      BY <1>3, <1>7, <2>1, Zenon
    <3>2. n = hi /\ b = Block(x, hi)
      BY <1>3, <1>7, <2>1, Zenon
    <3>3. QED
      BY <3>1, <3>2, Zenon
  <2>2. CASE y \notin Pages(Block(x, hi), hi)
    <3>1. a \in g[m] /\ b \in g[n]
      BY <1>7, <2>2, Zenon
    <3>2. QED
      BY <1>1, <1>7, <3>1, Zenon
  <2>3. QED
    BY <2>1, <2>2, Zenon
<1>8. ASSUME NEW y
      PROVE  y \in Z <=> \E m \in Order : \E j \in h[m] : y \in Pages(j, m)
  <2>1. ASSUME y \in Z PROVE \E m \in Order : \E j \in h[m] : y \in Pages(j, m)
    <3>1. CASE y \in Pages(Block(x, hi), hi)
      <4>1. Block(x, hi) \in h[hi]
        BY Zenon
      <4>2. QED
        BY <3>1, <4>1, Zenon
    <3>2. CASE y \notin Pages(Block(x, hi), hi)
      <4>1. PICK m \in Order : \E j \in g[m] : y \in Pages(j, m)
        BY <1>1, <2>1, Zenon
      <4>2. PICK j \in g[m] : y \in Pages(j, m)
        BY <4>1, Zenon
      <4>3. ~(m = lo /\ j = Block(x, lo))
        BY <3>2, <4>2, Nested, Zenon
      <4>4. ~(m \in lo .. hi - 1 /\ j = Buddy(x, m))
        BY <3>2, <4>2, Ladder, Zenon
      <4>5. j \in h[m]
        BY <4>3, <4>4, Zenon
      <4>6. QED
        BY <4>2, <4>5, Zenon
    <3>3. QED
      BY <3>1, <3>2, Zenon
  <2>2. ASSUME NEW m \in Order, NEW j \in h[m], y \in Pages(j, m) PROVE y \in Z
    <3>1. CASE m = hi /\ j = Block(x, hi)
      BY <1>4, <2>2, <3>1, Zenon
    <3>2. CASE j \in g[m]
      BY <1>1, <2>2, <3>2, Zenon
    <3>3. QED
      BY <3>1, <3>2, Zenon
  <2>3. QED
    BY <2>1, <2>2, Zenon
<1>9. QED
  BY <1>6, <1>7, <1>8, TilesFacts, Zenon

\* A list with a block of the other in pieces: the block of order lo and the
\* buddies that it has on the way up.
IsSplit(h, g, lo, hi, x) ==
  \A m \in Order : \A j : j \in h[m] <=>
    \/ m = lo /\ j = Block(x, lo)
    \/ m \in lo .. hi - 1 /\ j = Buddy(x, m)
    \/ j \in g[m] /\ ~(m = hi /\ j = Block(x, hi))

\* A block becomes a smaller one and the buddies around that.
LEMMA SplitTiles ==
  ASSUME NEW g, NEW Z, Tiles(g, Z), Z \subseteq Page,
         NEW lo \in Order, NEW hi \in Order, lo <= hi, NEW x \in Nat, Block(x, hi) \in g[hi],
         NEW h, IsSplit(h, g, lo, hi, x)
  PROVE  Tiles(h, Z)
<1> DEFINE Part(m, j) == (m = lo /\ j = Block(x, lo)) \/ (m \in lo .. hi - 1 /\ j = Buddy(x, m))
<1>1. /\ \A m \in Order : \A j \in g[m] : j \in Page /\ j % 2^m = 0
      /\ \A m, n \in Order : \A a \in g[m], b \in g[n] : \A y :
           y \in Pages(a, m) /\ y \in Pages(b, n) => a = b /\ m = n
      /\ \A y : y \in Z <=> \E m \in Order : \E j \in g[m] : y \in Pages(j, m)
  BY TilesFacts, Zenon
<1>2. ASSUME NEW m \in Order, NEW j, Part(m, j)
      PROVE  /\ j \in Nat /\ j % 2^m = 0 /\ j \in Pages(j, m)
             /\ Pages(j, m) \subseteq Pages(Block(x, hi), hi)
  <2>1. CASE m = lo /\ j = Block(x, lo)
    BY <2>1, BlockFacts, InPages, Nested, Zenon
  <2>2. CASE m \in lo .. hi - 1 /\ j = Buddy(x, m)
    BY <2>2, Halves, InPages, Ladder, Zenon
  <2>3. QED
    BY <1>2, <2>1, <2>2, Zenon
<1>3. \A y \in Pages(Block(x, hi), hi) : y \in Z
  BY <1>1, Zenon
<1>4. ASSUME NEW m \in Order, NEW n \in Order, NEW a, NEW b, Part(m, a), Part(n, b), NEW y,
             y \in Pages(a, m), y \in Pages(b, n)
      PROVE  a = b /\ m = n
  <2>1. CASE m = lo /\ a = Block(x, lo) /\ n = lo /\ b = Block(x, lo)
    BY <2>1, Zenon
  <2>2. CASE m = lo /\ a = Block(x, lo) /\ n \in lo .. hi - 1 /\ b = Buddy(x, n)
    <3>1. \A z : ~(z \in Pages(Buddy(x, n), n) /\ z \in Pages(Block(x, lo), lo))
      BY <2>2, Ladder, Zenon
    <3>2. QED
      BY <1>4, <2>2, <3>1, Zenon
  <2>3. CASE m \in lo .. hi - 1 /\ a = Buddy(x, m) /\ n = lo /\ b = Block(x, lo)
    <3>1. \A z : ~(z \in Pages(Buddy(x, m), m) /\ z \in Pages(Block(x, lo), lo))
      BY <2>3, Ladder, Zenon
    <3>2. QED
      BY <1>4, <2>3, <3>1, Zenon
  <2>4. CASE m \in lo .. hi - 1 /\ a = Buddy(x, m) /\ n \in lo .. hi - 1 /\ b = Buddy(x, n)
    <3>1. m = n
      <4>1. m \in lo .. hi - 1 /\ n \in lo .. hi - 1
        BY <2>4, Zenon
      <4>2. \A j \in lo .. hi - 1 : j # m =>
              \A z : ~(z \in Pages(Buddy(x, m), m) /\ z \in Pages(Buddy(x, j), j))
        BY <4>1, Ladder
      <4>3. y \in Pages(Buddy(x, m), m) /\ y \in Pages(Buddy(x, n), n)
        BY <1>4, <2>4, Zenon
      <4>4. QED
        BY <4>1, <4>2, <4>3, Zenon
    <3>2. QED
      BY <2>4, <3>1, Zenon
  <2>5. QED
    BY <1>4, <2>1, <2>2, <2>3, <2>4, Zenon
<1>5. \A m \in Order : \A j : j \in h[m] <=>
         Part(m, j) \/ (j \in g[m] /\ ~(m = hi /\ j = Block(x, hi)))
  BY Zenon DEF IsSplit
<1> HIDE DEF Part
<1>6. ASSUME NEW m \in Order, NEW j \in h[m] PROVE j \in Page /\ j % 2^m = 0
  <2>1. CASE Part(m, j)
    BY <1>2, <1>3, <2>1, Zenon
  <2>2. CASE j \in g[m]
    BY <1>1, <2>2, Zenon
  <2>3. QED
    BY <1>5, <2>1, <2>2, Zenon
<1>7. ASSUME NEW m \in Order, NEW n \in Order, NEW a \in h[m], NEW b \in h[n], NEW y,
             y \in Pages(a, m), y \in Pages(b, n)
      PROVE  a = b /\ m = n
  <2>1. CASE y \in Pages(Block(x, hi), hi)
    <3>1. \A k \in Order : \A j \in g[k] : y \in Pages(j, k) => k = hi /\ j = Block(x, hi)
      BY <1>1, <2>1, Zenon
    <3>2. Part(m, a)
      <4>1. a \in g[m] => m = hi /\ a = Block(x, hi)
        BY <1>7, <2>1, <3>1, Zenon
      <4>2. QED
        BY <1>5, <4>1, Zenon
    <3>3. Part(n, b)
      <4>1. b \in g[n] => n = hi /\ b = Block(x, hi)
        BY <1>7, <2>1, <3>1, Zenon
      <4>2. QED
        BY <1>5, <4>1, Zenon
    <3>4. \A z : z \in Pages(a, m) /\ z \in Pages(b, n) => a = b /\ m = n
      BY <1>4, <3>2, <3>3
    <3>5. QED
      BY <1>7, <3>4, Zenon
  <2>2. CASE y \notin Pages(Block(x, hi), hi)
    <3>1. a \in g[m] /\ b \in g[n]
      BY <1>2, <1>5, <1>7, <2>2, Zenon
    <3>2. QED
      BY <1>1, <1>7, <3>1, Zenon
  <2>3. QED
    BY <2>1, <2>2, Zenon
<1>8. ASSUME NEW y
      PROVE  y \in Z <=> \E m \in Order : \E j \in h[m] : y \in Pages(j, m)
  <2>1. ASSUME y \in Pages(Block(x, hi), hi)
        PROVE  \E m \in Order : \E j \in h[m] : y \in Pages(j, m)
    <3>1. CASE y \in Pages(Block(x, lo), lo)
      <4>1. Block(x, lo) \in h[lo]
        BY Zenon DEF IsSplit
      <4>2. QED
        BY <3>1, <4>1, Zenon
    <3>2. CASE \E k \in lo .. hi - 1 : y \in Pages(Buddy(x, k), k)
      <4>1. PICK k \in lo .. hi - 1 : y \in Pages(Buddy(x, k), k)
        BY <3>2, Zenon
      <4>2. k \in Order
        BY Ladder, Zenon
      <4>3. Buddy(x, k) \in h[k]
        BY <4>2, Zenon DEF IsSplit
      <4>4. QED
        BY <4>1, <4>2, <4>3, Zenon
    <3>3. QED
      BY <2>1, <3>1, <3>2, LadderCovers, Zenon
  <2>2. ASSUME y \in Z, y \notin Pages(Block(x, hi), hi)
        PROVE  \E m \in Order : \E j \in h[m] : y \in Pages(j, m)
    <3>1. PICK m \in Order : \E j \in g[m] : y \in Pages(j, m)
      BY <1>1, <2>2, Zenon
    <3>2. PICK j \in g[m] : y \in Pages(j, m)
      BY <3>1, Zenon
    <3>3. j \in h[m]
      BY <1>5, <2>2, <3>2, Zenon
    <3>4. QED
      BY <3>2, <3>3, Zenon
  <2>3. ASSUME NEW m \in Order, NEW j \in h[m], y \in Pages(j, m) PROVE y \in Z
    <3>1. CASE Part(m, j)
      BY <1>2, <1>3, <2>3, <3>1, Zenon
    <3>2. CASE j \in g[m]
      BY <1>1, <2>3, <3>2, Zenon
    <3>3. QED
      BY <1>5, <3>1, <3>2, Zenon
  <2>4. QED
    BY <2>1, <2>2, <2>3, Zenon
<1>9. QED
  BY <1>6, <1>7, <1>8, TilesFacts, Zenon

-----------------------------------------------------------------------------
(* Steps.                                                                  *)

\* The blocks as pairs are the blocks as lists.
LEMMA PairsPages ==
  ASSUME NEW f \in [Order -> SUBSET Page], NEW Z,
         \A y : y \in Z <=> \E b \in Page \X Order : b[1] \in f[b[2]] /\ y \in Pages(b[1], b[2])
  PROVE  \A y : y \in Z <=> \E k \in Order : \E i \in f[k] : y \in Pages(i, k)
<1>1. ASSUME NEW y \in Z PROVE \E k \in Order : \E i \in f[k] : y \in Pages(i, k)
  <2>1. PICK b \in Page \X Order : b[1] \in f[b[2]] /\ y \in Pages(b[1], b[2])
    BY Zenon
  <2>2. b[2] \in Order
    BY <2>1
  <2>3. QED
    BY <2>1, <2>2, Zenon
<1>2. ASSUME NEW y, NEW k \in Order, NEW i \in f[k], y \in Pages(i, k) PROVE y \in Z
  <2>1. PICK b : b = <<i, k>>
    BY Zenon
  <2>2. b \in Page \X Order /\ b[1] = i /\ b[2] = k
    BY <2>1
  <2>3. QED
    BY <1>2, <2>2, Zenon
<1>3. QED
  BY <1>1, <1>2, Zenon

\* Pages that are free are finitely many, and the pages of a block as many as
\* its size says.
LEMMA PagesCount ==
  ASSUME NEW i \in Nat, NEW k \in Order
  PROVE  IsFiniteSet(Pages(i, k)) /\ Cardinality(Pages(i, k)) = 2^k
<1>1. 2^k \in Nat \ {0}
  BY Sizes, Zenon
<1>2. i \in Int /\ i + 2^k - 1 \in Int /\ ~(i > i + 2^k - 1) /\ (i + 2^k - 1) - i + 1 = 2^k
  BY <1>1
<1>3. QED
  BY <1>2, FS_Interval, Zenon DEF Pages

\* Pages are numbers, and the pages of the zone so far are pages.
LEMMA ZoneFacts ==
  ASSUME PagesInv
  PROVE  Page \subseteq Nat /\ Zone \subseteq Page /\ FreePages \subseteq Zone
<1>1. Page \subseteq Nat /\ Zone \subseteq Page
  BY PagesAssumption DEF PagesInv, PagesTypeOK, Page, Zone
<1>2. QED
  BY <1>1, Zenon DEF PagesInv

\* What the invariant says of the free blocks.
LEMMA FreeFacts ==
  ASSUME PagesInv
  PROVE  /\ \A k \in Order : \A i \in z_free[k] :
              /\ i \in Page /\ i \in Nat /\ i % 2^k = 0 /\ i \in Pages(i, k)
              /\ i \in FreePages
         /\ \A y : y \in FreePages <=> \E k \in Order : \E i \in z_free[k] : y \in Pages(i, k)
<1>1. Tiles(z_free, FreePages)
  BY Zenon DEF PagesInv
<1>2. \A k \in Order : \A i \in z_free[k] : i \in Page /\ i % 2^k = 0
  BY <1>1, TilesFacts, Zenon
<1>3. \A y : y \in FreePages <=> \E k \in Order : \E i \in z_free[k] : y \in Pages(i, k)
  BY <1>1, TilesFacts, Zenon
<1>4. \A k \in Order : \A i \in z_free[k] : i \in Nat /\ i \in Pages(i, k)
  BY <1>2, ZoneFacts, InPages, Zenon
<1>5. QED
  BY <1>2, <1>3, <1>4, Zenon

\* What the invariant says of the blocks that callers have.
LEMMA OwnedFacts ==
  ASSUME PagesInv
  PROVE  /\ \A k \in Order : \A i \in z_owned[k] :
              /\ i \in Page /\ i \in Nat /\ i % 2^k = 0 /\ i \in Pages(i, k)
              /\ i \in Zone /\ i \notin FreePages
         /\ \A y : y \in Zone /\ y \notin FreePages
                   <=> \E k \in Order : \E i \in z_owned[k] : y \in Pages(i, k)
         /\ \A k \in Order : \A i : i \in z_owned[k] <=> \E b \in owned : b.page = i /\ b.order = k
         /\ \A b \in owned : b.page \in z_owned[b.order] /\ b.order \in Order
<1>1. Tiles(z_owned, Zone \ FreePages)
  BY Zenon DEF PagesInv
<1>2. \A k \in Order : \A i \in z_owned[k] : i \in Page /\ i % 2^k = 0
  BY <1>1, TilesFacts, Zenon
<1>3. \A y : y \in Zone \ FreePages <=> \E k \in Order : \E i \in z_owned[k] : y \in Pages(i, k)
  BY <1>1, TilesFacts, Zenon
<1>4. \A k \in Order : \A i \in z_owned[k] : i \in Nat /\ i \in Pages(i, k)
  BY <1>2, ZoneFacts, InPages, Zenon
<1>5. \A k \in Order : \A i : i \in z_owned[k] <=> \E b \in owned : b.page = i /\ b.order = k
  BY Zenon DEF z_owned
<1>6. \A b \in owned : b.order \in Order
  BY DEF PagesInv, PagesTypeOK
<1>7. \A y : y \in Zone /\ y \notin FreePages
            <=> \E k \in Order : \E i \in z_owned[k] : y \in Pages(i, k)
  BY <1>3, Zenon
<1>8. \A k \in Order : \A i \in z_owned[k] : i \in Zone /\ i \notin FreePages
  BY <1>4, <1>7, Zenon
<1>9. \A b \in owned : b.page \in z_owned[b.order]
  BY <1>5, <1>6, Zenon
<1>10. QED
  BY <1>2, <1>4, <1>5, <1>6, <1>7, <1>8, <1>9, Zenon

\* The loop of page_free_index merges exactly with free buddies: no larger block
\* than the one that is freed has the page, so a block begins at the buddy, and
\* its order is the one in p_order.
LEMMA MergesFree ==
  ASSUME PagesInv, NEW index \in Page, NEW order \in Order,
         \A m \in Order : \A j \in z_free[m] \cup z_owned[m] : index \in Pages(j, m) => m <= order,
         NEW k \in Order, order <= k, k < PAGE_NUM_ORDERS - 1
  PROVE  Merges(index, k) <=> Buddy(index, k) \in z_free[k]
<1>1. index \in Nat /\ order \in Nat /\ k \in Nat /\ k + 1 \in Order
  BY ZoneFacts, Sizes, Zenon
<1>2. PICK d \in Nat : d = Buddy(index, k) /\ d % 2^k = 0 /\ d \in Pages(d, k)
  BY <1>1, Halves, InPages, Zenon
<1>3. ASSUME d \in z_free[k] PROVE Merges(index, k)
  <2>1. d \in Page /\ d \in FreePages /\ p_order[d] = k
    BY <1>2, <1>3, FreeFacts, Zenon DEF PagesInv, OrdersInv
  <2>2. d < z_num_pages
    BY <2>1, PagesAssumption DEF Page
  <2>3. d \in Zone
    BY <2>1, Zenon DEF PagesInv
  <2>4. d \notin added .. z_num_pages - 1
    BY <2>3 DEF Zone, PagesInv, PagesTypeOK
  <2>5. \A b \in owned : b.page # d
    <3>1. \A b \in owned : b.order \in Order /\ b.page \in z_owned[b.order]
      BY OwnedFacts, Zenon
    <3>2. \A m \in Order : \A i \in z_owned[m] : i \notin FreePages
      BY OwnedFacts, Zenon
    <3>3. QED
      BY <2>1, <3>1, <3>2, Zenon
  <2>6. d \notin z_bitmap
    BY <2>4, <2>5, Zenon DEF PagesInv, BitmapInv
  <2>7. QED
    BY <1>2, <2>1, <2>2, <2>6, Zenon DEF Merges
<1>4. ASSUME Merges(index, k) PROVE d \in z_free[k]
  <2>1. d < z_num_pages /\ d \notin z_bitmap /\ p_order[d] = k
    BY <1>2, <1>4, Zenon DEF Merges
  <2>2. d \in Zone
    <3>1. d \notin added .. z_num_pages - 1
      BY <2>1, Zenon DEF PagesInv, BitmapInv
    <3>2. QED
      BY <2>1, <3>1, PagesAssumption DEF Zone, PagesInv, PagesTypeOK
  <2>3. PICK m \in Order : \E j \in z_free[m] \cup z_owned[m] : d \in Pages(j, m)
    <3>1. CASE d \in FreePages
      BY <3>1, FreeFacts, Zenon
    <3>2. CASE d \notin FreePages
      <4>1. \E m \in Order : \E j \in z_owned[m] : d \in Pages(j, m)
        <5>1. \A y : y \in Zone /\ y \notin FreePages
                    <=> \E m \in Order : \E j \in z_owned[m] : y \in Pages(j, m)
          BY OwnedFacts, Zenon
        <5>2. QED
          BY <2>2, <3>2, <5>1, Zenon
      <4>2. QED
        BY <4>1, Zenon
    <3>3. QED
      BY <3>1, <3>2, Zenon
  <2>4. PICK j \in z_free[m] \cup z_owned[m] : d \in Pages(j, m)
    BY <2>3, Zenon
  <2>5. j \in Nat /\ j % 2^m = 0 /\ m \in Nat
    BY <2>4, FreeFacts, OwnedFacts, Sizes, Zenon
  <2>6. m <= k
    <3>1. SUFFICES ASSUME ~(m <= k) PROVE FALSE
      BY Zenon
    <3>2. k + 1 <= m
      BY <1>1, <2>5, <3>1
    <3>3. d \in Pages(Block(index, k + 1), k + 1) /\ index \in Pages(Block(index, k + 1), k + 1)
      BY <1>1, <1>2, Halves, BlockFacts, Zenon
    <3>4. Block(index, k + 1) \in Nat /\ Block(index, k + 1) % 2^(k + 1) = 0
      BY <1>1, BlockFacts, Zenon
    <3>5. index \in Pages(j, m)
      <4>1. Pages(Block(index, k + 1), k + 1) \subseteq Pages(j, m)
        <5>1. PICK up : up = k + 1
          BY Zenon
        <5>2. PICK b \in Nat : b = Block(index, up) /\ b % 2^up = 0 /\ d \in Pages(b, up)
          BY <3>3, <3>4, <5>1, Zenon
        <5>3. up \in Order /\ up <= m
          BY <1>1, <3>2, <5>1, Zenon
        <5>4. Pages(b, up) \subseteq Pages(j, m)
          BY <2>4, <2>5, <5>2, <5>3, NestedBlocks, Zenon
        <5>5. QED
          BY <5>1, <5>2, <5>4, Zenon
      <4>2. QED
        BY <3>3, <4>1, Zenon
    <3>6. m <= order
      BY <3>5, Zenon
    <3>7. QED
      BY <1>1, <2>5, <3>2, <3>6
  <2>7. j = d
    <3>1. Block(d, m) = d
      BY <1>2, <2>6, AlignedDown, Zenon
    <3>2. j = Block(d, m)
      BY <2>4, <2>5, BlockFacts, Zenon
    <3>3. QED
      BY <3>1, <3>2, Zenon
  <2>8. d \notin z_owned[m]
    <3>1. ASSUME NEW b \in owned PROVE b.page # d
      BY <2>1, Zenon DEF PagesInv, BitmapInv
    <3>2. QED
      BY <3>1, OwnedFacts, Zenon
  <2>9. d \in z_free[m]
    BY <2>7, <2>8, Zenon
  <2>10. p_order[d] = m
    BY <2>9, Zenon DEF PagesInv, OrdersInv
  <2>11. QED
    BY <2>1, <2>9, <2>10, Zenon
<1>5. QED
  BY <1>2, <1>3, <1>4, Zenon

\* Where the loop of page_free_index ends.
LEMMA MergedOrderFacts ==
  ASSUME NEW index, NEW order \in Order
  PROVE  LET top == MergedOrder(index, order)
         IN /\ top \in Order /\ order <= top
            /\ \A k \in order .. top - 1 : Merges(index, k)
            /\ top < PAGE_NUM_ORDERS - 1 => ~Merges(index, top)
<1> DEFINE S == {m \in order .. PAGE_NUM_ORDERS - 1 : \A k \in order .. m - 1 : Merges(index, k)}
<1>1. S \subseteq 0 .. PAGE_NUM_ORDERS - 1 /\ PAGE_NUM_ORDERS - 1 \in Nat
  BY PagesAssumption DEF Order
<1>2. order \in S
  <2>1. order \in order .. PAGE_NUM_ORDERS - 1 /\ order .. order - 1 = {}
    BY PagesAssumption DEF Order
  <2>2. QED
    BY <2>1, Zenon
<1>3. PICK top : top = MergedOrder(index, order)
  BY Zenon
<1>4. top \in S /\ \A y \in S : top >= y
  BY <1>1, <1>2, <1>3, MaxMin, Zenon DEF MergedOrder
<1>5. top \in order .. PAGE_NUM_ORDERS - 1 /\ \A k \in order .. top - 1 : Merges(index, k)
  BY <1>4, Zenon
<1>6. top \in Order /\ order <= top /\ top \in Nat /\ order \in Nat
  BY <1>5, PagesAssumption DEF Order
<1>7. ASSUME top < PAGE_NUM_ORDERS - 1, Merges(index, top) PROVE FALSE
  <2>1. top + 1 \in order .. PAGE_NUM_ORDERS - 1 /\ ~(top >= top + 1)
    BY <1>6, <1>7, PagesAssumption
  <2>2. \A k \in order .. (top + 1) - 1 : k = top \/ k \in order .. top - 1
    BY <1>6
  <2>3. \A k \in order .. (top + 1) - 1 : Merges(index, k)
    BY <1>5, <1>7, <2>2, Zenon
  <2>4. top + 1 \in S
    BY <2>1, <2>3, Zenon
  <2>5. QED
    BY <1>4, <2>1, <2>4, Zenon
<1>8. QED
  BY <1>3, <1>5, <1>6, <1>7, Zenon

\* page_free_index: the block is free afterwards, in the largest block that it
\* forms with others.
LEMMA FreeIndexStep ==
  ASSUME PagesInv, NEW index \in Page, NEW order \in Order, index % 2^order = 0,
         p_order[index] = order, \A y \in Pages(index, order) : y \in Page /\ y \notin FreePages,
         \A m \in Order : \A j \in z_free[m] \cup z_owned[m] : index \in Pages(j, m) => m <= order,
         FreeIndex(index, order)
  PROVE  /\ z_free' \in [Order -> SUBSET Page] /\ p_order' \in [Page -> Order]
         /\ FreePages' = FreePages \cup Pages(index, order)
         /\ Tiles(z_free', FreePages')
         /\ z_avail_pages' = Cardinality(FreePages')
         /\ \A k \in Order : \A i \in z_free'[k] : p_order'[i] = k
         /\ \A i \in Page : i \notin FreePages' => p_order'[i] = p_order[i]
         /\ BuddiesInv'
<1>1. PICK top \in Order :
        /\ top = MergedOrder(index, order) /\ order <= top
        /\ \A k \in order .. top - 1 : Merges(index, k)
        /\ top < PAGE_NUM_ORDERS - 1 => ~Merges(index, top)
  BY MergedOrderFacts, Zenon
<1>2. index \in Nat /\ order \in Nat /\ top \in Nat /\ index \in Pages(index, order)
  BY ZoneFacts, Sizes, InPages, Zenon
<1>3. Block(index, order) = index
  BY <1>2, BlockFacts, Zenon
<1>4. ASSUME NEW k \in order .. top - 1
      PROVE  k \in Order /\ k < PAGE_NUM_ORDERS - 1 /\ k # top /\ Buddy(index, k) \in z_free[k]
  <2>1. k # top /\ order <= k
    BY <1>2
  <2>2. k \in Order /\ k < PAGE_NUM_ORDERS - 1
    BY <1>1, <1>2, Ladder, Zenon
  <2>3. QED
    BY <1>1, <2>1, <2>2, MergesFree, Zenon
<1>5. index \notin z_free[order]
  BY <1>2, FreeFacts, Zenon
<1>6. PICK Z : Z = FreePages \cup Pages(index, order)
  BY Zenon
<1>7. Z \subseteq Page
  BY <1>6, ZoneFacts, Zenon DEF PagesInv
<1>8. PICK g : g = [k \in Order |-> IF k = order THEN z_free[k] \cup {index} ELSE z_free[k]]
  BY Zenon
<1>9. \A m \in Order : \A j : j \in g[m] <=> j \in z_free[m] \/ (m = order /\ j = index)
  BY <1>8, Zenon
<1>10. Tiles(g, Z)
  <2>1. Tiles(z_free, FreePages)
    BY Zenon DEF PagesInv
  <2>2. Tiles(g, FreePages \cup Pages(index, order))
    BY <1>9, <2>1, AddTile, Zenon
  <2>3. QED
    BY <1>6, <2>2, Zenon
<1>11. /\ z_free' = [k \in Order |->
            IF k = top THEN z_free[k] \cup {Block(index, k)}
            ELSE IF k \in order .. top - 1 THEN z_free[k] \ {Buddy(index, k)}
            ELSE z_free[k]]
       /\ z_avail_pages' = z_avail_pages + 2^order
       /\ p_order' = [i \in Page |->
            LET merged == {k \in order + 1 .. top : Block(index, k) = i}
            IN IF merged = {} THEN p_order[i] ELSE Max(merged)]
  BY <1>1, Zenon DEF FreeIndex
<1>12. \A m \in Order : \A j : j \in z_free'[m] <=>
          \/ m = top /\ j = Block(index, top)
          \/ j \in z_free[m] /\ ~(m \in order .. top - 1 /\ j = Buddy(index, m))
  BY <1>4, <1>11, Zenon
<1>13. Tiles(z_free', Z)
  <2>1. \A m \in Order : \A j : j \in z_free'[m] <=>
          \/ m = top /\ j = Block(index, top)
          \/ /\ j \in g[m] /\ ~(m = order /\ j = Block(index, order))
             /\ ~(m \in order .. top - 1 /\ j = Buddy(index, m))
    BY <1>3, <1>5, <1>9, <1>12, Zenon
  <2>2. Block(index, order) \in g[order] /\ \A k \in order .. top - 1 : Buddy(index, k) \in g[k]
    BY <1>3, <1>4, <1>9, Zenon
  <2>3. order <= top
    BY <1>1, Zenon
  <2>4. QED
    <3>1. IsMerge(z_free', g, order, top, index)
      BY <2>1, Zenon DEF IsMerge
    <3>2. QED
      BY <1>2, <1>7, <1>10, <2>2, <2>3, <3>1, MergeTiles, Zenon
<1>14. /\ \A k \in Order : \A i \in z_free'[k] : i \in Page /\ i % 2^k = 0
       /\ \A k, m \in Order : \A i \in z_free'[k], j \in z_free'[m] : \A y :
            y \in Pages(i, k) /\ y \in Pages(j, m) => i = j /\ k = m
       /\ \A y : y \in Z <=> \E k \in Order : \E i \in z_free'[k] : y \in Pages(i, k)
  BY <1>13, TilesFacts, Zenon
<1>15. z_free' \in [Order -> SUBSET Page]
  <2>1. \A k \in Order : z_free'[k] \in SUBSET Page
    BY <1>14, Zenon
  <2>2. QED
    BY <1>11, <2>1, Zenon
<1>16. FreePages' = Z
  <2>1. \A y : y \in FreePages' <=>
          \E b \in Page \X Order : b[1] \in z_free'[b[2]] /\ y \in Pages(b[1], b[2])
    BY Zenon DEF FreePages, FreeBlocks
  <2>2. \A y : y \in FreePages' <=> \E k \in Order : \E i \in z_free'[k] : y \in Pages(i, k)
    BY <1>15, <2>1, PairsPages, Zenon
  <2>3. \A y : y \in FreePages' <=> y \in Z
    BY <1>14, <2>2, Zenon
  <2>4. QED
    BY <2>3, Zenon
<1>17. z_avail_pages' = Cardinality(FreePages')
  <2>1. IsFiniteSet(FreePages)
    <3>1. FreePages \subseteq 0 .. z_num_pages - 1
      BY ZoneFacts, Zenon DEF PagesInv, Page
    <3>2. IsFiniteSet(0 .. z_num_pages - 1)
      BY PagesAssumption, FS_Interval
    <3>3. QED
      BY <3>1, <3>2, FS_Subset, Zenon
  <2>2. IsFiniteSet(Pages(index, order)) /\ Cardinality(Pages(index, order)) = 2^order
    BY <1>2, PagesCount, Zenon
  <2>3. FreePages \cap Pages(index, order) = {}
    BY Zenon
  <2>4. Cardinality(FreePages \cap Pages(index, order)) = 0
    BY <2>3, FS_EmptySet, Zenon
  <2>5. Cardinality(Z) = Cardinality(FreePages) + 2^order - 0
    BY <1>6, <2>1, <2>2, <2>4, FS_Union, Zenon
  <2>6. Cardinality(FreePages) \in Nat /\ 2^order \in Nat
    BY <2>1, FS_CardinalityType, Sizes, Zenon
  <2>7. z_avail_pages = Cardinality(FreePages)
    BY Zenon DEF PagesInv
  <2>8. QED
    BY <1>11, <1>16, <2>5, <2>6, <2>7
<1>18. ASSUME NEW k \in order + 1 .. top
       PROVE  /\ k \in Order /\ order <= k /\ k <= top /\ k \in 0 .. PAGE_NUM_ORDERS
              /\ Block(index, k) \in Pages(Block(index, top), top)
  <2>1. k \in Order /\ order <= k /\ k <= top /\ k \in 0 .. PAGE_NUM_ORDERS
    BY <1>1, <1>2, PagesAssumption DEF Order
  <2>2. Block(index, k) \in Nat /\ Block(index, k) \in Pages(Block(index, k), k)
    BY <1>2, <2>1, BlockFacts, InPages, Zenon
  <2>3. QED
    BY <1>2, <2>1, <2>2, Nested, Zenon
<1>19. ASSUME NEW i \in Page, i \notin Pages(Block(index, top), top)
       PROVE  p_order'[i] = p_order[i]
  <2>1. {k \in order + 1 .. top : Block(index, k) = i} = {}
    BY <1>18, <1>19, Zenon
  <2>2. QED
    BY <1>11, <2>1, Zenon
<1>20. Block(index, top) \in z_free'[top]
  BY <1>12, Zenon
<1>21. p_order'[Block(index, top)] = top
  <2>1. Block(index, top) \in Page
    BY <1>14, <1>20, Zenon
  <2>2. PICK merged : merged = {k \in order + 1 .. top : Block(index, k) = Block(index, top)}
    BY Zenon
  <2>3. p_order'[Block(index, top)] =
          IF merged = {} THEN p_order[Block(index, top)] ELSE Max(merged)
    BY <1>11, <2>1, <2>2, Zenon
  <2>4. CASE order = top
    <3>1. order + 1 .. top = {}
      BY <1>2, <2>4
    <3>2. QED
      BY <1>3, <2>2, <2>3, <2>4, <3>1, Zenon
  <2>5. CASE order # top
    <3>1. top \in order + 1 .. top
      BY <1>1, <1>2, <2>5
    <3>2. top \in merged /\ merged \subseteq 0 .. PAGE_NUM_ORDERS
      BY <1>18, <2>2, <3>1, Zenon
    <3>3. PICK m : m = Max(merged) /\ m \in merged /\ m >= top
      BY <3>2, PagesAssumption, MaxMin, Zenon
    <3>4. m \in order + 1 .. top
      BY <2>2, <3>3, Zenon
    <3>5. m = top
      BY <1>2, <3>3, <3>4
    <3>6. QED
      BY <2>3, <3>2, <3>3, <3>5, Zenon
  <2>6. QED
    BY <2>4, <2>5, Zenon
<1>22. ASSUME NEW k \in Order, NEW i \in z_free'[k] PROVE p_order'[i] = k
  <2>1. CASE k = top /\ i = Block(index, top)
    BY <1>21, <2>1, Zenon
  <2>2. CASE ~(k = top /\ i = Block(index, top))
    <3>1. i \in z_free[k]
      BY <1>12, <2>2, Zenon
    <3>2. i \in Pages(i, k) /\ i \in Page /\ p_order[i] = k
      BY <3>1, FreeFacts, Zenon DEF PagesInv, OrdersInv
    <3>3. i \notin Pages(Block(index, top), top)
      BY <1>14, <1>20, <2>2, <3>2, Zenon
    <3>4. QED
      BY <1>19, <3>2, <3>3, Zenon
  <2>3. QED
    BY <2>1, <2>2, Zenon
<1>23. ASSUME NEW i \in Page, i \notin FreePages' PROVE p_order'[i] = p_order[i]
  <2>1. i \notin Pages(Block(index, top), top)
    BY <1>14, <1>16, <1>20, <1>23, Zenon
  <2>2. QED
    BY <1>19, <2>1, Zenon
<1>24. p_order' \in [Page -> Order]
  <2>1. ASSUME NEW i \in Page PROVE p_order'[i] \in Order
    <3>1. CASE i \notin FreePages'
      BY <1>23, <3>1 DEF PagesInv, PagesTypeOK
    <3>2. CASE i \in FreePages'
      <4>1. PICK merged : merged = {k \in order + 1 .. top : Block(index, k) = i}
        BY Zenon
      <4>2. p_order'[i] = IF merged = {} THEN p_order[i] ELSE Max(merged)
        BY <1>11, <4>1, Zenon
      <4>3. merged # {} => Max(merged) \in merged
        <5>1. merged \subseteq 0 .. PAGE_NUM_ORDERS
          BY <1>18, <4>1, Zenon
        <5>2. PAGE_NUM_ORDERS \in Nat
          BY PagesAssumption, Zenon
        <5>3. QED
          BY <5>1, <5>2, MaxMin, Zenon
      <4>4. p_order[i] \in Order
        BY DEF PagesInv, PagesTypeOK
      <4>5. QED
        BY <1>18, <4>1, <4>2, <4>3, <4>4, Zenon
    <3>3. QED
      BY <3>1, <3>2, Zenon
  <2>2. QED
    BY <1>11, <2>1, Zenon
<1>25. BuddiesInv'
  <2>1. ASSUME NEW k \in Order, k < PAGE_NUM_ORDERS - 1, NEW i \in z_free'[k],
               Buddy(i, k) \in z_free'[k]
        PROVE  FALSE
    <3>1. i \in Nat /\ i % 2^k = 0 /\ i \in Pages(i, k)
      BY <1>14, ZoneFacts, InPages, Zenon
    <3>2. Block(i, k) = i
      BY <3>1, BlockFacts, Zenon
    <3>3. Buddy(i, k) # i
      <4>1. Buddy(i, k) \in Nat /\ Buddy(i, k) \in Pages(Buddy(i, k), k)
        BY <3>1, Halves, InPages, Zenon
      <4>2. QED
        BY <3>1, <3>2, <4>1, Halves, Zenon
    <3>4. k = top => Buddy(index, k) \notin z_free[k]
      BY <1>1, <2>1, MergesFree, Zenon
    <3>5. CASE k = top /\ i = Block(index, top)
      <4>1. Buddy(i, k) = Buddy(index, k)
        <5>1. i \in Pages(Block(index, k), k)
          BY <3>1, <3>5, Zenon
        <5>2. QED
          BY <1>2, <2>1, <5>1, SameBuddy, Zenon
      <4>2. Buddy(i, k) \in z_free[k]
        BY <1>12, <2>1, <3>3, <3>5, Zenon
      <4>3. QED
        BY <3>4, <3>5, <4>1, <4>2, Zenon
    <3>6. CASE k = top /\ Buddy(i, k) = Block(index, top) /\ i # Block(index, top)
      <4>1. PICK c : c = Buddy(i, k)
        BY Zenon
      <4>2. c \in Nat /\ c \in Pages(c, k)
        BY <3>1, <4>1, Halves, InPages, Zenon
      <4>3. Buddy(c, k) = i
        BY <2>1, <3>1, <3>2, <4>1, <4>2, BuddyOfBuddy, Zenon
      <4>4. Buddy(c, k) = Buddy(index, k)
        BY <1>2, <2>1, <3>6, <4>1, <4>2, SameBuddy, Zenon
      <4>5. i \in z_free[k]
        BY <1>12, <2>1, <3>6, Zenon
      <4>6. QED
        BY <3>4, <3>6, <4>3, <4>4, <4>5, Zenon
    <3>7. CASE ~(k = top /\ i = Block(index, top)) /\ ~(k = top /\ Buddy(i, k) = Block(index, top))
      <4>1. i \in z_free[k] /\ Buddy(i, k) \in z_free[k]
        BY <1>12, <2>1, <3>7, Zenon
      <4>2. QED
        BY <2>1, <4>1, Zenon DEF PagesInv, BuddiesInv
    <3>8. QED
      BY <3>5, <3>6, <3>7, Zenon
  <2>2. QED
    BY <2>1, Zenon DEF BuddiesInv, Buddy, Block
<1>26. QED
  BY <1>6, <1>13, <1>15, <1>16, <1>17, <1>22, <1>23, <1>24, <1>25, Zenon

\* page_free: the block changes hands, and no other one is touched.
LEMMA PageFreeStep ==
  ASSUME PagesInv, NEW b \in owned, PageFree(b)
  PROVE  PagesInv'
<1>1. PICK index, order : index = b.page /\ order = b.order
  BY Zenon
<1>2. /\ index \in Page /\ order \in Order /\ index \in z_owned[order] /\ index \in Nat
      /\ index % 2^order = 0 /\ index \in Pages(index, order) /\ p_order[index] = order
  <2>1. index \in z_owned[order] /\ order \in Order
    BY <1>1, OwnedFacts, Zenon
  <2>2. p_order[index] = order
    BY <1>1, Zenon DEF PagesInv, FittingBlock
  <2>3. QED
    BY <2>1, <2>2, OwnedFacts, Zenon
<1>3. FreeIndex(index, order) /\ owned' = owned \ {b} /\ added' = added
  BY <1>1, <1>2, Zenon DEF PageFree
<1>4. /\ \A k, m \in Order : \A i \in z_owned[k], j \in z_owned[m] : \A y :
           y \in Pages(i, k) /\ y \in Pages(j, m) => i = j /\ k = m
      /\ \A y \in Pages(index, order) : y \in Page /\ y \in Zone /\ y \notin FreePages
  <2>1. Tiles(z_owned, Zone \ FreePages)
    BY Zenon DEF PagesInv
  <2>2. \A y \in Pages(index, order) : y \in Zone \ FreePages
    BY <1>2, OwnedFacts, Zenon
  <2>3. QED
    BY <2>1, <2>2, TilesFacts, ZoneFacts, Zenon
<1>5. ASSUME NEW m \in Order, NEW j \in z_free[m] \cup z_owned[m], index \in Pages(j, m)
      PROVE  m <= order
  <2>1. j \notin z_free[m]
    BY <1>2, <1>4, <1>5, FreeFacts, Zenon
  <2>2. m = order
    BY <1>2, <1>4, <1>5, <2>1, Zenon
  <2>3. order <= order
    <3>1. order \in Nat
      BY <1>2, Sizes, Zenon
    <3>2. QED
      BY <3>1
  <2>4. QED
    BY <2>2, <2>3, Zenon
<1>6. /\ z_free' \in [Order -> SUBSET Page] /\ p_order' \in [Page -> Order]
      /\ FreePages' = FreePages \cup Pages(index, order)
      /\ Tiles(z_free', FreePages')
      /\ z_avail_pages' = Cardinality(FreePages')
      /\ \A k \in Order : \A i \in z_free'[k] : p_order'[i] = k
      /\ \A i \in Page : i \notin FreePages' => p_order'[i] = p_order[i]
      /\ BuddiesInv'
  BY <1>2, <1>3, <1>4, <1>5, FreeIndexStep, Zenon
<1>7. \A c \in owned : c # b => c.page # index
  BY <1>1, Zenon DEF PagesInv, BitmapInv
<1>8. \A m \in Order : \A j : j \in z_owned'[m] <=> \E c \in owned' : c.page = j /\ c.order = m
  BY Zenon DEF z_owned
<1>9. \A m \in Order : \A j : j \in z_owned'[m] <=> j \in z_owned[m] /\ ~(m = order /\ j = index)
  <2>1. ASSUME NEW m \in Order, NEW j, j \in z_owned'[m]
        PROVE  j \in z_owned[m] /\ ~(m = order /\ j = index)
    <3>1. PICK c \in owned' : c.page = j /\ c.order = m
      BY <1>8, <2>1, Zenon
    <3>2. c \in owned /\ c # b
      BY <1>3, Zenon
    <3>3. QED
      BY <1>7, <3>1, <3>2, OwnedFacts, Zenon
  <2>2. ASSUME NEW m \in Order, NEW j \in z_owned[m], ~(m = order /\ j = index)
        PROVE  j \in z_owned'[m]
    <3>1. PICK c \in owned : c.page = j /\ c.order = m
      BY OwnedFacts, Zenon
    <3>2. c # b
      BY <1>1, <2>2, <3>1, Zenon
    <3>3. c \in owned'
      BY <1>3, <3>2, Zenon
    <3>4. QED
      BY <1>8, <3>1, <3>3, Zenon
  <2>3. QED
    BY <2>1, <2>2, Zenon
<1>10. Zone' = Zone
  BY <1>3, Zenon DEF Zone
<1>11. Tiles(z_owned', Zone' \ FreePages')
  <2>1. Tiles(z_owned', (Zone \ FreePages) \ Pages(index, order))
    BY <1>2, <1>9, RemoveTile, Zenon DEF PagesInv
  <2>2. (Zone \ FreePages) \ Pages(index, order) = Zone' \ FreePages'
    BY <1>6, <1>10, Zenon
  <2>3. QED
    BY <2>1, <2>2, Zenon
<1>12. FreePages' \subseteq Zone'
  BY <1>4, <1>6, <1>10, Zenon DEF PagesInv
<1>13. z_bitmap' = z_bitmap \ {index}
  BY <1>3, Zenon DEF FreeIndex
<1>14. PagesTypeOK'
  BY <1>3, <1>6, <1>13, Zenon DEF PagesInv, PagesTypeOK
<1>15. BitmapInv'
  <2>1. index \notin added .. z_num_pages - 1
    <3>1. index \in Zone
      BY <1>2, <1>4, Zenon
    <3>2. QED
      BY <3>1 DEF Zone, PagesInv, PagesTypeOK
  <2>2. z_bitmap = {c.page : c \in owned} \cup (added .. z_num_pages - 1)
    BY Zenon DEF PagesInv, BitmapInv
  <2>3. {c.page : c \in owned'} = {c.page : c \in owned} \ {index}
    BY <1>1, <1>3, <1>7, Zenon
  <2>4. z_bitmap' = {c.page : c \in owned'} \cup (added' .. z_num_pages - 1)
    BY <1>3, <1>13, <2>1, <2>2, <2>3, Zenon
  <2>5. \A c, d \in owned' : c.page = d.page => c = d
    BY <1>3, Zenon DEF PagesInv, BitmapInv
  <2>6. QED
    BY <2>4, <2>5, Zenon DEF BitmapInv
<1>16. OrdersInv'
  <2>1. ASSUME NEW i \in added' .. z_num_pages - 1 PROVE p_order'[i] = 0
    <3>1. i \in Page /\ i \notin Zone' /\ i \in added .. z_num_pages - 1
      BY <1>3, <1>10 DEF PagesInv, PagesTypeOK, Page, Zone
    <3>2. p_order[i] = 0
      BY <3>1, Zenon DEF PagesInv, OrdersInv
    <3>3. QED
      BY <1>6, <1>12, <3>1, <3>2, Zenon
  <2>2. QED
    BY <1>6, <2>1, Zenon DEF OrdersInv
<1>17. FittingBlock'
  <2>1. ASSUME NEW c \in owned'
        PROVE  /\ c.length <= PAGE_SIZE * 2^c.order
               /\ c.order > 0 => c.length > PAGE_SIZE * 2^(c.order - 1)
               /\ p_order'[c.page] = c.order
    <3>1. c \in owned /\ c # b
      BY <1>3, Zenon
    <3>2. c.page \in z_owned[c.order] /\ c.order \in Order
      BY <3>1, OwnedFacts, Zenon
    <3>3. c.page \in Pages(c.page, c.order) /\ c.page \in Page
      BY <3>2, OwnedFacts, Zenon
    <3>4. c.page \notin FreePages
      BY <3>2, <3>3, OwnedFacts, Zenon
    <3>5. c.page \notin Pages(index, order)
      BY <1>2, <1>4, <1>7, <3>1, <3>2, <3>3, Zenon
    <3>6. p_order'[c.page] = p_order[c.page]
      BY <1>6, <3>3, <3>4, <3>5, Zenon
    <3>7. QED
      BY <3>1, <3>6, Zenon DEF PagesInv, FittingBlock
  <2>2. QED
    BY <2>1, Zenon DEF FittingBlock
<1>18. QED
  BY <1>6, <1>11, <1>12, <1>14, <1>15, <1>16, <1>17, Zenon DEF PagesInv, Tiles, Pages

\* page_zone_add frees one page more.
LEMMA ZoneAddStep ==
  ASSUME PagesInv, ZoneAdd
  PROVE  PagesInv'
<1>1. /\ added < z_num_pages /\ FreeIndex(added, 0) /\ added' = added + 1 /\ owned' = owned
      /\ z_bitmap' = z_bitmap \ {added}
  BY Zenon DEF ZoneAdd, FreeIndex
<1>2. /\ added \in Page /\ 0 \in Order /\ added % 2^0 = 0 /\ p_order[added] = 0
      /\ added \in added .. z_num_pages - 1 /\ added \in Nat
  <2>1. /\ added \in Page /\ added \in added .. z_num_pages - 1 /\ added \in Nat /\ 0 \in Order
    BY <1>1, PagesAssumption DEF PagesInv, PagesTypeOK, Page, Order
  <2>2. added % 1 = 0
    BY <2>1
  <2>3. p_order[added] = 0
    BY <2>1, Zenon DEF PagesInv, OrdersInv
  <2>4. QED
    BY <2>1, <2>2, <2>3, PowersOfTwo, Zenon
<1>3. Pages(added, 0) = {added} /\ added \notin Zone
  <2>1. added .. added + 1 - 1 = {added} /\ added \notin 0 .. added - 1
    BY <1>2
  <2>2. QED
    BY <2>1, PowersOfTwo, Zenon DEF Pages, Zone
<1>4. \A y \in Pages(added, 0) : y \in Page /\ y \notin FreePages
  BY <1>2, <1>3, Zenon DEF PagesInv
<1>5. ASSUME NEW m \in Order, NEW j \in z_free[m] \cup z_owned[m], added \in Pages(j, m)
      PROVE  m <= 0
  <2>1. added \in FreePages \/ added \in Zone \ FreePages
    BY <1>5, FreeFacts, OwnedFacts, Zenon
  <2>2. QED
    BY <1>3, <2>1, Zenon DEF PagesInv
<1>6. /\ z_free' \in [Order -> SUBSET Page] /\ p_order' \in [Page -> Order]
      /\ FreePages' = FreePages \cup Pages(added, 0)
      /\ Tiles(z_free', FreePages')
      /\ z_avail_pages' = Cardinality(FreePages')
      /\ \A k \in Order : \A i \in z_free'[k] : p_order'[i] = k
      /\ \A i \in Page : i \notin FreePages' => p_order'[i] = p_order[i]
      /\ BuddiesInv'
  BY <1>1, <1>2, <1>4, <1>5, FreeIndexStep, Zenon
<1>7. Zone' = Zone \cup {added}
  <2>1. 0 .. (added + 1) - 1 = (0 .. added - 1) \cup {added}
    BY <1>2
  <2>2. QED
    BY <1>1, <2>1, Zenon DEF Zone
<1>8. z_owned' = z_owned
  BY <1>1, Zenon DEF z_owned
<1>9. Tiles(z_owned', Zone' \ FreePages')
  <2>1. Zone' \ FreePages' = Zone \ FreePages
    BY <1>3, <1>6, <1>7, Zenon
  <2>2. QED
    BY <1>8, <2>1, Zenon DEF PagesInv
<1>10. FreePages' \subseteq Zone'
  BY <1>3, <1>6, <1>7, Zenon DEF PagesInv
<1>11. PagesTypeOK'
  <2>1. added' \in 0 .. z_num_pages
    BY <1>1, <1>2, PagesAssumption
  <2>2. QED
    BY <1>1, <1>6, <2>1, Zenon DEF PagesInv, PagesTypeOK
<1>12. \A c \in owned : /\ c.page \in Zone /\ c.page \in Page
                        /\ c.page \notin FreePages /\ c.page # added
  <2>1. ASSUME NEW c \in owned
        PROVE  c.page \in Zone /\ c.page \in Page /\ c.page \notin FreePages
    BY OwnedFacts, Zenon
  <2>2. QED
    BY <1>3, <2>1, Zenon
<1>13. BitmapInv'
  <2>1. z_bitmap = {c.page : c \in owned} \cup (added .. z_num_pages - 1)
    BY Zenon DEF PagesInv, BitmapInv
  <2>2. added' .. z_num_pages - 1 = (added .. z_num_pages - 1) \ {added}
    BY <1>1, <1>2, PagesAssumption
  <2>3. z_bitmap' = {c.page : c \in owned'} \cup (added' .. z_num_pages - 1)
    BY <1>1, <1>12, <2>1, <2>2, Zenon
  <2>4. QED
    BY <1>1, <2>3, Zenon DEF PagesInv, BitmapInv
<1>14. OrdersInv'
  <2>1. ASSUME NEW i \in added' .. z_num_pages - 1 PROVE p_order'[i] = 0
    <3>1. i \in Page /\ i \in added .. z_num_pages - 1 /\ i # added /\ i \notin Zone
      BY <1>1, <1>2, PagesAssumption DEF Page, Zone
    <3>2. p_order[i] = 0
      BY <3>1, Zenon DEF PagesInv, OrdersInv
    <3>3. i \notin FreePages'
      BY <1>7, <1>10, <3>1, Zenon
    <3>4. QED
      BY <1>6, <3>1, <3>2, <3>3, Zenon
  <2>2. QED
    BY <1>6, <2>1, Zenon DEF OrdersInv
<1>15. FittingBlock'
  <2>1. \A c \in owned : p_order'[c.page] = p_order[c.page]
    BY <1>3, <1>6, <1>12, Zenon
  <2>2. QED
    BY <1>1, <2>1, Zenon DEF PagesInv, FittingBlock
<1>16. QED
  BY <1>6, <1>9, <1>10, <1>11, <1>13, <1>14, <1>15, Zenon DEF PagesInv, Tiles, Pages

-----------------------------------------------------------------------------
(* Lengths and orders.                                                     *)

\* A larger factor makes a larger product.
LEMMA Products ==
  ASSUME NEW p \in Nat \ {0}, NEW a \in Nat, NEW b \in Nat
  PROVE  p * a \in Nat /\ (a <= b => p * a <= p * b) /\ (a < b => p * a < p * b)
<1>1. p * a \in Nat
  OBVIOUS
<1>2. ASSUME a <= b PROVE p * a <= p * b
  BY <1>2
<1>3. ASSUME a < b PROVE p * a < p * b
  BY <1>3
<1>4. QED
  BY <1>1, <1>2, <1>3, Zenon

\* Sizes grow faster than orders.
LEMMA PowerGrows ==
  ASSUME NEW n \in 0 .. PAGE_NUM_ORDERS
  PROVE  2^n > n
<1> DEFINE T == {k \in Nat : 2^k > k}
<1>1. n \in Nat /\ 0 \in Nat /\ 0 <= n
  OBVIOUS
<1>2. 0 \in T
  <2>1. 1 > 0
    OBVIOUS
  <2>2. QED
    BY <1>1, <2>1, PowersOfTwo, Zenon
<1>3. ASSUME NEW k \in 0 .. n - 1, k \in T PROVE k + 1 \in T
  <2>1. k \in 0 .. PAGE_NUM_ORDERS /\ k + 1 \in Nat
    BY PagesAssumption
  <2>2. PICK s \in Nat : s = 2^k /\ 2^(k + 1) = 2 * s
    BY <2>1, PowersOfTwo, Zenon
  <2>3. s > k
    BY <1>3, <2>2, Zenon
  <2>4. 2 * s > k + 1
    BY <2>3
  <2>5. QED
    BY <2>1, <2>2, <2>4, Zenon
<1>4. n \in T
  <2> HIDE DEF T
  <2>1. QED
    BY <1>1, <1>2, <1>3, Upwards, Zenon
<1>5. QED
  BY <1>4, Zenon

\* bytes2order gives the smallest order whose blocks have so many bytes, if
\* there is one.
LEMMA BytesFit ==
  ASSUME NEW length \in Length
  PROVE  /\ bytes2order(length) \in Nat
         /\ bytes2order(length) < PAGE_NUM_ORDERS =>
              /\ length <= PAGE_SIZE * 2^bytes2order(length)
              /\ bytes2order(length) > 0 => length > PAGE_SIZE * 2^(bytes2order(length) - 1)
<1>1. PICK p \in Nat \ {0} : p = PAGE_SIZE
  BY PagesAssumption, Zenon
<1>2. length \in Nat
  <2>1. length \in 0 .. PAGE_SIZE * 2^(PAGE_NUM_ORDERS - 1)
    BY PagesAssumption, Zenon
  <2>2. QED
    BY <2>1
<1>3. PICK pages \in Nat : pages = length \div p /\ p * pages <= length /\ length < p * (pages + 1)
  <2>1. length \div p \in Nat
    BY <1>2
  <2>2. p * (length \div p) <= length /\ length < p * ((length \div p) + 1)
    BY <1>2
  <2>3. QED
    BY <2>1, <2>2, Zenon
<1>4. PICK o : o = IF pages = 0 THEN 0 ELSE Max({k \in 0 .. pages : 2^k <= pages})
  BY Zenon
<1>5. bytes2order(length) = IF p * 2^o < length THEN o + 1 ELSE o
  BY <1>1, <1>3, <1>4, Zenon DEF bytes2order
<1>6. CASE pages = 0
  <2>1. o = 0 /\ p * 1 = p /\ length < p
    BY <1>3, <1>4, <1>6
  <2>2. ~(p < length) /\ length <= p
    BY <1>2, <2>1
  <2>3. bytes2order(length) = 0
    BY <1>5, <2>1, <2>2, PowersOfTwo, Zenon
  <2>4. 0 \in Nat /\ ~(0 > 0)
    OBVIOUS
  <2>5. QED
    BY <1>1, <2>1, <2>2, <2>3, <2>4, PowersOfTwo, Zenon
<1>7. CASE pages # 0
  <2> DEFINE S == {k \in 0 .. pages : 2^k <= pages}
  <2>1. 0 \in S
    <3>1. 0 \in 0 .. pages /\ 1 <= pages
      BY <1>7
    <3>2. QED
      BY <3>1, PowersOfTwo, Zenon
  <2>2. o \in S /\ \A k \in S : o >= k
    <3>1. S \subseteq 0 .. pages
      BY Zenon
    <3>2. QED
      BY <1>4, <1>7, <2>1, <3>1, MaxMin, Zenon
  <2>3. o \in 0 .. pages /\ 2^o <= pages
    BY <2>2, Zenon
  <2>4. o \in Nat
    BY <2>3
  <2>5. bytes2order(length) \in Nat
    <3>1. o + 1 \in Nat
      BY <2>4
    <3>2. QED
      BY <1>5, <2>4, <3>1, Zenon
  <2>6. ASSUME bytes2order(length) < PAGE_NUM_ORDERS
        PROVE  /\ length <= p * 2^bytes2order(length)
               /\ bytes2order(length) > 0 => length > p * 2^(bytes2order(length) - 1)
    <3>1. o \in 0 .. PAGE_NUM_ORDERS - 1
      <4>1. o < PAGE_NUM_ORDERS
        <5>1. o + 1 < PAGE_NUM_ORDERS => o < PAGE_NUM_ORDERS
          BY <2>4, PagesAssumption
        <5>2. QED
          BY <1>5, <2>6, <5>1, Zenon
      <4>2. QED
        BY <2>4, <4>1, PagesAssumption
    <3>2. o \in Order /\ o \in 0 .. PAGE_NUM_ORDERS
      BY <3>1, PagesAssumption DEF Order
    <3>3. PICK s \in Nat \ {0} : s = 2^o /\ 2^(o + 1) = 2 * s
      BY <3>2, Sizes, Zenon
    <3>4. pages + 1 <= 2 * s
      <4>1. SUFFICES ASSUME ~(pages + 1 <= 2 * s) PROVE FALSE
        BY Zenon
      <4>2. 2 * s <= pages /\ 2 * s \in Nat
        BY <4>1
      <4>3. s > o
        BY <3>2, <3>3, PowerGrows, Zenon
      <4>4. o + 1 \in 0 .. pages /\ ~(o >= o + 1)
        BY <2>4, <4>2, <4>3
      <4>5. o + 1 \in S
        BY <3>3, <4>2, <4>4, Zenon
      <4>6. QED
        BY <2>2, <4>4, <4>5, Zenon
    <3>5. length <= p * (2 * s)
      <4>1. pages + 1 \in Nat /\ 2 * s \in Nat
        OBVIOUS
      <4>2. p * (pages + 1) <= p * (2 * s) /\ p * (pages + 1) \in Nat /\ p * (2 * s) \in Nat
        BY <3>4, <4>1, Products, Zenon
      <4>3. QED
        BY <1>2, <1>3, <4>2
    <3>6. CASE p * s < length
      <4>1. bytes2order(length) = o + 1
        BY <1>5, <3>3, <3>6, Zenon
      <4>2. (o + 1) - 1 = o
        BY <2>4
      <4>3. length > p * s
        <5>1. p * s \in Nat
          BY Products, Zenon
        <5>2. QED
          BY <1>2, <3>6, <5>1
      <4>4. QED
        BY <3>3, <3>5, <4>1, <4>2, <4>3, Zenon
    <3>7. CASE ~(p * s < length)
      <4>1. bytes2order(length) = o
        BY <1>5, <3>3, <3>7, Zenon
      <4>2. length <= p * s
        <5>1. p * s \in Nat
          BY Products, Zenon
        <5>2. QED
          BY <1>2, <3>7, <5>1
      <4>3. ASSUME o > 0 PROVE length > p * 2^(o - 1)
        <5>1. o - 1 \in Order /\ (o - 1) + 1 = o
          BY <3>1, <4>3, PagesAssumption DEF Order
        <5>2. PICK t \in Nat \ {0} : t = 2^(o - 1) /\ s = 2 * t
          BY <3>3, <5>1, Sizes, Zenon
        <5>3. t < pages
          BY <2>3, <3>3, <5>2
        <5>4. p * t < p * pages /\ p * t \in Nat /\ p * pages \in Nat
          BY <5>2, <5>3, Products, Zenon
        <5>5. length > p * t
          BY <1>2, <1>3, <5>4
        <5>6. QED
          BY <5>2, <5>5, Zenon
      <4>4. QED
        BY <3>3, <4>1, <4>2, <4>3, Zenon
    <3>8. QED
      BY <3>6, <3>7, Zenon
  <2>7. QED
    BY <1>1, <2>5, <2>6, Zenon
<1>8. QED
  BY <1>6, <1>7, Zenon

\* A block of the order asked for needs no split.
LEMMA NoSplit ==
  ASSUME NEW order \in Nat, NEW a \in Nat, order <= a, ~(order < a)
  PROVE  order = a /\ order .. a - 1 = {}
OBVIOUS

\* page_alloc_zone: a free block is split; the first page goes to the caller
\* with a block of the order, and the rest stays free.
LEMMA PageAllocStep ==
  ASSUME PagesInv, NEW length \in Length, PageAlloc(length)
  PROVE  PagesInv'
<1>1. PICK order : order = bytes2order(length)
  BY Zenon
<1>2. Available(order) # {} /\ order \in Nat
  BY <1>1, BytesFit, Zenon DEF PageAlloc
<1>3. PICK a : a = Min(Available(order))
  BY Zenon
<1>4. a \in Order /\ order \in Order /\ order <= a /\ a \in Nat /\ order < PAGE_NUM_ORDERS
  <2>1. Available(order) \subseteq order .. PAGE_NUM_ORDERS - 1
    BY Zenon DEF Available
  <2>2. order .. PAGE_NUM_ORDERS - 1 \subseteq 0 .. PAGE_NUM_ORDERS /\ PAGE_NUM_ORDERS \in Nat
    BY <1>2, PagesAssumption
  <2>3. a \in Available(order)
    BY <1>2, <1>3, <2>1, <2>2, MaxMin, Zenon
  <2>4. a \in order .. PAGE_NUM_ORDERS - 1
    BY <2>1, <2>3, Zenon
  <2>5. QED
    BY <1>2, <2>4, PagesAssumption DEF Order
<1>5. PICK index \in z_free[a] :
        /\ z_free' = [k \in Order |->
             IF k = a THEN z_free[k] \ {index}
             ELSE IF k \in order .. a - 1 THEN z_free[k] \cup {index + 2^k}
             ELSE z_free[k]]
        /\ p_order' = [i \in Page |->
             IF i = index /\ order < a THEN order
             ELSE LET split == {k \in order .. a - 1 : i = index + 2^k}
                  IN IF split = {} THEN p_order[i] ELSE Max(split)]
        /\ z_bitmap' = z_bitmap \cup {index}
        /\ owned' = owned \cup {[page |-> index, order |-> order, length |-> length]}
  BY <1>1, <1>3, Zenon DEF PageAlloc
<1>6. z_avail_pages' = z_avail_pages - 2^order /\ added' = added
  BY <1>1, Zenon DEF PageAlloc
<1>7. index \in Page /\ index \in Nat /\ index % 2^a = 0 /\ index \in Pages(index, a)
  BY <1>4, FreeFacts, Zenon
<1>8. ASSUME NEW k \in Order, k <= a PROVE Block(index, k) = index /\ index % 2^k = 0
  BY <1>4, <1>7, <1>8, AlignedDown, Zenon
<1>9. ASSUME NEW k \in order .. a - 1
      PROVE  /\ k \in Order /\ k < PAGE_NUM_ORDERS - 1 /\ k # a /\ k \in 0 .. PAGE_NUM_ORDERS
             /\ Buddy(index, k) = index + 2^k
  <2>1. k \in Order /\ k < PAGE_NUM_ORDERS - 1 /\ k + 1 <= a /\ k <= a /\ k # a /\ k + 1 \in Order
        /\ k \in 0 .. PAGE_NUM_ORDERS
    BY <1>2, <1>4, PagesAssumption DEF Order
  <2>2. index % 2^(k + 1) = 0 /\ Block(index, k) = index
    BY <1>8, <2>1, Zenon
  <2>3. 0 < 2^k
    <3>1. 2^k \in Nat \ {0}
      BY <2>1, Sizes, Zenon
    <3>2. QED
      BY <3>1
  <2>4. QED
    BY <2>1, <2>2, <2>3, Zenon DEF Buddy
<1>10. \A m \in Order : \A j : j \in z_free'[m] <=>
          \/ m \in order .. a - 1 /\ j = Buddy(index, m)
          \/ j \in z_free[m] /\ ~(m = a /\ j = index)
  BY <1>5, <1>9, Zenon
<1>11. /\ \A k \in Order : \A i \in z_free[k] : i \in Page /\ i % 2^k = 0
       /\ \A k, m \in Order : \A i \in z_free[k], j \in z_free[m] : \A y :
            y \in Pages(i, k) /\ y \in Pages(j, m) => i = j /\ k = m
       /\ \A y : y \in FreePages <=> \E k \in Order : \E i \in z_free[k] : y \in Pages(i, k)
  BY TilesFacts, Zenon DEF PagesInv
<1>12. Pages(index, order) \subseteq FreePages /\ Pages(index, order) \subseteq Pages(index, a)
       /\ index \in Pages(index, order)
  <2>1. Pages(index, order) \subseteq Pages(index, a)
    <3>1. a <= a
      BY <1>4
    <3>2. Block(index, order) = index /\ Block(index, a) = index
      BY <1>4, <1>8, <3>1, Zenon
    <3>3. Pages(Block(index, order), order) \subseteq Pages(Block(index, a), a)
      BY <1>4, <1>7, Nested, Zenon
    <3>4. QED
      BY <3>2, <3>3, Zenon
  <2>2. Pages(index, a) \subseteq FreePages
    BY <1>4, <1>11, Zenon
  <2>3. QED
    BY <1>4, <1>7, <2>1, <2>2, InPages, Zenon
<1>13. index \notin z_free'[order]
  <2>1. ~(order \in order .. a - 1 /\ index = Buddy(index, order))
    <3>1. ASSUME order \in order .. a - 1 PROVE index # Buddy(index, order)
      <4>1. \A y : ~(/\ y \in Pages(Buddy(index, order), order)
                     /\ y \in Pages(Block(index, order), order))
        BY <1>4, <1>7, <3>1, Ladder, Zenon
      <4>2. QED
        BY <1>4, <1>8, <1>12, <4>1, Zenon
    <3>2. QED
      BY <3>1, Zenon
  <2>2. index \in z_free[order] => order = a
    BY <1>4, <1>7, <1>11, <1>12, Zenon
  <2>3. QED
    BY <1>4, <1>10, <2>1, <2>2, Zenon
<1>14. PICK g : g = [k \in Order |-> IF k = order THEN z_free'[k] \cup {index} ELSE z_free'[k]]
  BY Zenon
<1>15. \A m \in Order : \A j : j \in g[m] <=> j \in z_free'[m] \/ (m = order /\ j = index)
  BY <1>14, Zenon
<1>16. FreePages \subseteq Page /\ FreePages \subseteq Zone
  BY ZoneFacts, Zenon DEF PagesInv
<1>17. Tiles(g, FreePages)
  <2>1. \A m \in Order : \A j : j \in g[m] <=>
          \/ m = order /\ j = Block(index, order)
          \/ m \in order .. a - 1 /\ j = Buddy(index, m)
          \/ j \in z_free[m] /\ ~(m = a /\ j = Block(index, a))
    <3>1. Block(index, order) = index /\ Block(index, a) = index
      <4>1. a <= a
        BY <1>4
      <4>2. QED
        BY <1>4, <1>8, <4>1, Zenon
    <3>2. QED
      BY <1>10, <1>15, <3>1, Zenon
  <2>2. Block(index, a) \in z_free[a]
    <3>1. a <= a
      BY <1>4
    <3>2. QED
      BY <1>4, <1>8, <3>1, Zenon
  <2>3. Tiles(z_free, FreePages)
    BY Zenon DEF PagesInv
  <2>4. QED
    <3>1. IsSplit(g, z_free, order, a, index)
      BY <2>1, Zenon DEF IsSplit
    <3>2. QED
      BY <1>4, <1>7, <1>16, <2>2, <2>3, <3>1, SplitTiles, Zenon
<1>18. PICK Z : Z = FreePages \ Pages(index, order)
  BY Zenon
<1>19. Tiles(z_free', Z)
  <2>1. \A m \in Order : \A j : j \in z_free'[m] <=> j \in g[m] /\ ~(m = order /\ j = index)
    BY <1>13, <1>15, Zenon
  <2>2. index \in g[order]
    BY <1>4, <1>15, Zenon
  <2>3. Tiles(z_free', FreePages \ Pages(index, order))
    BY <1>4, <1>17, <2>1, <2>2, RemoveTile, Zenon
  <2>4. QED
    BY <1>18, <2>3, Zenon
<1>20. /\ \A k \in Order : \A i \in z_free'[k] : i \in Page /\ i % 2^k = 0
       /\ \A k, m \in Order : \A i \in z_free'[k], j \in z_free'[m] : \A y :
            y \in Pages(i, k) /\ y \in Pages(j, m) => i = j /\ k = m
       /\ \A y : y \in Z <=> \E k \in Order : \E i \in z_free'[k] : y \in Pages(i, k)
  BY <1>19, TilesFacts, Zenon
<1>21. z_free' \in [Order -> SUBSET Page]
  <2>1. \A k \in Order : z_free'[k] \in SUBSET Page
    BY <1>20, Zenon
  <2>2. QED
    BY <1>5, <2>1, Zenon
<1>22. FreePages' = Z
  <2>1. \A y : y \in FreePages' <=>
          \E b \in Page \X Order : b[1] \in z_free'[b[2]] /\ y \in Pages(b[1], b[2])
    BY Zenon DEF FreePages, FreeBlocks
  <2>2. \A y : y \in FreePages' <=> \E k \in Order : \E i \in z_free'[k] : y \in Pages(i, k)
    BY <1>21, <2>1, PairsPages, Zenon
  <2>3. \A y : y \in FreePages' <=> y \in Z
    BY <1>20, <2>2, Zenon
  <2>4. QED
    BY <2>3, Zenon
<1>23. z_avail_pages' = Cardinality(FreePages')
  <2>1. IsFiniteSet(FreePages)
    <3>1. FreePages \subseteq 0 .. z_num_pages - 1
      BY <1>16, Zenon DEF Page
    <3>2. IsFiniteSet(0 .. z_num_pages - 1)
      BY PagesAssumption, FS_Interval
    <3>3. QED
      BY <3>1, <3>2, FS_Subset, Zenon
  <2>2. Cardinality(Pages(index, order)) = 2^order
    BY <1>4, <1>7, PagesCount, Zenon
  <2>3. FreePages \cap Pages(index, order) = Pages(index, order)
    BY <1>12, Zenon
  <2>4. Cardinality(Z) = Cardinality(FreePages) - 2^order
    <3>1. Cardinality(FreePages \ Pages(index, order)) =
            Cardinality(FreePages) - Cardinality(FreePages \cap Pages(index, order))
      BY <2>1, FS_Difference, Zenon
    <3>2. QED
      BY <1>18, <2>2, <2>3, <3>1, Zenon
  <2>5. z_avail_pages = Cardinality(FreePages)
    BY Zenon DEF PagesInv
  <2>6. QED
    BY <1>6, <1>22, <2>4, <2>5, Zenon
<1>24. Zone' = Zone
  BY <1>6, Zenon DEF Zone
<1>25. FreePages' \subseteq Zone'
  BY <1>16, <1>18, <1>22, <1>24, Zenon
<1>26. PICK new : new = [page |-> index, order |-> order, length |-> length]
  BY Zenon
<1>27. new.page = index /\ new.order = order /\ new.length = length
  BY <1>26
<1>28. owned' = owned \cup {new}
  BY <1>5, <1>26, Zenon
<1>29. \A m \in Order : \A j : j \in z_owned'[m] <=> \E c \in owned' : c.page = j /\ c.order = m
  BY Zenon DEF z_owned
<1>30. \A m \in Order : \A j : j \in z_owned'[m] <=> j \in z_owned[m] \/ (m = order /\ j = index)
  <2>1. \A m \in Order : \A j : j \in z_owned[m] <=> \E c \in owned : c.page = j /\ c.order = m
    BY OwnedFacts, Zenon
  <2>2. ASSUME NEW m \in Order, NEW j
        PROVE  (\E c \in owned' : c.page = j /\ c.order = m) <=>
                 (\E c \in owned : c.page = j /\ c.order = m) \/ (m = order /\ j = index)
    BY <1>27, <1>28, Zenon
  <2>3. ASSUME NEW m \in Order, NEW j
        PROVE  j \in z_owned'[m] <=> j \in z_owned[m] \/ (m = order /\ j = index)
    <3>1. j \in z_owned'[m] <=> \E c \in owned' : c.page = j /\ c.order = m
      BY <1>29, Zenon
    <3>2. j \in z_owned[m] <=> \E c \in owned : c.page = j /\ c.order = m
      BY <2>1, Zenon
    <3>3. QED
      BY <2>2, <3>1, <3>2, Zenon
  <2>4. QED
    BY <2>3, Zenon
<1>31. Tiles(z_owned', Zone' \ FreePages')
  <2>1. \A y \in Pages(index, order) : y \notin Zone \ FreePages
    BY <1>12, Zenon
  <2>2. order <= a /\ index % 2^order = 0
    BY <1>4, <1>8, Zenon
  <2>3. Tiles(z_owned, Zone \ FreePages)
    BY Zenon DEF PagesInv
  <2>4. Tiles(z_owned', (Zone \ FreePages) \cup Pages(index, order))
    BY <1>4, <1>7, <1>30, <2>1, <2>2, <2>3, AddTile, Zenon
  <2>5. (Zone \ FreePages) \cup Pages(index, order) = Zone' \ FreePages'
    BY <1>12, <1>16, <1>18, <1>22, <1>24, Zenon
  <2>6. QED
    BY <2>4, <2>5, Zenon
<1>32. \A c \in owned : c.page \notin FreePages /\ c.page \in Page
  <2>1. ASSUME NEW c \in owned PROVE c.page \notin FreePages /\ c.page \in Page
    <3>1. c.page \in z_owned[c.order] /\ c.order \in Order
      BY OwnedFacts, Zenon
    <3>2. QED
      BY <3>1, OwnedFacts, Zenon
  <2>2. QED
    BY <2>1, Zenon
<1>33. BitmapInv'
  <2>1. z_bitmap = {c.page : c \in owned} \cup (added .. z_num_pages - 1)
    BY Zenon DEF PagesInv, BitmapInv
  <2>2. {c.page : c \in owned'} = {c.page : c \in owned} \cup {index}
    BY <1>27, <1>28, Zenon
  <2>3. z_bitmap' = {c.page : c \in owned'} \cup (added' .. z_num_pages - 1)
    BY <1>5, <1>6, <2>1, <2>2, Zenon
  <2>4. ASSUME NEW c \in owned', NEW d \in owned', c.page = d.page PROVE c = d
    <3>1. index \in FreePages
      BY <1>12, Zenon
    <3>2. c \in owned <=> d \in owned
      BY <1>27, <1>28, <1>32, <2>4, <3>1, Zenon
    <3>3. QED
      BY <1>28, <2>4, <3>2, Zenon DEF PagesInv, BitmapInv
  <2>5. QED
    BY <2>3, <2>4, Zenon DEF BitmapInv
<1>34. ASSUME NEW k \in order .. a - 1, index + 2^k \in Page
       PROVE  p_order'[index + 2^k] = k
  <2>1. PICK split : split = {j \in order .. a - 1 : index + 2^k = index + 2^j}
    BY Zenon
  <2>2. index + 2^k # index
    <3>1. 2^k \in Nat \ {0}
      BY <1>9, Sizes, Zenon
    <3>2. QED
      BY <1>7, <3>1
  <2>3. p_order'[index + 2^k] = IF split = {} THEN p_order[index + 2^k] ELSE Max(split)
    BY <1>5, <1>34, <2>1, <2>2, Zenon
  <2>4. split = {k}
    <3>1. ASSUME NEW j \in order .. a - 1, index + 2^k = index + 2^j PROVE j = k
      <4>1. Buddy(index, j) = Buddy(index, k)
        BY <1>9, <3>1, Zenon
      <4>2. /\ Buddy(index, k) \in Pages(Buddy(index, k), k)
            /\ Buddy(index, j) \in Pages(Buddy(index, j), j)
        BY <1>7, <1>9, Halves, InPages, Zenon
      <4>3. QED
        <5>1. \A m \in order .. a - 1 : m # k =>
                \A y : ~(y \in Pages(Buddy(index, k), k) /\ y \in Pages(Buddy(index, m), m))
          BY <1>4, <1>7, Ladder, Zenon
        <5>2. QED
          BY <4>1, <4>2, <5>1, Zenon
    <3>2. QED
      BY <2>1, <3>1, Zenon
  <2>5. Max(split) \in split
    <3>1. split \subseteq 0 .. PAGE_NUM_ORDERS /\ split # {}
      BY <1>9, <2>4, Zenon
    <3>2. PAGE_NUM_ORDERS \in Nat
      BY PagesAssumption, Zenon
    <3>3. QED
      BY <3>1, <3>2, MaxMin, Zenon
  <2>6. QED
    BY <2>3, <2>4, <2>5, Zenon
<1>35. ASSUME NEW i \in Page, i \notin Pages(index, a) PROVE p_order'[i] = p_order[i]
  <2>1. ASSUME NEW k \in order .. a - 1 PROVE i # index + 2^k
    <3>1. Buddy(index, k) \in Pages(Buddy(index, k), k)
      BY <1>7, <1>9, Halves, InPages, Zenon
    <3>2. Pages(Buddy(index, k), k) \subseteq Pages(Block(index, a), a)
      BY <1>4, <1>7, Ladder, Zenon
    <3>3. Block(index, a) = index
      <4>1. a <= a
        BY <1>4
      <4>2. QED
        BY <1>4, <1>8, <4>1, Zenon
    <3>4. QED
      BY <1>9, <1>35, <3>1, <3>2, <3>3, Zenon
  <2>2. {k \in order .. a - 1 : i = index + 2^k} = {}
    BY <2>1, Zenon
  <2>3. i # index
    BY <1>7, <1>35, Zenon
  <2>4. QED
    BY <1>5, <2>2, <2>3, Zenon
<1>36. p_order'[index] = order
  <2>1. CASE order < a
    BY <1>5, <1>7, <2>1, Zenon
  <2>2. CASE ~(order < a)
    <3>1. order = a /\ order .. a - 1 = {}
      BY <1>2, <1>4, <2>2, NoSplit, Zenon
    <3>2. {k \in order .. a - 1 : index = index + 2^k} = {}
      BY <3>1, Zenon
    <3>3. p_order'[index] = p_order[index]
      BY <1>5, <1>7, <2>2, <3>2, Zenon
    <3>4. QED
      BY <1>4, <1>5, <3>1, <3>3, Zenon DEF PagesInv, OrdersInv
  <2>3. QED
    BY <2>1, <2>2, Zenon
<1>37. \A i \in Page : i \notin FreePages => p_order'[i] = p_order[i]
  BY <1>4, <1>11, <1>35, Zenon
<1>38. OrdersInv'
  <2>1. ASSUME NEW k \in Order, NEW i \in z_free'[k] PROVE p_order'[i] = k
    <3>1. i \in Page
      BY <1>20, Zenon
    <3>2. CASE k \in order .. a - 1 /\ i = Buddy(index, k)
      BY <1>9, <1>34, <3>1, <3>2, Zenon
    <3>3. CASE i \in z_free[k] /\ ~(k = a /\ i = index)
      <4>1. i \in Pages(i, k) /\ p_order[i] = k
        BY <3>3, FreeFacts, Zenon DEF PagesInv, OrdersInv
      <4>2. i \notin Pages(index, a)
        BY <1>4, <1>11, <3>3, <4>1, Zenon
      <4>3. QED
        BY <1>35, <3>1, <4>1, <4>2, Zenon
    <3>4. QED
      BY <1>10, <3>2, <3>3, Zenon
  <2>2. ASSUME NEW i \in added' .. z_num_pages - 1 PROVE p_order'[i] = 0
    <3>1. i \in Page /\ i \in added .. z_num_pages - 1 /\ i \notin Zone
      BY <1>6 DEF PagesInv, PagesTypeOK, Page, Zone
    <3>2. QED
      BY <1>16, <1>37, <3>1, Zenon DEF PagesInv, OrdersInv
  <2>3. QED
    BY <2>1, <2>2, Zenon DEF OrdersInv
<1>39. PagesTypeOK'
  <2>1. ASSUME NEW i \in Page PROVE p_order'[i] \in Order
    <3>1. CASE i = index
      BY <1>4, <1>36, <3>1, Zenon
    <3>2. CASE i # index /\ \E k \in order .. a - 1 : i = index + 2^k
      BY <1>9, <1>34, <3>2, Zenon
    <3>3. CASE i # index /\ ~\E k \in order .. a - 1 : i = index + 2^k
      <4>1. {k \in order .. a - 1 : i = index + 2^k} = {}
        BY <3>3, Zenon
      <4>2. p_order'[i] = p_order[i]
        BY <1>5, <3>3, <4>1, Zenon
      <4>3. QED
        BY <4>2 DEF PagesInv, PagesTypeOK
    <3>4. QED
      BY <3>1, <3>2, <3>3, Zenon
  <2>2. p_order' \in [Page -> Order]
    BY <1>5, <2>1, Zenon
  <2>3. new \in [page : Page, order : Order, length : Length]
    BY <1>4, <1>7, <1>26
  <2>4. QED
    BY <1>5, <1>6, <1>7, <1>21, <1>28, <2>2, <2>3, Zenon DEF PagesInv, PagesTypeOK
<1>40. BuddiesInv'
  <2>1. \A k \in Order : index \notin z_free'[k]
    <3>1. index \notin Z
      BY <1>12, <1>18, Zenon
    <3>2. \A k \in Order : index \in Pages(index, k)
      BY <1>7, InPages, Zenon
    <3>3. QED
      BY <1>20, <3>1, <3>2, Zenon
  <2>2. ASSUME NEW k \in Order, k < PAGE_NUM_ORDERS - 1, NEW i \in z_free'[k],
               Buddy(i, k) \in z_free'[k]
        PROVE  FALSE
    <3>1. i \in Nat /\ i % 2^k = 0 /\ i \in Pages(i, k)
      BY <1>20, ZoneFacts, InPages, Zenon
    <3>2. Block(i, k) = i
      BY <3>1, BlockFacts, Zenon
    <3>3. CASE k \in order .. a - 1 /\ i = Buddy(index, k)
      <4>1. k <= a
        BY <1>4, <3>3
      <4>2. Buddy(i, k) = Block(index, k)
        BY <1>7, <2>2, <3>1, <3>3, BuddyOfBuddy, Zenon
      <4>3. QED
        BY <1>8, <2>1, <2>2, <4>1, <4>2, Zenon
    <3>4. CASE k \in order .. a - 1 /\ Buddy(i, k) = Buddy(index, k)
      <4>1. k <= a
        BY <1>4, <3>4
      <4>2. PICK c : c = Buddy(i, k)
        BY Zenon
      <4>3. c \in Pages(c, k)
        BY <3>1, <4>2, Halves, InPages, Zenon
      <4>4. Buddy(c, k) = Block(i, k)
        BY <2>2, <3>1, <4>2, <4>3, BuddyOfBuddy, Zenon
      <4>5. Buddy(c, k) = Block(index, k)
        BY <1>7, <2>2, <3>4, <4>2, <4>3, BuddyOfBuddy, Zenon
      <4>6. i = index
        BY <1>8, <3>2, <4>1, <4>4, <4>5, Zenon
      <4>7. QED
        BY <2>1, <2>2, <4>6, Zenon
    <3>5. CASE i \in z_free[k] /\ Buddy(i, k) \in z_free[k]
      BY <2>2, <3>5, Zenon DEF PagesInv, BuddiesInv
    <3>6. QED
      BY <1>10, <2>2, <3>3, <3>4, <3>5, Zenon
  <2>3. QED
    BY <2>2, Zenon DEF BuddiesInv, Buddy, Block
<1>41. FittingBlock'
  <2>1. ASSUME NEW c \in owned'
        PROVE  /\ c.length <= PAGE_SIZE * 2^c.order
               /\ c.order > 0 => c.length > PAGE_SIZE * 2^(c.order - 1)
               /\ p_order'[c.page] = c.order
    <3>1. CASE c = new
      <4>1. /\ length <= PAGE_SIZE * 2^order
            /\ order > 0 => length > PAGE_SIZE * 2^(order - 1)
        BY <1>1, <1>4, BytesFit, Zenon
      <4>2. QED
        BY <1>27, <1>36, <3>1, <4>1, Zenon
    <3>2. CASE c \in owned
      BY <1>32, <1>37, <3>2, Zenon DEF PagesInv, FittingBlock
    <3>3. QED
      BY <1>28, <3>1, <3>2, Zenon
  <2>2. QED
    BY <2>1, Zenon DEF FittingBlock
<1>42. QED
  BY <1>19, <1>22, <1>23, <1>25, <1>31, <1>33, <1>38, <1>39, <1>40, <1>41, Zenon
  DEF PagesInv, Tiles, Pages

-----------------------------------------------------------------------------
(* Theorems.                                                               *)

\* The allocator starts with an empty zone ...
LEMMA PagesInit ==
  ASSUME Init
  PROVE  PagesInv
<1>1. /\ z_free = [k \in Order |-> {}] /\ z_bitmap = Page /\ z_avail_pages = 0
      /\ p_order = [i \in Page |-> 0] /\ added = 0 /\ owned = {}
  BY Zenon DEF Init
<1>2. 0 \in Order /\ 0 \in 0 .. z_num_pages /\ 0 .. 0 - 1 = {}
  BY PagesAssumption DEF Order
<1>3. PagesTypeOK
  <2>1. z_free \in [Order -> SUBSET Page] /\ p_order \in [Page -> Order]
    BY <1>1, <1>2, Zenon
  <2>2. QED
    BY <1>1, <1>2, <2>1, Zenon DEF PagesTypeOK
<1>4. FreePages = {} /\ Zone = {}
  <2>1. \A y : y \in FreePages <=> \E k \in Order : \E i \in z_free[k] : y \in Pages(i, k)
    <3>1. \A y : y \in FreePages <=>
            \E b \in Page \X Order : b[1] \in z_free[b[2]] /\ y \in Pages(b[1], b[2])
      BY Zenon DEF FreePages, FreeBlocks
    <3>2. QED
      BY <1>3, <3>1, PairsPages, Zenon DEF PagesTypeOK
  <2>2. FreePages = {}
    BY <1>1, <2>1, Zenon
  <2>3. QED
    BY <1>1, <1>2, <2>2, Zenon DEF Zone
<1>5. Tiles(z_free, FreePages)
  BY <1>1, <1>4, TilesFacts, Zenon
<1>6. Tiles(z_owned, Zone \ FreePages)
  <2>1. \A k \in Order : z_owned[k] = {}
    BY <1>1, Zenon DEF z_owned
  <2>2. QED
    BY <1>4, <2>1, TilesFacts, Zenon
<1>7. Cardinality(FreePages) = 0
  BY <1>4, FS_EmptySet, Zenon
<1>8. BitmapInv /\ OrdersInv /\ BuddiesInv /\ FittingBlock
  BY <1>1, Zenon DEF BitmapInv, OrdersInv, BuddiesInv, FittingBlock, Page
<1>9. QED
  BY <1>1, <1>3, <1>4, <1>5, <1>6, <1>7, <1>8, Zenon DEF PagesInv

\* ... and page_zone_add, page_alloc and page_free keep every page in one block.
THEOREM PagesInvariance == Spec => []PagesInv
<1>1. Init => PagesInv
  BY PagesInit, Zenon
<1>2. PagesInv /\ [Next]_vars => PagesInv'
  <2>1. ASSUME PagesInv, Next PROVE PagesInv'
    BY <2>1, ZoneAddStep, PageAllocStep, PageFreeStep, Zenon DEF Next
  <2>2. ASSUME PagesInv, UNCHANGED vars PROVE PagesInv'
    <3>1. /\ z_free' = z_free /\ z_bitmap' = z_bitmap /\ z_avail_pages' = z_avail_pages
          /\ p_order' = p_order /\ added' = added /\ owned' = owned
      BY <2>2, Zenon DEF vars
    <3>2. FreePages' = FreePages /\ Zone' = Zone /\ z_owned' = z_owned
      BY <3>1, Zenon DEF FreePages, FreeBlocks, Zone, z_owned
    <3>3. PagesTypeOK' /\ BitmapInv' /\ OrdersInv' /\ FittingBlock'
      BY <2>2, <3>1, Zenon DEF PagesInv, PagesTypeOK, BitmapInv, OrdersInv, FittingBlock
    <3>4. BuddiesInv'
      BY <2>2, <3>1, Zenon DEF PagesInv, BuddiesInv, Buddy, Block
    <3>5. Tiles(z_free', FreePages') /\ Tiles(z_owned', Zone' \ FreePages')
      BY <2>2, <3>1, <3>2, Zenon DEF PagesInv
    <3>6. FreePages' \subseteq Zone' /\ z_avail_pages' = Cardinality(FreePages')
      BY <2>2, <3>1, <3>2, Zenon DEF PagesInv
    <3>7. QED
      BY <3>3, <3>4, <3>5, <3>6, Zenon DEF PagesInv, Tiles, Pages
  <2>3. QED
    BY <2>1, <2>2, Zenon
<1>3. QED
  BY <1>1, <1>2, PTL DEF Spec

\* The tilings of the free and of the owned pages are the partition.
LEMMA TilesPartition ==
  ASSUME PagesInv
  PROVE  Partition
<1>2. /\ \A k, m \in Order : \A i \in z_free[k], j \in z_free[m] : \A y :
           y \in Pages(i, k) /\ y \in Pages(j, m) => i = j /\ k = m
      /\ \A k, m \in Order : \A i \in z_owned[k], j \in z_owned[m] : \A y :
           y \in Pages(i, k) /\ y \in Pages(j, m) => i = j /\ k = m
  <2>1. Tiles(z_free, FreePages) /\ Tiles(z_owned, Zone \ FreePages)
    BY Zenon DEF PagesInv
  <2>2. QED
    BY <2>1, TilesFacts, Zenon
<1>3. ASSUME NEW b \in FreeBlocks
      PROVE  /\ b[2] \in Order /\ b[1] \in z_free[b[2]] /\ b = <<b[1], b[2]>>
             /\ Pages(b[1], b[2]) \subseteq FreePages /\ b[1] \in Pages(b[1], b[2])
  <2>1. b \in Page \X Order /\ b[1] \in z_free[b[2]]
    BY Zenon DEF FreeBlocks
  <2>2. b[2] \in Order /\ b = <<b[1], b[2]>>
    BY <2>1
  <2>3. QED
    BY <2>1, <2>2, FreeFacts, Zenon
<1>4. ASSUME NEW b \in OwnedBlocks
      PROVE  /\ b[2] \in Order /\ b[1] \in z_owned[b[2]] /\ b = <<b[1], b[2]>>
             /\ Pages(b[1], b[2]) \subseteq Zone \ FreePages /\ b[1] \in Pages(b[1], b[2])
  <2>1. PICK c \in owned : b = <<c.page, c.order>>
    BY Zenon DEF OwnedBlocks
  <2>2. b[1] = c.page /\ b[2] = c.order
    BY <2>1
  <2>3. b[1] \in z_owned[b[2]] /\ b[2] \in Order
    BY <2>2, OwnedFacts, Zenon
  <2>4. QED
    BY <2>1, <2>2, <2>3, OwnedFacts, Zenon
<1>5. FreeBlocks \cap OwnedBlocks = {}
  <2>1. ASSUME NEW b \in FreeBlocks, b \in OwnedBlocks PROVE FALSE
    BY <1>3, <1>4, <2>1, Zenon
  <2>2. QED
    BY <2>1, Zenon
<1>6. ASSUME NEW b \in FreeBlocks \cup OwnedBlocks, NEW c \in FreeBlocks \cup OwnedBlocks,
             NEW y, y \in Pages(b[1], b[2]), y \in Pages(c[1], c[2])
      PROVE  b = c
  <2>1. CASE b \in FreeBlocks /\ c \in FreeBlocks
    <3>1. b[1] = c[1] /\ b[2] = c[2]
      BY <1>2, <1>3, <1>6, <2>1, Zenon
    <3>2. QED
      BY <1>3, <2>1, <3>1, Zenon
  <2>2. CASE b \in OwnedBlocks /\ c \in OwnedBlocks
    <3>1. b[1] = c[1] /\ b[2] = c[2]
      BY <1>2, <1>4, <1>6, <2>2, Zenon
    <3>2. QED
      BY <1>4, <2>2, <3>1, Zenon
  <2>3. CASE b \in FreeBlocks /\ c \in OwnedBlocks
    BY <1>3, <1>4, <1>6, <2>3, Zenon
  <2>4. CASE b \in OwnedBlocks /\ c \in FreeBlocks
    BY <1>3, <1>4, <1>6, <2>4, Zenon
  <2>5. QED
    BY <2>1, <2>2, <2>3, <2>4, Zenon
<1>7. UNION {Pages(b[1], b[2]) : b \in FreeBlocks \cup OwnedBlocks} = Zone
  <2>1. ASSUME NEW b \in FreeBlocks \cup OwnedBlocks PROVE Pages(b[1], b[2]) \subseteq Zone
    BY <1>3, <1>4, Zenon DEF PagesInv
  <2>2. ASSUME NEW y \in Zone PROVE \E b \in FreeBlocks \cup OwnedBlocks : y \in Pages(b[1], b[2])
    <3>1. CASE y \in FreePages
      BY <3>1, Zenon DEF FreePages
    <3>2. CASE y \notin FreePages
      <4>1. PICK k \in Order : \E i \in z_owned[k] : y \in Pages(i, k)
        BY <3>2, OwnedFacts, Zenon
      <4>2. PICK i \in z_owned[k] : y \in Pages(i, k)
        BY <4>1, Zenon
      <4>3. PICK c \in owned : c.page = i /\ c.order = k
        BY OwnedFacts, Zenon
      <4>4. PICK b : b = <<c.page, c.order>>
        BY Zenon
      <4>5. b \in OwnedBlocks
        BY <4>4, Zenon DEF OwnedBlocks
      <4>6. b[1] = i /\ b[2] = k
        BY <4>3, <4>4
      <4>7. QED
        BY <4>2, <4>5, <4>6, Zenon
    <3>3. QED
      BY <3>1, <3>2, Zenon
  <2>3. QED
    BY <2>1, <2>2, Zenon
<1>8. z_avail_pages = Cardinality(FreePages)
  BY Zenon DEF PagesInv
<1>9. QED
  BY <1>5, <1>6, <1>7, <1>8, Zenon DEF Partition

\* Blocks partition the zone, and z_avail_pages counts the free pages.
THEOREM ZonePartitioned == Spec => []Partition
<1>1. PagesInv => Partition
  BY TilesPartition, Zenon
<1>2. QED
  BY <1>1, PagesInvariance, PTL

\* Callers get the smallest block with so many bytes, and page_free finds its order.
THEOREM BlocksFit == Spec => []FittingBlock
<1>1. PagesInv => FittingBlock
  BY Zenon DEF PagesInv
<1>2. QED
  BY <1>1, PagesInvariance, PTL

\* Where no two buddies are free, a free block covers whatever free pages form:
\* by induction on the order, both halves are covered, and not by two blocks.
LEMMA BuddiesMerged ==
  ASSUME PagesInv
  PROVE  FullyMerged
<1> DEFINE Covered(i, k) == \E m \in Order : \E j \in z_free[m] : Pages(i, k) \subseteq Pages(j, m)
<1> DEFINE T == {k \in Order : \A i \in Nat :
                   i % 2^k = 0 /\ Pages(i, k) \subseteq FreePages => Covered(i, k)}
<1>2. 0 \in Order
  BY PagesAssumption DEF Order
<1>3. 0 \in T
  <2>1. ASSUME NEW i \in Nat, Pages(i, 0) \subseteq FreePages PROVE Covered(i, 0)
    <3>1. Pages(i, 0) = {i}
      <4>1. i .. i + 1 - 1 = {i}
        OBVIOUS
      <4>2. QED
        BY <4>1, PowersOfTwo, Zenon DEF Pages
    <3>2. i \in FreePages
      BY <2>1, <3>1, Zenon
    <3>3. PICK m \in Order : \E j \in z_free[m] : i \in Pages(j, m)
      BY <3>2, FreeFacts, Zenon
    <3>4. QED
      BY <3>1, <3>3, Zenon
  <2>2. QED
    BY <1>2, <2>1, Zenon
<1>4. ASSUME NEW k \in Order, k < PAGE_NUM_ORDERS - 1, k \in T PROVE k + 1 \in T
  <2>1. k + 1 \in Order /\ k \in Nat
    BY <1>4, Sizes, Zenon
  <2>2. ASSUME NEW i \in Nat, i % 2^(k + 1) = 0, Pages(i, k + 1) \subseteq FreePages
        PROVE  Covered(i, k + 1)
    <3>1. k <= k + 1
      BY <2>1
    <3>2. Block(i, k) = i /\ i % 2^k = 0 /\ Block(i, k + 1) = i
      <4>1. i \in Pages(i, k + 1)
        BY <2>1, InPages, Zenon
      <4>2. QED
        BY <2>1, <2>2, <3>1, <4>1, AlignedDown, BlockFacts, Zenon
    <3>3. PICK d \in Nat : d = Buddy(i, k) /\ d % 2^k = 0
      BY Halves, Zenon
    <3>4. \A y : y \in Pages(i, k + 1) <=> y \in Pages(i, k) \/ y \in Pages(d, k)
      BY <1>4, <3>2, <3>3, Halves, Zenon
    <3>5. Pages(i, k) \subseteq FreePages /\ Pages(d, k) \subseteq FreePages
      BY <2>2, <3>4, Zenon
    <3>6. Covered(i, k) /\ Covered(d, k)
      BY <1>4, <3>2, <3>3, <3>5, Zenon
    <3>7. PICK m \in Order : \E j \in z_free[m] : Pages(i, k) \subseteq Pages(j, m)
      BY <3>6, Zenon
    <3>8. PICK j \in z_free[m] : Pages(i, k) \subseteq Pages(j, m)
      BY <3>7, Zenon
    <3>9. PICK n \in Order : \E h \in z_free[n] : Pages(d, k) \subseteq Pages(h, n)
      BY <3>6, Zenon
    <3>10. PICK h \in z_free[n] : Pages(d, k) \subseteq Pages(h, n)
      BY <3>9, Zenon
    <3>11. /\ i \in Pages(j, m) /\ d \in Pages(h, n) /\ i \in Pages(i, k) /\ d \in Pages(d, k)
           /\ j \in Nat /\ h \in Nat /\ j % 2^m = 0 /\ h % 2^n = 0 /\ m \in Nat /\ n \in Nat
           /\ i \in Pages(i, k + 1) /\ d \in Pages(i, k + 1)
      <4>1. i \in Pages(i, k) /\ d \in Pages(d, k)
        BY InPages, Zenon
      <4>2. QED
        BY <3>4, <3>8, <3>10, <4>1, FreeFacts, Sizes, Zenon
    <3>12. CASE k + 1 <= m
      <4>1. Pages(i, k + 1) \subseteq Pages(j, m)
        BY <2>1, <2>2, <3>11, <3>12, NestedBlocks, Zenon
      <4>2. QED
        BY <4>1, Zenon
    <3>13. CASE k + 1 <= n
      <4>1. Pages(i, k + 1) \subseteq Pages(h, n)
        BY <2>1, <2>2, <3>11, <3>13, NestedBlocks, Zenon
      <4>2. QED
        BY <4>1, Zenon
    <3>14. CASE ~(k + 1 <= m) /\ ~(k + 1 <= n)
      <4>1. m <= k /\ n <= k
        BY <2>1, <3>11, <3>14
      <4>2. j = i
        <5>1. Block(i, m) = i
          BY <3>2, <4>1, AlignedDown, Zenon
        <5>2. QED
          BY <3>11, <5>1, BlockFacts, Zenon
      <4>3. h = d
        <5>1. Block(d, n) = d
          BY <3>3, <4>1, AlignedDown, Zenon
        <5>2. QED
          BY <3>11, <5>1, BlockFacts, Zenon
      <4>4. m = k
        <5>1. SUFFICES ASSUME m # k PROVE FALSE
          BY Zenon
        <5>2. m + 1 <= k /\ m < PAGE_NUM_ORDERS - 1
          BY <1>4, <2>1, <3>11, <4>1, <5>1, PagesAssumption
        <5>3. Block(i, m) = i /\ Block(i, k) = i
          BY <3>2, <4>1, AlignedDown, Zenon
        <5>4. Buddy(i, m) \in Pages(Buddy(i, m), m)
          BY Halves, InPages, Zenon
        <5>5. m + 1 \in Order
          BY <5>2, Sizes, Zenon
        <5>6. Buddy(i, m) \in Pages(i, k)
          BY <5>2, <5>3, <5>4, <5>5, Halves, Nested, Zenon
        <5>7. QED
          BY <3>8, <4>2, <5>3, <5>4, <5>6, Halves, Zenon
      <4>5. n = k
        <5>1. SUFFICES ASSUME n # k PROVE FALSE
          BY Zenon
        <5>2. n + 1 <= k /\ n < PAGE_NUM_ORDERS - 1
          BY <1>4, <2>1, <3>11, <4>1, <5>1, PagesAssumption
        <5>3. Block(d, n) = d /\ Block(d, k) = d
          <6>1. k <= k
            BY <2>1
          <6>2. QED
            BY <3>3, <4>1, <6>1, AlignedDown, Zenon
        <5>4. Buddy(d, n) \in Pages(Buddy(d, n), n)
          BY Halves, InPages, Zenon
        <5>5. n + 1 \in Order
          BY <5>2, Sizes, Zenon
        <5>6. Buddy(d, n) \in Pages(d, k)
          BY <5>2, <5>3, <5>4, <5>5, Halves, Nested, Zenon
        <5>7. QED
          BY <3>10, <4>3, <5>3, <5>4, <5>6, Halves, Zenon
      <4>6. i \in z_free[k] /\ Buddy(i, k) \in z_free[k]
        BY <3>3, <4>2, <4>3, <4>4, <4>5, Zenon
      <4>7. QED
        BY <1>4, <4>6, Zenon DEF PagesInv, BuddiesInv
    <3>15. QED
      BY <3>12, <3>13, <3>14, Zenon
  <2>3. QED
    BY <2>1, <2>2, Zenon
<1>5. ASSUME NEW k \in Order PROVE k \in T
  <2>1. k \in Nat /\ 0 \in Nat /\ 0 <= k
    BY PagesAssumption DEF Order
  <2>2. \A j \in 0 .. k - 1 : j \in Order /\ j < PAGE_NUM_ORDERS - 1
    BY PagesAssumption DEF Order
  <2> HIDE DEF T
  <2>3. QED
    BY <1>3, <1>4, <2>1, <2>2, Upwards, Zenon
<1>6. ASSUME NEW k \in Order, NEW i \in Zone, i % 2^k = 0, Pages(i, k) \subseteq FreePages
      PROVE  \E b \in FreeBlocks : Pages(i, k) \subseteq Pages(b[1], b[2])
  <2>1. i \in Nat
    BY ZoneFacts, Zenon
  <2>2. Covered(i, k)
    BY <1>5, <1>6, <2>1, Zenon
  <2>3. PICK m \in Order : \E j \in z_free[m] : Pages(i, k) \subseteq Pages(j, m)
    BY <2>2, Zenon
  <2>4. PICK j \in z_free[m] : Pages(i, k) \subseteq Pages(j, m)
    BY <2>3, Zenon
  <2>5. j \in Page
    BY FreeFacts, Zenon
  <2>6. PICK b : b = <<j, m>>
    BY Zenon
  <2>7. b \in Page \X Order /\ b[1] = j /\ b[2] = m
    BY <2>5, <2>6
  <2>8. b \in FreeBlocks
    BY <2>4, <2>7, Zenon DEF FreeBlocks
  <2>9. QED
    BY <2>4, <2>7, <2>8, Zenon
<1>7. QED
  BY <1>6, Zenon DEF FullyMerged

\* Free pages that form an aligned block are in one free block: two free halves
\* have been merged, and so, from order to order, has everything they form.
THEOREM FreeBlocksMerged == Spec => []FullyMerged
<1>1. PagesInv => FullyMerged
  BY BuddiesMerged, Zenon
<1>2. QED
  BY <1>1, PagesInvariance, PTL

=============================================================================
