----------------------------- MODULE ListProofs -----------------------------
(***************************************************************************)
(* What the list operations do to the set of the items of a list.          *)
(***************************************************************************)
EXTENDS Lists, TLAPS

\* The list q has exactly the items of S, each of them once.
Holds(q, S) == q \in Seq(S) /\ NoDuplicates(q) /\ Members(q) = S

\* A sequence is a function on its positions.
LEMMA SeqFunction ==
  ASSUME NEW S, NEW q \in Seq(S)
  PROVE  Len(q) \in Nat /\ q \in [1 .. Len(q) -> S]
OBVIOUS

\* A list without duplicates holds its members.
LEMMA HoldsMembers ==
  ASSUME NEW A, NEW q \in Seq(A), NoDuplicates(q)
  PROVE  Holds(q, Members(q))
<1>1. Len(q) \in Nat /\ q \in [1 .. Len(q) -> A]
  BY SeqFunction, Zenon
<1>2. \A i \in 1 .. Len(q) : q[i] \in Members(q)
  BY Zenon DEF Members
<1>3. q \in [1 .. Len(q) -> Members(q)]
  BY <1>1, <1>2, Zenon
<1>4. q \in Seq(Members(q))
  BY <1>1, <1>3
<1>5. QED
  BY <1>4, Zenon DEF Holds

\* A list that holds S, item by item.
LEMMA HoldsFacts ==
  ASSUME NEW q, NEW S, Holds(q, S)
  PROVE  /\ Len(q) \in Nat
         /\ q \in [1 .. Len(q) -> S]
         /\ \A i \in 1 .. Len(q) : q[i] \in S
         /\ \A x \in S : \E i \in 1 .. Len(q) : q[i] = x
         /\ \A i, j \in 1 .. Len(q) : q[i] = q[j] => i = j
BY DEF Holds, Members, NoDuplicates

\* A function on 1 .. n that is a bijection to S is a list that holds S.
LEMMA HoldsIntro ==
  ASSUME NEW n \in Nat, NEW S, NEW q \in [1 .. n -> S],
         \A x \in S : \E i \in 1 .. n : q[i] = x,
         \A i, j \in 1 .. n : q[i] = q[j] => i = j
  PROVE  Holds(q, S) /\ Len(q) = n
<1>1. q \in Seq(S) /\ Len(q) = n
  OBVIOUS
<1>2. \A i \in 1 .. n : q[i] \in S
  BY Zenon
<1>3. Members(q) = S
  BY <1>1, <1>2 DEF Members
<1>4. NoDuplicates(q)
  BY <1>1, Zenon DEF NoDuplicates
<1>5. QED
  BY <1>1, <1>3, <1>4, Zenon DEF Holds

\* A list of items of S is a list over every larger set.
LEMMA HoldsType ==
  ASSUME NEW q, NEW S, NEW A, Holds(q, S), S \subseteq A
  PROVE  q \in Seq(A)
<1>1. Len(q) \in Nat /\ q \in [1 .. Len(q) -> S]
  BY HoldsFacts, Zenon
<1>2. q \in [1 .. Len(q) -> A]
  BY <1>1, Zenon
<1>3. QED
  BY <1>1, <1>2

\* insert adds one item to the list.
LEMMA InsertHolds ==
  ASSUME NEW q, NEW S, Holds(q, S), NEW t, t \notin S, NEW i \in 1 .. Len(q) + 1
  PROVE  Holds(Insert(q, i, t), S \cup {t})
<1> DEFINE n == Len(q) + 1
           r == Insert(q, i, t)
<1>1. /\ Len(q) \in Nat
      /\ \A j \in 1 .. Len(q) : q[j] \in S
      /\ \A x \in S : \E j \in 1 .. Len(q) : q[j] = x
      /\ \A j, k \in 1 .. Len(q) : q[j] = q[k] => j = k
  BY HoldsFacts, Zenon
<1>2. DOMAIN r = 1 .. n /\ r = [j \in 1 .. n |-> r[j]]
  BY Zenon DEF Insert
<1>3. /\ \A j \in 1 .. n : j < i => r[j] = q[j] /\ j \in 1 .. Len(q)
      /\ r[i] = t
      /\ \A j \in 1 .. n : j > i => r[j] = q[j - 1] /\ j - 1 \in 1 .. Len(q)
  BY <1>1 DEF Insert
<1> HIDE DEF r
<1>4. \A j \in 1 .. n : r[j] \in S \cup {t}
  BY <1>1, <1>3
<1>5. r \in [1 .. n -> S \cup {t}]
  BY <1>2, <1>4, Zenon
<1>6. ASSUME NEW x \in S \cup {t}
      PROVE  \E j \in 1 .. n : r[j] = x
  <2>1. CASE x = t
    BY <1>3, <2>1, Zenon
  <2>2. CASE x # t
    <3>1. PICK j \in 1 .. Len(q) : q[j] = x
      BY <1>1, <2>2, Zenon
    <3>2. CASE j < i
      BY <1>1, <1>3, <3>1, <3>2
    <3>3. CASE j >= i
      <4>1. j + 1 \in 1 .. n /\ j + 1 > i /\ (j + 1) - 1 = j
        BY <1>1, <3>3
      <4>2. QED
        BY <1>3, <3>1, <4>1, Zenon
    <3>4. QED
      BY <1>1, <3>2, <3>3
  <2>3. QED
    BY <2>1, <2>2, Zenon
<1>7. ASSUME NEW j \in 1 .. n, NEW k \in 1 .. n, r[j] = r[k]
      PROVE  j = k
  <2>1. CASE j = i \/ k = i
    <3>1. ASSUME NEW m \in 1 .. n, m # i
          PROVE  r[m] \in S
      <4>1. m < i \/ m > i
        BY <1>1, <3>1
      <4>2. QED
        BY <1>1, <1>3, <4>1, Zenon
    <3>2. QED
      BY <1>3, <1>7, <2>1, <3>1, Zenon
  <2>2. CASE j # i /\ k # i
    <3> DEFINE J == IF j < i THEN j ELSE j - 1
               K == IF k < i THEN k ELSE k - 1
    <3>1. J \in 1 .. Len(q) /\ K \in 1 .. Len(q) /\ q[J] = q[K]
      BY <1>1, <1>3, <1>7, <2>2
    <3>2. J = K
      BY <1>1, <3>1, Zenon
    <3>3. QED
      BY <1>1, <2>2, <3>2
  <2>3. QED
    BY <2>1, <2>2, Zenon
<1>8. n \in Nat
  BY <1>1
<1>9. Holds(r, S \cup {t})
  BY <1>5, <1>6, <1>7, <1>8, HoldsIntro, Zenon
<1>10. QED
  BY <1>9, Zenon DEF r

\* remove takes one item off the list.
LEMMA RemoveHolds ==
  ASSUME NEW q, NEW S, Holds(q, S), NEW t \in S
  PROVE  Holds(Remove(q, t), S \ {t})
<1> DEFINE i == CHOOSE k \in 1 .. Len(q) : q[k] = t
           n == Len(q) - 1
           r == Remove(q, t)
<1>1. /\ Len(q) \in Nat
      /\ \A j \in 1 .. Len(q) : q[j] \in S
      /\ \A x \in S : \E j \in 1 .. Len(q) : q[j] = x
      /\ \A j, k \in 1 .. Len(q) : q[j] = q[k] => j = k
  BY HoldsFacts, Zenon
<1>2. i \in 1 .. Len(q) /\ q[i] = t
  BY <1>1, Zenon
<1>3. r = [j \in 1 .. n |-> IF j < i THEN q[j] ELSE q[j + 1]]
  BY Zenon DEF Remove
<1> HIDE DEF r, i
<1>4. n \in Nat
  BY <1>1, <1>2
<1>5. /\ \A j \in 1 .. n : j < i => r[j] = q[j] /\ j \in 1 .. Len(q)
      /\ \A j \in 1 .. n : j >= i => r[j] = q[j + 1] /\ j + 1 \in 1 .. Len(q)
  BY <1>1, <1>2, <1>3
<1>6. ASSUME NEW j \in 1 .. n
      PROVE  r[j] \in S \ {t}
  <2> DEFINE J == IF j < i THEN j ELSE j + 1
  <2>1. J \in 1 .. Len(q) /\ J # i /\ r[j] = q[J]
    BY <1>1, <1>2, <1>5
  <2>2. QED
    BY <1>1, <1>2, <2>1, Zenon
<1>7. r \in [1 .. n -> S \ {t}]
  BY <1>3, <1>6, Zenon
<1>8. ASSUME NEW x \in S \ {t}
      PROVE  \E j \in 1 .. n : r[j] = x
  <2>1. PICK j \in 1 .. Len(q) : q[j] = x
    BY <1>1, Zenon
  <2>2. CASE j < i
    BY <1>1, <1>2, <1>5, <2>1, <2>2
  <2>3. CASE j > i
    <3>1. j - 1 \in 1 .. n /\ j - 1 >= i /\ (j - 1) + 1 = j
      BY <1>1, <1>2, <2>3
    <3>2. QED
      BY <1>5, <2>1, <3>1, Zenon
  <2>4. QED
    BY <1>1, <1>2, <2>1, <2>2, <2>3
<1>9. ASSUME NEW j \in 1 .. n, NEW k \in 1 .. n, r[j] = r[k]
      PROVE  j = k
  <2> DEFINE J == IF j < i THEN j ELSE j + 1
             K == IF k < i THEN k ELSE k + 1
  <2>1. J \in 1 .. Len(q) /\ K \in 1 .. Len(q) /\ q[J] = q[K]
    BY <1>1, <1>2, <1>5, <1>9
  <2>2. J = K
    BY <1>1, <2>1, Zenon
  <2>3. QED
    BY <1>1, <1>2, <2>2
<1>10. Holds(r, S \ {t})
  BY <1>4, <1>7, <1>8, <1>9, HoldsIntro, Zenon
<1>11. QED
  BY <1>10, Zenon DEF r

\* The front of a list is one of its items; pop_front removes it.
LEMMA TailHolds ==
  ASSUME NEW q, NEW S, Holds(q, S), q # <<>>
  PROVE  Head(q) \in S /\ Holds(Tail(q), S \ {Head(q)})
<1> DEFINE n == Len(q) - 1
           r == Tail(q)
<1>1. /\ Len(q) \in Nat
      /\ \A j \in 1 .. Len(q) : q[j] \in S
      /\ \A x \in S : \E j \in 1 .. Len(q) : q[j] = x
      /\ \A j, k \in 1 .. Len(q) : q[j] = q[k] => j = k
  BY HoldsFacts, Zenon
<1>2. q \in Seq(S)
  BY Zenon DEF Holds
<1>3. n \in Nat /\ 1 \in 1 .. Len(q) /\ Head(q) = q[1]
  BY <1>2
<1>4. /\ r \in [1 .. n -> S]
      /\ \A j \in 1 .. n : r[j] = q[j + 1] /\ j + 1 \in 1 .. Len(q) /\ j + 1 # 1
  <2>1. r \in Seq(S) /\ Len(r) = n
    BY <1>2
  <2>2. \A j \in 1 .. n : r[j] = q[j + 1]
    BY <1>2
  <2>3. \A j \in 1 .. n : j + 1 \in 1 .. Len(q) /\ j + 1 # 1
    BY <1>1
  <2>4. r \in [1 .. n -> S]
    BY <2>1, SeqFunction, Zenon
  <2>5. QED
    BY <2>2, <2>3, <2>4, Zenon
<1> HIDE DEF r
<1>5. ASSUME NEW j \in 1 .. n
      PROVE  r[j] \in S \ {q[1]}
  BY <1>1, <1>3, <1>4
<1>6. r \in [1 .. n -> S \ {q[1]}]
  BY <1>4, <1>5, Zenon
<1>7. ASSUME NEW x \in S \ {q[1]}
      PROVE  \E j \in 1 .. n : r[j] = x
  <2>1. PICK j \in 1 .. Len(q) : q[j] = x
    BY <1>1, Zenon
  <2>2. j # 1
    BY <2>1, Zenon
  <2>3. j - 1 \in 1 .. n /\ (j - 1) + 1 = j
    BY <1>1, <1>3, <2>2
  <2>4. QED
    BY <1>4, <2>1, <2>3, Zenon
<1>8. ASSUME NEW j \in 1 .. n, NEW k \in 1 .. n, r[j] = r[k]
      PROVE  j = k
  BY <1>1, <1>4, <1>8
<1>9. Holds(r, S \ {q[1]})
  BY <1>3, <1>6, <1>7, <1>8, HoldsIntro, Zenon
<1>10. QED
  BY <1>1, <1>3, <1>9 DEF r

\* push_back adds one item: an insertion at the end.
LEMMA AppendHolds ==
  ASSUME NEW q, NEW S, Holds(q, S), NEW t, t \notin S
  PROVE  Holds(Append(q, t), S \cup {t})
<1> DEFINE n == Len(q) + 1
<1>1. q \in Seq(S) /\ Len(q) \in Nat /\ n \in 1 .. Len(q) + 1
  BY DEF Holds
<1>2. q \in Seq(S \cup {t}) /\ t \in S \cup {t}
  BY HoldsType, Zenon
<1>3. /\ Append(q, t) \in [1 .. n -> S \cup {t}]
      /\ \A j \in 1 .. n : Append(q, t)[j] = IF j < n THEN q[j] ELSE t
  <2>1. Append(q, t) \in Seq(S \cup {t}) /\ Len(Append(q, t)) = n
    BY <1>2
  <2>2. \A j \in 1 .. n : Append(q, t)[j] = IF j < n THEN q[j] ELSE t
    BY <1>1, <1>2
  <2>3. Append(q, t) \in [1 .. n -> S \cup {t}]
    BY <2>1, SeqFunction, Zenon
  <2>4. QED
    BY <2>2, <2>3, Zenon
<1>4. Insert(q, n, t) = [j \in 1 .. n |-> IF j < n THEN q[j] ELSE t]
  BY <1>1 DEF Insert
<1>5. Append(q, t) = Insert(q, n, t)
  BY <1>3, <1>4, Zenon
<1> HIDE DEF n
<1>6. QED
  BY <1>1, <1>5, InsertHolds
=============================================================================
