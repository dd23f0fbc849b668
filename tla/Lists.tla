------------------------------- MODULE Lists --------------------------------
(***************************************************************************)
(* util::List (include/ananas/util/list.h) as its users see it: the        *)
(* sequence of the items from front to back.  push_back is Append, front   *)
(* is Head, pop_front is Tail.                                             *)
(***************************************************************************)
EXTENDS Integers, Sequences

\* The items of a list.
Members(q) == {q[i] : i \in 1 .. Len(q)}

\* No item is on the list twice: the links are part of the item.
NoDuplicates(q) == \A i, j \in 1 .. Len(q) : q[i] = q[j] => i = j

\* insert: x comes before the item at position i, or last.
Insert(q, i, x) ==
  [j \in 1 .. Len(q) + 1 |-> IF j < i THEN q[j]
                             ELSE IF j = i THEN x ELSE q[j - 1]]

\* remove
Remove(q, x) ==
  LET i == CHOOSE k \in 1 .. Len(q) : q[k] = x
  IN [j \in 1 .. Len(q) - 1 |-> IF j < i THEN q[j] ELSE q[j + 1]]
=============================================================================
