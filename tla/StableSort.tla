----------------------------- MODULE StableSort -----------------------------
(***************************************************************************)
(* slice::sort_by_key, for lists whose elements are told apart by their    *)
(* positions: what is sorted is a function from positions to keys, and the *)
(* result lists the positions.                                             *)
(***************************************************************************)
EXTENDS Integers, FiniteSets

\* Smallest key first, and equal keys in the order of their positions.
Ranked(key) ==
  LET before(i, j) == key[i] < key[j] \/ (key[i] = key[j] /\ i < j)
      place(i) == Cardinality({j \in DOMAIN key : before(j, i)}) + 1
  IN  [k \in 1..Cardinality(DOMAIN key) |-> CHOOSE i \in DOMAIN key : place(i) = k]
=============================================================================
