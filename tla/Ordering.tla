------------------------------ MODULE Ordering ------------------------------
(***************************************************************************)
(* ORDER BY and list.sort by a key that tells every two rows apart: row k  *)
(* is the one that k - 1 rows come before.  It is SetToSortSeq, stated so  *)
(* that tlapm can expand it: it cannot expand the SortSeq on which         *)
(* SetToSortSeq rests.                                                     *)
(***************************************************************************)
EXTENDS Naturals, FiniteSets

Ordered(S, before(_, _)) ==
  [k \in 1..Cardinality(S) |->
     CHOOSE x \in S : Cardinality({y \in S : before(y, x)}) = k - 1]
=============================================================================
