--------------------------- MODULE PriceHistoryMC ---------------------------
(***************************************************************************)
(* A chain of a few branches for TLC, some of which never change their     *)
(* price group.                                                            *)
(***************************************************************************)
EXTENDS PriceHistory, TLC

CONSTANT Settled    \* the stores whose files always name the same group

\* The other stores' files name any group of the chain, or none.
HomeGroup == CHOOSE g \in Group : TRUE
HeaderMC == [s \in Store |-> IF s \in Settled THEN {HomeGroup} ELSE Group \cup {None}]

\* Stores that always file alike may be exchanged: no property names one.
Alike == Permutations(Settled)
=============================================================================
