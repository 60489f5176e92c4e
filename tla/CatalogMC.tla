------------------------------ MODULE CatalogMC ------------------------------
(***************************************************************************)
(* Two chains, one of them with two branches that spell a barcode in       *)
(* different ways, for TLC.                                                *)
(***************************************************************************)
EXTENDS Catalog

CONSTANTS c1, c2, s1, s2, s3

\* One product as 13 digits and as the 12 of UPC-A, and a code packed in the store.
ean13 == <<0, 0, 3, 6, 0, 0, 0, 2, 9, 1, 4, 5, 2>>
upcA == <<0, 3, 6, 0, 0, 0, 2, 9, 1, 4, 5, 2>>
inStore == <<2, 1, 0, 0, 0, 0, 0, 0, 0, 0, 0, 3>>

ChainOfMC == [s \in Store |-> IF s = s3 THEN c2 ELSE c1]
ItemMC == {ean13, upcA, inStore}
SellsMC == [s \in Store |-> IF s = s1 THEN {ean13} ELSE IF s = s2 THEN {upcA}
                           ELSE {ean13, inStore}]
GivesMC == [s \in Store |-> IF s = s1 THEN {1} ELSE IF s = s2 THEN {2} ELSE {1, None}]
LengthMC == [n \in Name |-> n]
=============================================================================
