------------------------------ MODULE CycleMC ------------------------------
(***************************************************************************)
(* Two chains for TLC: the first publishes a store file and a price file,  *)
(* the second a price file.                                                *)
(***************************************************************************)
EXTENDS Cycle

CONSTANTS s1, p1, p2, Deltas

ChainOfMC == [f \in File |-> IF f = p2 THEN 2 ELSE 1]
KindMC == [f \in File |-> IF f = s1 THEN "stores"
                          ELSE IF f \in Deltas THEN "price_delta" ELSE "price_full"]
LastMC == [f \in File |-> IF f = p1 THEN 2 ELSE 1]
SizeMC == [v \in Version |-> v]
=============================================================================
