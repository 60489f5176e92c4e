------------------------------ MODULE GeocodeMC ------------------------------
(***************************************************************************)
(* Two stores, one street with and without the name of its city.           *)
(***************************************************************************)
EXTENDS Geocode

CONSTANTS street, haifa, code

inHaifa == [street |-> street, city |-> haifa]
onlyStreet == [street |-> street, city |-> code]
nowhere == [street |-> None, city |-> code]

AddressMC == {inHaifa, onlyStreet, nowhere}
PublishedMC == [s \in Store |-> IF s = 1 THEN {onlyStreet, nowhere} ELSE {onlyStreet, inHaifa}]

ResponseMC ==
  {[inside |-> TRUE, type |-> "GEOMETRIC_CENTER", partial |-> TRUE],
   [inside |-> TRUE, type |-> "APPROXIMATE", partial |-> FALSE],
   [inside |-> FALSE, type |-> "ROOFTOP", partial |-> FALSE]}
=============================================================================
