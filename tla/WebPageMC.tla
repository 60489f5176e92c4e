------------------------------ MODULE WebPageMC ------------------------------
(***************************************************************************)
(* Two chains with two branches and one, and three products: one that both *)
(* sell at different prices, the first chain under two codes, so that its  *)
(* four rows do not fit into a table of three; one that both branches of a *)
(* chain sell; and one of a single branch.  A fold moves the lowest price  *)
(* of the first from one chain to the other and takes the last away.       *)
(***************************************************************************)
EXTENDS WebPage

CONSTANTS coop, mega

StoreMC == {1, 2, 3}
ChainOfMC == [s \in StoreMC |-> IF s = 3 THEN mega ELSE coop]

\* The codes 1 and 2 are coop's for the first product, 3 is mega's.
row(s, v, p, price, day) ==
  [store |-> s, variant |-> v, product |-> p, price |-> price,
   unit |-> IF p = 1 THEN price ELSE None, updated |-> day]

TablesMC ==
  <<{row(1, 1, 1, 5, 1), row(1, 2, 1, 7, 1), row(2, 1, 1, 6, 1), row(3, 3, 1, 8, 1),
     row(1, 4, 2, 6, 1), row(2, 4, 2, 7, 1), row(2, 5, 3, 4, 1)},
    {row(1, 1, 1, 9, 2), row(2, 1, 1, 9, 2), row(3, 3, 1, 8, 1),
     row(1, 4, 2, 6, 1), row(2, 4, 2, 7, 1)}>>

\* The second query finds nothing.
HitsMC == <<<<1, 3>>, <<>>>>

AlphabetMC == <<2, 1, 3>>

BlankMC == [only |-> {1, 2, 3}, minChains |-> 1, maxPrice |-> 9, sort |-> "spread"]
FieldsMC == {BlankMC, [only |-> {1, 2, 3}, minChains |-> 1, maxPrice |-> 5, sort |-> "price"]}
=============================================================================
