------------------------------ MODULE BasketMC ------------------------------
(***************************************************************************)
(* Two branches of one chain and one of another, two products, every pair  *)
(* of a handful of promotions.                                             *)
(***************************************************************************)
EXTENDS Basket

\* Variants 1 and 2 are the first chain's milk and bread, 5 another code of its milk;
\* 3 and 4 are the second chain's.
Listed(v, i, p) == [variant |-> v, item |-> i, price |-> p]

StocksOfOne ==
  {{}, {Listed(1, "milk", 900)}, {Listed(2, "bread", 505)},
   {Listed(1, "milk", 1000), Listed(5, "milk", 950), Listed(2, "bread", 450)}}

StocksOfTwo ==
  {{Listed(3, "milk", 850)}, {Listed(3, "milk", 1000), Listed(4, "bread", 505)}}

Promotion(vs, s, amount, rate, minQty, minPurchase, gift, club) ==
  [variants |-> vs, store |-> s, amount |-> amount, rate |-> rate, minQty |-> minQty,
   minPurchase |-> minPurchase, gift |-> gift, clubOnly |-> club, starts |-> None, ends |-> None]

Within(starts, ends, p) == [p EXCEPT !.starts = starts, !.ends = ends]

Promotions ==
  {Within(5, 5, Promotion({1, 5}, None, 1500, 0, 20, 0, FALSE, FALSE)),  \* today two for 15
   Promotion({3}, 3, 800, 0, 25, 0, FALSE, FALSE),             \* 2.5 units for 8
   Promotion({4}, 3, 300, 0, 0, 0, FALSE, TRUE),               \* members pay 3
   Promotion({1, 2}, 1, None, 15, 0, 0, FALSE, FALSE),         \* a rate of 0.15
   Promotion({3, 4}, None, None, 2500, 0, 0, FALSE, FALSE),    \* a rate of 25
   Promotion({1, 3, 5}, None, 100, 0, 0, 5000, FALSE, FALSE),  \* 1 for those who spend 50
   Promotion({2, 4}, None, 0, 0, 10, 0, TRUE, FALSE)}          \* a gift with it

\* Published for yesterday and for tomorrow: too good to be overlooked.
OtherDays ==
  {Within(None, 4, Promotion({1, 3, 5}, None, 200, 0, 0, 0, FALSE, FALSE)),
   Within(6, None, Promotion({2, 4}, None, 100, 0, 0, 0, FALSE, FALSE))}

Branches(a, b, c) ==
  <<[rows |-> a, minutes |-> 0], [rows |-> b, minutes |-> 125], [rows |-> c, minutes |-> 75]>>

\* The first names its milk twice.
Baskets == {<<[item |-> "milk", qty |-> 2], [item |-> "bread", qty |-> 1], [item |-> "milk", qty |-> 5]>>,
            <<[item |-> "bread", qty |-> 3], [item |-> "milk", qty |-> 2]>>}

Ways == {<<"cheapest", 2>>, <<"balanced", 2>>, <<"balanced", 1>>, <<"single_store", 2>>}

InputMC ==
  {[wanted |-> w, mode |-> how[1], maxStores |-> how[2], club |-> club,
    stores |-> Branches(a, b, c), promotions |-> ps \cup OtherDays] :
     w \in Baskets, how \in Ways, club \in BOOLEAN,
     a \in StocksOfOne, b \in StocksOfOne \ {{Listed(2, "bread", 505)}}, c \in StocksOfTwo,
     ps \in {q \in SUBSET Promotions : Cardinality(q) <= 2}}
=============================================================================
