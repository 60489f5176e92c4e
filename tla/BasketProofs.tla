--------------------------- MODULE BasketProofs ---------------------------
(***************************************************************************)
(* Proofs about Basket, for any request, prices and promotions.            *)
(*                                                                         *)
(* Local improvement ends at the cheapest way to split a basket, because   *)
(* a line costs the same whatever else the store sells: the cost of a      *)
(* split is a sum of lines, a move changes one term, and where no single   *)
(* move gains, every term is the smaller of its two.  The invariant says   *)
(* that, in a pass that has moved nothing yet, no item tried so far gains. *)
(*                                                                         *)
(* A split that is shown beats the first of the single stores, and the     *)
(* first is the best: the rows of an ORDER BY are all there, each once.    *)
(***************************************************************************)
EXTENDS Basket, SetFacts

-----------------------------------------------------------------------------
(* Where an item is bought.                                                *)

\* assign_pair: the greedy start buys each item once.
LEMMA GreedyBuysOnce ==
  ASSUME Split
  PROVE  EachItemIsBoughtOnce'
<1>1. /\ left' = Greedy /\ right' = {i \in Items : Covers(Second, i)} \ Greedy
      /\ Items' = Items /\ First' = First /\ Second' = Second /\ prices' = prices
  BY DEF Split, Items, First, Second
<1>2. /\ Greedy \subseteq {i \in Items : Covers(First, i)}
      /\ \A i \in Items : Covers(First, i) /\ ~Covers(Second, i) => i \in Greedy
  BY DEF Greedy
<1> QED
  BY <1>1, <1>2 DEF EachItemIsBoughtOnce, Covers

\* And so does every move.
LEMMA MovesBuyOnce ==
  ASSUME EachItemIsBoughtOnce, Try
  PROVE  EachItemIsBoughtOnce'
<1> DEFINE item == input.wanted[cursor].item
           trial == IF Repeated(cursor) THEN <<left, right>> ELSE Moved(item)
           kept == IF Gains(trial) THEN trial ELSE <<left, right>>
<1>1. pc = "improve" /\ left' = kept[1] /\ right' = kept[2]
        /\ UNCHANGED <<input, prices, pool, pair>>
  BY DEF Try
<1>2. Items' = Items /\ First' = First /\ Second' = Second
  BY <1>1 DEF Items, First, Second
<1>3. \/ left' = left /\ right' = right
      \/ /\ item \in left /\ Covers(Second, item)
         /\ left' = left \ {item} /\ right' = right \cup {item}
      \/ /\ item \in right /\ Covers(First, item)
         /\ left' = left \cup {item} /\ right' = right \ {item}
  <2> HIDE DEF item
  <2>1. \/ Moved(item) = <<left, right>>
        \/ /\ item \in left /\ Covers(Second, item)
           /\ Moved(item) = <<left \ {item}, right \cup {item}>>
        \/ /\ item \in right /\ Covers(First, item)
           /\ Moved(item) = <<left \cup {item}, right \ {item}>>
    BY DEF Moved
  <2>2. kept \in {<<left, right>>, Moved(item)}
    OBVIOUS
  <2> HIDE DEF kept
  <2> QED
    BY <1>1, <2>1, <2>2
<1> HIDE DEF item, kept
<1> QED
  BY <1>1, <1>2, <1>3 DEF EachItemIsBoughtOnce, Covers

\* assign_pair: while a pair is being improved, each item that either store sells is in
\* one of the two piles, and in a pile of a store that sells it.
THEOREM ItemsAreBoughtOnce == Spec => []EachItemIsBoughtOnce
<1>1. Init => EachItemIsBoughtOnce
  BY DEF Init, EachItemIsBoughtOnce
<1>2. EachItemIsBoughtOnce /\ [Next]_vars => EachItemIsBoughtOnce'
  <2> SUFFICES ASSUME EachItemIsBoughtOnce, [Next]_vars
               PROVE  EachItemIsBoughtOnce'
    OBVIOUS
  <2>1. CASE Split
    BY <2>1, GreedyBuysOnce
  <2>2. CASE Try
    BY <2>2, MovesBuyOnce
  <2>3. CASE NextPass
    BY <2>3 DEF NextPass, EachItemIsBoughtOnce, Items, First, Second, Covers
  <2>4. CASE Load \/ Rank \/ Assigned \/ Answer
    BY <2>4 DEF Load, Rank, Assigned, Answer, EachItemIsBoughtOnce
  <2>5. CASE UNCHANGED vars
    BY <2>5 DEF vars, EachItemIsBoughtOnce, Items, First, Second, Covers
  <2> QED
    BY <2>1, <2>2, <2>3, <2>4, <2>5 DEF Next
<1> QED
  BY <1>1, <1>2, PTL DEF Spec

-----------------------------------------------------------------------------
(* Types.                                                                  *)

InputOK == input \in Input

PricesOK ==
  /\ DOMAIN prices \subseteq DOMAIN input.stores
  /\ \A s \in DOMAIN prices : \A i \in DOMAIN prices[s] :
       i \in Items /\ prices[s][i] \in ListedRow

LEMMA RequestType ==
  ASSUME InputOK
  PROVE  /\ input.wanted \in Seq([item : Product, qty : 1..99])
         /\ input.stores \in Seq(StoreRow)
         /\ input.promotions \subseteq PromotionRow
         /\ IsFiniteSet(input.promotions)
         /\ input.mode \in Modes
         /\ Len(input.wanted) \in Nat /\ DOMAIN input.wanted = 1..Len(input.wanted)
         /\ \A i \in DOMAIN input.wanted : input.wanted[i] \in [item : Product, qty : 1..99]
         /\ \A s \in DOMAIN input.stores : s \in Nat /\ input.stores[s] \in StoreRow
<1>1. /\ input.wanted \in Seq([item : Product, qty : 1..99])
      /\ input.stores \in Seq(StoreRow) /\ input.mode \in Modes
      /\ input.promotions \subseteq PromotionRow /\ IsFiniteSet(input.promotions)
  BY InputAssumption, TableAssumption DEF InputOK, Request
<1>2. ASSUME NEW T, NEW q \in Seq(T), NEW i \in DOMAIN q
      PROVE  i \in Nat /\ q[i] \in T
  OBVIOUS
<1>3. \A i \in DOMAIN input.wanted : input.wanted[i] \in [item : Product, qty : 1..99]
  BY <1>1, <1>2
<1>4. \A s \in DOMAIN input.stores : s \in Nat /\ input.stores[s] \in StoreRow
  BY <1>1, <1>2
<1>5. Len(input.wanted) \in Nat /\ DOMAIN input.wanted = 1..Len(input.wanted)
  BY <1>1
<1> QED
  BY <1>1, <1>3, <1>4, <1>5

LEMMA ItemsAreFinite ==
  ASSUME InputOK
  PROVE  IsFiniteSet(Items)
<1> DEFINE n == Len(input.wanted)
           f == [i \in 1..n |-> input.wanted[i].item]
<1>1. n \in Nat /\ DOMAIN input.wanted = 1..n
  BY RequestType
<1>2. IsFiniteSet(1..n)
  BY <1>1, FS_Interval
<1>3. IsFiniteSet({f[i] : i \in 1..n})
  <2> HIDE DEF f
  <2> QED
    BY <1>2, ImageIsFinite
<1> QED
  BY <1>1, <1>3 DEF Items

LEMMA QtyType ==
  ASSUME InputOK, NEW item \in Items
  PROVE  Qty(item) \in 1..99
<1>1. PICK k \in DOMAIN input.wanted : input.wanted[k].item = item
  BY DEF Items
<1>2. \A i \in DOMAIN input.wanted : input.wanted[i].qty \in 1..99
  BY RequestType
<1> DEFINE n == Len(input.wanted)
           at == {i \in DOMAIN input.wanted : input.wanted[i].item = item}
<1>3. n \in Nat /\ DOMAIN input.wanted = 1..n
  BY RequestType
<1>4. IsFiniteSet(at)
  <2>1. IsFiniteSet(1..n)
    BY <1>3, FS_Interval
  <2> QED
    BY <1>3, <2>1, FS_Subset
<1>5. at \subseteq Int /\ at # {} /\ at \subseteq DOMAIN input.wanted
  BY <1>1, <1>3
<1>6. Qty(item) = input.wanted[Max(at)].qty
  BY DEF Qty
<1> HIDE DEF at
<1>7. \E m \in at : \A k2 \in at : m >= k2
  BY <1>4, <1>5, LeastAndGreatest
<1>8. Max(at) \in at
  BY <1>7 DEF Max
<1> QED
  BY <1>2, <1>5, <1>6, <1>8

LEMMA CentsType ==
  ASSUME NEW n \in Int, NEW d \in Nat \ {0}
  PROVE  Cents(n, d) \in Int
<1>1. n \div d \in Int /\ n % d \in Int
  OBVIOUS
<1> QED
  BY <1>1 DEF Cents

LEMMA TravelType ==
  ASSUME InputOK, NEW stores, NEW n \in Nat, DOMAIN stores = 1..n, Len(stores) \in Nat,
         \A k \in 1..n : stores[k] \in DOMAIN input.stores
  PROVE  TravelCost(stores) \in Int
<1> DEFINE f == [k \in 1..n |-> input.stores[stores[k]].minutes]
           t == travel_settings(input.mode)
<1>1. \A k \in 1..n : f[k] \in Int
  BY RequestType DEF StoreRow
<1>2. IsFiniteSet(1..n)
  BY FS_Interval
<1>3. SumFunction(f) = SumFunctionOnSet(f, 1..n)
  BY DEF SumFunction
<1>4. SumFunction(f) \in Int
  <2> HIDE DEF f
  <2> QED
    BY <1>1, <1>2, <1>3, SumIsInt
<1>5. Minutes(stores) \in Int
  BY <1>4 DEF Minutes
<1>6. t.penalty \in Int /\ t.hourly \in Int
  BY TravelAssumption DEF travel_settings
<1>7. t.penalty * Len(stores) * 600 + t.hourly * Minutes(stores) \in Int
  <2> HIDE DEF t
  <2>1. t.penalty * Len(stores) \in Int /\ t.hourly * Minutes(stores) \in Int
    BY <1>5, <1>6
  <2> QED
    BY <2>1
<1> HIDE DEF t
<1>8. TravelCost(stores) = Cents(t.penalty * Len(stores) * 600 + t.hourly * Minutes(stores), 600)
  BY DEF TravelCost, t
<1> QED
  BY <1>7, <1>8, CentsType

-----------------------------------------------------------------------------
(* A line.                                                                 *)

\* No number of bundles beats both none of them and as many as fit.
LEMMA BundlesAtTheirBest ==
  ASSUME NEW a \in Int, NEW p \in Int, NEW q \in Nat, NEW t \in Nat, t > 0,
         NEW k \in Nat, k * t <= q
  PROVE  /\ a * (q \div t) + p * (q % t) \in Int
         /\ \/ p * q <= k * a + (q - k * t) * p
            \/ q >= t /\ a * (q \div t) + p * (q % t) <= k * a + (q - k * t) * p
<1> DEFINE K == q \div t
           r == q % t
<1>1. K \in Nat /\ r \in Nat /\ r < t /\ q = K * t + r
  OBVIOUS
<1>2. k <= K
  <2>1. SUFFICES ASSUME k >= K + 1
                 PROVE  FALSE
    BY <1>1
  <2>2. k * t >= (K + 1) * t
    BY <1>1, <2>1
  <2>3. (K + 1) * t = K * t + t
    BY <1>1
  <2> HIDE DEF K, r
  <2> QED
    BY <1>1, <2>2, <2>3
<1> HIDE DEF K, r
<1>3. k * a + (q - k * t) * p = p * q + k * (a - t * p)
  OBVIOUS
<1>4. a * K + p * r = p * q + K * (a - t * p)
  BY <1>1
<1>5. p * q \in Int /\ a - t * p \in Int
  OBVIOUS
<1>6. CASE a - t * p >= 0
  <2>1. k * (a - t * p) >= 0
    BY <1>5, <1>6
  <2> QED
    BY <1>1, <1>3, <1>4, <1>5, <2>1 DEF K, r
<1>7. CASE a - t * p < 0
  <2>1. k * (a - t * p) >= K * (a - t * p)
    BY <1>1, <1>2, <1>5, <1>7
  <2>2. K = 0 => k = 0
    BY <1>1, <1>2
  <2>3. K > 0 => q >= t
    <3>1. K > 0 => K * t >= t
      BY <1>1
    <3> QED
      BY <1>1, <3>1
  <2>4. K = 0 => p * q <= k * a + (q - k * t) * p
    BY <2>2, <1>5
  <2>5. a * K + p * r <= k * a + (q - k * t) * p
    BY <1>1, <1>3, <1>4, <1>5, <2>1
  <2> QED
    BY <1>1, <2>3, <2>4, <2>5 DEF K, r
<1> QED
  BY <1>5, <1>6, <1>7

\* Which promotions classify lets through, and as what.
LEMMA ClassifyIs ==
  ASSUME NEW p \in PromotionRow
  PROVE  /\ classify(p) \in V1_KINDS
              => p.variants # {} /\ p.minPurchase = 0 /\ ~p.gift
         /\ p.variants # {} /\ p.minPurchase = 0 /\ ~p.gift
              => /\ classify(p) = "min_qty" <=> p.amount # None /\ p.minQty >= 20
                 /\ classify(p) = "fixed_price" <=> p.amount # None /\ p.minQty < 20
                 /\ classify(p) = "percent" <=> p.amount = None /\ p.rate > 0
<1>1. p.minPurchase \in Nat /\ p.minQty \in Nat /\ p.rate \in Nat /\ p.gift \in BOOLEAN
  BY DEF PromotionRow
<1>2. classify(p) \in V1_KINDS => p.variants # {} /\ p.minPurchase = 0 /\ ~p.gift
  BY <1>1 DEF classify, V1_KINDS
<1>3. ASSUME p.variants # {}, p.minPurchase = 0, ~p.gift
      PROVE  /\ classify(p) = "min_qty" <=> p.amount # None /\ p.minQty >= 20
             /\ classify(p) = "fixed_price" <=> p.amount # None /\ p.minQty < 20
             /\ classify(p) = "percent" <=> p.amount = None /\ p.rate > 0
  BY <1>1, <1>3 DEF classify
<1> QED
  BY <1>2, <1>3

LEMMA LineCostIs ==
  ASSUME NEW p \in PromotionRow, NEW qty \in Nat, NEW price \in Nat
  PROVE  /\ classify(p) = "fixed_price" => LineCost(p, qty, price) = p.amount * qty
         /\ classify(p) = "min_qty"
              => LineCost(p, qty, price) = IF qty < p.minQty \div 10 THEN None
                                           ELSE Bundled(p, qty, price)
         /\ classify(p) = "percent"
              => LineCost(p, qty, price) = Cents(price * qty * (10000 - Part(p)), 10000)
<1>1. p.rate \in Nat
  BY DEF PromotionRow
<1>2. Part(p) \in Int /\ Part(p) = IF p.rate > 100 THEN p.rate ELSE p.rate * 100
  BY <1>1 DEF Part
<1> QED
  BY <1>2 DEF LineCost

LEMMA PercentType ==
  ASSUME NEW p \in PromotionRow, NEW goods \in Int
  PROVE  Cents(goods * (10000 - Part(p)), 10000) \in Int
<1>1. 10000 - Part(p) \in Int
  BY DEF PromotionRow, Part
<1>2. goods * (10000 - Part(p)) \in Int
  BY <1>1
<1> QED
  BY <1>2, CentsType

-----------------------------------------------------------------------------
(* The price that apply_promotions finds is the least that can be paid.    *)

LineOptions(s, item) ==
  {prices[s][item].price * Qty(item)}
    \cup ({LineCost(p, Qty(item), prices[s][item].price) :
             p \in {u \in Usable(s) : prices[s][item].variant \in u.variants}} \ {None})

\* A set that is covered from below by one of its parts has the same minimum.
LEMMA SameMinimum ==
  ASSUME NEW L, IsFiniteSet(L), L \subseteq Int, L # {}, NEW P, L \subseteq P,
         \A x \in P : x \in Int /\ \E y \in L : y <= x
  PROVE  Min(L) \in Int /\ Min(L) = Min(P)
<1>1. PICK m \in L : \A n \in L : m <= n
  BY LeastAndGreatest
<1>2. \A x \in P : m <= x
  <2> TAKE x \in P
  <2>1. PICK y \in L : y <= x
    OBVIOUS
  <2> QED
    BY <1>1, <2>1
<1>3. Min(L) \in L /\ \A y \in L : Min(L) <= y
  BY <1>1 DEF Min
<1>4. Min(P) \in P /\ \A y \in P : Min(P) <= y
  BY <1>1, <1>2 DEF Min
<1>5. m \in Int /\ m \in P /\ Min(L) \in Int /\ Min(P) \in Int
  BY <1>1, <1>3, <1>4
<1>6. Min(L) <= m /\ m <= Min(L) /\ Min(P) <= m /\ m <= Min(P)
  BY <1>1, <1>2, <1>3, <1>4, <1>5
<1> QED
  BY <1>5, <1>6

LEMMA LineIsPayable ==
  ASSUME InputOK, PricesOK, NEW s \in DOMAIN prices, NEW item \in DOMAIN prices[s]
  PROVE  Line(s, item) \in Int /\ Line(s, item) = Payable(s, item)
<1> DEFINE qty == Qty(item)
           row == prices[s][item]
           price == row.price
           U == {u \in Usable(s) : row.variant \in u.variants}
           L == LineOptions(s, item)
           P == PayOptions(s, item)
<1>1. item \in Items /\ row \in ListedRow
  BY DEF PricesOK
<1>2. price \in Nat /\ qty \in Nat /\ price * qty \in Int
  <2>1. price \in Nat
    BY <1>1 DEF ListedRow
  <2>2. qty \in 1..99
    BY <1>1, QtyType
  <2> QED
    BY <2>1, <2>2
<1>3. \A p \in input.promotions : p \in PromotionRow /\ (p.amount # None => p.amount \in Nat)
  <2>1. input.promotions \subseteq PromotionRow
    BY RequestType
  <2> QED
    BY <2>1 DEF PromotionRow
<1>4. \A p \in U : p \in OpenTo(s, item)
  <2> TAKE p \in U
  <2>1. p \in PromotionRow /\ classify(p) \in V1_KINDS
    BY <1>3 DEF Usable
  <2>2. p.minPurchase = 0 /\ ~p.gift
    BY <2>1, ClassifyIs
  <2> QED
    BY <2>2 DEF Usable, OpenTo
<1>5. \A p \in OpenTo(s, item) :
        /\ classify(p) = "min_qty" <=> p.amount # None /\ p.minQty >= 20
        /\ classify(p) = "fixed_price" <=> p.amount # None /\ p.minQty < 20
        /\ classify(p) = "percent" <=> p.amount = None /\ p.rate > 0
        /\ classify(p) \in V1_KINDS => p \in U
        /\ p \in PromotionRow
  <2> TAKE p \in OpenTo(s, item)
  <2>1. p \in PromotionRow /\ p.variants # {} /\ p.minPurchase = 0 /\ ~p.gift
    BY <1>3 DEF OpenTo
  <2>2. classify(p) \in V1_KINDS => p \in U
    BY DEF OpenTo, Usable
  <2> QED
    BY <2>1, <2>2, ClassifyIs
<1>6. L = {price * qty} \cup ({LineCost(p, qty, price) : p \in U} \ {None})
  BY DEF LineOptions
<1> DEFINE P1 == BundleOptions(s, item)
           P2 == FixedOptions(s, item)
           P3 == PercentOptions(s, item)
<1>7. P = {price * qty} \cup P1 \cup P2 \cup P3
  BY DEF PayOptions
<1> HIDE DEF L, P, P1, P2, P3
<1>8. IsFiniteSet(L)
  <2> DEFINE c == [p \in U |-> LineCost(p, qty, price)]
  <2>1. IsFiniteSet(U)
    <3>1. U \in SUBSET input.promotions
      BY DEF Usable
    <3> HIDE DEF U
    <3> QED
      BY <3>1, RequestType, FS_Subset
  <2>2. IsFiniteSet({c[p] : p \in U})
    <3> HIDE DEF c, U
    <3> QED
      BY <2>1, ImageIsFinite
  <2>3. {LineCost(p, qty, price) : p \in U} = {c[p] : p \in U}
    <3> HIDE DEF qty, price
    <3> QED
      OBVIOUS
  <2>4. L \subseteq {price * qty} \cup {c[p] : p \in U}
    BY <1>6, <2>3
  <2>5. IsFiniteSet({price * qty} \cup {c[p] : p \in U})
    BY <2>2, FS_Singleton, FS_Union
  <2> HIDE DEF c, U, qty, price
  <2> QED
    BY <2>4, <2>5, FS_Subset
<1> HIDE DEF U, qty, price, row
<1>9. ASSUME NEW p \in U, LineCost(p, qty, price) # None
      PROVE  LineCost(p, qty, price) \in P
  <2>1. p \in OpenTo(s, item) /\ p \in PromotionRow /\ classify(p) \in V1_KINDS
    BY <1>4, <1>5 DEF Usable, U
  <2>2. CASE classify(p) = "fixed_price"
    <3>1. LineCost(p, qty, price) = qty * p.amount
      <4>1. p.amount \in Nat
        BY <1>3, <1>5, <2>1, <2>2 DEF OpenTo
      <4> QED
        BY <1>2, <2>1, <2>2, <4>1, LineCostIs
    <3>2. p \in Fixing(s, item)
      BY <1>5, <2>1, <2>2 DEF Fixing
    <3>3. LineCost(p, qty, price) \in P2
      BY <3>1, <3>2 DEF P2, FixedOptions, qty
    <3> QED
      BY <1>7, <3>3
  <2>3. CASE classify(p) = "min_qty"
    <3> DEFINE t == p.minQty \div 10
               k == qty \div t
    <3>1. p \in Bundling(s, item)
      BY <1>5, <2>1, <2>3 DEF Bundling
    <3>2. p.amount \in Nat /\ p.minQty \in Nat /\ p.minQty >= 20
      BY <1>3, <2>1, <3>1 DEF PromotionRow, OpenTo, Bundling
    <3>3. t \in Nat /\ t > 0
      BY <3>2
    <3>4. LineCost(p, qty, price) = p.amount * k + price * (qty % t)
      BY <1>2, <1>9, <2>1, <2>3, LineCostIs DEF Bundled
    <3> HIDE DEF t
    <3>5. k \in 0..qty /\ k * t <= qty /\ qty % t = qty - k * t /\ k * t \in Nat
      <4>1. k \in Nat /\ qty % t \in Nat /\ qty = (k * t) + (qty % t)
        BY <1>2, <3>3
      <4> HIDE DEF k
      <4>2. k * t >= k
        <5>1. k * t = k + k * (t - 1) /\ k * (t - 1) >= 0
          BY <3>3, <4>1
        <5> QED
          BY <3>3, <4>1, <5>1
      <4> QED
        BY <1>2, <3>3, <4>1, <4>2
    <3> HIDE DEF k
    <3>6. LineCost(p, qty, price) = k * p.amount + (qty - k * t) * price
      BY <1>2, <3>2, <3>3, <3>4, <3>5
    <3>7. LineCost(p, qty, price) \in BundlesOf(p, qty, price)
      BY <3>5, <3>6 DEF BundlesOf, t
    <3>8. LineCost(p, qty, price) \in P1
      BY <3>1, <3>7 DEF P1, BundleOptions, qty, price, row
    <3> QED
      BY <1>7, <3>8
  <2>4. CASE classify(p) = "percent"
    <3>1. LineCost(p, qty, price) = Cents(price * qty * (10000 - Part(p)), 10000)
      BY <1>2, <2>1, <2>4, LineCostIs
    <3>2. p \in Discounting(s, item)
      BY <1>5, <2>1, <2>4 DEF Discounting
    <3>3. LineCost(p, qty, price) \in P3
      BY <3>1, <3>2 DEF P3, PercentOptions, qty, price, row
    <3> QED
      BY <1>7, <3>3
  <2> QED
    BY <2>1, <2>2, <2>3, <2>4 DEF V1_KINDS
<1>10. L \subseteq P
  BY <1>6, <1>7, <1>9
<1>11. ASSUME NEW p \in OpenTo(s, item), p.amount # None, p.minQty >= 20,
              NEW x \in BundlesOf(p, qty, price)
       PROVE  x \in Int /\ \E y \in L : y <= x
  <2> DEFINE t == p.minQty \div 10
  <2>1. p.amount \in Int /\ p.minQty \in Nat
    BY <1>3, <1>5, <1>11 DEF PromotionRow, OpenTo
  <2>2. t \in Nat /\ t > 0
    BY <1>11, <2>1
  <2> HIDE DEF t
  <2>3. PICK k \in 0..qty : k * t <= qty /\ x = k * p.amount + (qty - k * t) * price
    BY DEF BundlesOf, t
  <2>4. k \in Nat
    BY <1>2, <2>3
  <2>5. /\ p.amount * (qty \div t) + price * (qty % t) \in Int
        /\ \/ price * qty <= x
           \/ qty >= t /\ p.amount * (qty \div t) + price * (qty % t) <= x
    <3> DEFINE a == p.amount
    <3>1. a \in Int /\ price \in Int /\ k * t <= qty
      BY <1>2, <2>1, <2>3
    <3> HIDE DEF a
    <3>2. /\ a * (qty \div t) + price * (qty % t) \in Int
          /\ \/ price * qty <= k * a + (qty - k * t) * price
             \/ qty >= t /\ a * (qty \div t) + price * (qty % t) <= k * a + (qty - k * t) * price
      BY <1>2, <2>2, <2>4, <3>1, BundlesAtTheirBest
    <3>3. x = k * a + (qty - k * t) * price
      BY <2>3 DEF a
    <3> QED
      BY <3>2, <3>3 DEF a
  <2>6. x \in Int
    <3>1. k * p.amount \in Int /\ qty - k * t \in Int
      BY <1>2, <2>1, <2>2, <2>4
    <3>2. (qty - k * t) * price \in Int
      BY <1>2, <3>1
    <3> QED
      BY <2>3, <3>1, <3>2
  <2>7. CASE price * qty <= x
    BY <1>6, <2>6, <2>7
  <2>8. CASE qty >= t /\ p.amount * (qty \div t) + price * (qty % t) <= x
    <3>1. p \in U /\ p \in PromotionRow /\ classify(p) = "min_qty"
      BY <1>5, <1>11 DEF V1_KINDS
    <3>2. ~(qty < t)
      BY <1>2, <2>2, <2>8
    <3>3. LineCost(p, qty, price) = Bundled(p, qty, price)
      BY <1>2, <3>1, <3>2, LineCostIs DEF t
    <3>4. Bundled(p, qty, price) = p.amount * (qty \div t) + price * (qty % t)
      BY DEF Bundled, t
    <3>5. LineCost(p, qty, price) \in Int /\ LineCost(p, qty, price) <= x
      BY <2>5, <2>8, <3>3, <3>4
    <3>6. LineCost(p, qty, price) \in L
      BY <1>6, <3>1, <3>5, NoneAssumption
    <3> QED
      BY <2>6, <3>5, <3>6
  <2> QED
    BY <2>5, <2>7, <2>8
<1>12. ASSUME NEW p \in OpenTo(s, item), p.amount # None, p.minQty < 20
       PROVE  qty * p.amount \in Int /\ qty * p.amount \in L
  <2>1. p.amount \in Nat /\ p \in U /\ p \in PromotionRow /\ classify(p) = "fixed_price"
    BY <1>3, <1>5, <1>12 DEF V1_KINDS, OpenTo
  <2>2. LineCost(p, qty, price) = p.amount * qty
    BY <1>2, <2>1, LineCostIs
  <2>3. p.amount * qty = qty * p.amount /\ qty * p.amount \in Int
    BY <1>2, <2>1
  <2> QED
    BY <1>6, <2>1, <2>2, <2>3, NoneAssumption
<1>13. ASSUME NEW p \in OpenTo(s, item), p.amount = None, p.rate > 0
       PROVE  /\ Cents(price * qty * (10000 - Part(p)), 10000) \in Int
              /\ Cents(price * qty * (10000 - Part(p)), 10000) \in L
  <2>1. p \in U /\ p \in PromotionRow /\ classify(p) = "percent"
    BY <1>5, <1>13 DEF V1_KINDS
  <2>2. LineCost(p, qty, price) = Cents(price * qty * (10000 - Part(p)), 10000)
    BY <1>2, <2>1, LineCostIs
  <2>3. Cents(price * qty * (10000 - Part(p)), 10000) \in Int
    BY <1>2, <2>1, PercentType
  <2> QED
    BY <1>6, <2>1, <2>2, <2>3, NoneAssumption
<1>14. ASSUME NEW x \in P
       PROVE  x \in Int /\ \E y \in L : y <= x
  <2>1. \/ x = price * qty \/ x \in P1 \/ x \in P2 \/ x \in P3
    BY <1>7
  <2>2. CASE x = price * qty
    <3>1. price * qty \in L
      BY <1>6
    <3> QED
      BY <1>2, <2>2, <3>1
  <2>3. CASE x \in P1
    <3>1. PICK p \in Bundling(s, item) : x \in BundlesOf(p, qty, price)
      BY <2>3 DEF P1, BundleOptions, qty, price, row
    <3> QED
      BY <1>11, <3>1 DEF Bundling
  <2>4. CASE x \in P2
    <3>1. PICK p \in Fixing(s, item) : x = qty * p.amount
      BY <2>4 DEF P2, FixedOptions, qty
    <3>2. x \in Int /\ x \in L
      BY <1>12, <3>1 DEF Fixing
    <3> QED
      BY <3>2
  <2>5. CASE x \in P3
    <3>1. PICK p \in Discounting(s, item) :
                 x = Cents(price * qty * (10000 - Part(p)), 10000)
      BY <2>5 DEF P3, PercentOptions, qty, price, row
    <3>2. x \in Int /\ x \in L
      BY <1>13, <3>1 DEF Discounting
    <3> QED
      BY <3>2
  <2> QED
    BY <2>1, <2>2, <2>3, <2>4, <2>5
<1>15. L # {} /\ L \subseteq Int
  BY <1>6, <1>10, <1>14
<1>16. Min(L) \in Int /\ Min(L) = Min(P)
  BY <1>8, <1>10, <1>14, <1>15, SameMinimum
<1>17. Line(s, item) = Min(L)
  BY DEF Line, LineOptions, L
<1>18. Payable(s, item) = Min(P)
  BY DEF Payable, P
<1> QED
  BY <1>16, <1>17, <1>18
-----------------------------------------------------------------------------
(* A pair.  Its cost is a sum of lines, and a move changes one of them.     *)

LinesAt(s) == [i \in Items |-> Line(s, i)]

Sold(s) == {i \in Items : Covers(s, i)}

LEMMA LinesAtType ==
  ASSUME InputOK, PricesOK, NEW s \in DOMAIN prices, NEW i \in Sold(s)
  PROVE  /\ LinesAt(s)[i] = Line(s, i) /\ LinesAt(s)[i] = Payable(s, i)
         /\ LinesAt(s)[i] \in Int
<1>1. i \in Items /\ i \in DOMAIN prices[s]
  BY DEF Sold, Covers
<1>2. LinesAt(s)[i] = Line(s, i)
  BY <1>1 DEF LinesAt
<1> QED
  BY <1>1, <1>2, LineIsPayable

LEMMA SumOfLines ==
  ASSUME InputOK, PricesOK, NEW s \in DOMAIN prices, NEW W \in SUBSET Sold(s)
  PROVE  /\ IsFiniteSet(W) /\ SumFunctionOnSet(LinesAt(s), W) \in Int
         /\ SumFunction([j \in W |-> Payable(s, j)]) = SumFunctionOnSet(LinesAt(s), W)
         /\ PriceAt(s, W) = SumFunctionOnSet(LinesAt(s), W)
<1>1. IsFiniteSet(W) /\ \A j \in W : LinesAt(s)[j] \in Int
  <2>1. W \subseteq Items
    BY DEF Sold
  <2> QED
    BY <2>1, ItemsAreFinite, FS_Subset, LinesAtType
<1>2. SumFunctionOnSet(LinesAt(s), W) \in Int
  BY <1>1, SumIsInt
<1>3. SumFunction([j \in W |-> Payable(s, j)]) = SumFunctionOnSet(LinesAt(s), W)
  <2> DEFINE g == [j \in W |-> Payable(s, j)]
  <2>1. DOMAIN g = W /\ \A j \in W : g[j] \in Int /\ g[j] = LinesAt(s)[j]
    BY <1>1, LinesAtType
  <2>2. SumFunction(g) = SumFunctionOnSet(g, W)
    BY <2>1 DEF SumFunction
  <2> HIDE DEF g
  <2>3. SumFunctionOnSet(g, W) = SumFunctionOnSet(LinesAt(s), W)
    BY <1>1, <2>1, SumSame
  <2> QED
    BY <2>2, <2>3 DEF g
<1>4. PriceAt(s, W) = SumFunctionOnSet(LinesAt(s), W)
  <2> DEFINE g == [j \in W |-> Line(s, j)]
  <2>1. DOMAIN g = W /\ \A j \in W : g[j] \in Int /\ g[j] = LinesAt(s)[j]
    BY <1>1, LinesAtType
  <2>2. {j \in W : Covers(s, j)} = W
    BY DEF Sold
  <2>3. PriceAt(s, W) = SumFunction(g)
    BY <2>2 DEF PriceAt
  <2>4. SumFunction(g) = SumFunctionOnSet(g, W)
    BY <2>1 DEF SumFunction
  <2> HIDE DEF g
  <2>5. SumFunctionOnSet(g, W) = SumFunctionOnSet(LinesAt(s), W)
    BY <1>1, <2>1, SumSame
  <2> QED
    BY <2>3, <2>4, <2>5
<1> QED
  BY <1>1, <1>2, <1>3, <1>4

\* The whole basket at a store: what it does not sell costs nothing.
LEMMA PriceOfAll ==
  ASSUME InputOK, PricesOK, NEW s \in DOMAIN prices
  PROVE  PriceAt(s, Items) = PriceAt(s, Sold(s))
<1>1. {j \in Items : Covers(s, j)} = {j \in Sold(s) : Covers(s, j)}
  BY DEF Sold
<1> QED
  BY <1>1 DEF PriceAt

\* _settled: the item would not be cheaper in the other store.
Settled(item) ==
  \A s, t \in DOMAIN prices : s = First /\ t = Second =>
    /\ item \in left /\ Covers(t, item) => Line(s, item) <= Line(t, item)
    /\ item \in right /\ Covers(s, item) => Line(t, item) <= Line(s, item)

PairOK == First \in DOMAIN prices /\ Second \in DOMAIN prices

\* assign_pair: where moving an item does not make the basket cheaper, its line is the
\* lower of the two.
LEMMA NoGainIsSettled ==
  ASSUME InputOK, PricesOK, PairOK, pc = "improve", EachItemIsBoughtOnce, NEW x \in Items,
         ~Gains(Moved(x))
  PROVE  Settled(x)
<1> DEFINE a == LinesAt(First)
           b == LinesAt(Second)
           A(W) == SumFunctionOnSet(a, W)
           B(W) == SumFunctionOnSet(b, W)
<1>1. /\ left \in SUBSET Sold(First) /\ right \in SUBSET Sold(Second)
      /\ left \cap right = {}
  BY DEF EachItemIsBoughtOnce, Sold
<1>2. ASSUME NEW W \in SUBSET Sold(First)
      PROVE  IsFiniteSet(W) /\ PriceAt(First, W) = A(W) /\ A(W) \in Int
  BY SumOfLines DEF PairOK
<1>3. ASSUME NEW W \in SUBSET Sold(Second)
      PROVE  IsFiniteSet(W) /\ PriceAt(Second, W) = B(W) /\ B(W) \in Int
  BY SumOfLines DEF PairOK
<1>4. \A i \in Sold(First) : a[i] = Line(First, i) /\ a[i] \in Int
  BY LinesAtType DEF PairOK
<1>5. \A i \in Sold(Second) : b[i] = Line(Second, i) /\ b[i] \in Int
  BY LinesAtType DEF PairOK
<1> HIDE DEF a, b
<1>6. Combined(left, right) = A(left) + B(right)
  BY <1>1, <1>2, <1>3 DEF Combined
<1>7. ASSUME x \in left, Covers(Second, x)
      PROVE  Line(First, x) <= Line(Second, x)
  <2> DEFINE l == left \ {x}
             r == right \cup {x}
  <2>1. l \in SUBSET Sold(First) /\ r \in SUBSET Sold(Second) /\ r \ {x} = right
    BY <1>1, <1>7 DEF Sold
  <2>2. Moved(x) = <<l, r>>
    BY <1>1, <1>7 DEF Moved
  <2>3. Combined(l, r) = A(l) + B(r)
    BY <1>2, <1>3, <2>1 DEF Combined
  <2>4. x \in Sold(First) /\ x \in Sold(Second)
    BY <1>1, <1>7 DEF Sold
  <2>5. A(left) = a[x] + A(l)
    BY <1>1, <1>2, <1>4, <1>7, SumRemove
  <2>6. B(r) = b[x] + B(right)
    <3>1. IsFiniteSet(r) /\ x \in r /\ \A i \in r : b[i] \in Int
      BY <1>3, <1>5, <2>1
    <3>2. B(r) = b[x] + B(r \ {x})
      <4> HIDE DEF r
      <4> QED
        BY <3>1, SumRemove
    <3> QED
      BY <2>1, <3>2
  <2>7. ~(Combined(l, r) < Combined(left, right))
    BY <2>2 DEF Gains
  <2>8. A(left) \in Int /\ A(l) \in Int /\ B(r) \in Int /\ B(right) \in Int
    BY <1>1, <1>2, <1>3, <2>1
  <2>9. a[x] \in Int /\ b[x] \in Int /\ a[x] = Line(First, x) /\ b[x] = Line(Second, x)
    BY <1>4, <1>5, <2>4
  <2> HIDE DEF A, B, l, r
  <2> QED
    BY <1>6, <2>3, <2>5, <2>6, <2>7, <2>8, <2>9
<1>8. ASSUME x \in right, Covers(First, x)
      PROVE  Line(Second, x) <= Line(First, x)
  <2> DEFINE l == left \cup {x}
             r == right \ {x}
  <2>1. l \in SUBSET Sold(First) /\ r \in SUBSET Sold(Second) /\ l \ {x} = left
    BY <1>1, <1>8 DEF Sold
  <2>2. Moved(x) = <<l, r>>
    BY <1>1, <1>8 DEF Moved
  <2>3. Combined(l, r) = A(l) + B(r)
    BY <1>2, <1>3, <2>1 DEF Combined
  <2>4. x \in Sold(First) /\ x \in Sold(Second)
    BY <1>1, <1>8 DEF Sold
  <2>5. B(right) = b[x] + B(r)
    BY <1>1, <1>3, <1>5, <1>8, SumRemove
  <2>6. A(l) = a[x] + A(left)
    <3>1. IsFiniteSet(l) /\ x \in l /\ \A i \in l : a[i] \in Int
      BY <1>2, <1>4, <2>1
    <3>2. A(l) = a[x] + A(l \ {x})
      <4> HIDE DEF l
      <4> QED
        BY <3>1, SumRemove
    <3> QED
      BY <2>1, <3>2
  <2>7. ~(Combined(l, r) < Combined(left, right))
    BY <2>2 DEF Gains
  <2>8. A(left) \in Int /\ A(l) \in Int /\ B(r) \in Int /\ B(right) \in Int
    BY <1>1, <1>2, <1>3, <2>1
  <2>9. a[x] \in Int /\ b[x] \in Int /\ a[x] = Line(First, x) /\ b[x] = Line(Second, x)
    BY <1>4, <1>5, <2>4
  <2> HIDE DEF A, B, l, r
  <2> QED
    BY <1>6, <2>3, <2>5, <2>6, <2>7, <2>8, <2>9
<1> QED
  BY <1>7, <1>8 DEF Settled

\* assign_pair: where every item is settled, the basket cannot be bought for less.
LEMMA SettledIsOptimal ==
  ASSUME InputOK, PricesOK, PairOK, pc = "improve", EachItemIsBoughtOnce,
         \A x \in Items : Settled(x)
  PROVE  /\ Combined(left, right) \in Int
         /\ Combined(left, right) = CheapestSplit(First, Second)
<1> DEFINE a == LinesAt(First)
           b == LinesAt(Second)
           m == [j \in Items |-> IF j \in left THEN a[j] ELSE b[j]]
           A(W) == SumFunctionOnSet(a, W)
           B(W) == SumFunctionOnSet(b, W)
           M(W) == SumFunctionOnSet(m, W)
           either == SoldByEither(First, Second)
           costs == {CostOf(First, Second, w) : w \in WaysToSplit(First, Second)}
<1>1. /\ left \in SUBSET Sold(First) /\ right \in SUBSET Sold(Second)
      /\ left \cap right = {} /\ either = left \cup right
  BY DEF EachItemIsBoughtOnce, Sold, SoldByEither
<1>2. ASSUME NEW W \in SUBSET Sold(First)
      PROVE  /\ IsFiniteSet(W) /\ PriceAt(First, W) = A(W) /\ A(W) \in Int
             /\ SumFunction([j \in W |-> Payable(First, j)]) = A(W)
  BY SumOfLines DEF PairOK
<1>3. ASSUME NEW W \in SUBSET Sold(Second)
      PROVE  /\ IsFiniteSet(W) /\ PriceAt(Second, W) = B(W) /\ B(W) \in Int
             /\ SumFunction([j \in W |-> Payable(Second, j)]) = B(W)
  BY SumOfLines DEF PairOK
<1>4. \A i \in Sold(First) : a[i] = Line(First, i) /\ a[i] \in Int /\ i \in Items
  BY LinesAtType DEF PairOK, Sold
<1>5. \A i \in Sold(Second) : b[i] = Line(Second, i) /\ b[i] \in Int /\ i \in Items
  BY LinesAtType DEF PairOK, Sold
<1> HIDE DEF a, b, either
<1>6. \A j \in left : m[j] = a[j] /\ m[j] \in Int
  BY <1>1, <1>4
<1>7. \A j \in right : m[j] = b[j] /\ m[j] \in Int
  BY <1>1, <1>5
<1>8. \A j \in either \cap Sold(First) : m[j] <= a[j] /\ m[j] \in Int /\ a[j] \in Int
  <2> TAKE j \in either \cap Sold(First)
  <2>1. CASE j \in left
    BY <1>4, <1>6, <2>1
  <2>2. CASE j \in right
    <3>1. Line(Second, j) <= Line(First, j)
      BY <1>4, <2>2 DEF Settled, Sold, PairOK
    <3> QED
      BY <1>1, <1>4, <1>5, <1>7, <2>2, <3>1
  <2> QED
    BY <1>1, <2>1, <2>2
<1>9. \A j \in either \cap Sold(Second) : m[j] <= b[j] /\ m[j] \in Int /\ b[j] \in Int
  <2> TAKE j \in either \cap Sold(Second)
  <2>1. CASE j \in right
    BY <1>5, <1>7, <2>1
  <2>2. CASE j \in left
    <3>1. Line(First, j) <= Line(Second, j)
      BY <1>5, <2>2 DEF Settled, Sold, PairOK
    <3> QED
      BY <1>1, <1>4, <1>5, <1>6, <2>2, <3>1
  <2> QED
    BY <1>1, <2>1, <2>2
<1> HIDE DEF m
<1>10. Combined(left, right) = A(left) + B(right) /\ Combined(left, right) \in Int
  <2>1. PriceAt(First, left) = A(left) /\ A(left) \in Int
    BY <1>1, <1>2
  <2>2. PriceAt(Second, right) = B(right) /\ B(right) \in Int
    BY <1>1, <1>3
  <2> HIDE DEF A, B
  <2> QED
    BY <2>1, <2>2 DEF Combined
<1>11. M(left) = A(left) /\ M(right) = B(right)
  <2>1. IsFiniteSet(left) /\ IsFiniteSet(right)
    BY <1>1, <1>2, <1>3
  <2> QED
    BY <1>6, <1>7, <2>1, SumSame
<1>12. \A j \in either : m[j] \in Int
  BY <1>1, <1>6, <1>7
<1>13. Combined(left, right) = M(either)
  <2>1. M(left \cup right) = M(left) + M(right)
    <3>1. IsFiniteSet(left) /\ IsFiniteSet(right)
      BY <1>1, <1>2, <1>3
    <3>2. left \cap right = {} /\ \A j \in left \cup right : m[j] \in Int
      BY <1>1, <1>12
    <3> QED
      BY <3>1, <3>2, SumUnion
  <2> HIDE DEF A, B, M
  <2> QED
    BY <1>1, <1>10, <1>11, <2>1
<1>14. Combined(left, right) \in costs
  <2>1. left \in WaysToSplit(First, Second)
    BY <1>1 DEF WaysToSplit, Sold, either
  <2>2. either \ left = right
    BY <1>1
  <2>3. CostOf(First, Second, left) = A(left) + B(right)
    BY <1>1, <1>2, <1>3, <2>2 DEF CostOf, either
  <2> QED
    BY <1>10, <2>1, <2>3
<1>15. ASSUME NEW w \in WaysToSplit(First, Second)
       PROVE  Combined(left, right) <= CostOf(First, Second, w)
  <2> DEFINE r == either \ w
  <2>1. /\ w \in SUBSET Sold(First) /\ r \in SUBSET Sold(Second)
        /\ w \cap r = {} /\ w \cup r = either
    BY DEF WaysToSplit, Sold, SoldByEither, either
  <2>2. CostOf(First, Second, w) = A(w) + B(r)
    BY <1>2, <1>3, <2>1 DEF CostOf, either
  <2> HIDE DEF r
  <2>3. IsFiniteSet(w) /\ IsFiniteSet(r) /\ A(w) \in Int /\ B(r) \in Int
    BY <1>2, <1>3, <2>1
  <2>4. M(w) <= A(w)
    BY <1>8, <2>1, <2>3, SumAtMost
  <2>5. M(r) <= B(r)
    BY <1>9, <2>1, <2>3, SumAtMost
  <2>6. M(either) = M(w) + M(r)
    BY <1>12, <2>1, <2>3, SumUnion
  <2>7. M(w) \in Int /\ M(r) \in Int
    BY <1>12, <2>1, <2>3, SumIsInt
  <2> HIDE DEF A, B, M
  <2> QED
    BY <1>13, <2>2, <2>3, <2>4, <2>5, <2>6, <2>7
<1>16. ASSUME NEW w \in WaysToSplit(First, Second)
       PROVE  CostOf(First, Second, w) \in Int
  <2>1. w \in SUBSET Sold(First) /\ either \ w \in SUBSET Sold(Second)
    BY DEF WaysToSplit, Sold, SoldByEither, either
  <2> QED
    BY <1>2, <1>3, <2>1 DEF CostOf, either
<1>17. \A c \in costs : c \in Int /\ Combined(left, right) <= c
  BY <1>15, <1>16
<1> HIDE DEF costs
<1>18. Min(costs) \in costs /\ \A c \in costs : Min(costs) <= c
  BY <1>14, <1>17 DEF Min
<1>19. Min(costs) = Combined(left, right)
  <2>1. Min(costs) \in Int
    BY <1>17, <1>18
  <2>2. Min(costs) <= Combined(left, right) /\ Combined(left, right) <= Min(costs)
    BY <1>14, <1>17, <1>18
  <2> QED
    BY <1>10, <2>1, <2>2
<1> QED
  BY <1>10, <1>19 DEF CheapestSplit, costs

-----------------------------------------------------------------------------
(* The single stores, in order.                                            *)

LEMMA SingleIs ==
  ASSUME InputOK, PricesOK, NEW s \in DOMAIN prices
  PROVE  /\ Single(s).stores = <<s>> /\ Single(s).missing = Items \ Sold(s)
         /\ Single(s).total \in Int
         /\ Single(s).total
              = SumFunction([i \in Sold(s) |-> Payable(s, i)]) + TravelCost(<<s>>)
         /\ Cardinality(Single(s).missing) \in Nat /\ IsFiniteSet(Single(s).missing)
         /\ s \in Int /\ s \in DOMAIN input.stores
<1>1. /\ Single(s).stores = <<s>> /\ Single(s).missing = Items \ Sold(s)
      /\ Single(s).total = PriceAt(s, Items) + TravelCost(<<s>>)
  BY DEF Single, Plan, Sold
<1>2. PriceAt(s, Items) = SumFunction([i \in Sold(s) |-> Payable(s, i)])
      /\ PriceAt(s, Items) \in Int
  <2>1. Sold(s) \in SUBSET Sold(s)
    OBVIOUS
  <2>2. /\ SumFunctionOnSet(LinesAt(s), Sold(s)) \in Int
        /\ SumFunction([j \in Sold(s) |-> Payable(s, j)])
             = SumFunctionOnSet(LinesAt(s), Sold(s))
        /\ PriceAt(s, Sold(s)) = SumFunctionOnSet(LinesAt(s), Sold(s))
    BY <2>1, SumOfLines
  <2> QED
    BY <2>2, PriceOfAll
<1>3. s \in Int /\ s \in DOMAIN input.stores
  <2>1. s \in DOMAIN input.stores
    BY DEF PricesOK
  <2> QED
    BY <2>1, RequestType
<1>4. TravelCost(<<s>>) \in Int
  <2> DEFINE q == <<s>>
  <2>1. DOMAIN q = 1..1 /\ Len(q) = 1 /\ \A k \in 1..1 : q[k] \in DOMAIN input.stores
    BY <1>3
  <2> HIDE DEF q
  <2>2. TravelCost(q) \in Int
    BY <2>1, TravelType
  <2> QED
    BY <2>2 DEF q
<1>5. Cardinality(Items \ Sold(s)) \in Nat /\ IsFiniteSet(Items \ Sold(s))
  BY ItemsAreFinite, FS_Subset, FS_CardinalityType
<1> QED
  BY <1>1, <1>2, <1>3, <1>4, <1>5

LEMMA SinglesAreOrdered ==
  ASSUME InputOK, PricesOK
  PROVE  LET n == Cardinality(Singles)
         IN  /\ n \in Nat /\ solve_single \in [1..n -> Singles]
             /\ \A i, j \in 1..n : i < j => Before(solve_single[i], solve_single[j])
             /\ \A p \in Singles : \E k \in 1..n : solve_single[k] = p
<1> DEFINE n == Cardinality(Singles)
           R == {x \in Singles \X Singles : Before(x[1], x[2])}
           C(p) == Cardinality(p.missing)
           N(p) == p.stores[1]
<1>1. IsFiniteSet(Singles)
  <2> DEFINE f == [s \in DOMAIN prices |-> Single(s)]
  <2>1. IsFiniteSet(DOMAIN prices)
    <3>1. DOMAIN prices \subseteq 1..Len(input.stores) /\ Len(input.stores) \in Nat
      BY RequestType DEF PricesOK
    <3>2. IsFiniteSet(1..Len(input.stores))
      BY <3>1, FS_Interval
    <3> QED
      BY <3>1, <3>2, FS_Subset
  <2>2. Singles = {f[s] : s \in DOMAIN prices}
    BY DEF Singles
  <2> HIDE DEF f
  <2> QED
    BY <2>1, <2>2, ImageIsFinite
<1>2. \A p \in Singles : C(p) \in Int /\ p.total \in Int /\ N(p) \in Int
                          /\ N(p) \in DOMAIN prices /\ p = Single(N(p))
  <2>1. ASSUME NEW s \in DOMAIN prices
        PROVE  LET p == Single(s)
               IN  C(p) \in Int /\ p.total \in Int /\ N(p) = s /\ s \in Int
    <3>1. /\ Single(s).stores = <<s>> /\ Single(s).total \in Int
          /\ Cardinality(Single(s).missing) \in Nat /\ s \in Int
      BY SingleIs
    <3> QED
      BY <3>1
  <2> QED
    BY <2>1 DEF Singles
<1>3. \A p, q \in Singles :
        Better(p, q) <=> C(p) < C(q) \/ (C(p) = C(q) /\ p.total < q.total)
  BY DEF Better
<1>4. \A p, q \in Singles :
        Before(p, q) <=> Better(p, q) \/ (~Better(q, p) /\ N(p) < N(q))
  BY DEF Before
<1>5. \A p, q \in Singles : p # q => N(p) # N(q)
  BY <1>2
<1>6. \A p, q \in Singles : <<p, q>> \in R <=> Before(p, q)
  OBVIOUS
<1>7. \A p, q \in Singles : C(p) \in Int /\ p.total \in Int /\ N(p) \in Int
  BY <1>2
<1> HIDE DEF R, C, N
<1>8. \A x, y \in Singles : x # y => <<x, y>> \in R \/ <<y, x>> \in R
  BY <1>3, <1>4, <1>5, <1>6, <1>7
<1>9. \A x, y \in Singles : <<x, y>> \in R => <<y, x>> \notin R
  BY <1>3, <1>4, <1>6, <1>7
<1>10. \A x, y, z \in Singles : <<x, y>> \in R /\ <<y, z>> \in R => <<x, z>> \in R
  BY <1>3, <1>4, <1>6, <1>7
<1>11. n \in Nat
  BY <1>1, FS_CardinalityType
<1>12. \A k \in 1..n : \E p \in Singles : Cardinality(Preceding(Singles, R, p)) = k - 1
  BY <1>1, <1>8, <1>9, <1>10, EveryPlaceIsTaken
<1>13. \A p \in Singles : {q \in Singles : Before(q, p)} = Preceding(Singles, R, p)
  BY <1>6 DEF Preceding
<1>14. /\ solve_single \in [1..n -> Singles]
       /\ \A k \in 1..n : /\ solve_single[k] \in Singles
                          /\ Cardinality(Preceding(Singles, R, solve_single[k])) = k - 1
  <2>1. \A k \in 1..n : \E p \in Singles : Cardinality({q \in Singles : Before(q, p)}) = k - 1
    BY <1>12, <1>13
  <2>2. solve_single = [k \in 1..n |-> CHOOSE p \in Singles :
                          Cardinality({q \in Singles : Before(q, p)}) = k - 1]
    BY DEF solve_single, Ordered
  <2>3. \A k \in 1..n : /\ solve_single[k] \in Singles
                        /\ Cardinality({q \in Singles : Before(q, solve_single[k])}) = k - 1
    BY <2>1, <2>2
  <2>4. solve_single \in [1..n -> Singles]
    BY <2>2, <2>3
  <2> QED
    BY <1>13, <2>3, <2>4
<1>15. /\ \A i, j \in 1..n : i < j <=> <<solve_single[i], solve_single[j]>> \in R
       /\ \A p \in Singles : \E k \in 1..n : solve_single[k] = p
  <2> DEFINE F == solve_single
  <2>1. /\ F \in [1..n -> Singles]
        /\ \A k \in 1..n : Cardinality(Preceding(Singles, R, F[k])) = k - 1
    BY <1>14
  <2> HIDE DEF F
  <2>2. /\ \A i, j \in 1..n : i < j <=> <<F[i], F[j]>> \in R
        /\ F \in Surjection(1..n, Singles)
    BY <1>1, <1>8, <1>9, <1>10, <2>1, RowsInOrder
  <2>3. \A p \in Singles : \E k \in 1..n : F[k] = p
    BY <2>2 DEF Surjection
  <2> QED
    BY <2>2, <2>3 DEF F
<1> QED
  BY <1>6, <1>11, <1>14, <1>15

\* optimize: no store beats the first of them.
LEMMA FirstIsBest ==
  ASSUME InputOK, PricesOK, NEW s \in DOMAIN prices
  PROVE  /\ solve_single # <<>> /\ solve_single[1] \in Singles
         /\ ~Better(Single(s), solve_single[1])
<1> DEFINE n == Cardinality(Singles)
<1>1. /\ n \in Nat /\ solve_single \in [1..n -> Singles]
      /\ \A i, j \in 1..n : i < j => Before(solve_single[i], solve_single[j])
      /\ \A p \in Singles : \E k \in 1..n : solve_single[k] = p
  BY SinglesAreOrdered
<1>2. Single(s) \in Singles
  BY DEF Singles
<1>3. PICK k \in 1..n : solve_single[k] = Single(s)
  BY <1>1, <1>2
<1> HIDE DEF n
<1>4. 1 \in 1..n /\ k \in Nat /\ (k = 1 \/ 1 < k)
  BY <1>1, <1>3
<1>5. solve_single # <<>> /\ solve_single[1] \in Singles
  BY <1>1, <1>4
<1>6. Cardinality(Single(s).missing) \in Nat /\ Single(s).total \in Int
  BY SingleIs
<1>7. PICK t \in DOMAIN prices : solve_single[1] = Single(t)
  BY <1>5 DEF Singles
<1>8. Cardinality(Single(t).missing) \in Nat /\ Single(t).total \in Int
  BY SingleIs
<1>9. k = 1 => ~Better(Single(s), Single(t))
  BY <1>3, <1>6, <1>7 DEF Better
<1>10. 1 < k => ~Better(Single(s), Single(t))
  <2>1. 1 < k => Before(Single(t), Single(s))
    BY <1>1, <1>3, <1>4, <1>7
  <2> QED
    BY <1>6, <1>8, <2>1 DEF Before, Better
<1> QED
  BY <1>4, <1>5, <1>7, <1>9, <1>10

-----------------------------------------------------------------------------
(* The invariant.                                                          *)

PlanRow == [stores : Seq(DOMAIN prices), goods : Int, missing : SUBSET Items, total : Int]

PoolOK ==
  /\ pool \in Seq(DOMAIN prices) /\ cursor \in Nat
  /\ pair \in Nat \X Nat /\ 1 <= pair[1] /\ pair[1] < pair[2]
  /\ pc = "improve" => pair[2] <= Len(pool)
  /\ pc \in {"load", "rank"} => pool = <<>> /\ plans = <<>>
  /\ plans = <<>> => pair = <<1, 2>>

\* Nothing tried in this pass gains, as long as nothing has moved.
TriedAreSettled ==
  pc = "improve" /\ ~improved =>
    \A x \in Items :
      (\E k \in 1..Len(input.wanted) : k < cursor /\ input.wanted[k].item = x) => Settled(x)

PlansOK ==
  /\ plans \in Seq(PlanRow)
  /\ \A i \in DOMAIN plans : \E s, t \in DOMAIN prices :
       /\ plans[i].stores = <<s, t>> /\ (i = 1 => pool # <<>> /\ s = pool[1])
       /\ plans[i].missing = Items \ SoldByEither(s, t)
       /\ plans[i].goods = CheapestSplit(s, t)

SingleOK ==
  /\ pc \in {"pair", "improve", "done"} =>
       \A s \in DOMAIN prices : single \in Singles /\ ~Better(Single(s), single)
  /\ pc \in {"pair", "improve", "done"} =>
       \A s \in DOMAIN prices : pool # <<>> /\ s = pool[1] => single = Single(s)

BasketInv ==
  /\ InputOK /\ PricesOK /\ PoolOK /\ EachItemIsBoughtOnce /\ TriedAreSettled
  /\ PlansOK /\ SingleOK

LEMMA InitIsFine ==
  ASSUME Init
  PROVE  BasketInv
<1>1. /\ input \in Input /\ prices = <<>> /\ pc = "load" /\ pool = <<>> /\ pair = <<1, 2>>
      /\ cursor = 0 /\ plans = <<>>
  BY DEF Init
<1>2. DOMAIN prices = {} /\ pool \in Seq(DOMAIN prices) /\ plans \in Seq(PlanRow)
      /\ DOMAIN plans = {}
  BY <1>1
<1>3. PoolOK
  BY <1>1, <1>2 DEF PoolOK
<1> QED
  BY <1>1, <1>2, <1>3
     DEF BasketInv, InputOK, PricesOK, EachItemIsBoughtOnce, TriedAreSettled,
         PlansOK, SingleOK

\* Load: the rows that are read are of the items that are wanted.
LEMMA LoadIsFine ==
  ASSUME BasketInv, Load
  PROVE  BasketInv'
<1> DEFINE near == {s \in DOMAIN input.stores : s <= MAX_CANDIDATE_STORES}
           some == {s \in near : Listings(s) # {<<>>}}
<1>1. /\ pc = "load" /\ pc' = "rank" /\ input' = input /\ pool' = <<>> /\ plans' = <<>>
      /\ pair' = pair /\ cursor' = cursor /\ pair = <<1, 2>> /\ cursor \in Nat
      /\ DOMAIN prices' = some /\ \A s \in some : prices'[s] \in Listings(s)
  <2>1. prices' \in {f \in [some -> UNION {Listings(s) : s \in some}] :
                       \A s \in some : f[s] \in Listings(s)}
    BY DEF Load
  <2> HIDE DEF some
  <2>2. DOMAIN prices' = some /\ \A s \in some : prices'[s] \in Listings(s)
    BY <2>1
  <2> QED
    BY <2>2 DEF Load, BasketInv, PoolOK
<1>2. InputOK' /\ Items' = Items /\ InputOK
  BY <1>1 DEF BasketInv, InputOK, Items
<1>3. ASSUME NEW s \in DOMAIN prices', NEW i \in DOMAIN prices'[s]
      PROVE  i \in Items /\ prices'[s][i] \in ListedRow
  <2> DEFINE rows == {r \in input.stores[s].rows : r.item \in Items}
             bought == {r.item : r \in rows}
  <2>1. prices'[s] \in Listings(s) /\ s \in DOMAIN input.stores
    BY <1>1, <1>3
  <2>2. prices'[s] \in [bought -> rows]
    BY <2>1 DEF Listings
  <2>3. rows \subseteq ListedRow
    BY <1>2, <2>1, RequestType DEF StoreRow
  <2>4. \A i2 \in bought : i2 \in Items
    OBVIOUS
  <2> HIDE DEF rows, bought
  <2> QED
    BY <1>3, <2>2, <2>3, <2>4
<1>4. PricesOK'
  <2>1. DOMAIN prices' \subseteq DOMAIN input.stores
    BY <1>1
  <2> QED
    BY <1>1, <1>2, <1>3, <2>1 DEF PricesOK
<1>5. DOMAIN plans' = {} /\ plans' \in Seq(PlanRow') /\ pool' \in Seq(DOMAIN prices')
  BY <1>1
<1>6. PoolOK'
  BY <1>1, <1>5 DEF PoolOK
<1> HIDE DEF some
<1> QED
  BY <1>1, <1>2, <1>4, <1>5, <1>6
     DEF BasketInv, EachItemIsBoughtOnce, TriedAreSettled, PlansOK, SingleOK

\* Rank: the pool starts with the best single store.
LEMMA RankIsFine ==
  ASSUME BasketInv, Rank
  PROVE  BasketInv'
<1> DEFINE n == Cardinality(Singles)
           ranked == solve_single
           size == IF max_stores >= 2 THEN Min({PAIR_POOL, Len(ranked)}) ELSE 0
<1>1. /\ pc = "rank" /\ pc' = "pair" /\ UNCHANGED <<input, prices, pair, cursor, plans>>
      /\ single' = (IF ranked = <<>> THEN None ELSE ranked[1])
      /\ pool' = [k \in 1..size |-> ranked[k].stores[1]]
      /\ plans = <<>> /\ pair = <<1, 2>> /\ cursor \in Nat
  BY DEF Rank, BasketInv, PoolOK
<1>2. InputOK /\ PricesOK
  BY DEF BasketInv
<1>3. /\ n \in Nat /\ ranked \in [1..n -> Singles]
      /\ \A i, j \in 1..n : i < j => Before(ranked[i], ranked[j])
      /\ \A p \in Singles : \E k \in 1..n : ranked[k] = p
  BY <1>2, SinglesAreOrdered
<1>4. Len(ranked) = n
  BY <1>3
<1>5. size \in Nat /\ size <= n
  <2>1. Min({PAIR_POOL, n}) \in Nat /\ Min({PAIR_POOL, n}) <= n
    <3>1. PAIR_POOL \in Nat /\ n \in Nat
      BY <1>3, LimitAssumption
    <3> HIDE DEF n
    <3>2. \E m \in {PAIR_POOL, n} : \A k \in {PAIR_POOL, n} : m <= k
      <4>1. PAIR_POOL <= n \/ n <= PAIR_POOL
        BY <3>1
      <4> QED
        BY <3>1, <4>1
    <3> QED
      BY <3>1, <3>2 DEF Min
  <2> QED
    BY <1>3, <1>4, <2>1
<1>6. \A p \in Singles : p.stores[1] \in DOMAIN prices /\ p = Single(p.stores[1])
  <2>1. ASSUME NEW s \in DOMAIN prices
        PROVE  Single(s).stores[1] = s
    <3>1. Single(s).stores = <<s>>
      BY <1>2, SingleIs
    <3> QED
      BY <3>1
  <2> QED
    BY <2>1 DEF Singles
<1> HIDE DEF ranked, size, n
<1>7. \A k \in 1..size : k \in 1..n /\ ranked[k].stores[1] \in DOMAIN prices
  BY <1>3, <1>5, <1>6
<1>8. pool' \in Seq(DOMAIN prices)
  <2>1. pool' \in [1..size -> DOMAIN prices]
    BY <1>1, <1>7
  <2> QED
    BY <1>5, <2>1
<1>9. ASSUME pool' # <<>>
      PROVE  single' = Single(pool'[1])
  <2>1. 1 \in 1..size
    <3>1. size # 0
      BY <1>1, <1>9
    <3> QED
      BY <1>5, <3>1
  <2>2. pool'[1] = ranked[1].stores[1] /\ ranked[1] \in Singles /\ ranked # <<>>
    BY <1>1, <1>3, <1>7, <2>1
  <2> QED
    BY <1>1, <1>6, <2>2
<1>10. \A s \in DOMAIN prices : single' \in Singles /\ ~Better(Single(s), single')
  <2>1. ASSUME NEW s \in DOMAIN prices
        PROVE  ranked # <<>> /\ ranked[1] \in Singles /\ ~Better(Single(s), ranked[1])
    BY <1>2, FirstIsBest DEF ranked
  <2> QED
    BY <1>1, <2>1
<1>11. ASSUME NEW s
       PROVE  Single(s)' = Single(s)
  BY <1>1 DEF Single, Plan, PriceAt, Covers, Line, Usable, Qty, Items, TravelCost, Minutes
<1>12. Singles' = Singles
  BY <1>1, <1>11 DEF Singles
<1>13. InputOK' /\ PricesOK'
  BY <1>1, <1>2 DEF InputOK, PricesOK, Items
<1>14. PoolOK'
  BY <1>1, <1>8 DEF PoolOK
<1>15. SingleOK'
  <2>1. ASSUME NEW s \in DOMAIN prices'
        PROVE  (single \in Singles /\ ~Better(Single(s), single))'
    BY <1>1, <1>10, <1>11, <1>12 DEF Better
  <2>2. ASSUME NEW s \in DOMAIN prices', pool' # <<>>, s = pool'[1]
        PROVE  single' = Single(s)'
    BY <1>9, <1>11, <2>2
  <2> QED
    BY <2>1, <2>2 DEF SingleOK
<1>16. DOMAIN plans' = {} /\ plans' \in Seq(PlanRow')
  BY <1>1
<1> QED
  BY <1>1, <1>13, <1>14, <1>15, <1>16
     DEF BasketInv, EachItemIsBoughtOnce, TriedAreSettled, PlansOK

\* Once the prices are read, they and what is computed from them stay.
LEMMA PricesStay ==
  ASSUME UNCHANGED <<input, prices>>
  PROVE  /\ Items' = Items /\ PlanRow' = PlanRow /\ Singles' = Singles
         /\ \A s : Single(s)' = Single(s)
         /\ \A s, x : Line(s, x)' = Line(s, x) /\ (Covers(s, x)' <=> Covers(s, x))
         /\ \A s, t : /\ SoldByEither(s, t)' = SoldByEither(s, t)
                      /\ CheapestSplit(s, t)' = CheapestSplit(s, t)
<1>1. Items' = Items
  BY DEF Items
<1>2. PlanRow' = PlanRow
  BY <1>1 DEF PlanRow
<1>3. \A s : Single(s)' = Single(s)
  BY <1>1 DEF Single, Plan, PriceAt, Covers, Line, Usable, Qty, TravelCost, Minutes
<1>4. Singles' = Singles
  BY <1>3 DEF Singles
<1>5. \A s, x : Line(s, x)' = Line(s, x) /\ (Covers(s, x)' <=> Covers(s, x))
  BY DEF Line, Covers, Usable, Qty
<1>6. \A s, t : SoldByEither(s, t)' = SoldByEither(s, t)
  BY <1>1, <1>5 DEF SoldByEither
<1>7. \A s, x : Payable(s, x)' = Payable(s, x)
  BY DEF Payable, PayOptions, BundleOptions, FixedOptions, PercentOptions, Bundling, Fixing,
         Discounting, OpenTo, Qty
<1>8. \A s, t : WaysToSplit(s, t)' = WaysToSplit(s, t)
  BY <1>5, <1>6 DEF WaysToSplit
<1>9. \A s, t, w : CostOf(s, t, w)' = CostOf(s, t, w)
  BY <1>6, <1>7 DEF CostOf
<1>10. \A s, t : CheapestSplit(s, t)' = CheapestSplit(s, t)
  BY <1>8, <1>9 DEF CheapestSplit
<1> QED
  BY <1>1, <1>2, <1>3, <1>4, <1>5, <1>6, <1>10

Searching == {"pair", "improve", "done"}

\* So do the facts about the pool, the single stores and the plans that are made.
LEMMA SearchStays ==
  ASSUME BasketInv, UNCHANGED <<input, prices, single, pool>>, pc \in Searching
  PROVE  /\ InputOK' /\ PricesOK' /\ SingleOK'
         /\ UNCHANGED plans => PlansOK'
<1>1. InputOK' /\ PricesOK'
  BY PricesStay DEF BasketInv, InputOK, PricesOK
<1>2. SingleOK'
  <2>1. \A s \in DOMAIN prices : single \in Singles /\ ~Better(Single(s), single)
    BY DEF BasketInv, SingleOK, Searching
  <2>2. \A s \in DOMAIN prices : pool # <<>> /\ s = pool[1] => single = Single(s)
    BY DEF BasketInv, SingleOK, Searching
  <2>3. ASSUME NEW s \in DOMAIN prices'
        PROVE  (single \in Singles /\ ~Better(Single(s), single))'
    BY <2>1, PricesStay DEF Better
  <2>4. ASSUME NEW s \in DOMAIN prices', pool' # <<>>, s = pool'[1]
        PROVE  single' = Single(s)'
    BY <2>2, <2>4, PricesStay
  <2> QED
    BY <2>3, <2>4 DEF SingleOK
<1>3. ASSUME UNCHANGED plans
      PROVE  PlansOK'
  BY <1>3, PricesStay DEF BasketInv, PlansOK
<1> QED
  BY <1>1, <1>2, <1>3

LEMMA PairIsOK ==
  ASSUME BasketInv, pair[2] <= Len(pool)
  PROVE  /\ PairOK /\ pair[1] \in Nat /\ pair[2] \in Nat
         /\ pool # <<>> /\ Len(pool) \in Nat
<1>1. /\ pool \in Seq(DOMAIN prices) /\ pair \in Nat \X Nat /\ 1 <= pair[1]
      /\ pair[1] < pair[2]
  BY DEF BasketInv, PoolOK
<1>2. pair[1] \in Nat /\ pair[2] \in Nat /\ Len(pool) \in Nat
  BY <1>1
<1>3. pair[1] \in 1..Len(pool) /\ pair[2] \in 1..Len(pool)
  BY <1>1, <1>2
<1>4. pool[pair[1]] \in DOMAIN prices /\ pool[pair[2]] \in DOMAIN prices
  BY <1>1, <1>3
<1>5. pool # <<>>
  BY <1>1, <1>3
<1> QED
  BY <1>2, <1>4, <1>5 DEF PairOK, First, Second

LEMMA SplitIsFine ==
  ASSUME BasketInv, Split
  PROVE  BasketInv'
<1>1. /\ pc = "pair" /\ pc' = "improve" /\ cursor' = 1 /\ improved' = FALSE
      /\ pair[2] <= Len(pool) /\ UNCHANGED <<input, prices, single, pool, pair, plans>>
  BY DEF Split
<1>2. InputOK' /\ PricesOK' /\ SingleOK' /\ PlansOK'
  BY <1>1, SearchStays DEF Searching
<1>3. PoolOK'
  BY <1>1 DEF BasketInv, PoolOK
<1>4. TriedAreSettled'
  <2>1. Len(input'.wanted) \in Nat
    BY <1>1, RequestType DEF BasketInv
  <2>2. \A k \in 1..Len(input'.wanted) : ~(k < cursor')
    BY <1>1, <2>1
  <2> QED
    BY <2>2 DEF TriedAreSettled
<1> QED
  BY <1>2, <1>3, <1>4, GreedyBuysOnce DEF BasketInv

LEMMA TryIsFine ==
  ASSUME BasketInv, Try
  PROVE  BasketInv'
<1> DEFINE item == input.wanted[cursor].item
           trial == IF Repeated(cursor) THEN <<left, right>> ELSE Moved(item)
           kept == IF Gains(trial) THEN trial ELSE <<left, right>>
<1>1. /\ pc = "improve" /\ pc' = "improve" /\ cursor <= Len(input.wanted)
      /\ left' = kept[1] /\ right' = kept[2] /\ improved' = (improved \/ Gains(trial))
      /\ cursor' = cursor + 1 /\ UNCHANGED <<input, prices, single, pool, pair, plans>>
  BY DEF Try
<1>2. InputOK' /\ PricesOK' /\ SingleOK' /\ PlansOK'
  BY <1>1, SearchStays DEF Searching
<1>3. PoolOK'
  BY <1>1 DEF BasketInv, PoolOK
<1>4. ASSUME ~improved'
      PROVE  TriedAreSettled'
  <2>1. ~improved /\ ~Gains(trial) /\ left' = left /\ right' = right
    BY <1>1, <1>4
  <2>2. /\ InputOK /\ PricesOK /\ EachItemIsBoughtOnce /\ pair[2] <= Len(pool)
        /\ cursor \in Nat /\ TriedAreSettled
    BY <1>1 DEF BasketInv, PoolOK
  <2>3. PairOK
    BY <2>2, PairIsOK
  <2>4. Len(input.wanted) \in Nat /\ DOMAIN input.wanted = 1..Len(input.wanted)
    BY <2>2, RequestType
  <2>5. SUFFICES ASSUME NEW x \in Items', NEW k \in 1..Len(input'.wanted),
                        k < cursor', input'.wanted[k].item = x
                 PROVE  Settled(x)'
    BY DEF TriedAreSettled
  <2>6. x \in Items /\ k \in 1..Len(input.wanted) /\ input.wanted[k].item = x
    BY <1>1, <2>5, PricesStay
  <2>7. Settled(x)
    <3>1. CASE k < cursor
      BY <1>1, <2>1, <2>2, <2>6, <3>1 DEF TriedAreSettled
    <3>2. CASE k = cursor /\ ~Repeated(cursor)
      BY <1>1, <2>1, <2>2, <2>3, <2>6, <3>2, NoGainIsSettled
    <3>3. CASE k = cursor /\ Repeated(cursor)
      <4>1. PICK j \in 1..(k - 1) : input.wanted[j].item = x
        BY <2>6, <3>3 DEF Repeated
      <4>2. j \in 1..Len(input.wanted) /\ j < cursor
        BY <2>4, <2>6, <3>3, <4>1
      <4> QED
        BY <1>1, <2>1, <2>2, <2>6, <4>1, <4>2 DEF TriedAreSettled
    <3> QED
      BY <1>1, <2>2, <2>4, <2>5, <3>1, <3>2, <3>3
  <2>8. First' = First /\ Second' = Second
    BY <1>1 DEF First, Second
  <2> QED
    BY <1>1, <2>1, <2>7, <2>8, PricesStay DEF Settled
<1>5. TriedAreSettled'
  <2>1. improved' => TriedAreSettled'
    BY DEF TriedAreSettled
  <2> QED
    BY <1>4, <2>1
<1> QED
  BY <1>2, <1>3, <1>5, MovesBuyOnce DEF BasketInv

LEMMA NextPassIsFine ==
  ASSUME BasketInv, NextPass
  PROVE  BasketInv'
<1>1. /\ pc = "improve" /\ pc' = pc /\ cursor' = 1 /\ improved' = FALSE
      /\ UNCHANGED <<input, prices, single, pool, pair, left, right, plans>>
  BY DEF NextPass
<1>2. InputOK' /\ PricesOK' /\ SingleOK' /\ PlansOK'
  BY <1>1, SearchStays DEF Searching
<1>3. PoolOK'
  BY <1>1 DEF BasketInv, PoolOK
<1>4. TriedAreSettled'
  <2>1. Len(input'.wanted) \in Nat
    BY <1>1, RequestType DEF BasketInv
  <2>2. \A k \in 1..Len(input'.wanted) : ~(k < cursor')
    BY <1>1, <2>1
  <2> QED
    BY <2>2 DEF TriedAreSettled
<1>5. EachItemIsBoughtOnce'
  BY <1>1 DEF BasketInv, EachItemIsBoughtOnce, Items, First, Second, Covers
<1> QED
  BY <1>2, <1>3, <1>4, <1>5 DEF BasketInv

LEMMA AssignedIsFine ==
  ASSUME BasketInv, Assigned
  PROVE  BasketInv'
<1> DEFINE plan == Plan(<<First, Second>>, Combined(left, right), Items \ (left \cup right))
           n == Len(plans)
<1>1. /\ pc = "improve" /\ pc' = "pair" /\ cursor > Len(input.wanted) /\ ~improved
      /\ plans' = Append(plans, plan) /\ pair' = NextPair /\ cursor' = 0
      /\ UNCHANGED <<input, prices, single, pool>>
  BY DEF Assigned
<1>2. InputOK' /\ PricesOK' /\ SingleOK'
  BY <1>1, SearchStays DEF Searching
<1>3. /\ InputOK /\ PricesOK /\ EachItemIsBoughtOnce /\ TriedAreSettled /\ cursor \in Nat
      /\ pair[2] <= Len(pool) /\ PlansOK
      /\ pool \in Seq(DOMAIN prices) /\ pair \in Nat \X Nat /\ 1 <= pair[1]
      /\ pair[1] < pair[2] /\ (plans = <<>> => pair = <<1, 2>>)
  BY <1>1 DEF BasketInv, PoolOK
<1>4. PairOK
  BY <1>3, PairIsOK
<1>5. \A x \in Items : Settled(x)
  <2> TAKE x \in Items
  <2>1. PICK k \in DOMAIN input.wanted : input.wanted[k].item = x
    BY DEF Items
  <2>2. Len(input.wanted) \in Nat /\ DOMAIN input.wanted = 1..Len(input.wanted)
    BY <1>3, RequestType
  <2>3. k \in 1..Len(input.wanted) /\ k < cursor
    BY <1>1, <1>3, <2>2
  <2> QED
    BY <1>1, <1>3, <2>1, <2>3 DEF TriedAreSettled
<1>6. Combined(left, right) \in Int /\ Combined(left, right) = CheapestSplit(First, Second)
  BY <1>1, <1>3, <1>4, <1>5, SettledIsOptimal
<1>7. Items \ (left \cup right) = Items \ SoldByEither(First, Second)
  BY <1>1, <1>3 DEF EachItemIsBoughtOnce, SoldByEither
<1>8. TravelCost(<<First, Second>>) \in Int
  <2> DEFINE q == <<First, Second>>
  <2>1. First \in DOMAIN input.stores /\ Second \in DOMAIN input.stores
    BY <1>3, <1>4 DEF PairOK, PricesOK
  <2>2. /\ DOMAIN q = 1..2 /\ Len(q) = 2 /\ \A k \in 1..2 : q[k] \in DOMAIN input.stores
    BY <2>1
  <2> HIDE DEF q
  <2>3. TravelCost(q) \in Int
    BY <1>3, <2>2, TravelType
  <2> QED
    BY <2>3 DEF q
<1>9. plan.stores = <<First, Second>> /\ plan.goods = Combined(left, right)
      /\ plan.missing = Items \ (left \cup right) /\ plan \in PlanRow
  <2>1. <<First, Second>> \in Seq(DOMAIN prices)
    BY <1>4 DEF PairOK
  <2> QED
    BY <1>6, <1>8, <2>1 DEF Plan, PlanRow
<1> HIDE DEF plan
<1>10. plans \in Seq(PlanRow) /\ n \in Nat /\ DOMAIN plans = 1..n
  BY <1>3 DEF PlansOK
<1>11. /\ plans' \in Seq(PlanRow) /\ DOMAIN plans' = 1..(n + 1) /\ plans' # <<>>
       /\ plans'[n + 1] = plan /\ \A i \in 1..n : plans'[i] = plans[i]
  BY <1>1, <1>9, <1>10
<1>12. ASSUME NEW i \in DOMAIN plans'
       PROVE  \E s, t \in DOMAIN prices :
                /\ plans'[i].stores = <<s, t>> /\ (i = 1 => pool # <<>> /\ s = pool[1])
                /\ plans'[i].missing = Items \ SoldByEither(s, t)
                /\ plans'[i].goods = CheapestSplit(s, t)
  <2>1. CASE i \in 1..n
    BY <1>3, <1>10, <1>11, <2>1 DEF PlansOK
  <2>2. CASE i = n + 1
    <3>1. i = 1 => pool # <<>> /\ First = pool[1]
      <4>1. i = 1 => plans = <<>>
        BY <1>10, <2>2
      <4>2. pool # <<>>
        BY <1>3, PairIsOK
      <4> QED
        BY <1>3, <4>1, <4>2 DEF First
    <3>2. First \in DOMAIN prices /\ Second \in DOMAIN prices
      BY <1>4 DEF PairOK
    <3>3. /\ plans'[i].stores = <<First, Second>>
          /\ plans'[i].missing = Items \ SoldByEither(First, Second)
          /\ plans'[i].goods = CheapestSplit(First, Second)
      BY <1>6, <1>7, <1>9, <1>11, <2>2
    <3> QED
      BY <3>1, <3>2, <3>3
  <2> QED
    BY <1>10, <1>11, <2>1, <2>2
<1>13. PlansOK'
  <2>1. plans' \in Seq(PlanRow)'
    BY <1>1, <1>11, PricesStay
  <2>2. ASSUME NEW i \in DOMAIN plans'
        PROVE  (\E s, t \in DOMAIN prices :
                  /\ plans[i].stores = <<s, t>> /\ (i = 1 => pool # <<>> /\ s = pool[1])
                  /\ plans[i].missing = Items \ SoldByEither(s, t)
                  /\ plans[i].goods = CheapestSplit(s, t))'
    BY <1>1, <1>12, PricesStay
  <2> QED
    BY <2>1, <2>2 DEF PlansOK
<1>14. PoolOK'
  <2>1. pair' \in Nat \X Nat /\ 1 <= pair'[1] /\ pair'[1] < pair'[2]
    <3>1. pair' = <<pair[1], pair[2] + 1>> \/ pair' = <<pair[1] + 1, pair[1] + 2>>
      BY <1>1 DEF NextPair
    <3> QED
      BY <1>3, <3>1
  <2> QED
    BY <1>1, <1>3, <1>11, <2>1 DEF PoolOK
<1> QED
  BY <1>1, <1>2, <1>13, <1>14 DEF BasketInv, EachItemIsBoughtOnce, TriedAreSettled

LEMMA AnswerIsFine ==
  ASSUME BasketInv, Answer
  PROVE  BasketInv'
<1>1. pc = "pair" /\ pc' = "done"
      /\ UNCHANGED <<input, prices, single, pool, pair, cursor, plans>>
  BY DEF Answer
<1>2. InputOK' /\ PricesOK' /\ SingleOK' /\ PlansOK'
  BY <1>1, SearchStays DEF Searching
<1>3. PoolOK'
  BY <1>1 DEF BasketInv, PoolOK
<1> QED
  BY <1>1, <1>2, <1>3 DEF BasketInv, EachItemIsBoughtOnce, TriedAreSettled

LEMMA StutterIsFine ==
  ASSUME BasketInv, UNCHANGED vars
  PROVE  BasketInv'
<1>1. UNCHANGED <<input, prices, pc, single, pool, pair, left, right, cursor, improved, plans>>
  BY DEF vars
<1>2. InputOK' /\ PricesOK' /\ PlansOK'
  BY <1>1, PricesStay DEF BasketInv, InputOK, PricesOK, PlansOK
<1>3. SingleOK'
  <2>1. pc' \in Searching => SingleOK'
    BY <1>1, SearchStays
  <2> QED
    BY <2>1 DEF SingleOK, Searching
<1>4. PoolOK'
  BY <1>1 DEF BasketInv, PoolOK
<1>5. First' = First /\ Second' = Second
  BY <1>1 DEF First, Second
<1>6. EachItemIsBoughtOnce'
  BY <1>1, <1>5, PricesStay DEF BasketInv, EachItemIsBoughtOnce
<1>7. \A x : Settled(x)' <=> Settled(x)
  BY <1>1, <1>5, PricesStay DEF Settled
<1>8. TriedAreSettled'
  BY <1>1, <1>7, PricesStay DEF BasketInv, TriedAreSettled
<1> QED
  BY <1>2, <1>3, <1>4, <1>6, <1>8 DEF BasketInv

LEMMA BasketInvHolds == Spec => []BasketInv
<1>1. BasketInv /\ [Next]_vars => BasketInv'
  BY LoadIsFine, RankIsFine, SplitIsFine, TryIsFine, NextPassIsFine, AssignedIsFine,
     AnswerIsFine, StutterIsFine DEF Next
<1> QED
  BY <1>1, InitIsFine, PTL DEF Spec

\* assign_pair with apply_promotions: every pair that is priced is priced at the cheapest
\* of all the ways to split the basket between its stores, whatever the promotions.
THEOREM LocalImprovementIsOptimal == Spec => []PairIsOptimal
<1>1. BasketInv => PairIsOptimal
  <2> SUFFICES ASSUME BasketInv, NEW i \in DOMAIN plans
               PROVE  plans[i].goods = CheapestSplit(plans[i].stores[1], plans[i].stores[2])
    BY DEF PairIsOptimal
  <2>1. PICK s, t \in DOMAIN prices :
          plans[i].stores = <<s, t>> /\ plans[i].goods = CheapestSplit(s, t)
    BY DEF BasketInv, PlansOK
  <2> QED
    BY <2>1
<1> QED
  BY <1>1, BasketInvHolds, PTL

-----------------------------------------------------------------------------
(* The answer.                                                             *)

\* A store's outlay is what it costs as the single store.
LEMMA OutlayIs ==
  ASSUME InputOK, PricesOK, NEW s \in DOMAIN prices
  PROVE  Outlay(s) = Single(s).total /\ Items \ SoldByEither(s, s) = Single(s).missing
<1>1. SoldByEither(s, s) = Sold(s) /\ Sold(s) \ Sold(s) = {}
  BY DEF SoldByEither, Sold
<1>2. SumFunction([j \in {} |-> Payable(s, j)]) = 0
  <2>1. {} \in SUBSET Sold(s)
    OBVIOUS
  <2>2. SumFunction([j \in {} |-> Payable(s, j)]) = SumFunctionOnSet(LinesAt(s), {})
    BY <2>1, SumOfLines
  <2>3. SumFunctionOnSet(LinesAt(s), {}) = 0
    BY SumRecursion, FS_EmptySet
  <2> QED
    BY <2>2, <2>3
<1>3. SumFunction([j \in Sold(s) |-> Payable(s, j)]) \in Int
  <2>1. Sold(s) \in SUBSET Sold(s)
    OBVIOUS
  <2> QED
    BY <2>1, SumOfLines
<1>4. CostOf(s, s, SoldByEither(s, s)) = SumFunction([j \in Sold(s) |-> Payable(s, j)])
  <2> DEFINE F(W) == SumFunction([j \in W |-> Payable(s, j)])
             all == SoldByEither(s, s)
  <2>1. CostOf(s, s, all) = F(all) + F(all \ all)
    BY DEF CostOf
  <2>2. all = Sold(s) /\ all \ all = {}
    BY <1>1
  <2> HIDE DEF all
  <2>3. CostOf(s, s, all) = F(Sold(s)) + F({})
    BY <2>1, <2>2
  <2> QED
    BY <1>2, <1>3, <2>3 DEF all
<1> QED
  BY <1>1, <1>4, SingleIs DEF Outlay

LEMMA BeatsStays ==
  ASSUME UNCHANGED <<input, prices>>
  PROVE  \A p, s : Beats(p, s)' <=> Beats(p, s)
<1>1. \A s, x : Payable(s, x)' = Payable(s, x)
  BY DEF Payable, PayOptions, BundleOptions, FixedOptions, PercentOptions, Bundling, Fixing,
         Discounting, OpenTo, Qty
<1>2. \A s, t : SoldByEither(s, t)' = SoldByEither(s, t)
  BY PricesStay
<1>3. \A s : Outlay(s)' = Outlay(s)
  BY <1>1, <1>2 DEF Outlay, CostOf, TravelCost, Minutes
<1> QED
  BY <1>2, <1>3, PricesStay DEF Beats

\* The pairs start with the best single store, so the best pair leaves out no more than it.
LEMMA WorthShowingBeats ==
  ASSUME BasketInv, pc = "pair", NEW i \in DOMAIN plans,
         \A j \in DOMAIN plans : ~Better(plans[j], plans[i]),
         WorthShowing(plans[i]), NEW s \in DOMAIN prices
  PROVE  Beats(plans[i], s)
<1> DEFINE C(p) == Cardinality(p.missing)
<1>1. InputOK /\ PricesOK /\ PlansOK /\ SingleOK /\ PoolOK
  BY DEF BasketInv
<1>2. DOMAIN plans = 1..Len(plans) /\ Len(plans) \in Nat /\ plans \in Seq(PlanRow)
  BY <1>1 DEF PlansOK
<1>3. \A j \in DOMAIN plans : C(plans[j]) \in Nat /\ plans[j].total \in Int
                              /\ IsFiniteSet(plans[j].missing)
  <2> TAKE j \in DOMAIN plans
  <2>1. plans[j] \in PlanRow
    BY <1>2
  <2>2. plans[j].missing \in SUBSET Items /\ plans[j].total \in Int
    BY <2>1 DEF PlanRow
  <2> QED
    BY <1>1, <2>2, ItemsAreFinite, FS_Subset, FS_CardinalityType
<1>4. 1 \in DOMAIN plans
  BY <1>2
<1>5. PICK u, v \in DOMAIN prices : /\ pool # <<>> /\ u = pool[1]
                                    /\ plans[1].missing = Items \ SoldByEither(u, v)
  BY <1>1, <1>4 DEF PlansOK
<1>6. single = Single(u) /\ ~Better(Single(s), single)
  BY <1>1, <1>5 DEF SingleOK
<1>7. /\ C(single) \in Nat /\ IsFiniteSet(single.missing) /\ single.total \in Int
      /\ single.missing = Items \ Sold(u)
  BY <1>1, <1>6, SingleIs
<1>8. C(Single(s)) \in Nat /\ Single(s).total \in Int
  BY <1>1, SingleIs
<1>9. C(plans[1]) <= C(single)
  <2>1. plans[1].missing \in SUBSET single.missing
    BY <1>5, <1>7 DEF SoldByEither, Sold
  <2> QED
    BY <1>7, <2>1, FS_Subset
<1>10. ~Better(plans[1], plans[i])
  BY <1>4
<1>11. C(plans[i]) < C(single) \/ plans[i].total < single.total
  BY DEF WorthShowing
<1>12. Outlay(s) = Single(s).total /\ C(Single(s)) = Cardinality(Items \ SoldByEither(s, s))
  BY <1>1, OutlayIs
<1>13. C(plans[i]) \in Nat /\ C(plans[1]) \in Nat /\ plans[i].total \in Int
  BY <1>3, <1>4
<1>14. ~(C(plans[1]) < C(plans[i]))
  BY <1>10 DEF Better
<1>15. /\ ~(C(Single(s)) < C(single))
       /\ ~(C(Single(s)) = C(single) /\ Single(s).total < single.total)
  BY <1>6 DEF Better
<1> DEFINE x == C(plans[i])
           y == C(Single(s))
<1>16. y - x > 0 \/ (y - x = 0 /\ plans[i].total < Single(s).total)
  <2> HIDE DEF C
  <2> QED
    BY <1>7, <1>8, <1>9, <1>11, <1>13, <1>14, <1>15
<1> QED
  BY <1>12, <1>16 DEF Beats

\* What is said of every plan that is shown.
ShownBeats ==
  pc = "done" => \A p, s : p = answer.split /\ p # None /\ s \in DOMAIN prices => Beats(p, s)

LEMMA AnswerIsWorthItsStop ==
  ASSUME BasketInv, Answer
  PROVE  ShownBeats'
<1> DEFINE best == {i \in DOMAIN plans : \A j \in DOMAIN plans :
                      ~Better(plans[j], plans[i]) /\ (j < i => Better(plans[i], plans[j]))}
           candidate == IF best = {} THEN None ELSE plans[CHOOSE i \in best : TRUE]
           shown == IF candidate # None /\ WorthShowing(candidate) THEN candidate ELSE None
<1>1. /\ pc = "pair" /\ answer' = Response(shown) /\ UNCHANGED <<input, prices>>
  BY DEF Answer
<1>2. answer'.split = shown
  BY <1>1 DEF Response
<1>3. ASSUME NEW s \in DOMAIN prices, shown # None
      PROVE  Beats(shown, s)
  <2>1. best # {} /\ shown = candidate /\ WorthShowing(candidate)
    BY <1>3
  <2>2. PICK i \in best : candidate = plans[i]
    BY <2>1
  <2> QED
    BY <1>1, <2>1, <2>2, WorthShowingBeats
<1> HIDE DEF shown
<1>4. ASSUME NEW p, NEW s, p = answer'.split, p # None, s \in DOMAIN prices'
      PROVE  Beats(p, s)'
  <2>1. Beats(p, s)
    BY <1>1, <1>2, <1>3, <1>4
  <2> QED
    BY <1>1, <2>1, BeatsStays
<1> QED
  BY <1>4 DEF ShownBeats

\* optimize: a split that is shown beats every store in range that sells anything.
THEOREM SplitsAreWorthTheirStop == Spec => []SplitIsWorthItsStop
<1>1. Init => ShownBeats
  BY DEF Init, ShownBeats
<1>2. BasketInv /\ ShownBeats /\ [Next]_vars => ShownBeats'
  <2> SUFFICES ASSUME BasketInv, ShownBeats, [Next]_vars
               PROVE  ShownBeats'
    OBVIOUS
  <2>1. CASE Answer
    BY <2>1, AnswerIsWorthItsStop
  <2>2. CASE Load \/ Rank \/ Split \/ Try \/ NextPass \/ Assigned
    BY <2>2 DEF Load, Rank, Split, Try, NextPass, Assigned, ShownBeats
  <2>3. CASE UNCHANGED vars
    <3>1. UNCHANGED <<input, prices, pc, answer>>
      BY <2>3 DEF vars
    <3> QED
      BY <3>1, BeatsStays DEF ShownBeats
  <2> QED
    BY <2>1, <2>2, <2>3 DEF Next
<1>3. ShownBeats => SplitIsWorthItsStop
  BY DEF ShownBeats, SplitIsWorthItsStop
<1> QED
  BY <1>1, <1>2, <1>3, BasketInvHolds, PTL DEF Spec
=============================================================================
