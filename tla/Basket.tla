------------------------------- MODULE Basket -------------------------------
(***************************************************************************)
(* One answer of POST /basket/optimize: api/routers/basket.py loads prices *)
(* and promotions, api/basket/promotions.py prices a line, and             *)
(* api/basket/optimizer.py looks for the best store and the best pair.     *)
(* catalog/promotions.py says which promotions may be applied, and         *)
(* web/app.js what the customer is told.                                   *)
(*                                                                         *)
(* Money is in agorot, quantities of a promotion in tenths, rates in       *)
(* hundredths as published (15 percent is 1500 or 15), minutes in tenths.  *)
(***************************************************************************)
EXTENDS Integers, FiniteSetsExt, SequencesExt, Ordering

CONSTANTS
  Product,      \* canonical_products.id
  Input,        \* requests with the rows of the database that they meet
  None,         \* SQL NULL
  Now,          \* func.now() in the request's transaction
  PAIR_POOL,
  MAX_CANDIDATE_STORES,
  TRAVEL_PENALTY_PER_STOP,
  TRAVEL_VALUE_PER_HOUR

\* The columns of a promotion that classify, _offers and _line_cost_under read.
PromotionRow ==
  [variants : SUBSET Nat, store : Nat \cup {None}, amount : Nat \cup {None}, rate : Nat,
   minQty : Nat, minPurchase : Nat, gift : BOOLEAN, clubOnly : BOOLEAN,
   starts : Nat \cup {None}, ends : Nat \cup {None}]

\* A row of price_current, and a store in range with its rows and the way to it.
ListedRow == [variant : Nat, item : Product, price : Nat]
StoreRow == [rows : SUBSET ListedRow, minutes : Nat]

Modes == {"cheapest", "balanced", "single_store"}

\* A request with the stores in range, in the order of the first query.
Request ==
  [wanted : Seq([item : Product, qty : 1..99]), mode : Modes, maxStores : 1..3,
   club : BOOLEAN, stores : Seq(StoreRow), promotions : SUBSET PromotionRow]

ASSUME InputAssumption == \A i \in Input : i \in Request /\ i.wanted # <<>>
ASSUME TableAssumption ==
  \A i \in Input : /\ IsFiniteSet(i.promotions)
                   /\ \A s \in DOMAIN i.stores : IsFiniteSet(i.stores[s].rows)
ASSUME LimitAssumption == PAIR_POOL \in Nat /\ MAX_CANDIDATE_STORES \in Nat
ASSUME TravelAssumption == TRAVEL_PENALTY_PER_STOP \in Nat /\ TRAVEL_VALUE_PER_HOUR \in Nat
ASSUME NoneAssumption == None \notin Int
ASSUME NowAssumption == Now \in Nat

VARIABLES
  input,        \* the request: wanted is a sequence of items and quantities
  prices,       \* StoreOffer.prices of every candidate that has any
  pc,           \* what the request does next
  single,       \* the best single store, None while there is none
  pool,         \* the stores that the pairs are drawn from, best first
  pair,         \* the places in the pool of the two stores in hand
  left, right,  \* the items that the pair in hand gives to each of its stores
  cursor,       \* the item that the pass over the basket tries next
  improved,     \* the pass has moved an item
  plans,        \* the pairs that are assigned
  answer        \* the plans of the response

vars == <<input, prices, pc, single, pool, pair, left, right, cursor, improved, plans, answer>>

\* The dict of items and quantities: an item that is named twice has its first place and
\* its last quantity.
Items == {input.wanted[i].item : i \in DOMAIN input.wanted}
Repeated(k) == \E j \in 1..(k - 1) : input.wanted[j].item = input.wanted[k].item
Qty(item) == input.wanted[Max({i \in DOMAIN input.wanted : input.wanted[i].item = item})].qty

\* Decimal.quantize(CENTS) of n / d: half to even.
Cents(n, d) ==
  LET q == n \div d
      twice == 2 * (n % d)
  IN  IF twice > d \/ (twice = d /\ q % 2 = 1) THEN q + 1 ELSE q

-----------------------------------------------------------------------------
(* catalog/promotions.py.                                                  *)

\* Mutant: a published amount decides before the threshold and the gift are seen.
ClassifyAmountFirst(p) ==
  IF p.variants = {} THEN "unknown"
  ELSE IF p.amount # None /\ p.minQty >= 20 THEN "min_qty"
  ELSE IF p.amount # None THEN "fixed_price"
  ELSE IF p.minPurchase > 0 THEN "threshold"
  ELSE IF p.gift THEN "gift" ELSE IF p.rate > 0 THEN "percent" ELSE "unknown"

classify(p) ==
  IF p.variants = {} THEN "unknown"
  ELSE IF p.minPurchase > 0 THEN "threshold"
  ELSE IF p.gift THEN "gift"
  ELSE IF p.amount # None /\ p.minQty >= 20 THEN "min_qty"
  ELSE IF p.amount # None THEN "fixed_price"
  ELSE IF p.rate > 0 THEN "percent" ELSE "unknown"

V1_KINDS == {"fixed_price", "min_qty", "percent"}

-----------------------------------------------------------------------------
(* api/basket/promotions.py: one line.                                     *)

\* Whole bundles at their price and the rest at the shelf price.
Bundled(p, qty, price) ==
  LET threshold == p.minQty \div 10
  IN  p.amount * (qty \div threshold) + price * (qty % threshold)

\* _line_cost_under of a promotion that covers the variant; None if it does not apply.
LineCost(p, qty, price) ==
  LET kind == classify(p)
      part == IF p.rate > 100 THEN p.rate ELSE p.rate * 100
  IN  CASE kind = "fixed_price" -> p.amount * qty
        [] kind = "min_qty" -> IF qty < p.minQty \div 10 THEN None ELSE Bundled(p, qty, price)
        [] kind = "percent" -> Cents(price * qty * (10000 - part), 10000)
        [] OTHER -> None

InForce(p) == (p.starts = None \/ p.starts <= Now) /\ (p.ends = None \/ p.ends >= Now)

\* _offers and apply_promotions: the promotions of the store, and those of no store, that
\* are in force, may be applied and do not ask for a membership the customer has not.
Usable(s) ==
  {p \in input.promotions : /\ p.store \in {s, None} /\ InForce(p)
                            /\ classify(p) \in V1_KINDS
                            /\ input.club \/ ~p.clubOnly}

\* The best single promotion of a line, or none of them.
Line(s, item) ==
  LET row == prices[s][item]
      costs == {LineCost(p, Qty(item), row.price) :
                  p \in {u \in Usable(s) : row.variant \in u.variants}}
  IN  Min({row.price * Qty(item)} \cup (costs \ {None}))

Covers(s, item) == item \in DOMAIN prices[s]

\* _price_at: the items that a store does not sell cost nothing there.
PriceAt(s, items) == SumFunction([i \in {j \in items : Covers(s, j)} |-> Line(s, i)])

\* travel_settings: what a stop and an hour on the road are worth to the customer.
travel_settings(mode) ==
  IF mode = "balanced"
  THEN [penalty |-> TRAVEL_PENALTY_PER_STOP, hourly |-> TRAVEL_VALUE_PER_HOUR]
  ELSE [penalty |-> 0, hourly |-> 0]

Minutes(stores) == SumFunction([k \in DOMAIN stores |-> input.stores[stores[k]].minutes])

\* _travel_cost: every stop, and the time on the road.
TravelCost(stores) ==
  LET travel == travel_settings(input.mode)
  IN  Cents(travel.penalty * Len(stores) * 600 + travel.hourly * Minutes(stores), 600)

-----------------------------------------------------------------------------
(* api/basket/optimizer.py.                                                *)

Plan(stores, goods, missing) ==
  [stores |-> stores, goods |-> goods, missing |-> missing,
   total |-> goods + TravelCost(stores)]

Single(s) == Plan(<<s>>, PriceAt(s, Items), {i \in Items : ~Covers(s, i)})

\* Fewest missing items, then the cheapest.
Better(p, q) ==
  \/ Cardinality(p.missing) < Cardinality(q.missing)
  \/ Cardinality(p.missing) = Cardinality(q.missing) /\ p.total < q.total

\* Ties stay in the order of the candidates.
Before(p, q) == Better(p, q) \/ (~Better(q, p) /\ p.stores[1] < q.stores[1])

\* Every store priced for the whole basket.
Singles == {Single(s) : s \in DOMAIN prices}

solve_single == Ordered(Singles, Before)

Init ==
  /\ input \in Input
  /\ prices = <<>> /\ pc = "load" /\ single = None /\ pool = <<>> /\ pair = <<1, 2>>
  /\ left = {} /\ right = {} /\ cursor = 0 /\ improved = FALSE
  /\ plans = <<>> /\ answer = <<>>

\* What a store lists under a product: the cheapest code, whichever of several.
Listings(s) ==
  LET rows == {r \in input.stores[s].rows : r.item \in Items}
  IN  {f \in [{r.item : r \in rows} -> rows] :
         \A i \in DOMAIN f : f[i].item = i /\ \A r \in rows : r.item = i => f[i].price <= r.price}

\* _candidate_stores: of the first stores in range, those that list anything wanted.
Load ==
  /\ pc = "load"
  /\ LET near == {s \in DOMAIN input.stores : s <= MAX_CANDIDATE_STORES}
         some == {s \in near : Listings(s) # {<<>>}}
     IN  prices' \in {f \in [some -> UNION {Listings(s) : s \in some}] :
                        \A s \in some : f[s] \in Listings(s)}
  /\ pc' = "rank"
  /\ UNCHANGED <<input, single, pool, pair, left, right, cursor, improved, plans, answer>>

max_stores == IF input.mode = "single_store" THEN 1 ELSE input.maxStores

\* solve_single, and the stores from which solve_pairs draws its pairs.
Rank ==
  /\ pc = "rank"
  /\ LET ranked == solve_single
         size == IF max_stores >= 2 THEN Min({PAIR_POOL, Len(ranked)}) ELSE 0
     IN  /\ single' = IF ranked = <<>> THEN None ELSE ranked[1]
         /\ pool' = [k \in 1..size |-> ranked[k].stores[1]]
  /\ pc' = "pair"
  /\ UNCHANGED <<input, prices, pair, left, right, cursor, improved, plans, answer>>

\* The pair in hand and the next one, in the order of itertools.combinations.
First == pool[pair[1]]
Second == pool[pair[2]]
NextPair == IF pair[2] < Len(pool) THEN <<pair[1], pair[2] + 1>> ELSE <<pair[1] + 1, pair[1] + 2>>

\* Greedy: every item to the store with the lower shelf price.
Greedy ==
  LET cheaperLeft == {i \in Items : Covers(First, i) /\ Covers(Second, i) =>
                                      prices[First][i].price <= prices[Second][i].price}
  IN  {i \in cheaperLeft : Covers(First, i)}

Split ==
  /\ pc = "pair" /\ pair[2] <= Len(pool)
  /\ left' = Greedy
  /\ right' = {i \in Items : Covers(Second, i)} \ Greedy
  /\ cursor' = 1 /\ improved' = FALSE /\ pc' = "improve"
  /\ UNCHANGED <<input, prices, single, pool, pair, plans, answer>>

Combined(l, r) == PriceAt(First, l) + PriceAt(Second, r)

\* Mutant: the item that moves is not put where it goes.
MovedAway(item) ==
  IF item \in left /\ Covers(Second, item) THEN <<left \ {item}, right>>
  ELSE <<left, right \ {item}>>

\* The other way to buy one item, if there is one.
Moved(item) ==
  CASE item \in left /\ Covers(Second, item) -> <<left \ {item}, right \cup {item}>>
    [] item \in right /\ Covers(First, item) -> <<left \cup {item}, right \ {item}>>
    [] OTHER -> <<left, right>>

\* Mutant: a move that costs the same is an improvement.
GainsOrTies(trial) == trial # <<left, right>> /\ Combined(trial[1], trial[2]) <= Combined(left, right)

\* A move is kept only if the whole basket gets cheaper.
Gains(trial) == Combined(trial[1], trial[2]) < Combined(left, right)

Try ==
  /\ pc = "improve" /\ cursor <= Len(input.wanted)
  /\ LET trial == IF Repeated(cursor) THEN <<left, right>> ELSE Moved(input.wanted[cursor].item)
         kept == IF Gains(trial) THEN trial ELSE <<left, right>>
     IN  left' = kept[1] /\ right' = kept[2] /\ improved' = (improved \/ Gains(trial))
  /\ cursor' = cursor + 1
  /\ UNCHANGED <<input, prices, pc, single, pool, pair, plans, answer>>

NextPass ==
  /\ pc = "improve" /\ cursor > Len(input.wanted) /\ improved
  /\ cursor' = 1 /\ improved' = FALSE
  /\ UNCHANGED <<input, prices, pc, single, pool, pair, left, right, plans, answer>>

\* A pass without a move: the pair is priced.
Assigned ==
  /\ pc = "improve" /\ cursor > Len(input.wanted) /\ ~improved
  /\ plans' = Append(plans, Plan(<<First, Second>>, Combined(left, right),
                                 Items \ (left \cup right)))
  /\ pair' = NextPair /\ pc' = "pair" /\ left' = {} /\ right' = {} /\ cursor' = 0
  /\ UNCHANGED <<input, prices, single, pool, improved, answer>>

\* Mutant: a pair is shown unless it is worse.
WorthShowingTies(split) ==
  Cardinality(split.missing) < Cardinality(single.missing) \/ split.total <= single.total

\* A pair is shown if it beats the single store on coverage or on money.
WorthShowing(split) ==
  Cardinality(split.missing) < Cardinality(single.missing) \/ split.total < single.total

\* What optimize_basket makes of the two plans, the split None if it is not shown.
Response(split) ==
  [single |-> single, split |-> split,
   split_saving |-> IF None \in {single, split} THEN None ELSE single.total - split.total,
   split_extra_minutes |-> IF None \in {single, split} THEN None
                           ELSE Minutes(split.stores) - Minutes(single.stores),
   missing |-> (IF single = None THEN Items ELSE single.missing)
                 \cap (IF split = None THEN Items ELSE split.missing)]

\* optimize: the first of the best pairs, and the best single store.
Answer ==
  /\ pc = "pair" /\ pair[2] > Len(pool)
  /\ LET best == {i \in DOMAIN plans : \A j \in DOMAIN plans :
                    ~Better(plans[j], plans[i]) /\ (j < i => Better(plans[i], plans[j]))}
         candidate == IF best = {} THEN None ELSE plans[CHOOSE i \in best : TRUE]
     IN  answer' = Response(IF candidate # None /\ WorthShowing(candidate)
                            THEN candidate ELSE None)
  /\ pc' = "done"
  /\ UNCHANGED <<input, prices, single, pool, pair, left, right, cursor, improved, plans>>

Next == Load \/ Rank \/ Split \/ Try \/ NextPass \/ Assigned \/ Answer

\* A request runs until it is answered.
Spec == Init /\ [][Next]_vars /\ WF_vars(Next)

-----------------------------------------------------------------------------
(* What the page makes of the answer: basketResult.                        *)

Abs(n) == IF n < 0 THEN -n ELSE n

\* The callout "splitting saves ...", None when it is not shown.
ClaimedSaving ==
  IF answer.split # None /\ answer.split_saving # None THEN Abs(answer.split_saving) ELSE None

-----------------------------------------------------------------------------
(* Properties.                                                             *)

\* assign_pair: at every step the items that either store sells are each bought once,
\* in a store that sells them.
EachItemIsBoughtOnce ==
  pc = "improve" =>
    /\ left \cap right = {}
    /\ left \cup right = {i \in Items : Covers(First, i) \/ Covers(Second, i)}
    /\ \A i \in left : Covers(First, i)
    /\ \A i \in right : Covers(Second, i)

\* What a line may cost by the published promotions of the day that need no threshold,
\* gift or missing membership: any number of whole bundles, or a price or a discount per
\* unit.
OpenTo(s, item) ==
  {p \in input.promotions : /\ p.store \in {s, None} /\ prices[s][item].variant \in p.variants
                            /\ InForce(p)
                            /\ p.minPurchase = 0 /\ ~p.gift /\ (p.clubOnly => input.club)}

Bundling(s, item) == {p \in OpenTo(s, item) : p.amount # None /\ p.minQty >= 20}
Fixing(s, item) == {p \in OpenTo(s, item) : p.amount # None /\ p.minQty < 20}
Discounting(s, item) == {p \in OpenTo(s, item) : p.amount = None /\ p.rate > 0}

BundlesOf(p, qty, price) ==
  {k * p.amount + (qty - k * (p.minQty \div 10)) * price :
     k \in {n \in 0..qty : n * (p.minQty \div 10) <= qty}}

BundleOptions(s, item) ==
  UNION {BundlesOf(p, Qty(item), prices[s][item].price) : p \in Bundling(s, item)}

FixedOptions(s, item) == {Qty(item) * p.amount : p \in Fixing(s, item)}

Part(p) == IF p.rate > 100 THEN p.rate ELSE 100 * p.rate

PercentOptions(s, item) ==
  {Cents(prices[s][item].price * Qty(item) * (10000 - Part(p)), 10000) :
     p \in Discounting(s, item)}

PayOptions(s, item) ==
  {prices[s][item].price * Qty(item)}
    \cup BundleOptions(s, item) \cup FixedOptions(s, item) \cup PercentOptions(s, item)

Payable(s, item) == Min(PayOptions(s, item))

\* Every way to buy what the two stores sell between them, w in the one and the rest in
\* the other, and what it costs.
SoldByEither(s, t) == {j \in Items : Covers(s, j) \/ Covers(t, j)}

WaysToSplit(s, t) ==
  {w \in SUBSET SoldByEither(s, t) : /\ \A j \in w : Covers(s, j)
                                    /\ \A j \in SoldByEither(s, t) \ w : Covers(t, j)}

CostOf(s, t, w) ==
  SumFunction([j \in w |-> Payable(s, j)])
    + SumFunction([j \in SoldByEither(s, t) \ w |-> Payable(t, j)])

CheapestSplit(s, t) == Min({CostOf(s, t, w) : w \in WaysToSplit(s, t)})

\* assign_pair with apply_promotions: local improvement ends at the cheapest of all the
\* ways to split the basket between the two stores.
PairIsOptimal ==
  \A i \in DOMAIN plans :
    plans[i].goods = CheapestSplit(plans[i].stores[1], plans[i].stores[2])

\* What one store asks for all it sells of the basket, with the trip there.
Outlay(s) == CostOf(s, s, SoldByEither(s, s)) + TravelCost(<<s>>)

\* A plan leaves out fewer items than one store alone, or as many for less.
Beats(plan, s) ==
  LET fewer == Cardinality(Items \ SoldByEither(s, s)) - Cardinality(plan.missing)
  IN  fewer > 0 \/ (fewer = 0 /\ plan.total < Outlay(s))

\* optimize, after solve_single and solve_pairs: a split that is shown beats every store
\* in range that sells anything, at the store's own best prices.
SplitIsWorthItsStop ==
  pc = "done" /\ answer.split # None => \A s \in DOMAIN prices : Beats(answer.split, s)

\* assign_pair: the passes come to an end, whatever the prices and promotions.
Terminates == <>(pc = "done")

\* basketResult tells the customer that the split saves money: it does.
ClaimedSavingIsReal ==
  pc = "done" /\ ClaimedSaving # None => ClaimedSaving = answer.split_saving
=============================================================================
