------------------------------- MODULE Browse -------------------------------
(***************************************************************************)
(* What GET /products, /filters, /products/{id}/prices and /search answer  *)
(* (api/routers/catalog.py and search.py), as operators on the rows of     *)
(* price_current that a statement sees.  A chain may sell one product      *)
(* under several codes, each with a row of its own in every branch.        *)
(*                                                                         *)
(* Nobody sends a location here: the page of web/app.js does not know one. *)
(***************************************************************************)
EXTENDS Integers, SequencesExt, FiniteSetsExt, Ordering

CONSTANTS
  Product,      \* canonical_products.id
  Alphabet,     \* the place of each product's name in the order of names
  Variant,      \* product_variants.id
  Store,
  Active,       \* the branches with is_active
  Chain,
  ChainOf,
  None,         \* SQL NULL
  PageSize,
  TableLimit    \* STORES_PER_PRODUCT_LIMIT

ASSUME ShopAssumption ==
  /\ Product \subseteq Nat /\ IsFiniteSet(Product) /\ Alphabet \in [Product -> Nat]
  /\ Active \subseteq Store /\ ChainOf \in [Store -> Chain] /\ None \notin Chain \cup Nat
ASSUME PageAssumption == PageSize \in Nat \ {0} /\ TableLimit \in Nat \ {0}

\* price_current, the rows that belong to a product; unit is normalized_unit_price.
PriceRow == [store : Store, variant : Variant, product : Product, price : Nat,
             unit : Nat \cup {None}, updated : Nat]

\* The rows in scope for p, and what they ask.
Offering(t, p, chips) ==
  {r \in t : /\ r.product = p /\ r.store \in Active
             /\ chips = {} \/ ChainOf[r.store] \in chips}

Asking(rows) == {r.price : r \in rows}
Cheapest(t, p, chips) == Min(Asking(Offering(t, p, chips)))
Dearest(t, p, chips) == Max(Asking(Offering(t, p, chips)))

\* min(normalized_unit_price), which passes over NULLs.
UnitPrice(rows) ==
  LET known == {r.unit : r \in rows} \ {None}
  IN  IF known = {} THEN None ELSE Min(known)

\* _price_aggregate: a row for each product that there is a row in scope for.
Aggregate(t, chips) ==
  {[id |-> p, cheapest |-> Cheapest(t, p, chips), dearest |-> Dearest(t, p, chips),
    unit |-> UnitPrice(Offering(t, p, chips)),
    chains |-> Cardinality({ChainOf[r.store] : r \in Offering(t, p, chips)}),
    updated |-> Max({r.updated : r \in Offering(t, p, chips)})] :
     p \in {p \in Product : Offering(t, p, chips) # {}}}

\* The conditions of browse: `only' are the products that those on the product's own
\* columns let through.
Matching(t, url) ==
  {r \in Aggregate(t, url.chips) : /\ r.id \in url.fields.only
                                  /\ r.cheapest <= url.fields.maxPrice
                                  /\ r.chains >= url.fields.minChains}

\* What ORDER BY compares, one after the other, each from the lowest; the id is last.
\* What is not an order is taken for the gap.
Keys(sort, r) ==
  LET gap == r.dearest - r.cheapest
  IN  CASE sort = "price" -> <<r.cheapest, 0, 0, r.id>>
        [] sort = "unit_price" /\ r.unit # None -> <<0, r.unit, r.cheapest, r.id>>
        [] sort = "unit_price" /\ r.unit = None -> <<1, 0, r.cheapest, r.id>>
        [] sort = "name" -> <<Alphabet[r.id], 0, 0, r.id>>
        [] sort = "chains" -> <<-r.chains, -gap, 0, r.id>>
        [] sort = "updated" -> <<-r.updated, 0, 0, r.id>>
        [] OTHER -> <<-gap, r.cheapest, 0, r.id>>

Earlier(sort, r, q) ==
  \E k \in 1..4 : /\ Keys(sort, r)[k] < Keys(sort, q)[k]
                  /\ \A j \in 1..(k - 1) : Keys(sort, r)[j] = Keys(sort, q)[j]

Found(t, url) == Ordered(Matching(t, url), LAMBDA r, q : Earlier(url.fields.sort, r, q))

\* OFFSET and LIMIT.
Page(t, url) ==
  LET first == PageSize * (url.page - 1) + 1
      all == Found(t, url)
  IN  SubSeq(all, first, Min({first + PageSize - 1, Len(all)}))

\* Mutant: the chains of the filter are forgotten.
ExtremesOfAll(t, p, chips) ==
  LET ends(price) == {ChainOf[r.store] : r \in {q \in Offering(t, p, {}) : q.price = price}}
  IN  IF Offering(t, p, {}) = {} THEN {<<None, None>>}
      ELSE ends(Cheapest(t, p, {})) \X ends(Dearest(t, p, {}))

\* _cheapest_and_dearest_chain: of the chains at an end of the range, the one whose row
\* comes first.
Extremes(t, p, chips) ==
  LET ends(price) == {ChainOf[r.store] : r \in {q \in Offering(t, p, chips) : q.price = price}}
  IN  IF Offering(t, p, chips) = {} THEN {<<None, None>>}
      ELSE ends(Cheapest(t, p, chips)) \X ends(Dearest(t, p, chips))

\* filters: the chains with a price, those of closed branches too.
ChainFacets(t) == {ChainOf[r.store] : r \in t}

\* _prices_for without a location: LIMIT without ORDER BY, of all chains.
PriceTables(t, p) ==
  LET all == Offering(t, p, {})
  IN  kSubset(Min({TableLimit, Cardinality(all)}), all)

\* search, for one product of the answer: its rows, and the lowest price among them.
SearchResults(t, p) ==
  {[rows |-> found,
    cheapest |-> IF found = {} THEN None ELSE Min(Asking(found))] :
     found \in PriceTables(t, p)}
=============================================================================
