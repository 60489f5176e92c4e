------------------------------- MODULE Catalog -------------------------------
(***************************************************************************)
(* The catalogue: catalog/build.py over the rows that a cycle staged, and  *)
(* the canonical_id that the fold of catalog/prices.py copies to           *)
(* price_current, which is all that search and baskets read.               *)
(*                                                                         *)
(* A cycle builds, folds and purges, each in a transaction of its own; the *)
(* loads of another job may commit between any two of them.  `build' is    *)
(* four SQL statements, one operator each.  Every staged row has a price.  *)
(***************************************************************************)
EXTENDS Barcode, FiniteSets, FiniteSetsExt

CONSTANTS
  Chain,
  Store,
  ChainOf,      \* ChainOf[s]: the chain of branch s
  Item,         \* item codes as published
  Sells,        \* Sells[s]: the codes that the files of s list
  Name,         \* names a file may give an item, in the order of MAX
  Gives,        \* Gives[s]: the names in the files of s, None for a nameless row
  Length,       \* Length[n]: characters of name n
  Threshold,    \* values an operator may give CATALOG_MIN_CHAIN_COUNT
  NoRow,        \* price_current has no row for the pair
  MaxStaged     \* bound of the model: rows in the staging table

ASSUME ChainAssumption == IsFiniteSet(Chain) /\ ChainOf \in [Store -> Chain]
ASSUME SellsAssumption == Sells \in [Store -> SUBSET Item] /\ IsFiniteSet(Item)
ASSUME ItemAssumption == \A i \in Item : i \in Seq(Range(i))
ASSUME NameAssumption == Name \subseteq Nat /\ IsFiniteSet(Name) /\ Length \in [Name -> Nat]
ASSUME GivesAssumption == Gives \in [Store -> SUBSET (Name \cup {None})]
ASSUME ThresholdAssumption == Threshold \subseteq Nat \ {0}
ASSUME MarkerAssumption ==
  None \notin Name /\ \A i \in Item : NoRow # normalize_barcode(i) /\ NoRow # None

VARIABLES
  staging,      \* staging_items
  nameOf,       \* product_variants.raw_name_he, None without a row
  link,         \* product_variants.canonical_id, as the product's barcode
  products,     \* canonical_products.barcode
  chainCount,   \* canonical_products.chain_count
  title,        \* canonical_products.name_he
  shown,        \* price_current.canonical_id
  threshold,    \* CATALOG_MIN_CHAIN_COUNT in the environment of the next build
  pc            \* the transaction of the cycle that comes next

vars == <<staging, nameOf, link, products, chainCount, title, shown, threshold, pc>>

\* product_variants: one row per chain and code, under UNIQUE (chain_id, item_code).
Variant == Chain \X Item
\* The loader stores the normalised barcode beside the code it was published as.
Normalized == [i \in Item |-> normalize_barcode(i)]
BarcodeOf(v) == Normalized[v[2]]
Barcodes == {Normalized[i] : i \in Item} \ {None}

\* price_current: one row per branch and variant.
OnSale == {p \in Store \X Item : p[2] \in Sells[p[1]]}
VariantOf(p) == <<ChainOf[p[1]], p[2]>>

StagingRow == [store : Store, item : Item, name : Name \cup {None}]

Init ==
  /\ staging = {} /\ pc = "build"
  /\ nameOf = [v \in Variant |-> None] /\ link = [v \in Variant |-> None]
  /\ products = {}
  /\ chainCount = [b \in Barcodes |-> 0] /\ title = [b \in Barcodes |-> None]
  /\ shown = [p \in OnSale |-> NoRow]
  /\ threshold \in Threshold

-----------------------------------------------------------------------------
(* The four statements of build.                                           *)

\* _upsert_variants: MAX of the names in the staged rows; a nameless row adds nothing.
UpsertVariants(staged, names) ==
  [v \in Variant |->
     LET given == {r.name : r \in {q \in staged : VariantOf(<<q.store, q.item>>) = v}}
     IN  IF given \ {None} = {} THEN names[v] ELSE Max(given \ {None})]

Carriers(names, b) == {v \in Variant : names[v] # None /\ BarcodeOf(v) = b}

\* COUNT(DISTINCT chain_id) of a barcode.
Spread(names, b) == Cardinality({v[1] : v \in Carriers(names, b)})

\* Mutant: rows without a barcode are grouped like any other.
EligibleWithNull(names) == {b \in Barcodes \cup {None} : Spread(names, b) >= threshold}

\* The barcodes that enough chains carry.
Eligible(names) == {b \in Barcodes : Spread(names, b) >= threshold}

\* The names ROW_NUMBER may rank first: most rows, then longest.
Titles(names, b) ==
  LET used == {names[v] : v \in Carriers(names, b)}
      Uses(n) == Cardinality({v \in Carriers(names, b) : names[v] = n})
  IN  {n \in used : \A m \in used :
         \/ Uses(n) > Uses(m)
         \/ Uses(n) = Uses(m) /\ Length[n] >= Length[m]}

\* _upsert_canonicals gives every eligible product the title it has now.
Retitled(names, old) ==
  {t \in [Barcodes -> Name \cup {None}] :
     \A b \in Barcodes :
       IF b \in Eligible(names) THEN t[b] \in Titles(names, b) ELSE t[b] = old[b]}

\* _link_variants: to the product with the variant's barcode; only the link to a row
\* that does not exist is taken away.
Linked(names, rows, old) ==
  [v \in Variant |->
     IF names[v] # None /\ BarcodeOf(v) \in rows THEN BarcodeOf(v)
     ELSE IF old[v] \in rows THEN old[v] ELSE None]

\* chain_count as the upsert leaves it.
Counted(names, old) ==
  [b \in Barcodes |-> IF b \in Eligible(names) THEN Spread(names, b) ELSE old[b]]

\* Mutant: the counts of the upsert are kept.
NotRefreshed(links, counts) == counts

\* _refresh_chain_counts, for every product with a linked variant.
Refreshed(links, counts) ==
  [b \in Barcodes |->
     LET linked == {v \in Variant : links[v] = b}
     IN  IF linked = {} THEN counts[b] ELSE Cardinality({v[1] : v \in linked})]

-----------------------------------------------------------------------------
(* The transactions.                                                       *)

\* Rows of one branch's file enter the staging table, whatever the cycle is doing.
Stage(s) ==
  \E listed \in SUBSET Sells[s] : \E name \in [listed -> Gives[s]] :
    /\ listed # {}
    /\ staging' = staging \cup {[store |-> s, item |-> i, name |-> name[i]] : i \in listed}
    /\ Cardinality(staging') <= MaxStaged
    /\ UNCHANGED <<nameOf, link, products, chainCount, title, shown, threshold, pc>>

Build ==
  /\ pc = "build"
  /\ nameOf' = UpsertVariants(staging, nameOf)
  /\ products' = products \cup Eligible(nameOf')
  /\ title' \in Retitled(nameOf', title)
  /\ link' = Linked(nameOf', products', link)
  /\ chainCount' = Refreshed(link', Counted(nameOf', chainCount))
  /\ pc' = "fold"
  /\ UNCHANGED <<staging, shown, threshold>>

\* _rebuild_current copies canonical_id to the rows of the pairs staged, and drops
\* rows that no fold has written for PRICE_CURRENT_MAX_AGE_DAYS.
Observed == {p \in OnSale :
               /\ \E r \in staging : <<r.store, r.item>> = p
               /\ nameOf[VariantOf(p)] # None}

\* Mutant: a row is compared as soon as its code is a barcode.
FoldByBarcode ==
  /\ pc = "fold"
  /\ shown' = [p \in OnSale |-> IF p \in Observed THEN BarcodeOf(VariantOf(p)) ELSE shown[p]]
  /\ pc' = "purge"
  /\ UNCHANGED <<staging, nameOf, link, products, chainCount, title, threshold>>

\* Mutant: ON CONFLICT keeps the canonical_id that the row was inserted with.
FoldInserts ==
  /\ pc = "fold"
  /\ shown' = [p \in OnSale |-> IF p \in Observed /\ shown[p] = NoRow
                                THEN link[VariantOf(p)] ELSE shown[p]]
  /\ pc' = "purge"
  /\ UNCHANGED <<staging, nameOf, link, products, chainCount, title, threshold>>

Fold ==
  /\ pc = "fold"
  /\ \E stale \in SUBSET {p \in OnSale \ Observed : shown[p] # NoRow} :
       shown' = [p \in OnSale |-> IF p \in Observed THEN link[VariantOf(p)]
                                  ELSE IF p \in stale THEN NoRow ELSE shown[p]]
  /\ pc' = "purge"
  /\ UNCHANGED <<staging, nameOf, link, products, chainCount, title, threshold>>

\* purge_staging ends a cycle.
Purge ==
  /\ pc = "purge"
  /\ staging' = {} /\ pc' = "build"
  /\ UNCHANGED <<nameOf, link, products, chainCount, title, shown, threshold>>

\* An operator restarts the worker with another CATALOG_MIN_CHAIN_COUNT.
Configure ==
  /\ threshold' \in Threshold \ {threshold}
  /\ UNCHANGED <<staging, nameOf, link, products, chainCount, title, shown, pc>>

Next == Build \/ Fold \/ Purge \/ Configure \/ \E s \in Store : Stage(s)
Spec == Init /\ [][Next]_vars

-----------------------------------------------------------------------------

\* The daily file of a branch lists, with a name, everything the branch sells.
StageFull(s) ==
  /\ Stage(s)
  /\ \A i \in Sells[s] : \E r \in staging' : r.store = s /\ r.item = i /\ r.name # None

\* cron repeats the cycle (deploy/crontab) and every branch publishes a full file daily,
\* which some cycle finds between the purge of the one before and its own build.
FairSpec ==
  /\ Spec
  /\ WF_vars(Build) /\ WF_vars(Fold) /\ WF_vars(Purge)
  /\ \A s \in Store : SF_vars(pc = "build" /\ StageFull(s))

-----------------------------------------------------------------------------
(* Properties.                                                             *)

\* Every variable holds values of its column.
TypeOK ==
  /\ staging \subseteq StagingRow
  /\ nameOf \in [Variant -> Name \cup {None}]
  /\ link \in [Variant -> Barcodes \cup {None}]
  /\ products \subseteq Barcodes
  /\ chainCount \in [Barcodes -> Nat]
  /\ title \in [Barcodes -> Name \cup {None}]
  /\ shown \in [OnSale -> Barcodes \cup {None, NoRow}]
  /\ threshold \in Threshold
  /\ pc \in {"build", "fold", "purge"}

\* The number a code spells, as the 13 digits that its leading zeros complete.
Spelled == [i \in Item |->
  LET code == DigitsOf(i)
  IN  [k \in 1..13 |-> IF k + Len(code) > 13 THEN code[k + Len(code) - 13] ELSE 0]]

\* normalize_barcode and _link_variants: whatever was published, built or reconfigured,
\* the variants compared as one product spell one number, and not an in-store number.
ComparedAreOneProduct ==
  \A v, w \in Variant :
    link[v] # None /\ link[v] = link[w] =>
      /\ Spelled[v[2]] = Spelled[w[2]]
      /\ Len(v[2]) > 8 => SubSeq(Spelled[v[2]], 1, 2) \notin INTERNAL_PREFIXES

\* _refresh_chain_counts: between transactions chain_count, by which search and the
\* catalogue rank, is the number of chains whose variants are linked to the product,
\* also for a product that fell below a raised threshold and is no longer upserted.
ChainCountIsHonest ==
  \A b \in products :
    chainCount[b] = Cardinality({v[1] : v \in {w \in Variant : link[w] = b}})

\* _rebuild_current: price_current never offers a variant as a product that it is not
\* linked to now, whichever builds and folds came between (a row may lag behind a
\* new link).
ShownIsLinked == \A p \in OnSale : shown[p] \in {NoRow, None, link[VariantOf(p)]}

\* build and fold together: every branch that sells a variant of an existing product
\* comes to offer it as comparable, also one whose rows were written before the
\* product existed.
ComparableIsShown ==
  \A p \in OnSale :
    (BarcodeOf(VariantOf(p)) \in products) ~> (shown[p] = BarcodeOf(VariantOf(p)))
=============================================================================
