--------------------------- MODULE CatalogProofs ---------------------------
(***************************************************************************)
(* Proofs about Catalog, for any chains, branches, codes and names and for *)
(* any thresholds, whatever is staged between the transactions of a cycle: *)
(* the columns keep their types, what is compared spells one number,       *)
(* chain_count is the number of chains linked, and price_current offers    *)
(* nothing that is not linked.                                             *)
(*                                                                         *)
(* The argument is that links only grow (`LinksAreKept'): a variant is     *)
(* linked to the product of its own barcode or to none, the product        *)
(* exists, every product has a variant, and no build takes a link away.    *)
(* A barcode determines the number that its spellings have in common.      *)
(***************************************************************************)
EXTENDS Catalog, SetFacts, SequenceTheorems

\* A finite set of numbers has a maximum.
LEMMA MaxIsIn ==
  ASSUME NEW S, IsFiniteSet(S), S \subseteq Nat, S # {}
  PROVE  Max(S) \in S
<1>1. S \subseteq Int
  OBVIOUS
<1>2. \E m \in S : \A n \in S : m >= n
  BY <1>1, LeastAndGreatest
<1> QED
  BY <1>2 DEF Max

-----------------------------------------------------------------------------
(* The statements of build.                                                *)

LEMMA NormalizedType ==
  ASSUME NEW v \in Variant
  PROVE  BarcodeOf(v) \in Barcodes \cup {None}
<1>1. v[2] \in Item
  BY DEF Variant
<1>2. Normalized[v[2]] \in {Normalized[i] : i \in Item}
  BY <1>1
<1> QED
  BY <1>2 DEF BarcodeOf, Barcodes

LEMMA VariantOfType ==
  ASSUME NEW p \in OnSale
  PROVE  VariantOf(p) \in Variant
<1>1. p \in Store \X Item
  BY DEF OnSale
<1>2. p[1] \in Store /\ p[2] \in Item
  BY <1>1
<1> QED
  BY <1>2, ChainAssumption DEF VariantOf, Variant

\* The chains of a set of variants can be counted.
LEMMA ChainsCount ==
  ASSUME NEW V \in SUBSET Variant
  PROVE  /\ IsFiniteSet({v[1] : v \in V})
         /\ Cardinality({v[1] : v \in V}) \in Nat
<1>1. {v[1] : v \in V} \subseteq Chain
  BY DEF Variant
<1>2. IsFiniteSet({v[1] : v \in V})
  BY <1>1, ChainAssumption, FS_Subset
<1> QED
  BY <1>2, FS_CardinalityType

LEMMA UpsertVariantsType ==
  ASSUME NEW staged, staged \subseteq StagingRow,
         NEW names \in [Variant -> Name \cup {None}]
  PROVE  UpsertVariants(staged, names) \in [Variant -> Name \cup {None}]
<1> SUFFICES ASSUME NEW v \in Variant
             PROVE  UpsertVariants(staged, names)[v] \in Name \cup {None}
  BY DEF UpsertVariants
<1> DEFINE given == {r.name : r \in {q \in staged : VariantOf(<<q.store, q.item>>) = v}}
<1>1. given \ {None} \subseteq Name
  BY DEF StagingRow
<1>2. IsFiniteSet(given \ {None}) /\ given \ {None} \subseteq Nat
  BY <1>1, NameAssumption, FS_Subset
<1>3. UpsertVariants(staged, names)[v]
        = IF given \ {None} = {} THEN names[v] ELSE Max(given \ {None})
  BY DEF UpsertVariants
<1> HIDE DEF given
<1>4. CASE given \ {None} = {}
  BY <1>3, <1>4
<1>5. CASE given \ {None} # {}
  BY <1>1, <1>2, <1>3, <1>5, MaxIsIn
<1> QED
  BY <1>4, <1>5

\* A barcode that enough chains carry is carried by some variant.
LEMMA EligibleIsCarried ==
  ASSUME threshold \in Threshold, NEW names, NEW b \in Eligible(names)
  PROVE  \E v \in Variant : names[v] # None /\ BarcodeOf(v) = b
<1>1. Spread(names, b) >= threshold /\ threshold \in Nat \ {0}
  BY ThresholdAssumption DEF Eligible
<1>2. SUFFICES ASSUME Carriers(names, b) = {}
               PROVE  FALSE
  BY DEF Carriers
<1>3. {v[1] : v \in Carriers(names, b)} = {}
  BY <1>2
<1>4. Spread(names, b) = 0
  BY <1>3, FS_EmptySet DEF Spread
<1> QED
  BY <1>1, <1>4

-----------------------------------------------------------------------------
(* Types.                                                                  *)

\* The columns hold values of their types.
THEOREM CatalogType == Spec => []TypeOK
<1>1. Init => TypeOK
  <2> SUFFICES ASSUME Init
               PROVE  TypeOK
    OBVIOUS
  <2> QED
    BY DEF Init, TypeOK
<1>2. TypeOK /\ [Next]_vars => TypeOK'
  <2> SUFFICES ASSUME TypeOK, [Next]_vars
               PROVE  TypeOK'
    OBVIOUS
  <2>1. ASSUME NEW s \in Store, Stage(s)
        PROVE  TypeOK'
    <3>1. PICK listed \in SUBSET Sells[s] : \E name \in [listed -> Gives[s]] :
            staging' = staging \cup {[store |-> s, item |-> i, name |-> name[i]] : i \in listed}
      BY <2>1 DEF Stage
    <3>2. PICK name \in [listed -> Gives[s]] :
            staging' = staging \cup {[store |-> s, item |-> i, name |-> name[i]] : i \in listed}
      BY <3>1
    <3>3. \A i \in listed : i \in Item /\ name[i] \in Name \cup {None}
      BY SellsAssumption, GivesAssumption
    <3>4. staging' \subseteq StagingRow
      BY <3>2, <3>3 DEF TypeOK, StagingRow
    <3> QED
      BY <2>1, <3>4 DEF TypeOK, Stage
  <2>2. CASE Build
    <3>1. nameOf' \in [Variant -> Name \cup {None}]
      BY <2>2, UpsertVariantsType DEF Build, TypeOK
    <3>2. products' \subseteq Barcodes
      BY <2>2 DEF Build, TypeOK, Eligible
    <3>3. title' \in [Barcodes -> Name \cup {None}]
      BY <2>2 DEF Build, Retitled
    <3>4. link' \in [Variant -> Barcodes \cup {None}]
      BY <2>2, <3>2 DEF Build, Linked
    <3>5. Counted(nameOf', chainCount) \in [Barcodes -> Nat]
      <4> SUFFICES ASSUME NEW b \in Barcodes
                   PROVE  Counted(nameOf', chainCount)[b] \in Nat
        BY DEF Counted
      <4>1. Carriers(nameOf', b) \in SUBSET Variant
        BY DEF Carriers
      <4>2. Spread(nameOf', b) \in Nat
        BY <4>1, ChainsCount DEF Spread
      <4> QED
        BY <4>2 DEF Counted, TypeOK
    <3>6. chainCount' \in [Barcodes -> Nat]
      <4> DEFINE counts == Counted(nameOf', chainCount)
      <4>1. chainCount' = Refreshed(link', counts)
        BY <2>2 DEF Build
      <4>2. counts \in [Barcodes -> Nat]
        BY <3>5
      <4> HIDE DEF counts
      <4>3. ASSUME NEW b \in Barcodes
            PROVE  Refreshed(link', counts)[b] \in Nat
        <5> DEFINE linked == {v \in Variant : link'[v] = b}
        <5>1. Cardinality({v[1] : v \in linked}) \in Nat
          BY ChainsCount
        <5>2. Refreshed(link', counts)[b]
                = IF linked = {} THEN counts[b] ELSE Cardinality({v[1] : v \in linked})
          BY DEF Refreshed
        <5> HIDE DEF linked
        <5> QED
          BY <4>2, <5>1, <5>2
      <4> QED
        BY <4>1, <4>3 DEF Refreshed
    <3> QED
      BY <2>2, <3>1, <3>2, <3>3, <3>4, <3>6 DEF Build, TypeOK
  <2>3. CASE Fold
    <3>1. shown' \in [OnSale -> Barcodes \cup {None, NoRow}]
      BY <2>3, VariantOfType DEF Fold, TypeOK
    <3> QED
      BY <2>3, <3>1 DEF Fold, TypeOK
  <2>4. CASE Purge
    BY <2>4 DEF Purge, TypeOK
  <2>5. CASE Configure
    BY <2>5 DEF Configure, TypeOK
  <2>6. CASE UNCHANGED vars
    BY <2>6 DEF vars, TypeOK
  <2> QED
    BY <2>1, <2>2, <2>3, <2>4, <2>5, <2>6 DEF Next
<1> QED
  BY <1>1, <1>2, PTL DEF Spec

-----------------------------------------------------------------------------
(* Links, counts and what price_current offers.                            *)

\* The inductive invariant: links go to the product of the variant's own barcode, to
\* rows that exist, and leave no product without a variant.
LinksAreKept ==
  /\ \A v \in Variant : link[v] \in {None, BarcodeOf(v)}
  /\ \A v \in Variant : link[v] # None => link[v] \in products
  /\ \A b \in products : \E v \in Variant : link[v] = b

CatalogInvariant == TypeOK /\ LinksAreKept /\ ChainCountIsHonest /\ ShownIsLinked

LEMMA CatalogInitially == Init => LinksAreKept /\ ChainCountIsHonest /\ ShownIsLinked
<1> SUFFICES ASSUME Init
             PROVE  LinksAreKept /\ ChainCountIsHonest /\ ShownIsLinked
  OBVIOUS
<1>1. LinksAreKept
  BY DEF Init, LinksAreKept
<1>2. ChainCountIsHonest
  BY DEF Init, ChainCountIsHonest
<1>3. ShownIsLinked
  BY DEF Init, ShownIsLinked
<1> QED
  BY <1>1, <1>2, <1>3

\* A build gives links and takes none away.
LEMMA BuildLinks ==
  ASSUME TypeOK, LinksAreKept, Build
  PROVE  /\ \A v \in Variant : link[v] # None => link'[v] = link[v]
         /\ LinksAreKept'
<1>1. /\ products' = products \cup Eligible(nameOf')
      /\ link' = [v \in Variant |->
                    IF nameOf'[v] # None /\ BarcodeOf(v) \in products' THEN BarcodeOf(v)
                    ELSE IF link[v] \in products' THEN link[v] ELSE None]
  BY DEF Build, Linked
<1>2. None \notin products'
  BY <1>1 DEF TypeOK, Eligible, Barcodes
<1>3. \A v \in Variant : link[v] # None => link'[v] = link[v]
  BY <1>1 DEF LinksAreKept
<1>4. \A v \in Variant : link'[v] \in {None, BarcodeOf(v)}
  BY <1>1 DEF LinksAreKept
<1>5. \A v \in Variant : link'[v] # None => link'[v] \in products'
  BY <1>1
<1>6. ASSUME NEW b \in products'
      PROVE  \E v \in Variant : link'[v] = b
  <2>1. CASE b \in products
    <3>1. PICK v \in Variant : link[v] = b
      BY <2>1 DEF LinksAreKept
    <3> QED
      BY <1>2, <1>3, <3>1
  <2>2. CASE b \in Eligible(nameOf')
    <3>1. threshold \in Threshold
      BY DEF TypeOK
    <3>2. PICK v \in Variant : nameOf'[v] # None /\ BarcodeOf(v) = b
      BY <2>2, <3>1, EligibleIsCarried
    <3> QED
      BY <1>1, <3>2
  <2> QED
    BY <1>1, <2>1, <2>2
<1>7. \A v \in Variant : BarcodeOf(v)' = BarcodeOf(v)
  BY DEF BarcodeOf, Normalized
<1>8. LinksAreKept'
  BY <1>4, <1>5, <1>6, <1>7 DEF LinksAreKept
<1> QED
  BY <1>3, <1>8

LEMMA BuildCounts ==
  ASSUME LinksAreKept', products' \subseteq Barcodes, Build
  PROVE  ChainCountIsHonest'
<1> SUFFICES ASSUME NEW b \in products'
             PROVE  chainCount'[b]
                      = Cardinality({v[1] : v \in {w \in Variant : link'[w] = b}})
  BY DEF ChainCountIsHonest
<1> DEFINE counts == Counted(nameOf', chainCount)
           linked == {v \in Variant : link'[v] = b}
<1>1. chainCount' = Refreshed(link', counts) /\ b \in Barcodes
  BY DEF Build
<1>2. linked # {}
  BY DEF LinksAreKept
<1>3. Refreshed(link', counts)[b]
        = IF linked = {} THEN counts[b] ELSE Cardinality({v[1] : v \in linked})
  BY <1>1 DEF Refreshed
<1> HIDE DEF counts, linked
<1>4. chainCount'[b] = Cardinality({v[1] : v \in linked})
  BY <1>1, <1>2, <1>3
<1> QED
  BY <1>4 DEF linked

LEMMA CatalogStep ==
  ASSUME CatalogInvariant, TypeOK', [Next]_vars
  PROVE  LinksAreKept' /\ ChainCountIsHonest' /\ ShownIsLinked'
<1> USE DEF CatalogInvariant
<1>1. ASSUME NEW s \in Store, Stage(s)
      PROVE  LinksAreKept' /\ ChainCountIsHonest' /\ ShownIsLinked'
  BY <1>1 DEF Stage, LinksAreKept, ChainCountIsHonest, ShownIsLinked
<1>2. CASE Build
  <2>1. LinksAreKept'
    BY <1>2, BuildLinks
  <2>2. ChainCountIsHonest'
    BY <1>2, <2>1, BuildCounts DEF TypeOK
  <2>3. ASSUME NEW p \in OnSale
        PROVE  shown'[p] \in {NoRow, None, link'[VariantOf(p)]}
    <3>1. shown'[p] = shown[p] /\ shown[p] \in {NoRow, None, link[VariantOf(p)]}
      BY <1>2 DEF Build, ShownIsLinked
    <3>2. link[VariantOf(p)] = None \/ link'[VariantOf(p)] = link[VariantOf(p)]
      BY <1>2, BuildLinks, VariantOfType
    <3> QED
      BY <3>1, <3>2
  <2> QED
    BY <2>1, <2>2, <2>3 DEF ShownIsLinked
<1>3. CASE Fold
  <2>1. \A p \in OnSale : shown'[p] \in {link[VariantOf(p)], NoRow, shown[p]}
    BY <1>3 DEF Fold
  <2>2. ShownIsLinked'
    BY <1>3, <2>1 DEF Fold, ShownIsLinked
  <2> QED
    BY <1>3, <2>2 DEF Fold, LinksAreKept, ChainCountIsHonest
<1>4. CASE Purge
  BY <1>4 DEF Purge, LinksAreKept, ChainCountIsHonest, ShownIsLinked
<1>5. CASE Configure
  BY <1>5 DEF Configure, LinksAreKept, ChainCountIsHonest, ShownIsLinked
<1>6. CASE UNCHANGED vars
  BY <1>6 DEF vars, LinksAreKept, ChainCountIsHonest, ShownIsLinked
<1> QED
  BY <1>1, <1>2, <1>3, <1>4, <1>5, <1>6 DEF Next

\* build.py between its transactions: links, counts and offers agree with each other.
THEOREM CatalogIsInvariant == Spec => []CatalogInvariant
<1>1. Init /\ TypeOK => CatalogInvariant
  BY CatalogInitially DEF CatalogInvariant
<1>2. CatalogInvariant /\ [Next]_vars /\ TypeOK' => CatalogInvariant'
  BY CatalogStep DEF CatalogInvariant
<1> QED
  BY <1>1, <1>2, CatalogType, PTL DEF Spec

\* _refresh_chain_counts: after every transaction, however thresholds changed between the
\* builds, chain_count is the number of chains with a linked variant.
THEOREM CountsAreHonest == Spec => []ChainCountIsHonest
<1>1. CatalogInvariant => ChainCountIsHonest
  BY DEF CatalogInvariant
<1> QED
  BY <1>1, CatalogIsInvariant, PTL

\* _rebuild_current: price_current offers a variant as the product it is linked to or as
\* none, whatever is staged, built and folded in whichever order.
THEOREM OffersAreLinked == Spec => []ShownIsLinked
<1>1. CatalogInvariant => ShownIsLinked
  BY DEF CatalogInvariant
<1> QED
  BY <1>1, CatalogIsInvariant, PTL

\* _link_variants: variants compared as one product have one barcode.
THEOREM LinkedShareABarcode ==
  Spec => [](\A v, w \in Variant :
               link[v] # None /\ link[v] = link[w] => BarcodeOf(v) = BarcodeOf(w))
<1>1. CatalogInvariant => \A v, w \in Variant :
        link[v] # None /\ link[v] = link[w] => BarcodeOf(v) = BarcodeOf(w)
  BY DEF CatalogInvariant, LinksAreKept
<1> QED
  BY <1>1, CatalogIsInvariant, PTL

\* _link_variants: no step takes a variant away from the product it is linked to.
THEOREM LinksAreFinal ==
  Spec => [][\A v \in Variant : link[v] # None => link'[v] = link[v]]_vars
<1>1. CatalogInvariant /\ [Next]_vars
        => [\A v \in Variant : link[v] # None => link'[v] = link[v]]_vars
  <2> SUFFICES ASSUME CatalogInvariant, [Next]_vars
               PROVE  \A v \in Variant : link[v] # None => link'[v] = link[v]
    OBVIOUS
  <2>1. CASE Build
    BY <2>1, BuildLinks DEF CatalogInvariant
  <2>2. CASE ~Build
    BY <2>2 DEF Next, vars, Stage, Fold, Purge, Configure
  <2> QED
    BY <2>1, <2>2
<1> QED
  BY <1>1, CatalogIsInvariant, PTL DEF Spec

-----------------------------------------------------------------------------
(* What is compared as one product.                                        *)

\* The places of the digits are numbers, so they have an order, and each its digit.
LEMMA DigitsAre ==
  ASSUME NEW raw, raw \in Seq(Range(raw))
  PROVE  DigitsOf(raw) \in Seq(Digit)
<1> DEFINE S == {k \in DOMAIN raw : raw[k] \in Digit}
           R == {x \in S \X S : x[1] < x[2]}
           n == Cardinality(S)
           At(k) == CHOOSE x \in S : Cardinality({y \in S : y < x}) = k - 1
<1>1. S \subseteq 1..Len(raw) /\ Len(raw) \in Nat /\ \A k \in S : k \in Int /\ raw[k] \in Digit
  OBVIOUS
<1>2. IsFiniteSet(S) /\ n \in Nat
  <2>1. IsFiniteSet(1..Len(raw))
    BY <1>1, FS_Interval
  <2> HIDE DEF S
  <2> QED
    BY <1>1, <2>1, FS_Subset, FS_CardinalityType
<1>3. \A x, y \in S : <<x, y>> \in R <=> x < y
  OBVIOUS
<1>4. DigitsOf(raw) = [k \in 1..n |-> raw[At(k)]]
  BY DEF DigitsOf, Ordered
<1> HIDE DEF S, R
<1>5. \A x \in S : {y \in S : y < x} = Preceding(S, R, x)
  BY <1>3 DEF Preceding
<1>6. /\ \A x, y \in S : x # y => <<x, y>> \in R \/ <<y, x>> \in R
      /\ \A x, y \in S : <<x, y>> \in R => <<y, x>> \notin R
      /\ \A x, y, z \in S : <<x, y>> \in R /\ <<y, z>> \in R => <<x, z>> \in R
  BY <1>1, <1>3
<1>7. \A k \in 1..n : \E x \in S : Cardinality(Preceding(S, R, x)) = k - 1
  BY <1>2, <1>6, EveryPlaceIsTaken
<1>8. \A k \in 1..n : At(k) \in S
  BY <1>5, <1>7
<1> HIDE DEF At, n
<1>9. \A k \in 1..n : raw[At(k)] \in Digit
  BY <1>1, <1>8
<1> QED
  BY <1>2, <1>4, <1>9

\* normalize_barcode keeps the number that a code spells, and no in-store number.
LEMMA BarcodeSpells ==
  ASSUME NEW i \in Item, Normalized[i] # None
  PROVE  LET code == Normalized[i]
         IN  /\ code \in Seq(Digit)
             /\ \/ Len(code) = 13 /\ Spelled[i] = code /\ SubSeq(code, 1, 2) \notin INTERNAL_PREFIXES
                \/ /\ Len(code) = 8
                   /\ Spelled[i] = [k \in 1..13 |-> IF k > 5 THEN code[k - 5] ELSE 0]
<1> DEFINE d == DigitsOf(i)
           n == Len(d)
           code == Normalized[i]
<1>1. d \in Seq(Digit)
  BY ItemAssumption, DigitsAre
<1>2. code = normalize_barcode(i)
  BY DEF Normalized
<1>3. Spelled[i] = [k \in 1..13 |-> IF k + n > 13 THEN d[k + n - 13] ELSE 0]
  BY DEF Spelled
<1>4. code = Padded(d) /\ SubSeq(code, 1, 2) \notin INTERNAL_PREFIXES
  BY <1>2 DEF normalize_barcode
<1> HIDE DEF code, d
<1>5. n \in Nat /\ d \in [1..n -> Digit]
  BY <1>1
<1>6. CASE n \in {11, 12, 13}
  <2> DEFINE zeros == Zeros(13 - n)
  <2>1. code = zeros \o d /\ 13 - n \in Nat
    <3>1. Padded(d) = Zeros(13 - n) \o d
      BY <1>6, Zenon DEF Padded
    <3> HIDE DEF zeros
    <3>2. 13 - n \in Nat
      <4> HIDE DEF n
      <4> QED
        BY <1>6
    <3>3. code = zeros \o d
      BY <1>4, <3>1 DEF zeros
    <3> QED
      BY <3>2, <3>3
  <2>2. zeros \in Seq(Digit) /\ Len(zeros) = 13 - n
    BY <2>1 DEF Zeros, Digit
  <2>3. /\ code \in Seq(Digit) /\ Len(code) = 13
        /\ \A k \in 1..13 : code[k] = IF k <= 13 - n THEN Zeros(13 - n)[k] ELSE d[k - (13 - n)]
    <3> HIDE DEF zeros
    <3>1. code \in Seq(Digit) /\ Len(code) = Len(zeros) + Len(d)
      BY <1>1, <2>1, <2>2, ConcatProperties
    <3>2. Len(code) = 13
      BY <1>5, <2>2, <3>1
    <3>3. \A k \in 1..Len(zeros) + Len(d) :
            code[k] = IF k <= Len(zeros) THEN zeros[k] ELSE d[k - Len(zeros)]
      BY <1>1, <2>1, <2>2, ConcatProperties
    <3>4. \A k \in 1..13 : code[k] = IF k <= 13 - n THEN zeros[k] ELSE d[k - (13 - n)]
      BY <2>2, <3>1, <3>2, <3>3
    <3> QED
      BY <3>1, <3>2, <3>4 DEF zeros
  <2>4. \A k \in 1..13 : code[k] = IF k + n > 13 THEN d[k + n - 13] ELSE 0
    <3> TAKE k \in 1..13
    <3>1. CASE k <= 13 - n
      <4>1. Zeros(13 - n)[k] = 0
        BY <1>5, <2>1, <3>1 DEF Zeros
      <4> QED
        BY <1>5, <2>3, <3>1, <4>1
    <3>2. CASE ~(k <= 13 - n)
      <4>1. k - (13 - n) = k + n - 13 /\ k + n > 13
        BY <1>5, <3>2
      <4> QED
        BY <2>3, <3>2, <4>1
    <3> QED
      BY <3>1, <3>2
  <2>5. Spelled[i] = code
    <3>1. code = [k \in 1..13 |-> code[k]]
      BY <2>3
    <3> HIDE DEF n
    <3> QED
      BY <1>3, <2>4, <3>1
  <2> QED
    BY <1>4, <2>3, <2>5 DEF code
<1>7. CASE n = 8
  <2>1. code = d
    BY <1>4, <1>7 DEF Padded
  <2>2. \A k \in 1..13 : (k + 8 > 13 <=> k > 5) /\ k + 8 - 13 = k - 5
    OBVIOUS
  <2>3. Spelled[i] = [k \in 1..13 |-> IF k > 5 THEN code[k - 5] ELSE 0]
    BY <1>3, <1>7, <2>1, <2>2
  <2> QED
    BY <1>1, <1>7, <2>1, <2>3 DEF code
<1>8. CASE n \notin {11, 12, 13} /\ n # 8
  BY <1>4, <1>8 DEF Padded, code
<1> QED
  BY <1>6, <1>7, <1>8

\* normalize_barcode and _link_variants: whatever was published, staged and built, the
\* variants compared as one product spell one number, and not an in-store number.
THEOREM ComparedSpellOneNumber == Spec => []ComparedAreOneProduct
<1>1. CatalogInvariant => ComparedAreOneProduct
  <2> SUFFICES ASSUME CatalogInvariant, NEW v \in Variant, NEW w \in Variant,
                      link[v] # None, link[v] = link[w]
               PROVE  /\ Spelled[v[2]] = Spelled[w[2]]
                      /\ Len(v[2]) > 8 => SubSeq(Spelled[v[2]], 1, 2) \notin INTERNAL_PREFIXES
    BY DEF ComparedAreOneProduct
  <2> DEFINE code == link[v]
             short == [k \in 1..13 |-> IF k > 5 THEN code[k - 5] ELSE 0]
  <2>1. /\ v[2] \in Item /\ w[2] \in Item
        /\ Normalized[v[2]] = code /\ Normalized[w[2]] = code /\ code # None
    BY DEF Variant, CatalogInvariant, LinksAreKept, BarcodeOf
  <2>2. \A i \in {v[2], w[2]} :
          \/ Len(code) = 13 /\ Spelled[i] = code /\ SubSeq(code, 1, 2) \notin INTERNAL_PREFIXES
          \/ Len(code) = 8 /\ Spelled[i] = short
    BY <2>1, BarcodeSpells
  <2>3. SubSeq(short, 1, 2) \notin INTERNAL_PREFIXES
    <3>1. /\ short \in Seq({short[k] : k \in 1..13}) /\ Len(short) = 13
          /\ short[1] = 0 /\ short[2] = 0
      OBVIOUS
    <3> HIDE DEF short
    <3>2. /\ SubSeq(short, 1, 2) \in Seq({short[k] : k \in 1..13})
          /\ Len(SubSeq(short, 1, 2)) = 2
          /\ SubSeq(short, 1, 2)[1] = 0 /\ SubSeq(short, 1, 2)[2] = 0
      BY <3>1, SubSeqProperties
    <3>3. \A prefix \in INTERNAL_PREFIXES : prefix[1] = 2 \/ prefix[2] = 2
      BY DEF INTERNAL_PREFIXES
    <3> DEFINE two == SubSeq(short, 1, 2)
    <3>4. two[1] = 0 /\ two[2] = 0
      BY <3>2
    <3> HIDE DEF two
    <3>5. two \notin INTERNAL_PREFIXES
      BY <3>3, <3>4
    <3> QED
      BY <3>5 DEF two
  <2> HIDE DEF code, short
  <2>4. Spelled[v[2]] = Spelled[w[2]]
    BY <2>2
  <2>5. SubSeq(Spelled[v[2]], 1, 2) \notin INTERNAL_PREFIXES
    BY <2>2, <2>3
  <2> QED
    BY <2>4, <2>5
<1> QED
  BY <1>1, CatalogIsInvariant, PTL
=============================================================================
