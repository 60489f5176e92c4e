--------------------------- MODULE WebPageProofs ---------------------------
(***************************************************************************)
(* Proofs about WebPage, for any catalogue, any number of folds and        *)
(* however many clicks, in whatever order answers come.                    *)
(*                                                                         *)
(* The lists: while no request overtakes another, at most one is on its    *)
(* way, it is the last, and the list is empty until it is answered; and    *)
(* every request asks for the first page or for one that the count of its  *)
(* own filter makes.  The cards: each names the versions of the prices     *)
(* that it was made of, and says what those hold.  The basket: the button  *)
(* is disabled exactly while one order is on its way, and that order is    *)
(* the last one.                                                           *)
(***************************************************************************)
EXTENDS WebPage, SetFacts, SequenceTheorems

-----------------------------------------------------------------------------
(* The answers of Browse.                                                  *)

PriceTable == {t \in SUBSET PriceRow : IsFiniteSet(t)}

LEMMA EndsOf ==
  ASSUME NEW S \in SUBSET Int, IsFiniteSet(S), S # {}
  PROVE  /\ Min(S) \in S /\ \A n \in S : Min(S) <= n
         /\ Max(S) \in S /\ \A n \in S : Max(S) >= n
<1>1. /\ \E m \in S : \A n \in S : m <= n
      /\ \E m \in S : \A n \in S : m >= n
  BY LeastAndGreatest
<1> QED
  BY <1>1 DEF Min, Max

LEMMA OfferingIs ==
  ASSUME NEW t \in PriceTable, NEW p, NEW scope
  PROVE  LET found == Offering(t, p, scope)
         IN  /\ found \subseteq t /\ found \in SUBSET PriceRow /\ IsFiniteSet(found)
             /\ found \subseteq Offering(t, p, {})
<1>1. Offering(t, p, scope) \subseteq t /\ Offering(t, p, scope) \subseteq Offering(t, p, {})
  BY DEF Offering
<1>2. t \in SUBSET PriceRow /\ IsFiniteSet(t)
  BY DEF PriceTable
<1> QED
  BY <1>1, <1>2, FS_Subset

LEMMA AskingIs ==
  ASSUME NEW found \in SUBSET PriceRow, IsFiniteSet(found)
  PROVE  /\ Asking(found) \in SUBSET Nat /\ IsFiniteSet(Asking(found))
         /\ found # {} =>
              /\ Asking(found) # {}
              /\ Min(Asking(found)) \in Asking(found)
              /\ \A a \in Asking(found) : Min(Asking(found)) <= a
              /\ Max(Asking(found)) \in Asking(found)
              /\ \A a \in Asking(found) : Max(Asking(found)) >= a
<1> DEFINE price == [r \in found |-> r.price]
<1>1. Asking(found) \subseteq Nat
  BY DEF Asking, PriceRow
<1>2. Asking(found) = {price[r] : r \in found}
  BY DEF Asking
<1>3. IsFiniteSet(Asking(found))
  <2> HIDE DEF price
  <2> QED
    BY <1>2, ImageIsFinite
<1>4. found # {} => Asking(found) # {}
  BY DEF Asking
<1>5. Asking(found) \in SUBSET Int
  BY <1>1
<1> QED
  BY <1>1, <1>3, <1>4, <1>5, EndsOf

\* What a row of the aggregate says is in the domain of its column.
LEMMA ColumnsAre ==
  ASSUME NEW t \in PriceTable, NEW p, NEW scope, Offering(t, p, scope) # {}
  PROVE  LET found == Offering(t, p, scope)
         IN  /\ Cheapest(t, p, scope) \in Nat /\ Dearest(t, p, scope) \in Nat
             /\ UnitPrice(found) \in Nat \cup {None}
             /\ Cardinality({ChainOf[r.store] : r \in found}) \in Nat
             /\ Max({r.updated : r \in found}) \in Nat
<1> DEFINE found == Offering(t, p, scope)
           unit == [r \in found |-> r.unit]
           units == {r.unit : r \in found}
           chain == [r \in found |-> ChainOf[r.store]]
           chains == {ChainOf[r.store] : r \in found}
           day == [r \in found |-> r.updated]
           days == {r.updated : r \in found}
<1>1. found \in SUBSET PriceRow /\ IsFiniteSet(found) /\ found # {}
  BY OfferingIs
<1>2. Cheapest(t, p, scope) \in Nat /\ Dearest(t, p, scope) \in Nat
  BY <1>1, AskingIs DEF Cheapest, Dearest
<1>3. days \subseteq Nat /\ days # {} /\ units \subseteq Nat \cup {None}
  <2> HIDE DEF found
  <2> QED
    BY <1>1 DEF PriceRow
<1>4. units = {unit[r] : r \in found} /\ chains = {chain[r] : r \in found}
      /\ days = {day[r] : r \in found}
  <2> HIDE DEF found
  <2> QED
    OBVIOUS
<1> HIDE DEF found, unit, units, chain, chains, day, days
<1>5. IsFiniteSet(units) /\ IsFiniteSet(chains) /\ IsFiniteSet(days)
  BY <1>1, <1>4, ImageIsFinite
<1>6. Cardinality(chains) \in Nat
  BY <1>5, FS_CardinalityType
<1>7. Max(days) \in Nat
  <2>1. days \in SUBSET Int
    BY <1>3
  <2> QED
    BY <1>3, <1>5, <2>1, EndsOf
<1>8. UnitPrice(found) \in Nat \cup {None}
  <2> DEFINE known == units \ {None}
  <2>1. known \subseteq Nat
    BY <1>3, Zenon
  <2>2. IsFiniteSet(known)
    BY <1>5, FS_Subset
  <2>3. UnitPrice(found) = IF known = {} THEN None ELSE Min(known)
    BY DEF UnitPrice, units
  <2> HIDE DEF known
  <2>4. known \in SUBSET Int
    BY <2>1
  <2>5. known # {} => Min(known) \in known
    BY <2>2, <2>4, EndsOf
  <2> QED
    BY <2>1, <2>3, <2>5
<1> QED
  BY <1>2, <1>6, <1>7, <1>8 DEF found, chains, days

\* A row of the aggregate has the prices of its product, and a product one row.
LEMMA AggregateIs ==
  ASSUME NEW t \in PriceTable, NEW scope
  PROVE  LET all == Aggregate(t, scope)
         IN  /\ IsFiniteSet(all)
             /\ \A r \in all : /\ r.id \in Product /\ Offering(t, r.id, scope) # {}
                                /\ r.cheapest = Cheapest(t, r.id, scope) /\ r.cheapest \in Nat
                                /\ r.dearest = Dearest(t, r.id, scope) /\ r.dearest \in Nat
                                /\ r.unit \in Nat \cup {None}
                                /\ r.chains \in Nat /\ r.updated \in Nat
             /\ \A r, q \in all : r.id = q.id => r = q
<1> DEFINE sold == {p \in Product : Offering(t, p, scope) # {}}
           row == [p \in sold |->
                     [id |-> p, cheapest |-> Cheapest(t, p, scope), dearest |-> Dearest(t, p, scope),
                      unit |-> UnitPrice(Offering(t, p, scope)),
                      chains |-> Cardinality({ChainOf[r.store] : r \in Offering(t, p, scope)}),
                      updated |-> Max({r.updated : r \in Offering(t, p, scope)})]]
           all == Aggregate(t, scope)
           Row(r, p) == /\ r.id = p /\ p \in Product /\ Offering(t, p, scope) # {}
                        /\ r.cheapest = Cheapest(t, p, scope) /\ r.cheapest \in Nat
                        /\ r.dearest = Dearest(t, p, scope) /\ r.dearest \in Nat
                        /\ r.unit \in Nat \cup {None} /\ r.chains \in Nat /\ r.updated \in Nat
<1>1. all = {row[p] : p \in sold}
  BY DEF Aggregate
<1>2. IsFiniteSet(sold)
  BY ShopAssumption, FS_Subset
<1>3. IsFiniteSet(all)
  <2> HIDE DEF row, sold, all
  <2> QED
    BY <1>1, <1>2, ImageIsFinite
<1>4. ASSUME NEW p \in sold
      PROVE  Row(row[p], p)
  <2>1. p \in Product /\ Offering(t, p, scope) # {}
    OBVIOUS
  <2> QED
    BY <2>1, ColumnsAre
<1> HIDE DEF row, sold, all
<1>5. \A r \in all : \E p \in sold : r = row[p] /\ Row(r, p)
  BY <1>1, <1>4
<1>6. \A r \in all : Row(r, r.id)
  BY <1>5
<1>7. \A r, q \in all : r.id = q.id => r = q
  BY <1>5
<1> QED
  BY <1>3, <1>6, <1>7 DEF all

\* The order of rows that differ in their last key is a strict total one.
Before(a, b) == \E k \in 1..4 : a[k] < b[k] /\ \A j \in 1..(k - 1) : a[j] = b[j]

LEMMA BeforeIs ==
  ASSUME NEW a, NEW b, \A k \in 1..4 : a[k] \in Int /\ b[k] \in Int
  PROVE  Before(a, b) <=> \/ a[1] < b[1]
                          \/ a[1] = b[1] /\ a[2] < b[2]
                          \/ a[1] = b[1] /\ a[2] = b[2] /\ a[3] < b[3]
                          \/ a[1] = b[1] /\ a[2] = b[2] /\ a[3] = b[3] /\ a[4] < b[4]
<1> DEFINE at(k) == a[k] < b[k] /\ \A j \in 1..(k - 1) : a[j] = b[j]
<1>1. Before(a, b) <=> at(1) \/ at(2) \/ at(3) \/ at(4)
  BY DEF Before
<1>2. 1..(1 - 1) = {} /\ 1..(2 - 1) = {1} /\ 1..(3 - 1) = {1, 2} /\ 1..(4 - 1) = {1, 2, 3}
  OBVIOUS
<1> QED
  BY <1>1, <1>2

LEMMA KeysAre ==
  ASSUME NEW r, NEW sort, r.id \in Product, r.cheapest \in Nat, r.dearest \in Nat,
         r.unit \in Nat \cup {None}, r.chains \in Nat, r.updated \in Nat
  PROVE  Keys(sort, r)[4] = r.id /\ \A k \in 1..4 : Keys(sort, r)[k] \in Int
<1>1. r.id \in Int /\ Alphabet[r.id] \in Int
  <2>1. Product \subseteq Nat /\ Alphabet \in [Product -> Nat]
    BY ShopAssumption
  <2>2. r.id \in Nat /\ Alphabet[r.id] \in Nat
    BY <2>1, Zenon
  <2> QED
    BY <2>2
<1>2. \A a, b, c, d \in Int : <<a, b, c, d>>[4] = d /\ \A k \in 1..4 : <<a, b, c, d>>[k] \in Int
  OBVIOUS
<1>3. \E a, b, c \in Int : Keys(sort, r) = <<a, b, c, r.id>>
  BY <1>1, Z3 DEF Keys
<1> QED
  BY <1>1, <1>2, <1>3

\* The rows found are those that match, in order.
LEMMA FoundIs ==
  ASSUME NEW t \in PriceTable, NEW url
  PROVE  LET n == Cardinality(Matching(t, url))
         IN  /\ n \in Nat /\ Len(Found(t, url)) = n
             /\ Found(t, url) \in Seq(Matching(t, url))
             /\ Found(t, url) \in [1..n -> Matching(t, url)]
<1> DEFINE S == Matching(t, url)
           n == Cardinality(S)
           sort == url.fields.sort
           key == [r \in S |-> Keys(sort, r)]
           R == {x \in S \X S : Earlier(sort, x[1], x[2])}
<1>1. S \subseteq Aggregate(t, url.chips)
  BY DEF Matching
<1>2. IsFiniteSet(S) /\ n \in Nat
  BY <1>1, AggregateIs, FS_Subset, FS_CardinalityType
<1>3. \A r \in S : key[r][4] = r.id /\ \A k \in 1..4 : key[r][k] \in Int
  BY <1>1, AggregateIs, KeysAre
<1>4. \A r, q \in S : r.id = q.id => r = q
  BY <1>1, AggregateIs
<1>5. \A r, q \in S : <<r, q>> \in R <=> Before(key[r], key[q])
  BY DEF Earlier, Before
<1>6. \A x \in S : {y \in S : Earlier(sort, y, x)} = Preceding(S, R, x)
  BY DEF Preceding
<1> HIDE DEF S, R, n, key
<1>7. \A r, q \in S :
        <<r, q>> \in R <=>
          \/ key[r][1] < key[q][1]
          \/ key[r][1] = key[q][1] /\ key[r][2] < key[q][2]
          \/ key[r][1] = key[q][1] /\ key[r][2] = key[q][2] /\ key[r][3] < key[q][3]
          \/ /\ key[r][1] = key[q][1] /\ key[r][2] = key[q][2] /\ key[r][3] = key[q][3]
             /\ key[r][4] < key[q][4]
  BY <1>3, <1>5, BeforeIs
<1>8. \A r \in S : /\ key[r][1] \in Int /\ key[r][2] \in Int
                  /\ key[r][3] \in Int /\ key[r][4] \in Int
  BY <1>3
<1>9. \A r, q \in S : key[r][4] = key[q][4] => r = q
  BY <1>3, <1>4
<1>10. \A x, y \in S : x # y => <<x, y>> \in R \/ <<y, x>> \in R
  BY <1>7, <1>8, <1>9
<1>11. \A x, y \in S : <<x, y>> \in R => <<y, x>> \notin R
  BY <1>7, <1>8
<1>12. \A x, y, z \in S : <<x, y>> \in R /\ <<y, z>> \in R => <<x, z>> \in R
  BY <1>7, <1>8
<1>13. \A k \in 1..n : \E x \in S : Cardinality(Preceding(S, R, x)) = k - 1
  BY <1>2, <1>10, <1>11, <1>12, EveryPlaceIsTaken DEF n
<1>14. \A k \in 1..n :
         (CHOOSE x \in S : Cardinality({y \in S : Earlier(sort, y, x)}) = k - 1) \in S
  BY <1>6, <1>13
<1>15. Found(t, url)
         = [k \in 1..n |-> CHOOSE x \in S : Cardinality({y \in S : Earlier(sort, y, x)}) = k - 1]
  BY DEF Found, Ordered, S, n
<1>16. Found(t, url) \in [1..n -> S]
  BY <1>14, <1>15
<1>17. Found(t, url) \in Seq(S) /\ Len(Found(t, url)) = n
  BY <1>2, <1>16
<1> QED
  BY <1>2, <1>16, <1>17 DEF S, n

LEMMA LeastOfTwo ==
  ASSUME NEW a \in Int, NEW b \in Int
  PROVE  Min({a, b}) \in {a, b} /\ Min({a, b}) <= a /\ Min({a, b}) <= b
<1>1. \E m \in {a, b} : \A n \in {a, b} : m <= n
  <2>1. CASE a <= b
    BY <2>1
  <2>2. CASE ~(a <= b)
    BY <2>2
  <2> QED
    BY <2>1, <2>2
<1> QED
  BY <1>1 DEF Min

\* The row at which a page that is counted starts is there.
LEMMA PageStarts ==
  ASSUME NEW n \in Nat, NEW p \in 1..((n + PageSize - 1) \div PageSize)
  PROVE  PageSize * (p - 1) + 1 <= n
<1> DEFINE d == PageSize
           q == (n + d - 1) \div d
<1>1. d \in Nat /\ d > 0
  BY PageAssumption
<1>2. n + d - 1 \in Nat
  BY <1>1
<1>3. q \in Nat /\ p \in 1..q
  BY <1>1, <1>2
<1>4. d * q <= n + d - 1
  BY <1>1, <1>2
<1> HIDE DEF d, q
<1>5. d * (p - 1) <= d * (q - 1)
  BY <1>1, <1>3
<1>6. d * (q - 1) = d * q - d
  BY <1>1, <1>3
<1>7. d * (p - 1) \in Int /\ d * q \in Int
  BY <1>1, <1>3
<1>8. d * (p - 1) + 1 <= n
  BY <1>1, <1>4, <1>5, <1>6, <1>7
<1> QED
  BY <1>8 DEF d

\* A page is a part of what is found, and empty only if it starts behind the end.
LEMMA PageIs ==
  ASSUME NEW t \in PriceTable, NEW url, url.page \in Nat \ {0}
  PROVE  /\ Page(t, url) \in Seq(Matching(t, url))
         /\ Page(t, url) = <<>> => Len(Found(t, url)) < PageSize * (url.page - 1) + 1
<1> DEFINE all == Found(t, url)
           n == Len(all)
           first == PageSize * (url.page - 1) + 1
           last == Min({first + PageSize - 1, n})
<1>1. n \in Nat /\ all \in [1..n -> Matching(t, url)]
  BY FoundIs
<1>2. PageSize \in Nat /\ PageSize > 0
  BY PageAssumption
<1>3. first \in Nat /\ first >= 1
  <2>1. url.page - 1 \in Nat
    OBVIOUS
  <2>2. PageSize * (url.page - 1) \in Nat
    BY <1>2, <2>1
  <2> QED
    BY <2>2
<1> HIDE DEF first
<1>4. last \in Int /\ last <= n /\ (last = n \/ last = first + PageSize - 1)
  <2>1. n \in Int /\ first + PageSize - 1 \in Int
    BY <1>1, <1>2, <1>3
  <2>2. last \in {first + PageSize - 1, n} /\ last <= n
    BY <2>1, LeastOfTwo
  <2> QED
    BY <2>1, <2>2
<1>5. Page(t, url) = SubSeq(all, first, last)
  BY DEF Page, first
<1> HIDE DEF all, n, last
<1>6. \A i \in first..last : all[i] \in Matching(t, url)
  BY <1>1, <1>3, <1>4
<1>7. /\ SubSeq(all, first, last) \in Seq(Matching(t, url))
      /\ Len(SubSeq(all, first, last)) = IF first <= last THEN last - first + 1 ELSE 0
  BY <1>3, <1>4, <1>6, SubSeqProperties
<1>8. ASSUME Page(t, url) = <<>>
      PROVE  n < first
  <2>1. ~(first <= last)
    BY <1>3, <1>4, <1>5, <1>7, <1>8
  <2> QED
    BY <1>1, <1>2, <1>3, <1>4, <2>1
<1> QED
  BY <1>5, <1>7, <1>8 DEF n, all, first

LEMMA PagesIs ==
  ASSUME NEW t \in PriceTable, NEW url
  PROVE  Pages(t, url) \in Nat
<1>1. Len(Found(t, url)) \in Nat
  BY FoundIs
<1>2. Len(Found(t, url)) + PageSize - 1 \in Nat /\ PageSize \in Nat /\ PageSize > 0
  BY <1>1, PageAssumption
<1> QED
  BY <1>2 DEF Pages

\* A page that exists has rows.
LEMMA CountedPageHasRows ==
  ASSUME NEW t \in PriceTable, NEW url, url.page \in Nat \ {0},
         url.page = 1 \/ url.page \in 1..Pages(t, url), Page(t, url) = <<>>
  PROVE  Found(t, url) = <<>>
<1> DEFINE n == Len(Found(t, url))
<1>1. n \in Nat /\ n < PageSize * (url.page - 1) + 1
  BY FoundIs, PageIs
<1>2. n = 0
  <2>1. CASE url.page = 1
    <3>1. PageSize * (1 - 1) = 0
      BY PageAssumption
    <3> QED
      BY <1>1, <2>1, <3>1
  <2>2. CASE url.page \in 1..Pages(t, url)
    <3>1. PageSize * (url.page - 1) + 1 <= n
      BY <1>1, <2>2, PageStarts DEF Pages
    <3>2. PageSize * (url.page - 1) \in Int
      BY PageAssumption
    <3> QED
      BY <1>1, <3>1, <3>2
  <2> QED
    BY <2>1, <2>2
<1> QED
  BY <1>2, FoundIs, EmptySeq

\* How much is found does not depend on the page.
LEMMA PagesOfFilter ==
  ASSUME NEW t, NEW url, NEW other, url.chips = other.chips, url.fields = other.fields
  PROVE  Pages(t, url) = Pages(t, other)
BY DEF Pages, Found, Matching

-----------------------------------------------------------------------------
(* Sequences.                                                              *)

LEMMA OneTaken ==
  ASSUME NEW S, NEW s \in Seq(S), NEW i \in DOMAIN s
  PROVE  RemoveAt(s, i) \in Seq(S) /\ (Len(s) = 1 => RemoveAt(s, i) = <<>>)
<1>1. Len(s) \in Nat /\ i \in 1..Len(s) /\ s \in [1..Len(s) -> S]
  OBVIOUS
<1>2. /\ SubSeq(s, 1, i - 1) \in Seq(S)
      /\ Len(SubSeq(s, 1, i - 1)) = IF 1 <= i - 1 THEN i - 1 ELSE 0
  BY <1>1, SubSeqProperties
<1>3. /\ SubSeq(s, i + 1, Len(s)) \in Seq(S)
      /\ Len(SubSeq(s, i + 1, Len(s))) = IF i + 1 <= Len(s) THEN Len(s) - i ELSE 0
  BY <1>1, SubSeqProperties
<1>4. RemoveAt(s, i) \in Seq(S)
  BY <1>2, <1>3, ConcatProperties DEF RemoveAt
<1>5. ASSUME Len(s) = 1
      PROVE  RemoveAt(s, i) = <<>>
  <2>1. SubSeq(s, 1, i - 1) = <<>> /\ SubSeq(s, i + 1, Len(s)) = <<>>
    BY <1>1, <1>5, SubSeqEmpty
  <2>2. RemoveAt(s, i) = <<>> \o <<>>
    BY <2>1 DEF RemoveAt
  <2> QED
    BY <2>2
<1> QED
  BY <1>4, <1>5

-----------------------------------------------------------------------------
(* The cards.                                                              *)

Version == DOMAIN Tables
Url == [chips : SUBSET Chain, fields : Fields, page : Nat \ {0}]

Card ==
  [product : Product, chips : SUBSET Chain, seen : Version, named : Version,
   cheapest : Nat, dearest : Nat, low : Chain \cup {None}, high : Chain \cup {None},
   open : BOOLEAN, waits : Seq(Version),
   table : {None} \cup [rows : SUBSET PriceRow, read : Version]]

\* What a card says is what the statements that it was made of have read.
Honest(c) ==
  /\ Offering(Tables[c.seen], c.product, c.chips) # {}
  /\ c.cheapest = Cheapest(Tables[c.seen], c.product, c.chips)
  /\ c.dearest = Dearest(Tables[c.seen], c.product, c.chips)
  /\ <<c.low, c.high>> \in Extremes(Tables[c.named], c.product, c.chips)
  /\ c.table # None => c.table.rows \in PriceTables(Tables[c.table.read], c.product)

GridCard == {c \in Card : Honest(c)}

FoundCard ==
  {c \in [product : Product, read : Version, open : BOOLEAN,
          answer : [rows : SUBSET PriceRow, cheapest : Nat \cup {None}]] :
     c.answer \in SearchResults(Tables[c.read], c.product)}

LEMMA TablesAre == \A v \in Version : Tables[v] \in PriceTable
BY TablesAssumption DEF Version, PriceTable

LEMMA VersionIs == \A v \in Version : v \in Nat \ {0} /\ 1..v \subseteq Version
<1>1. Version = 1..Len(Tables) /\ Len(Tables) \in Nat
  BY TablesAssumption DEF Version
<1> QED
  BY <1>1

LEMMA CardsAre ==
  ASSUME NEW url \in Url, NEW seen \in Version, NEW named \in Version,
         NEW cards \in Cards(url, seen, named)
  PROVE  LET page == Page(Tables[seen], url)
         IN  /\ cards \in Seq(GridCard) /\ Len(cards) = Len(page) /\ Len(page) \in Nat
             /\ \A k \in 1..Len(page) : /\ cards[k].product = page[k].id
                                        /\ cards[k].cheapest = page[k].cheapest
<1> DEFINE t == Tables[seen]
           page == Page(t, url)
           n == Len(page)
           Made(k, low, high) ==
             [product |-> page[k].id, chips |-> url.chips, seen |-> seen, named |-> named,
              cheapest |-> page[k].cheapest, dearest |-> page[k].dearest,
              low |-> low, high |-> high, open |-> FALSE, waits |-> <<>>, table |-> None]
<1>1. t \in PriceTable /\ url.page \in Nat \ {0} /\ url.chips \in SUBSET Chain
  BY TablesAre DEF Url
<1>2. page \in Seq(Matching(t, url))
  BY <1>1, PageIs
<1>3. Matching(t, url) \subseteq Aggregate(t, url.chips)
  BY DEF Matching
<1>4. DOMAIN page = 1..n /\ n \in Nat /\ \A k \in 1..n : page[k] \in Aggregate(t, url.chips)
  <2> HIDE DEF page
  <2> QED
    BY <1>2, <1>3
<1>5. PICK f \in [DOMAIN page -> (Chain \cup {None}) \X (Chain \cup {None})] :
        /\ \A k \in DOMAIN page : f[k] \in Extremes(Tables[named], page[k].id, url.chips)
        /\ cards = [k \in DOMAIN page |-> Made(k, f[k][1], f[k][2])]
  BY DEF Cards
<1>6. ASSUME NEW k \in 1..n
      PROVE  cards[k] = Made(k, f[k][1], f[k][2]) /\ Made(k, f[k][1], f[k][2]) \in GridCard
  <2>1. /\ page[k].id \in Product /\ Offering(t, page[k].id, url.chips) # {}
        /\ page[k].cheapest = Cheapest(t, page[k].id, url.chips) /\ page[k].cheapest \in Nat
        /\ page[k].dearest = Dearest(t, page[k].id, url.chips) /\ page[k].dearest \in Nat
    <3> HIDE DEF page, t
    <3> QED
      BY <1>1, <1>4, AggregateIs
  <2>2. /\ f[k] \in (Chain \cup {None}) \X (Chain \cup {None})
        /\ <<f[k][1], f[k][2]>> \in Extremes(Tables[named], page[k].id, url.chips)
        /\ f[k][1] \in Chain \cup {None} /\ f[k][2] \in Chain \cup {None}
    <3>1. k \in DOMAIN page
      BY <1>4
    <3>2. f[k] \in (Chain \cup {None}) \X (Chain \cup {None})
      BY <1>5, <3>1
    <3>3. f[k] = <<f[k][1], f[k][2]>>
      BY <3>2
    <3> QED
      BY <1>5, <3>1, <3>2, <3>3
  <2>3. <<>> \in Seq(Version)
    OBVIOUS
  <2>4. Made(k, f[k][1], f[k][2]) \in Card
    <3> HIDE DEF page
    <3> QED
      BY <1>1, <2>1, <2>2, <2>3 DEF Card
  <2>5. Honest(Made(k, f[k][1], f[k][2]))
    <3> HIDE DEF page
    <3> QED
      BY <2>1, <2>2 DEF Honest
  <2> HIDE DEF Made, page
  <2> QED
    BY <1>4, <1>5, <2>4, <2>5 DEF GridCard
<1>7. cards \in [1..n -> GridCard] /\ Len(cards) = n
  <2>1. DOMAIN cards = 1..n /\ cards = [k \in 1..n |-> cards[k]]
    <3> HIDE DEF Made, page
    <3> QED
      BY <1>4, <1>5
  <2> HIDE DEF Made, page, n
  <2> QED
    BY <1>4, <1>6, <2>1
<1>8. ASSUME NEW k \in 1..n
      PROVE  cards[k].product = page[k].id /\ cards[k].cheapest = page[k].cheapest
  <2>1. cards[k] = Made(k, f[k][1], f[k][2])
    BY <1>6
  <2> HIDE DEF page, n
  <2> QED
    BY <2>1
<1> HIDE DEF Made, page, n
<1> QED
  BY <1>4, <1>7, <1>8 DEF n, page, t

\* What happens to a card leaves its product and its prices alone.
Same(c, d) == d.product = c.product /\ d.cheapest = c.cheapest

LEMMA CardCloses ==
  ASSUME NEW c \in GridCard, NEW b \in BOOLEAN
  PROVE  [c EXCEPT !.open = b] \in GridCard /\ Same(c, [c EXCEPT !.open = b])
BY DEF GridCard, Card, Honest, Same

LEMMA CardOpens ==
  ASSUME NEW c \in GridCard, NEW v \in Version
  PROVE  LET d == [c EXCEPT !.open = TRUE, !.table = None, !.waits = Append(@, v)]
         IN  d \in GridCard /\ Same(c, d)
<1>1. Append(c.waits, v) \in Seq(Version)
  BY AppendProperties DEF GridCard, Card
<1> QED
  BY <1>1 DEF GridCard, Card, Honest, Same

LEMMA CardIsFilled ==
  ASSUME NEW c \in GridCard, NEW waits \in Seq(Version),
         NEW table \in {None} \cup [rows : SUBSET PriceRow, read : Version],
         table # None => table.rows \in PriceTables(Tables[table.read], c.product)
  PROVE  LET d == [c EXCEPT !.waits = waits, !.table = table]
         IN  d \in GridCard /\ Same(c, d)
BY DEF GridCard, Card, Honest, Same

LEMMA TableRowsAre ==
  ASSUME NEW t \in PriceTable, NEW p, NEW found \in PriceTables(t, p)
  PROVE  LET all == Offering(t, p, {})
         IN  /\ found \in SUBSET PriceRow /\ IsFiniteSet(found) /\ found \subseteq all
             /\ all # {} => found # {}
             /\ Cardinality(found) <= TableLimit
             /\ Cardinality(found) < TableLimit => found = all
<1> DEFINE all == Offering(t, p, {})
<1>1. all \in SUBSET PriceRow /\ IsFiniteSet(all)
  BY OfferingIs
<1>2. found \subseteq all /\ Cardinality(found) = Min({TableLimit, Cardinality(all)})
  BY DEF PriceTables, kSubset
<1> HIDE DEF all
<1>3. IsFiniteSet(found) /\ (Cardinality(found) = Cardinality(all) => found = all)
  BY <1>1, <1>2, FS_Subset
<1>4. /\ Cardinality(found) \in {TableLimit, Cardinality(all)}
      /\ Cardinality(found) <= TableLimit
      /\ Cardinality(all) \in Nat /\ TableLimit \in Nat \ {0}
  <2>1. Cardinality(all) \in Nat /\ TableLimit \in Nat \ {0}
    BY <1>1, FS_CardinalityType, PageAssumption
  <2>2. Cardinality(all) \in Int /\ TableLimit \in Int
    BY <2>1
  <2> HIDE DEF all
  <2> QED
    BY <1>2, <2>1, <2>2, LeastOfTwo
<1>5. ASSUME all # {}
      PROVE  found # {}
  <2>1. Cardinality(all) # 0 /\ (found = {} => Cardinality(found) = 0)
    BY <1>1, <1>5, FS_EmptySet
  <2> QED
    BY <1>4, <2>1
<1> QED
  BY <1>1, <1>2, <1>3, <1>4, <1>5 DEF all

-----------------------------------------------------------------------------
(* The grid.  While no request overtakes another and no fold commits, at   *)
(* most one is on its way, the one sent last; the grid is empty until it   *)
(* is answered and holds exactly its answer afterwards.                    *)

Request == [url : Url, since : Version]
SearchRequest == [query : DOMAIN Hits, since : Version]

PageType ==
  /\ version \in Version
  /\ chips \in SUBSET Chain /\ fields \in Fields /\ catalogPage \in Nat \ {0}
  /\ facets # None => facets \in SUBSET Chain
  /\ asked \in Seq(Request)
  /\ sent \in Url
  /\ grid \in Seq(GridCard)
  /\ searches \in Seq(SearchRequest)
  /\ results \in Seq(FoundCard)

Listed(cards) == [k \in DOMAIN cards |-> [id |-> cards[k].product, cheapest |-> cards[k].cheapest]]

AnswerOf(v, url) ==
  LET page == Page(Tables[v], url)
  IN  [k \in DOMAIN page |-> [id |-> page[k].id, cheapest |-> page[k].cheapest]]

GridInv ==
  /\ sent.chips = chips /\ sent.page = catalogPage
  /\ pager # None => pager.pages \in Nat
  /\ steady =>
       /\ asked = <<>> \/ asked = <<[url |-> sent, since |-> version]>>
       /\ asked # <<>> => grid = <<>> /\ pager = None
       /\ sent.page = 1 \/ sent.page \in 1..Pages(Tables[version], sent)
       /\ pager # None => pager.pages = Pages(Tables[version], sent)
       /\ asked = <<>> /\ facets # None /\ status # "failed" =>
            /\ Listed(grid) = AnswerOf(version, sent)
            /\ status = "nothing" => grid = <<>>

\* The search: the same with its requests and cards.
SearchInv ==
  inTurn =>
    \/ /\ searches = <<>>
       /\ lastQuery # None /\ searchStatus # "failed" =>
            [k \in DOMAIN results |-> results[k].product] = Hits[lastQuery]
    \/ /\ Len(searches) = 1 /\ searches[1].query = lastQuery
       /\ results = <<>>

PageInv == PageType /\ GridInv /\ SearchInv

OffGrid == <<version, chips, fields, catalogPage, facets, asked, sent, grid, pager, status, steady>>

\* What both depend on.
LEMMA InvDependsOn ==
  ASSUME PageInv, UNCHANGED OffGrid, UNCHANGED searchVars
  PROVE  PageInv'
<1>1. PageType'
  BY DEF PageInv, PageType, OffGrid, searchVars
<1>2. GridInv'
  BY DEF PageInv, GridInv, OffGrid
<1>3. SearchInv'
  BY DEF PageInv, SearchInv, searchVars
<1> QED
  BY <1>1, <1>2, <1>3 DEF PageInv

LEMMA InSeq == ASSUME NEW S, NEW s \in Seq(S), NEW i \in DOMAIN s PROVE s[i] \in S
OBVIOUS

LEMMA OneAsked == ASSUME NEW S, NEW x \in S PROVE Append(<<>>, x) = <<x>> /\ <<x>> \in Seq(S)
OBVIOUS

LEMMA RunCatalogStep ==
  ASSUME PageInv, runCatalog, chips' \in SUBSET Chain, fields' \in Fields,
         catalogPage' \in Nat \ {0}, facets' # None => facets' \in SUBSET Chain,
         steady => \/ catalogPage' = 1
                   \/ chips' = chips /\ catalogPage' \in 1..Pages(Tables[version], sent),
         UNCHANGED <<version, searchVars>>
  PROVE  PageInv'
<1>1. sent' = [chips |-> chips', fields |-> fields', page |-> catalogPage'] /\ sent' \in Url
  BY DEF runCatalog, catalogParams, Url
<1>2. /\ asked' = Append(asked, [url |-> sent', since |-> version])
      /\ grid' = <<>> /\ pager' = None
      /\ steady' = (steady /\ asked = <<>> /\ (catalogPage' = 1 \/ fields' = sent.fields))
  BY DEF runCatalog, Clear
<1>3. [url |-> sent', since |-> version] \in Request
  BY <1>1 DEF PageInv, PageType, Request
<1>4. asked' \in Seq(Request) /\ asked' # <<>>
  BY <1>2, <1>3, AppendProperties DEF PageInv, PageType
<1>5. PageType'
  <2>1. grid' \in Seq(GridCard)
    BY <1>2, EmptySeq
  <2> QED
    BY <1>1, <1>4, <2>1 DEF PageInv, PageType, searchVars
<1>6. sent'.chips = chips' /\ sent'.page = catalogPage' /\ sent'.fields = fields'
  BY <1>1
<1>7. ASSUME steady'
      PROVE  /\ asked' = <<[url |-> sent', since |-> version']>>
             /\ sent'.page = 1 \/ sent'.page \in 1..Pages(Tables[version], sent')
  <2>1. steady /\ asked = <<>> /\ (catalogPage' = 1 \/ fields' = sent.fields)
    BY <1>2, <1>7
  <2>2. asked' = <<[url |-> sent', since |-> version']>>
    BY <1>2, <2>1, OneAsked
  <2>3. CASE catalogPage' # 1
    <3>1. chips' = chips /\ catalogPage' \in 1..Pages(Tables[version], sent)
      BY <2>1, <2>3
    <3>2. sent'.chips = sent.chips /\ sent'.fields = sent.fields
      BY <1>6, <2>1, <2>3, <3>1 DEF PageInv, GridInv
    <3>3. Pages(Tables[version], sent') = Pages(Tables[version], sent)
      BY <3>2, PagesOfFilter
    <3> QED
      BY <1>6, <2>2, <3>1, <3>3
  <2> QED
    BY <1>6, <2>2, <2>3
<1>8. GridInv'
  BY <1>2, <1>4, <1>6, <1>7 DEF GridInv
<1>9. SearchInv'
  BY DEF PageInv, SearchInv, searchVars
<1> QED
  BY <1>5, <1>8, <1>9 DEF PageInv

LEMMA TypeAfterAnswer ==
  ASSUME PageType, asked' \in Seq(Request), grid' \in Seq(GridCard),
         UNCHANGED <<version, chips, fields, catalogPage, facets, sent, searchVars>>
  PROVE  PageType'
BY DEF PageType, searchVars

LEMMA CatalogLandsStep == PageInv /\ CatalogLands => PageInv'
<1> SUFFICES ASSUME PageInv, CatalogLands
             PROVE  PageInv'
  OBVIOUS
<1> DEFINE Landed(i, counted, cards) ==
             /\ asked' = RemoveAt(asked, i)
             /\ grid' = grid \o cards
             /\ status' = IF cards = <<>> THEN "nothing" ELSE ""
             /\ pager' = IF cards # <<>> /\ Pages(Tables[counted], asked[i].url) > 1
                           THEN [page |-> asked[i].url.page,
                                 pages |-> Pages(Tables[counted], asked[i].url)]
                           ELSE pager
<1>1. \E i \in DOMAIN asked : \E counted \in asked[i].since .. version :
        \E seen \in counted .. version : \E named \in seen .. version :
        \E cards \in Cards(asked[i].url, seen, named) : Landed(i, counted, cards)
  BY DEF CatalogLands
<1>2. UNCHANGED <<version, chips, fields, catalogPage, facets, sent, steady, searchVars>>
  BY DEF CatalogLands
<1>3. PICK i \in DOMAIN asked : \E counted \in asked[i].since .. version :
        \E seen \in counted .. version : \E named \in seen .. version :
        \E cards \in Cards(asked[i].url, seen, named) : Landed(i, counted, cards)
  BY <1>1
<1> DEFINE url == asked[i].url
<1>4. PICK counted \in asked[i].since .. version :
        \E seen \in counted .. version : \E named \in seen .. version :
        \E cards \in Cards(url, seen, named) : Landed(i, counted, cards)
  BY <1>3
<1>5. PICK seen \in counted .. version : \E named \in seen .. version :
        \E cards \in Cards(url, seen, named) : Landed(i, counted, cards)
  BY <1>4
<1>6. PICK named \in seen .. version :
        \E cards \in Cards(url, seen, named) : Landed(i, counted, cards)
  BY <1>5
<1>7. PICK cards \in Cards(url, seen, named) : Landed(i, counted, cards)
  BY <1>6
<1>8. /\ asked' = RemoveAt(asked, i)
      /\ grid' = grid \o cards
      /\ status' = IF cards = <<>> THEN "nothing" ELSE ""
      /\ pager' = IF cards # <<>> /\ Pages(Tables[counted], url) > 1
                    THEN [page |-> url.page, pages |-> Pages(Tables[counted], url)]
                    ELSE pager
  BY <1>7
<1> HIDE DEF Landed
<1>9. /\ asked \in Seq(Request) /\ version \in Version
      /\ url \in Url /\ asked[i].since \in Version
  <2>1. asked \in Seq(Request) /\ version \in Version
    BY DEF PageInv, PageType
  <2>2. asked[i] \in Request
    BY <2>1, InSeq
  <2> QED
    BY <2>1, <2>2 DEF Request
<1>10. counted \in Version /\ seen \in Version /\ named \in Version
  <2>1. version \in Nat /\ 1..version \subseteq Version /\ asked[i].since \in Nat \ {0}
    BY <1>9, VersionIs
  <2> QED
    BY <2>1
<1>11. /\ cards \in Seq(GridCard) /\ Len(cards) = Len(Page(Tables[seen], url))
       /\ \A k \in 1..Len(cards) : /\ cards[k].product = Page(Tables[seen], url)[k].id
                                   /\ cards[k].cheapest = Page(Tables[seen], url)[k].cheapest
  <2> HIDE DEF url
  <2> QED
    BY <1>9, <1>10, CardsAre
<1>12. /\ asked' \in Seq(Request)
       /\ Len(asked) = 1 => asked' = <<>>
  BY <1>8, <1>9, OneTaken
<1>13. PageType'
  <2>1. grid \in Seq(GridCard) /\ PageType
    BY DEF PageInv, PageType
  <2>2. grid' \in Seq(GridCard)
    BY <1>8, <1>11, <2>1, ConcatProperties
  <2>3. asked' \in Seq(Request)
    BY <1>12
  <2> HIDE DEF url
  <2> QED
    BY <1>2, <2>1, <2>2, <2>3, TypeAfterAnswer, Zenon
<1>14. ASSUME steady
       PROVE  /\ asked' = <<>> /\ grid' = cards
              /\ seen = version /\ counted = version /\ url = sent /\ pager = None
  <2>1. asked = <<[url |-> sent, since |-> version]>> /\ grid = <<>> /\ pager = None
    <3>1. asked # <<>>
      BY <1>9
    <3> QED
      BY <1>14, <3>1 DEF PageInv, GridInv
  <2>2. i = 1 /\ Len(asked) = 1 /\ asked[i] = [url |-> sent, since |-> version]
    BY <2>1
  <2>3. url = sent /\ asked[i].since = version
    BY <2>2
  <2>4. counted = version /\ seen = version
    <3>1. version \in Nat /\ counted \in version..version
      BY <1>9, <2>3, VersionIs
    <3>2. counted = version
      BY <3>1
    <3>3. seen \in version..version
      BY <3>2
    <3> QED
      BY <3>1, <3>2, <3>3
  <2>5. grid' = cards
    BY <1>8, <1>11, <2>1, ConcatEmptySeq
  <2>6. asked' = <<>>
    BY <1>12, <2>2, Zenon
  <2> HIDE DEF url
  <2> QED
    BY <2>1, <2>3, <2>4, <2>5, <2>6
<1>15. ASSUME steady
       PROVE  /\ Listed(grid)' = AnswerOf(version, sent)
              /\ status' = "nothing" => grid' = <<>>
              /\ pager' # None => pager'.pages = Pages(Tables[version], sent)
  <2> DEFINE page == Page(Tables[version], sent)
  <2>1. Len(cards) = Len(page) /\ DOMAIN cards = 1..Len(page)
    BY <1>11, <1>14, <1>15
  <2>2. page \in Seq(Matching(Tables[version], sent))
    BY <1>9, TablesAre, PageIs DEF Url, PageInv, PageType
  <2>3. DOMAIN page = 1..Len(page)
    <3> HIDE DEF page
    <3> QED
      BY <2>2
  <2>4. \A k \in 1..Len(page) : /\ cards[k].product = page[k].id
                                /\ cards[k].cheapest = page[k].cheapest
    BY <1>11, <1>14, <1>15, <2>1
  <2>5. Listed(cards) = AnswerOf(version, sent)
    <3>1. AnswerOf(version, sent)
            = [k \in DOMAIN page |-> [id |-> page[k].id, cheapest |-> page[k].cheapest]]
      BY DEF AnswerOf
    <3> HIDE DEF page
    <3> QED
      BY <2>1, <2>3, <2>4, <3>1 DEF Listed
  <2>6. status' = "nothing" => cards = <<>>
    BY <1>8
  <2>7. pager' # None => pager'.pages = Pages(Tables[version], sent)
    BY <1>8, <1>14, <1>15
  <2>8. Listed(grid)' = Listed(cards)
    BY <1>14, <1>15 DEF Listed
  <2> QED
    BY <1>14, <1>15, <2>5, <2>6, <2>7, <2>8
<1>16. GridInv'
  <2>1. /\ sent'.chips = chips' /\ sent'.page = catalogPage'
        /\ steady => sent'.page = 1 \/ sent'.page \in 1..Pages(Tables[version'], sent')
    BY <1>2 DEF PageInv, GridInv
  <2>2. Listed(grid)' = Listed(grid')
    BY DEF Listed
  <2>3. AnswerOf(version, sent)' = AnswerOf(version, sent)
    BY <1>2 DEF AnswerOf
  <2>4. pager' # None => pager'.pages \in Nat
    <3>1. Pages(Tables[counted], url) \in Nat
      BY <1>10, TablesAre, PagesIs
    <3> QED
      BY <1>8, <3>1 DEF PageInv, GridInv
  <2> QED
    BY <1>2, <1>14, <1>15, <2>1, <2>2, <2>3, <2>4 DEF GridInv
<1>17. SearchInv'
  BY <1>2 DEF PageInv, SearchInv, searchVars
<1> QED
  BY <1>13, <1>16, <1>17 DEF PageInv

LEMMA GridRelisted ==
  ASSUME PageInv, grid' \in Seq(GridCard), DOMAIN grid' = DOMAIN grid,
         \A j \in DOMAIN grid : Same(grid[j], grid'[j]),
         UNCHANGED <<version, chips, fields, catalogPage, facets, asked, sent, pager, status, steady>>
  PROVE  GridInv'
<1>1. grid = <<>> => grid' = <<>>
  <2> SUFFICES ASSUME grid = <<>>
               PROVE  grid' = <<>>
    OBVIOUS
  <2>1. Len(grid') = 0
    OBVIOUS
  <2> QED
    BY <2>1, EmptySeq
<1>2. \A j \in DOMAIN grid : grid'[j].product = grid[j].product /\ grid'[j].cheapest = grid[j].cheapest
  BY DEF Same
<1>3. Listed(grid') = Listed(grid)
  BY <1>2 DEF Listed
<1>4. Listed(grid)' = Listed(grid') /\ AnswerOf(version, sent)' = AnswerOf(version, sent)
  BY DEF Listed, AnswerOf
<1> QED
  BY <1>1, <1>3, <1>4 DEF PageInv, GridInv

\* So a button of a card, or an answer to one, leaves the list as it is.
LEMMA CardStep ==
  ASSUME PageInv, NEW k \in DOMAIN grid, OpenTable(k) \/ CloseTable(k) \/ TableLands(k)
  PROVE  PageInv'
<1>1. UNCHANGED <<version, OnGrid>>
  BY DEF OpenTable, CloseTable, TableLands, Look
<1>2. UNCHANGED <<version, chips, fields, catalogPage, facets, asked, sent, pager, status, steady,
                  searchVars>>
  BY <1>1 DEF OnGrid
<1>3. grid \in Seq(GridCard) /\ version \in Version /\ PageType
  BY DEF PageInv, PageType
<1>4. DOMAIN grid = 1..Len(grid) /\ Len(grid) \in Nat /\ \A j \in DOMAIN grid : grid[j] \in GridCard
  BY <1>3
<1>5. /\ DOMAIN grid' = DOMAIN grid
      /\ \A j \in DOMAIN grid : grid'[j] \in GridCard /\ Same(grid[j], grid'[j])
  <2>1. CASE OpenTable(k)
    <3> DEFINE opened == [grid[k] EXCEPT !.open = TRUE, !.table = None, !.waits = Append(@, version)]
    <3>1. grid' = [j \in DOMAIN grid |-> IF j = k THEN opened ELSE [grid[j] EXCEPT !.open = FALSE]]
      BY <2>1 DEF OpenTable
    <3>2. opened \in GridCard /\ Same(grid[k], opened)
      BY <1>3, <1>4, CardOpens
    <3>3. \A j \in DOMAIN grid : /\ [grid[j] EXCEPT !.open = FALSE] \in GridCard
                                 /\ Same(grid[j], [grid[j] EXCEPT !.open = FALSE])
      BY <1>4, CardCloses
    <3> HIDE DEF opened
    <3> QED
      BY <3>1, <3>2, <3>3
  <2>2. CASE CloseTable(k)
    <3> DEFINE closed == [grid[k] EXCEPT !.open = FALSE]
    <3>1. grid' = [grid EXCEPT ![k] = closed]
      BY <2>2 DEF CloseTable
    <3>2. closed \in GridCard /\ Same(grid[k], closed)
      BY <1>4, CardCloses
    <3>3. \A j \in DOMAIN grid : grid'[j] = IF j = k THEN closed ELSE grid[j]
      BY <3>1
    <3>4. DOMAIN grid' = DOMAIN grid
      BY <3>1
    <3> HIDE DEF closed
    <3> QED
      BY <1>4, <3>2, <3>3, <3>4 DEF Same
  <2>3. CASE TableLands(k)
    <3>1. PICK i \in DOMAIN grid[k].waits : \E read \in grid[k].waits[i] .. version :
            \E table \in {None} \cup {[rows |-> found, read |-> read] :
                                        found \in PriceTables(Tables[read], grid[k].product)} :
              grid' = [grid EXCEPT ![k].waits = RemoveAt(@, i), ![k].table = table]
      BY <2>3 DEF TableLands
    <3>2. PICK read \in grid[k].waits[i] .. version :
            \E table \in {None} \cup {[rows |-> found, read |-> read] :
                                        found \in PriceTables(Tables[read], grid[k].product)} :
              grid' = [grid EXCEPT ![k].waits = RemoveAt(@, i), ![k].table = table]
      BY <3>1
    <3>3. PICK table \in {None} \cup {[rows |-> found, read |-> read] :
                                        found \in PriceTables(Tables[read], grid[k].product)} :
            grid' = [grid EXCEPT ![k].waits = RemoveAt(@, i), ![k].table = table]
      BY <3>2
    <3>4. grid[k].waits \in Seq(Version) /\ grid[k].product \in Product
      BY <1>4 DEF GridCard, Card
    <3>5. RemoveAt(grid[k].waits, i) \in Seq(Version) /\ grid[k].waits[i] \in Version
      BY <3>4, OneTaken, InSeq
    <3>6. read \in Version
      <4>1. version \in Nat /\ 1..version \subseteq Version /\ grid[k].waits[i] \in Nat \ {0}
        BY <1>3, <3>5, VersionIs
      <4> QED
        BY <4>1
    <3>7. /\ table \in {None} \cup [rows : SUBSET PriceRow, read : Version]
          /\ table # None => table.rows \in PriceTables(Tables[table.read], grid[k].product)
      <4>1. ASSUME NEW found \in PriceTables(Tables[read], grid[k].product)
            PROVE  found \subseteq PriceRow
        BY <3>4, <3>6, TablesAre, TableRowsAre
      <4> QED
        BY <3>6, <4>1
    <3> DEFINE filled == [grid[k] EXCEPT !.waits = RemoveAt(grid[k].waits, i), !.table = table]
    <3>8. filled \in GridCard /\ Same(grid[k], filled)
      BY <1>4, <3>5, <3>7, CardIsFilled
    <3>9. grid' = [grid EXCEPT ![k] = filled]
      BY <3>3
    <3> HIDE DEF filled
    <3>10. DOMAIN grid' = DOMAIN grid /\ \A j \in DOMAIN grid : grid'[j] = IF j = k THEN filled ELSE grid[j]
      BY <3>9
    <3> QED
      BY <1>4, <3>8, <3>10 DEF Same
  <2> QED
    BY <2>1, <2>2, <2>3
<1>6. grid' \in Seq(GridCard)
  <2>1. grid' = [j \in 1..Len(grid) |-> grid'[j]]
    <3>1. CASE OpenTable(k)
      BY <1>4, <3>1 DEF OpenTable
    <3>2. CASE CloseTable(k)
      BY <1>3, <1>4, <3>2 DEF CloseTable
    <3>3. CASE TableLands(k)
      BY <1>3, <1>4, <3>3 DEF TableLands
    <3> QED
      BY <3>1, <3>2, <3>3
  <2> QED
    BY <1>4, <1>5, <2>1
<1>7. PageType'
  BY <1>2, <1>3, <1>6, TypeAfterAnswer DEF PageType
<1>8. GridInv'
  BY <1>2, <1>5, <1>6, GridRelisted
<1>9. SearchInv'
  BY <1>2 DEF PageInv, SearchInv, searchVars
<1> QED
  BY <1>7, <1>8, <1>9 DEF PageInv

\* What the search answers for a product: some of its rows, and the lowest price in them.
LEMMA SearchAnswerIs ==
  ASSUME NEW t \in PriceTable, NEW p, NEW answer \in SearchResults(t, p)
  PROVE  /\ answer \in [rows : SUBSET PriceRow, cheapest : Nat \cup {None}]
         /\ answer.rows \in PriceTables(t, p)
         /\ answer.rows # {} => answer.cheapest = Min(Asking(answer.rows))
<1>1. PICK found \in PriceTables(t, p) :
        answer = [rows |-> found, cheapest |-> IF found = {} THEN None ELSE Min(Asking(found))]
  BY DEF SearchResults
<1>2. found \in SUBSET PriceRow /\ IsFiniteSet(found)
  BY TableRowsAre
<1>3. found # {} => Min(Asking(found)) \in Nat
  BY <1>2, AskingIs
<1> QED
  BY <1>1, <1>2, <1>3

LEMMA ResultCardsAre ==
  ASSUME version \in Version, NEW search \in SearchRequest, NEW cards \in ResultCards(search)
  PROVE  /\ cards \in Seq(FoundCard)
         /\ [k \in DOMAIN cards |-> cards[k].product] = Hits[search.query]
<1> DEFINE hits == Hits[search.query]
           n == Len(hits)
<1>1. search.query \in DOMAIN Hits /\ search.since \in Version
  BY DEF SearchRequest
<1>2. hits \in Seq(Product)
  BY <1>1, HitsAssumption
<1> HIDE DEF hits
<1>3. DOMAIN hits = 1..n /\ n \in Nat /\ hits \in [1..n -> Product]
  BY <1>2
<1>4. \A v \in search.since .. version : v \in Version
  <2>1. version \in Nat /\ 1..version \subseteq Version /\ search.since \in Nat \ {0}
    BY <1>1, VersionIs
  <2> QED
    BY <2>1
<1> DEFINE CardsOf(p) == UNION {{[product |-> p, read |-> v, open |-> FALSE, answer |-> answer] :
                                   answer \in SearchResults(Tables[v], p)} :
                                v \in search.since .. version}
<1>5. ASSUME NEW p \in Product, NEW card \in CardsOf(p)
      PROVE  card \in FoundCard /\ card.product = p
  <2>1. PICK v \in search.since .. version :
          card \in {[product |-> p, read |-> v, open |-> FALSE, answer |-> answer] :
                      answer \in SearchResults(Tables[v], p)}
    BY <1>5
  <2>2. PICK answer \in SearchResults(Tables[v], p) :
          card = [product |-> p, read |-> v, open |-> FALSE, answer |-> answer]
    BY <2>1
  <2>3. v \in Version /\ Tables[v] \in PriceTable
    BY <1>4, TablesAre
  <2>4. answer \in [rows : SUBSET PriceRow, cheapest : Nat \cup {None}]
    BY <2>3, SearchAnswerIs
  <2> QED
    BY <2>2, <2>3, <2>4 DEF FoundCard
<1>6. /\ cards \in [DOMAIN hits -> UNION {CardsOf(p) : p \in ToSet(hits)}]
      /\ \A k \in DOMAIN hits : cards[k] \in CardsOf(hits[k])
  BY DEF ResultCards, hits
<1> HIDE DEF CardsOf, n
<1>7. DOMAIN cards = 1..n /\ cards = [k \in 1..n |-> cards[k]]
  BY <1>3, <1>6
<1>8. \A k \in 1..n : cards[k] \in FoundCard /\ cards[k].product = hits[k]
  BY <1>3, <1>5, <1>6
<1>9. cards \in Seq(FoundCard)
  BY <1>3, <1>7, <1>8
<1>10. [k \in DOMAIN cards |-> cards[k].product] = hits
  BY <1>3, <1>7, <1>8
<1> QED
  BY <1>9, <1>10 DEF hits

\* While no search overtakes another, at most one is on its way, the last.
LEMMA RunSearchStep == PageInv /\ runSearch => PageInv'
<1> SUFFICES ASSUME PageInv, runSearch
             PROVE  PageInv'
  OBVIOUS
<1>1. /\ lastQuery' \in DOMAIN Hits /\ results' = <<>>
      /\ searches' = Append(searches, [query |-> lastQuery', since |-> version])
      /\ inTurn' = (inTurn /\ searches = <<>>)
      /\ UNCHANGED <<version, grid, OffSearch>>
  BY DEF runSearch, ClearResults, Look
<1>2. UNCHANGED OffGrid
  BY <1>1 DEF OffSearch, OffGrid
<1>3. [query |-> lastQuery', since |-> version] \in SearchRequest
  BY <1>1 DEF PageInv, PageType, SearchRequest
<1>4. searches' \in Seq(SearchRequest)
  BY <1>1, <1>3, AppendProperties DEF PageInv, PageType
<1>5. PageType'
  <2>1. results' \in Seq(FoundCard)
    BY <1>1, EmptySeq
  <2> QED
    BY <1>2, <1>4, <2>1 DEF PageInv, PageType, OffGrid
<1>6. GridInv'
  BY <1>2 DEF PageInv, GridInv, OffGrid
<1>7. SearchInv'
  <2> SUFFICES ASSUME inTurn'
               PROVE  Len(searches') = 1 /\ searches'[1].query = lastQuery' /\ results' = <<>>
    BY DEF SearchInv
  <2> DEFINE search == [query |-> lastQuery', since |-> version]
  <2>1. search.query = lastQuery'
    OBVIOUS
  <2>2. searches' = <<search>>
    BY <1>1, <1>3, OneAsked
  <2> HIDE DEF search
  <2>3. Len(<<search>>) = 1 /\ <<search>>[1] = search
    OBVIOUS
  <2>4. Len(searches') = 1 /\ searches'[1] = search
    BY <2>2, <2>3, Zenon
  <2> QED
    BY <1>1, <2>1, <2>4, Zenon
<1> QED
  BY <1>5, <1>6, <1>7 DEF PageInv

LEMMA SearchEndsStep ==
  ASSUME PageInv, NEW i \in DOMAIN searches, SearchEnds(i)
  PROVE  /\ searches' \in Seq(SearchRequest) /\ searches[i] \in SearchRequest
         /\ UNCHANGED <<OffGrid, lastQuery, inTurn>>
         /\ inTurn => searches' = <<>> /\ searches[i].query = lastQuery /\ results = <<>>
<1>1. searches \in Seq(SearchRequest) /\ searches' = RemoveAt(searches, i)
  BY DEF PageInv, PageType, SearchEnds
<1>2. searches' \in Seq(SearchRequest) /\ (Len(searches) = 1 => searches' = <<>>)
  BY <1>1, OneTaken
<1>3. UNCHANGED <<OffGrid, lastQuery, inTurn>>
  BY DEF SearchEnds, OffGrid, catalogVars
<1>4. ASSUME inTurn
      PROVE  Len(searches) = 1 /\ searches[i].query = lastQuery /\ results = <<>>
  <2>1. searches # <<>>
    OBVIOUS
  <2>2. Len(searches) = 1 /\ searches[1].query = lastQuery /\ results = <<>>
    BY <1>4, <2>1 DEF PageInv, SearchInv
  <2>3. i = 1
    BY <1>1, <2>2
  <2> QED
    BY <2>2, <2>3
<1> QED
  BY <1>1, <1>2, <1>3, <1>4, InSeq

LEMMA SearchLandsStep == PageInv /\ SearchLands => PageInv'
<1> SUFFICES ASSUME PageInv, SearchLands
             PROVE  PageInv'
  OBVIOUS
<1>1. PICK i \in DOMAIN searches : \E cards \in ResultCards(searches[i]) :
        SearchEnds(i) /\ results' = results \o cards
  BY DEF SearchLands
<1>2. PICK cards \in ResultCards(searches[i]) : results' = results \o cards
  BY <1>1
<1>3. /\ searches' \in Seq(SearchRequest) /\ searches[i] \in SearchRequest
      /\ UNCHANGED <<OffGrid, lastQuery, inTurn>>
      /\ inTurn => searches' = <<>> /\ searches[i].query = lastQuery /\ results = <<>>
  BY <1>1, SearchEndsStep
<1>4. /\ cards \in Seq(FoundCard)
      /\ [k \in DOMAIN cards |-> cards[k].product] = Hits[searches[i].query]
  BY <1>3, ResultCardsAre DEF PageInv, PageType
<1>5. PageType'
  <2>1. results' \in Seq(FoundCard)
    BY <1>2, <1>4, ConcatProperties DEF PageInv, PageType
  <2> QED
    BY <1>3, <2>1 DEF PageInv, PageType, OffGrid
<1>6. GridInv'
  BY <1>3 DEF PageInv, GridInv, OffGrid
<1>7. SearchInv'
  <2> SUFFICES ASSUME inTurn
               PROVE  /\ searches' = <<>>
                      /\ [k \in DOMAIN results' |-> results'[k].product] = Hits[lastQuery]
    BY <1>3 DEF SearchInv
  <2>1. results' = cards
    BY <1>2, <1>3, <1>4, ConcatEmptySeq
  <2> QED
    BY <1>3, <1>4, <2>1
<1> QED
  BY <1>5, <1>6, <1>7 DEF PageInv

LEMMA SearchFailsStep == PageInv /\ SearchFails => PageInv'
<1> SUFFICES ASSUME PageInv, SearchFails
             PROVE  PageInv'
  OBVIOUS
<1>1. PICK i \in DOMAIN searches :
        SearchEnds(i) /\ searchStatus' = "failed" /\ UNCHANGED results
  BY DEF SearchFails
<1>2. /\ searches' \in Seq(SearchRequest)
      /\ UNCHANGED <<OffGrid, lastQuery, inTurn>>
      /\ inTurn => searches' = <<>>
  BY <1>1, SearchEndsStep
<1>3. PageType'
  BY <1>1, <1>2 DEF PageInv, PageType, OffGrid
<1>4. GridInv'
  BY <1>2 DEF PageInv, GridInv, OffGrid
<1>5. SearchInv'
  BY <1>1, <1>2 DEF SearchInv
<1> QED
  BY <1>3, <1>4, <1>5 DEF PageInv

LEMMA ShowRowsStep ==
  ASSUME PageInv, NEW k \in DOMAIN results, ShowRows(k)
  PROVE  PageInv'
<1>1. /\ results' = [results EXCEPT ![k].open = ~@]
      /\ grid' = IF results[k].open THEN grid
                 ELSE [j \in DOMAIN grid |-> [grid[j] EXCEPT !.open = FALSE]]
      /\ UNCHANGED <<version, lastQuery, searches, searchStatus, inTurn, OffSearch>>
  BY DEF ShowRows, Look
<1>2. UNCHANGED <<version, chips, fields, catalogPage, facets, asked, sent, pager, status, steady>>
  BY <1>1 DEF OffSearch
<1>3. /\ PageType /\ grid \in Seq(GridCard) /\ results \in Seq(FoundCard)
  BY DEF PageInv, PageType
<1>4. DOMAIN grid = 1..Len(grid) /\ Len(grid) \in Nat /\ \A j \in DOMAIN grid : grid[j] \in GridCard
  BY <1>3
<1>5. /\ DOMAIN grid' = DOMAIN grid
      /\ \A j \in DOMAIN grid : grid'[j] \in GridCard /\ Same(grid[j], grid'[j])
      /\ grid' \in Seq(GridCard)
  <2>1. CASE results[k].open
    <3>1. grid' = grid
      BY <1>1, <2>1
    <3> QED
      BY <1>3, <1>4, <3>1 DEF Same
  <2>2. CASE ~results[k].open
    <3>1. grid' = [j \in DOMAIN grid |-> [grid[j] EXCEPT !.open = FALSE]]
      BY <1>1, <2>2
    <3>2. \A j \in DOMAIN grid : /\ [grid[j] EXCEPT !.open = FALSE] \in GridCard
                                 /\ Same(grid[j], [grid[j] EXCEPT !.open = FALSE])
      BY <1>4, CardCloses
    <3>3. DOMAIN grid' = 1..Len(grid)
      BY <1>4, <3>1
    <3>4. \A j \in DOMAIN grid : grid'[j] = [grid[j] EXCEPT !.open = FALSE]
      BY <3>1
    <3>5. \A j \in DOMAIN grid : grid'[j] \in GridCard /\ Same(grid[j], grid'[j])
      BY <3>2, <3>4
    <3>6. grid' = [j \in 1..Len(grid) |-> grid'[j]]
      BY <1>4, <3>1
    <3>7. grid' \in Seq(GridCard)
      BY <1>4, <3>5, <3>6
    <3> QED
      BY <1>4, <3>3, <3>5, <3>7
  <2> QED
    BY <2>1, <2>2
<1>6. /\ DOMAIN results' = DOMAIN results
      /\ \A j \in DOMAIN results : results'[j] \in FoundCard /\ results'[j].product = results[j].product
      /\ results' \in Seq(FoundCard)
  <2> DEFINE shown == [results[k] EXCEPT !.open = ~@]
  <2>1. \A j \in DOMAIN results : results[j] \in FoundCard
    BY <1>3
  <2>2. shown \in FoundCard /\ shown.product = results[k].product
    <3>1. results[k] \in FoundCard
      BY <2>1
    <3> QED
      BY <3>1 DEF FoundCard
  <2>3. results' = [results EXCEPT ![k] = shown]
    BY <1>1
  <2> HIDE DEF shown
  <2>4. DOMAIN results' = DOMAIN results /\ \A j \in DOMAIN results : results'[j] = IF j = k THEN shown ELSE results[j]
    BY <2>3
  <2>5. results' \in Seq(FoundCard)
    BY <1>3, <2>2, <2>3
  <2> QED
    BY <2>1, <2>2, <2>4, <2>5
<1>7. PageType'
  BY <1>1, <1>2, <1>3, <1>5, <1>6 DEF PageType
<1>8. GridInv'
  BY <1>2, <1>5, GridRelisted
<1>9. SearchInv'
  <2>1. results = <<>> => results' = <<>>
    BY <1>3, <1>6
  <2>2. [j \in DOMAIN results' |-> results'[j].product] = [j \in DOMAIN results |-> results[j].product]
    BY <1>6
  <2> QED
    BY <1>1, <2>1, <2>2 DEF PageInv, SearchInv
<1> QED
  BY <1>7, <1>8, <1>9 DEF PageInv

LEMMA CatalogFailsStep == PageInv /\ CatalogFails => PageInv'
<1> SUFFICES ASSUME PageInv, CatalogFails
             PROVE  PageInv'
  OBVIOUS
<1>1. PICK i \in DOMAIN asked : asked' = RemoveAt(asked, i)
  BY DEF CatalogFails
<1>2. /\ status' = "failed"
      /\ UNCHANGED <<version, chips, fields, catalogPage, facets, grid, pager, sent, steady,
                     searchVars>>
  BY DEF CatalogFails
<1>3. asked \in Seq(Request) /\ grid \in Seq(GridCard) /\ PageType
  BY DEF PageInv, PageType
<1>4. asked' \in Seq(Request) /\ (Len(asked) = 1 => asked' = <<>>)
  BY <1>1, <1>3, OneTaken
<1>5. PageType'
  BY <1>2, <1>3, <1>4, TypeAfterAnswer
<1>6. ASSUME steady
      PROVE  asked' = <<>>
  <2>1. asked # <<>>
    BY <1>3
  <2>2. asked = <<[url |-> sent, since |-> version]>>
    BY <1>6, <2>1 DEF PageInv, GridInv
  <2>3. Len(asked) = 1
    BY <2>2
  <2> QED
    BY <1>4, <2>3
<1>7. GridInv'
  BY <1>2, <1>6 DEF PageInv, GridInv
<1>8. SearchInv'
  BY <1>2 DEF PageInv, SearchInv, searchVars
<1> QED
  BY <1>5, <1>7, <1>8 DEF PageInv

LEMMA FreshPage ==
  ASSUME version' \in Version, chips' = {}, fields' = NoFields, catalogPage' = 1, facets' = None,
         asked' = <<>>, grid' = <<>>, pager' = None, searches' = <<>>, results' = <<>>,
         lastQuery' = None, sent' = catalogParams'
  PROVE  PageInv'
<1>1. NoFields \in Fields /\ 1 \in Nat \ {0}
  BY FieldsAssumption
<1>2. /\ sent' = [chips |-> chips', fields |-> fields', page |-> catalogPage']
      /\ sent' \in Url
  BY <1>1 DEF catalogParams, Url
<1>3. PageType'
  <2>1. asked' \in Seq(Request) /\ grid' \in Seq(GridCard)
    BY EmptySeq
  <2>2. searches' \in Seq(SearchRequest) /\ results' \in Seq(FoundCard)
    BY EmptySeq
  <2> QED
    BY <1>1, <1>2, <2>1, <2>2 DEF PageType
<1>4. GridInv'
  BY <1>2 DEF GridInv
<1>5. SearchInv'
  BY DEF SearchInv
<1> QED
  BY <1>3, <1>4, <1>5 DEF PageInv

LEMMA FirstPage == Init => PageInv
<1> SUFFICES ASSUME Init
             PROVE  PageInv
  OBVIOUS
<1>1. NoFields \in Fields /\ 1 \in Nat \ {0} /\ 1 \in Version
  <2>1. 1 \in DOMAIN Tables
    BY TablesAssumption
  <2> QED
    BY <2>1, FieldsAssumption DEF Version
<1>2. /\ sent = [chips |-> chips, fields |-> fields, page |-> catalogPage]
      /\ sent \in Url
  BY <1>1 DEF Init, catalogParams, Url
<1>3. PageType
  <2>1. asked \in Seq(Request) /\ grid \in Seq(GridCard)
    BY EmptySeq DEF Init
  <2>2. searches \in Seq(SearchRequest) /\ results \in Seq(FoundCard)
    BY EmptySeq DEF Init
  <2> QED
    BY <1>1, <1>2, <2>1, <2>2 DEF PageType, Init
<1>4. GridInv
  <2>1. asked = <<>> /\ facets = None /\ pager = None /\ catalogPage = 1
    BY DEF Init
  <2>2. sent.chips = chips /\ sent.page = catalogPage
    BY <1>2
  <2> QED
    BY <2>1, <2>2 DEF GridInv
<1>5. SearchInv
  BY DEF SearchInv, Init
<1> QED
  BY <1>3, <1>4, <1>5 DEF PageInv

LEMMA PageStep == PageInv /\ [Next]_vars => PageInv'
<1> SUFFICES ASSUME PageInv, [Next]_vars
             PROVE  PageInv'
  OBVIOUS
<1>1. /\ version \in Version /\ chips \in SUBSET Chain /\ fields \in Fields
      /\ catalogPage \in Nat \ {0} /\ (facets # None => facets \in SUBSET Chain)
      /\ sent.chips = chips /\ sent.page = catalogPage
  BY DEF PageInv, PageType, GridInv
<1>2. CASE FacetsLand
  <2>1. facets' \in SUBSET Chain
    <3>1. \A t \in PriceTable : ChainFacets(t) \subseteq Chain
      BY ShopAssumption DEF ChainFacets, PriceTable, PriceRow
    <3>2. \A v \in 1..version : Tables[v] \in PriceTable
      BY <1>1, VersionIs, TablesAre
    <3> QED
      BY <1>2, <3>1, <3>2 DEF FacetsLand
  <2>2. runCatalog /\ UNCHANGED <<version, chips, fields, catalogPage, searchVars>>
    BY <1>2 DEF FacetsLand
  <2>3. steady => catalogPage' = 1 \/ catalogPage' \in 1..Pages(Tables[version], sent)
    BY <1>1, <2>2 DEF PageInv, GridInv
  <2> QED
    BY <1>1, <2>1, <2>2, <2>3, RunCatalogStep
<1>3. CASE Submit
  <2>1. /\ runCatalog /\ catalogPage' = 1 /\ catalogPage' \in Nat \ {0}
        /\ UNCHANGED <<version, chips, fields, facets, searchVars>>
    BY <1>3 DEF Submit, Look
  <2> QED
    BY <1>1, <2>1, RunCatalogStep
<1>4. CASE Reset
  <2>1. /\ runCatalog /\ chips' = {} /\ fields' = NoFields
        /\ catalogPage' = 1 /\ catalogPage' \in Nat \ {0}
        /\ UNCHANGED <<version, facets, searchVars>>
    BY <1>4 DEF Reset, Look
  <2>2. chips' \in SUBSET Chain /\ fields' \in Fields
    BY <2>1, FieldsAssumption
  <2> QED
    BY <1>1, <2>1, <2>2, RunCatalogStep
<1>5. CASE Chip
  <2>1. /\ runCatalog /\ facets # None /\ \E c \in facets : Toggle(c)
        /\ UNCHANGED <<version, fields, facets, searchVars>>
    BY <1>5 DEF Chip, Look
  <2>2. PICK c \in facets : Toggle(c)
    BY <2>1
  <2>3. chips' \in SUBSET Chain /\ catalogPage' = 1 /\ catalogPage' \in Nat \ {0}
    BY <1>1, <2>1, <2>2 DEF Toggle
  <2> QED
    BY <1>1, <2>1, <2>3, RunCatalogStep
<1>6. CASE TurnPage
  <2>1. /\ runCatalog /\ pager # None /\ catalogPage' \in 1 .. pager.pages
        /\ UNCHANGED <<version, chips, fields, facets, searchVars>>
    BY <1>6 DEF TurnPage, Look
  <2>2. catalogPage' \in Nat \ {0}
    <3>1. pager.pages \in Nat
      BY <2>1 DEF PageInv, GridInv
    <3> QED
      BY <2>1, <3>1
  <2>3. steady => catalogPage' \in 1..Pages(Tables[version], sent)
    BY <2>1 DEF PageInv, GridInv
  <2> QED
    BY <1>1, <2>1, <2>2, <2>3, RunCatalogStep
<1>7. CASE CatalogLands
  BY <1>7, CatalogLandsStep
<1>8. CASE CatalogFails
  BY <1>8, CatalogFailsStep
<1>9. CASE \E k \in DOMAIN grid : OpenTable(k) \/ CloseTable(k) \/ TableLands(k)
  BY <1>9, CardStep
<1>10. CASE Type
  <2>1. /\ fields' \in Fields
        /\ UNCHANGED <<version, chips, catalogPage, facets, asked, sent, grid, pager, status, steady,
                       searchVars>>
    BY <1>10 DEF Type, Look
  <2>2. PageType'
    BY <2>1 DEF PageInv, PageType, searchVars
  <2>3. GridInv'
    BY <2>1 DEF PageInv, GridInv
  <2>4. SearchInv'
    BY <2>1 DEF PageInv, SearchInv, searchVars
  <2> QED
    BY <2>2, <2>3, <2>4 DEF PageInv
<1>11. CASE Fold
  <2>1. /\ version < Len(Tables) /\ version' = version + 1 /\ ~steady'
        /\ UNCHANGED <<chips, fields, catalogPage, facets, asked, sent, grid, pager, status,
                       searchVars>>
    BY <1>11 DEF Fold
  <2>2. version' \in Version
    <3>1. Version = 1..Len(Tables) /\ Len(Tables) \in Nat
      BY TablesAssumption DEF Version
    <3> QED
      BY <1>1, <2>1, <3>1
  <2>3. PageType'
    BY <2>1, <2>2 DEF PageInv, PageType, searchVars
  <2>4. GridInv'
    BY <2>1 DEF PageInv, GridInv
  <2>5. SearchInv'
    BY <2>1 DEF PageInv, SearchInv, searchVars
  <2> QED
    BY <2>3, <2>4, <2>5 DEF PageInv
<1>12. CASE runSearch
  BY <1>12, RunSearchStep
<1>13. CASE SearchLands
  BY <1>13, SearchLandsStep
<1>14. CASE SearchFails
  BY <1>14, SearchFailsStep
<1>15. CASE \E k \in DOMAIN results : ShowRows(k)
  BY <1>15, ShowRowsStep
<1>16. CASE Reload
  <2>1. /\ version' \in Version /\ chips' = {} /\ fields' = NoFields /\ catalogPage' = 1
        /\ facets' = None /\ asked' = <<>> /\ grid' = <<>> /\ pager' = None
        /\ searches' = <<>> /\ results' = <<>> /\ lastQuery' = None /\ sent' = catalogParams'
    BY <1>1, <1>16 DEF Reload
  <2> QED
    BY <2>1, FreshPage
<1>17. CASE \/ AddToBasket \/ showView \/ Edit \/ Send \/ OrderLands \/ OrderFails
            \/ UNCHANGED vars
  <2>1. UNCHANGED OffGrid /\ UNCHANGED searchVars
    BY <1>17 DEF AddToBasket, showView, Edit, Panel, Send, OrderLands, OrderFails, OrderEnds,
                 OffGrid, catalogVars, searchVars, vars
  <2> QED
    BY <2>1, InvDependsOn
<1> QED
  BY <1>2, <1>3, <1>4, <1>5, <1>6, <1>7, <1>8, <1>9, <1>10, <1>11, <1>12, <1>13, <1>14, <1>15,
     <1>16, <1>17 DEF Next

LEMMA PageInvariant == Spec => []PageInv
<1>1. Init => PageInv
  BY FirstPage
<1>2. PageInv /\ [Next]_vars => PageInv'
  BY PageStep
<1> QED
  BY <1>1, <1>2, PTL DEF Spec

\* app.js: what is listed is the answer to the last question asked, unless one overtook
\* another, a fold committed or the answer failed.
THEOREM AnswersAreListed == Spec => []ListsAreTheAnswers
<1>1. PageInv => ListsAreTheAnswers
  <2> SUFFICES ASSUME PageInv
               PROVE  GridIsTheAnswer /\ ResultsAreTheAnswer
    BY DEF ListsAreTheAnswers
  <2>1. GridIsTheAnswer
    BY DEF GridIsTheAnswer, Settled, PageInv, GridInv, Listed, AnswerOf
  <2>2. ResultsAreTheAnswer
    <3>1. searches = <<>> => Len(searches) # 1
      OBVIOUS
    <3> QED
      BY <3>1 DEF ResultsAreTheAnswer, PageInv, SearchInv
  <2> QED
    BY <2>1, <2>2
<1> QED
  BY <1>1, PageInvariant, PTL

\* app.js: an empty grid says that nothing matches only if nothing does: every request
\* asks for the first page or for one that the count of its own filter makes.
THEOREM NothingMatches == Spec => []EmptyMeansNothing
<1>1. PageInv => EmptyMeansNothing
  <2> SUFFICES ASSUME PageInv, Settled, status = "nothing"
               PROVE  Found(Tables[version], sent) = <<>>
    BY DEF EmptyMeansNothing
  <2> DEFINE page == Page(Tables[version], sent)
  <2>1. /\ Tables[version] \in PriceTable /\ sent.page \in Nat \ {0}
        /\ sent.page = 1 \/ sent.page \in 1..Pages(Tables[version], sent)
    BY TablesAre DEF PageInv, PageType, GridInv, Settled, Url
  <2>2. Listed(grid) = AnswerOf(version, sent) /\ grid = <<>>
    BY DEF PageInv, GridInv, Settled
  <2>3. DOMAIN page = {}
    <3>1. DOMAIN AnswerOf(version, sent) = DOMAIN page
      BY DEF AnswerOf
    <3>2. DOMAIN Listed(grid) = {}
      BY <2>2 DEF Listed
    <3> QED
      BY <2>2, <3>1, <3>2
  <2>4. page \in Seq(Matching(Tables[version], sent))
    BY <2>1, PageIs
  <2>5. page = <<>>
    <3> HIDE DEF page
    <3>1. Len(page) = 0
      BY <2>3, <2>4
    <3> QED
      BY <2>4, <3>1, EmptySeq
  <2> QED
    BY <2>1, <2>5, CountedPageHasRows
<1> QED
  BY <1>1, PageInvariant, PTL

-----------------------------------------------------------------------------
(* A card and the rows below it.                                           *)

\* Rows of a table of the product tell what the card does, cut or not, and the lowest
\* price among them is the card's unless rows were cut.
LEMMA RowsTell ==
  ASSUME NEW c \in GridCard, NEW found \in PriceTables(Tables[c.seen], c.product)
  PROVE  /\ Tells(c, found)
         /\ c.chips = {} => \/ Min(Asking(found)) = c.cheapest
                           \/ /\ Min(Asking(found)) > c.cheapest
                              /\ Cardinality(found) = TableLimit
<1> DEFINE t == Tables[c.seen]
           p == c.product
           everywhere == Offering(t, p, {})
           inScope == Offering(t, p, c.chips)
<1>1. t \in PriceTable
  BY TablesAre DEF GridCard, Card
<1>2. /\ inScope # {} /\ c.cheapest = Min(Asking(inScope)) /\ c.dearest = Max(Asking(inScope))
  BY DEF GridCard, Honest, Cheapest, Dearest
<1>3. inScope \subseteq everywhere /\ inScope \in SUBSET PriceRow /\ IsFiniteSet(inScope)
  BY <1>1, OfferingIs
<1>4. /\ found \in SUBSET PriceRow /\ IsFiniteSet(found) /\ found \subseteq everywhere
      /\ everywhere # {} => found # {}
      /\ Cardinality(found) <= TableLimit
      /\ Cardinality(found) < TableLimit => found = everywhere
  BY <1>1, TableRowsAre
<1>5. c.chips = {} => everywhere = inScope
  OBVIOUS
<1>6. Cardinality(found) \in Nat /\ TableLimit \in Nat
  BY <1>4, FS_CardinalityType, PageAssumption
<1> HIDE DEF t, p, everywhere, inScope
<1>7. found # {}
  BY <1>2, <1>3, <1>4
<1>8. /\ Asking(inScope) \in SUBSET Nat
      /\ c.cheapest \in Asking(inScope) /\ \A a \in Asking(inScope) : c.cheapest <= a
      /\ c.dearest \in Asking(inScope) /\ \A a \in Asking(inScope) : c.dearest >= a
  BY <1>2, <1>3, AskingIs
<1>9. Min(Asking(found)) \in Asking(found)
  BY <1>4, <1>7, AskingIs
<1>10. c.chips = {} => Asking(found) \subseteq Asking(inScope)
  BY <1>4, <1>5 DEF Asking
<1>11. c.chips = {} => Asking(found) \subseteq c.cheapest .. c.dearest
  BY <1>8, <1>10
<1>12. Cardinality(found) < TableLimit => {c.cheapest, c.dearest} \subseteq Asking(found)
  <2>1. Asking(inScope) \subseteq Asking(everywhere)
    BY <1>3 DEF Asking
  <2> QED
    BY <1>4, <1>8, <2>1
<1>13. ASSUME c.chips = {}
       PROVE  \/ Min(Asking(found)) = c.cheapest
              \/ /\ Min(Asking(found)) > c.cheapest
                 /\ Cardinality(found) = TableLimit
  <2>1. Min(Asking(found)) \in Nat /\ c.cheapest \in Nat /\ Min(Asking(found)) >= c.cheapest
    BY <1>8, <1>9, <1>10, <1>13
  <2>2. CASE Cardinality(found) < TableLimit
    <3>1. found = inScope
      BY <1>4, <1>5, <1>13, <2>2
    <3> QED
      BY <1>2, <3>1
  <2>3. CASE Cardinality(found) = TableLimit
    BY <2>1, <2>3
  <2> QED
    BY <1>4, <1>6, <2>2, <2>3
<1> QED
  BY <1>7, <1>11, <1>12, <1>13 DEF Tells

\* The chains that a card names charge its prices.
LEMMA NamesCharge ==
  ASSUME NEW c \in GridCard, c.seen = c.named
  PROVE  Charged(c, c.low, c.cheapest) /\ Charged(c, c.high, c.dearest)
<1> DEFINE t == Tables[c.seen]
           p == c.product
           inScope == Offering(t, p, c.chips)
           ends(price) == {ChainOf[r.store] : r \in {q \in inScope : q.price = price}}
<1>1. /\ inScope # {} /\ c.cheapest = Cheapest(t, p, c.chips) /\ c.dearest = Dearest(t, p, c.chips)
      /\ <<c.low, c.high>> \in Extremes(t, p, c.chips)
  BY DEF GridCard, Honest
<1>2. Extremes(t, p, c.chips) = ends(c.cheapest) \X ends(c.dearest)
  BY <1>1 DEF Extremes
<1>3. c.low \in ends(c.cheapest) /\ c.high \in ends(c.dearest)
  <2> HIDE DEF ends
  <2> QED
    BY <1>1, <1>2
<1>4. ASSUME NEW chain, NEW price, chain \in ends(price)
      PROVE  Charged(c, chain, price)
  <2>1. PICK r \in inScope : r.price = price /\ ChainOf[r.store] = chain
    BY <1>4
  <2>2. /\ r \in t /\ r.product = p /\ r.store \in Active
        /\ c.chips = {} \/ ChainOf[r.store] \in c.chips
    BY DEF Offering
  <2> QED
    BY <2>1, <2>2 DEF Charged
<1> HIDE DEF ends
<1> QED
  BY <1>3, <1>4

\* browse, product_prices and search: a card of the grid names chains that charge its
\* prices, the rows of its table and of the card of the same product in the search lie in
\* its range, whichever of them a LIMIT keeps, and hold the ends of it if none were cut;
\* unless a fold came between what was read.
THEOREM CardsAndTablesAgree == Spec => []CardAndTableAgree
<1>1. PageInv => CardAndTableAgree
  <2> SUFFICES ASSUME PageInv, NEW card \in ToSet(grid)
               PROVE  /\ card.seen = card.named => /\ Charged(card, card.low, card.cheapest)
                                                   /\ Charged(card, card.high, card.dearest)
                      /\ card.table # None /\ card.table.read = card.seen =>
                           Tells(card, card.table.rows)
                      /\ \A found \in {r \in ToSet(results) : /\ r.product = card.product
                                                              /\ r.read = card.seen} :
                           /\ Tells(card, found.answer.rows)
                           /\ card.chips = {} =>
                                \/ found.answer.cheapest = card.cheapest
                                \/ /\ found.answer.cheapest > card.cheapest
                                   /\ Cardinality(found.answer.rows) = TableLimit
    BY DEF CardAndTableAgree
  <2>1. card \in GridCard
    BY DEF ToSet, PageInv, PageType
  <2>2. card.seen = card.named => /\ Charged(card, card.low, card.cheapest)
                                  /\ Charged(card, card.high, card.dearest)
    BY <2>1, NamesCharge
  <2>3. ASSUME card.table # None, card.table.read = card.seen
        PROVE  Tells(card, card.table.rows)
    <3>1. card.table.rows \in PriceTables(Tables[card.seen], card.product)
      BY <2>1, <2>3 DEF GridCard, Honest
    <3> QED
      BY <2>1, <3>1, RowsTell
  <2>4. ASSUME NEW found \in ToSet(results), found.product = card.product, found.read = card.seen
        PROVE  /\ Tells(card, found.answer.rows)
               /\ card.chips = {} =>
                    \/ found.answer.cheapest = card.cheapest
                    \/ /\ found.answer.cheapest > card.cheapest
                       /\ Cardinality(found.answer.rows) = TableLimit
    <3>1. found \in FoundCard
      BY DEF ToSet, PageInv, PageType
    <3>2. /\ found.answer \in SearchResults(Tables[card.seen], card.product)
          /\ Tables[card.seen] \in PriceTable
      BY <2>1, <2>4, <3>1, TablesAre DEF FoundCard, GridCard, Card
    <3>3. /\ found.answer.rows \in PriceTables(Tables[card.seen], card.product)
          /\ found.answer.rows # {} => found.answer.cheapest = Min(Asking(found.answer.rows))
      BY <3>2, SearchAnswerIs
    <3>4. /\ Tells(card, found.answer.rows)
          /\ card.chips = {} =>
               \/ Min(Asking(found.answer.rows)) = card.cheapest
               \/ /\ Min(Asking(found.answer.rows)) > card.cheapest
                  /\ Cardinality(found.answer.rows) = TableLimit
      BY <2>1, <3>3, RowsTell
    <3>5. found.answer.rows # {}
      BY <3>4 DEF Tells
    <3> QED
      BY <3>3, <3>4, <3>5
  <2> QED
    BY <2>2, <2>3, <2>4
<1> QED
  BY <1>1, PageInvariant, PTL

-----------------------------------------------------------------------------
(* The basket.                                                             *)

\* app.js: the buttons of a row act on the item named in it, and nothing is lost with
\* the tab.
THEOREM CopiesOfTheBasket == Spec => []CopiesAgree
<1>1. Init => CopiesAgree
  BY DEF Init, CopiesAgree
<1>2. CopiesAgree /\ [Next]_vars => CopiesAgree'
  <2> SUFFICES ASSUME CopiesAgree, [Next]_vars
               PROVE  CopiesAgree'
    OBVIOUS
  <2>1. CASE AddToBasket
    BY <2>1 DEF AddToBasket, saveBasket, CopiesAgree
  <2>2. CASE showView
    BY <2>2 DEF showView, renderBasket, CopiesAgree
  <2>3. CASE Edit
    BY <2>3 DEF Edit, Panel, saveBasket, renderBasket, CopiesAgree
  <2>4. CASE Reload
    BY <2>4 DEF Reload, CopiesAgree
  <2>5. CASE UNCHANGED <<view, basket, stored, rows>>
    BY <2>5 DEF CopiesAgree
  <2>6. CASE \/ FacetsLand \/ CatalogLands \/ CatalogFails \/ Type \/ Submit \/ Reset \/ Chip
             \/ TurnPage \/ \E k \in DOMAIN grid : OpenTable(k) \/ CloseTable(k) \/ TableLands(k)
             \/ runSearch \/ SearchLands \/ SearchFails \/ \E k \in DOMAIN results : ShowRows(k)
             \/ Send \/ OrderLands \/ OrderFails \/ Fold \/ UNCHANGED vars
    <3>1. UNCHANGED <<view, basket, stored, rows>>
      BY <2>6 DEF FacetsLand, CatalogLands, CatalogFails, Type, Submit, Reset, Chip, TurnPage,
                  OpenTable, CloseTable, TableLands, runSearch, SearchLands, SearchFails,
                  SearchEnds, ShowRows, Send, OrderLands, OrderFails, OrderEnds, Fold, Look,
                  Panel, OnGrid, OffSearch, basketVars, vars
    <3> QED
      BY <2>5, <3>1
  <2> QED
    BY <2>1, <2>2, <2>3, <2>4, <2>6 DEF Next
<1> QED
  BY <1>1, <1>2, PTL DEF Spec

\* The order on its way, if the button is disabled, is the last.
OneOrder ==
  /\ disabled \in BOOLEAN
  /\ orders = IF disabled THEN <<lastOrder>> ELSE <<>>
  /\ result # None => result = lastOrder

LEMMA OrderStep ==
  ASSUME OneOrder, NEW i \in DOMAIN orders, OrderEnds(i),
         result' = orders[i] \/ UNCHANGED result
  PROVE  OneOrder'
<1>1. orders = <<lastOrder>>
  BY DEF OneOrder
<1>2. i = 1 /\ orders[i] = lastOrder /\ Len(orders) = 1
  BY <1>1
<1>3. orders' = SubSeq(orders, 1, 0) \o SubSeq(orders, 2, 1)
  BY <1>2 DEF OrderEnds, RemoveAt
<1>4. SubSeq(orders, 1, 0) = <<>> /\ SubSeq(orders, 2, 1) = <<>>
  BY <1>1
<1>5. orders' = <<>>
  BY <1>3, <1>4
<1> QED
  BY <1>2, <1>5 DEF OneOrder, OrderEnds

\* The optimize listener: an answer on screen is the one for the basket sent last, and
\* the button works unless that answer is on its way.
THEOREM AnswersMatchOrders == Spec => []ResultIsOfTheLastOrder
<1>1. Init => OneOrder
  BY DEF Init, OneOrder
<1>2. OneOrder /\ [Next]_vars => OneOrder'
  <2> SUFFICES ASSUME OneOrder, [Next]_vars
               PROVE  OneOrder'
    OBVIOUS
  <2>1. CASE Send
    <3>1. disabled = FALSE /\ orders = <<>>
      BY <2>1 DEF Send, Ready, OneOrder
    <3>2. orders' = <<basket>> /\ disabled' = TRUE /\ lastOrder' = basket /\ result' = None
      BY <2>1, <3>1 DEF Send
    <3> QED
      BY <3>2 DEF OneOrder
  <2>2. CASE OrderLands \/ OrderFails
    BY <2>2, OrderStep DEF OrderLands, OrderFails
  <2>3. CASE Reload
    BY <2>3 DEF Reload, OneOrder
  <2>4. CASE \/ FacetsLand \/ CatalogLands \/ CatalogFails \/ Type \/ Submit \/ Reset \/ Chip
             \/ TurnPage \/ \E k \in DOMAIN grid : OpenTable(k) \/ CloseTable(k) \/ TableLands(k)
             \/ runSearch \/ SearchLands \/ SearchFails \/ \E k \in DOMAIN results : ShowRows(k)
             \/ AddToBasket \/ showView \/ Edit \/ Fold \/ UNCHANGED vars
    <3>1. UNCHANGED <<orders, disabled, result, lastOrder>>
      BY <2>4 DEF FacetsLand, CatalogLands, CatalogFails, Type, Submit, Reset, Chip, TurnPage,
                  OpenTable, CloseTable, TableLands, runSearch, SearchLands, SearchFails,
                  SearchEnds, ShowRows, AddToBasket, showView, Edit, Fold, Look, OnGrid,
                  OffSearch, basketVars, vars
    <3> QED
      BY <3>1 DEF OneOrder
  <2> QED
    BY <2>1, <2>2, <2>3, <2>4 DEF Next
<1>3. OneOrder => ResultIsOfTheLastOrder
  BY DEF OneOrder, ResultIsOfTheLastOrder
<1> QED
  BY <1>1, <1>2, <1>3, PTL DEF Spec
=============================================================================
