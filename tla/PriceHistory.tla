---------------------------- MODULE PriceHistory ----------------------------
(***************************************************************************)
(* The price store of catalog/prices.py, for one chain.                    *)
(*                                                                         *)
(* Price files are staged row by row; `rebuild' folds whatever is staged   *)
(* into two SCD Type 2 histories (a base price per price group, an         *)
(* exception per store that disagrees with its group), flattens the open   *)
(* rows into price_current and rolls price_current up per day; `purge'     *)
(* empties the staging table in a transaction of its own.                  *)
(*                                                                         *)
(* Tables are sets of rows and SQL statements are operators on them.       *)
(* Chains share no key, so one chain is modelled.  Every staged item is    *)
(* taken to be a registered variant: catalog/build.py registers the staged *)
(* items in the transaction that precedes the fold.                        *)
(***************************************************************************)
EXTENDS Integers, FiniteSets

CONSTANTS
  Store,        \* stores.id, the branches of the chain
  Variant,      \* product_variants.id, the items the chain sells
  Group,        \* price_groups.id, the chain's published sub-chains
  Price,        \* the prices a file may state, in agorot
  None,         \* SQL NULL: no price, no sub-chain
  Open,         \* valid_to of the row that is in force
  Header,       \* Header[s]: sub-chain codes that files may publish for s
  FileKind,     \* "full" and "delta" price files
  Linked,       \* variants that have a canonical product
  MaxAge,       \* PRICE_CURRENT_MAX_AGE_DAYS, in units of the clock
  DayLength,    \* units of the clock in one calendar day
  Window,       \* the numbers of days a chart may be asked for
  MaxTime,      \* bound of the model: the clock stops here, and the worker with it
  MaxStaged     \* bound of the model: rows in the staging table

ASSUME PriceAssumption == Price \subseteq Nat
ASSUME MarkerAssumption == None \notin Price \cup Group /\ Open \notin Nat
ASSUME HeaderAssumption == Header \in [Store -> SUBSET (Group \cup {None})]
ASSUME VariantAssumption == IsFiniteSet(Variant) /\ Linked \subseteq Variant
ASSUME TimeAssumption == MaxAge \in Nat /\ DayLength \in Nat \ {0} /\ Window \subseteq Nat
ASSUME BoundAssumption == MaxTime \in Nat /\ MaxStaged \in Nat

VARIABLES
  staging,      \* staging_items
  groupOf,      \* stores.price_group_id
  base,         \* price_base
  exception,    \* price_exception
  current,      \* price_current
  daily,        \* price_daily
  now           \* the wall clock; two folds never share a timestamp

vars == <<staging, groupOf, base, exception, current, daily, now>>

BaseKey == Group \X Variant
Pair == Store \X Variant
Time == Nat

\* A staged row; `at' and `kind' are those of its file (source_key).
StagingRow == [store : Store, variant : Variant, group : Group \cup {None},
               price : Price \cup {None}, kind : FileKind, at : Time]
\* A row of price_base or price_exception, in force during [from, to).
HistoryRow(Key) == [key : Key, price : Price, from : Time, to : Time \cup {Open}]
CurrentRow == [key : Pair, price : Price, updated : Time]
DailyRow == [key : Variant \X Time, low : Price, high : Price]
\* A row of tmp_base or tmp_exception: the price a key has in this fold.
FreshRow(Key) == [key : Key, price : Price]

-----------------------------------------------------------------------------
(* MODAL_PRICE_SQL and EXCEPTION_SQL.                                      *)

Priced(rows) == {r \in rows : r.price # None}

\* COUNT( * ) of the rows behind r's price, in the group its file names.
Support(rows, r) ==
  Cardinality({q \in rows : q.group = r.group /\ q.variant = r.variant
                              /\ q.price = r.price})

\* Mutant: the lower price wins whatever its count.
RanksByPrice(rows, r, q) == r.price <= q.price

\* Mutant: ties broken by the higher price.
RanksTiesHigh(rows, r, q) ==
  \/ Support(rows, r) > Support(rows, q)
  \/ Support(rows, r) = Support(rows, q) /\ r.price >= q.price

\* r ranks at or above q: more rows, ties broken by the lower price.
Ranks(rows, r, q) ==
  \/ Support(rows, r) > Support(rows, q)
  \/ Support(rows, r) = Support(rows, q) /\ r.price <= q.price

\* tmp_base: the modal price of every (group, variant) that is staged.
ModalBase(staged) ==
  LET rows == Priced(staged)
      first == {r \in rows :
                  /\ r.group # None
                  /\ \A q \in rows : q.group = r.group /\ q.variant = r.variant
                                       => Ranks(rows, r, q)}
  IN  {[key |-> <<r.group, r.variant>>, price |-> r.price] : r \in first}

\* Staged prices that are not their file's group's price.
Disagreeing(staged, modal) ==
  {r \in Priced(staged) :
     [key |-> <<r.group, r.variant>>, price |-> r.price] \notin modal}

\* tmp_exception: DISTINCT ON (store, variant), the lowest price first.
Exceptions(staged, modal) ==
  LET rows == Disagreeing(staged, modal)
      first == {r \in rows :
                  \A q \in rows : q.store = r.store /\ q.variant = r.variant
                                    => r.price <= q.price}
  IN  {[key |-> <<r.store, r.variant>>, price |-> r.price] : r \in first}

-----------------------------------------------------------------------------
(* The two histories.                                                      *)

IsOpen(history, k) == \E r \in history : r.key = k /\ r.to = Open

\* Mutant: a row that is no longer in force is deleted.
CloseDeletes(history, rows, t) == history \ rows

\* UPDATE ... SET valid_to, on the rows the WHERE clause selects.
Close(history, rows, t) ==
  (history \ rows) \cup {[r EXCEPT !.to = t] : r \in rows}

\* Mutant: every staged key is closed, without comparing prices.
CloseRestated(history, fresh, t) ==
  Close(history, {r \in history : r.to = Open /\ \E f \in fresh : f.key = r.key}, t)

\* The open rows whose price is no longer the fresh one.
CloseChanged(history, fresh, t) ==
  Close(history,
        {r \in history : r.to = Open
                           /\ \E f \in fresh : f.key = r.key /\ f.price # r.price},
        t)

\* The open exceptions, absent from this fold, of a store with any staged row.
CloseResolved(history, fresh, staged, t) ==
  Close(history,
        {r \in history : /\ r.to = Open
                         /\ \A f \in fresh : f.key # r.key
                         /\ \E q \in staged : q.store = r.key[1]},
        t)

\* Mutant: NOT EXISTS forgotten.
OpenAlways(history, fresh, t) ==
  history \cup {[key |-> f.key, price |-> f.price, from |-> t, to |-> Open] : f \in fresh}

\* INSERT ... WHERE NOT EXISTS an open row.
OpenMissing(history, fresh, t) ==
  history \cup {[key |-> f.key, price |-> f.price, from |-> t, to |-> Open] :
                  f \in {f \in fresh : ~ IsOpen(history, f.key)}}

\* Mutant: opened before closed.
FoldBaseOpensFirst(history, fresh, t) ==
  CloseChanged(OpenMissing(history, fresh, t), fresh, t)

FoldBase(history, fresh, t) ==
  OpenMissing(CloseChanged(history, fresh, t), fresh, t)

\* Mutant: exceptions that stopped being exceptions stay.
FoldExceptionKeepsResolved(history, fresh, staged, t) ==
  OpenMissing(CloseChanged(history, fresh, t), fresh, t)

FoldException(history, fresh, staged, t) ==
  OpenMissing(CloseResolved(CloseChanged(history, fresh, t), fresh, staged, t),
              fresh, t)

-----------------------------------------------------------------------------
(* price_current and price_daily.                                          *)

OpenPrices(history, k) == {r.price : r \in {r \in history : r.key = k /\ r.to = Open}}

\* Mutant: COALESCE(base, exception).
EffectiveBaseFirst(bases, exceptions, groups, o) ==
  IF IsOpen(bases, <<groups[o[1]], o[2]>>)
  THEN OpenPrices(bases, <<groups[o[1]], o[2]>>)
  ELSE OpenPrices(exceptions, o)

\* Mutant: a pair without a price gets a row with NULL.
EffectiveOrNull(bases, exceptions, groups, o) ==
  IF IsOpen(exceptions, o) THEN OpenPrices(exceptions, o)
  ELSE IF IsOpen(bases, <<groups[o[1]], o[2]>>)
       THEN OpenPrices(bases, <<groups[o[1]], o[2]>>) ELSE {None}

\* COALESCE(exception, base of the group on the store's record); {} is NULL.
Effective(bases, exceptions, groups, o) ==
  IF IsOpen(exceptions, o)
  THEN OpenPrices(exceptions, o)
  ELSE OpenPrices(bases, <<groups[o[1]], o[2]>>)

\* Pairs some staged row names, whether or not the row has a price.
Observed(staged) == {<<r.store, r.variant>> : r \in staged}

Flatten(bases, exceptions, groups, staged, t) ==
  UNION {{[key |-> o, price |-> p, updated |-> t] :
            p \in Effective(bases, exceptions, groups, o)} : o \in Observed(staged)}

\* Mutant: no ON CONFLICT clause.
InsertOnly(table, rows) == table \cup rows

\* Mutant: the table is truncated first.
TruncateAndInsert(table, rows) == rows

\* INSERT ... ON CONFLICT (store_id, variant_id) DO UPDATE.
Upsert(table, rows) ==
  {c \in table : \A r \in rows : r.key # c.key} \cup rows

PruneStale(table, t) == {c \in table : ~ c.updated < t - MaxAge}

Day(t) == t \div DayLength

\* The lowest and highest price of every linked variant in the table, as a row of day d.
Extent(table, d) ==
  LET linked == {c \in table : c.key[2] \in Linked /\ c.price # None}
      Same(c) == {e \in linked : e.key[2] = c.key[2]}
      Lowest(c) == \A e \in Same(c) : c.price <= e.price
      Highest(c) == \A e \in Same(c) : c.price >= e.price
  IN  UNION {{[key |-> <<c.key[2], d>>, low |-> c.price, high |-> e.price] :
                e \in {e \in Same(c) : Highest(e)}} :
             c \in {c \in linked : Lowest(c)}}

\* Mutant: only what this fold has written counts.
RollUpFresh(table, t) == Extent({c \in table : c.updated = t}, Day(t))

RollUp(table, t) == Extent(table, Day(t))

-----------------------------------------------------------------------------
(* The operations.                                                         *)

Init ==
  /\ staging = {}
  /\ groupOf \in [Store -> Group \cup {None}]
  /\ \A s \in Store : groupOf[s] \in Header[s]
  /\ base = {}
  /\ exception = {}
  /\ current = {}
  /\ daily = {}
  /\ now = 1

\* _load_items: one price file of store s is staged.  A full file lists the
\* whole shelf and a delta some of it; the fold cannot tell them apart.
StageFile(s, kind, g, listing) ==
  /\ now < MaxTime
  /\ \A r \in staging : r.store = s => r.at # now
  /\ Cardinality(staging) + Cardinality(DOMAIN listing) <= MaxStaged
  /\ staging' = staging \cup
       {[store |-> s, variant |-> v, group |-> g, price |-> listing[v],
         kind |-> kind, at |-> now] :
          v \in DOMAIN listing}
  /\ UNCHANGED <<groupOf, base, exception, current, daily, now>>

\* _load_stores: a store file moves s to another price group.
MoveStore(s, g) ==
  /\ groupOf[s] # g
  /\ groupOf' = [groupOf EXCEPT ![s] = g]
  /\ UNCHANGED <<staging, base, exception, current, daily, now>>

\* prices.rebuild: one transaction, every statement stamped with the same now.
Rebuild ==
  /\ now < MaxTime /\ now' = now + 1
  /\ LET modal == ModalBase(staging)
     IN  /\ base' = FoldBase(base, modal, now)
         /\ exception' = FoldException(exception, Exceptions(staging, modal),
                                       staging, now)
  /\ current' = PruneStale(Upsert(current,
                                  Flatten(base', exception', groupOf, staging, now)),
                           now)
  /\ daily' = Upsert(daily, RollUp(current', now))
  /\ UNCHANGED <<staging, groupOf>>

\* purge_staging: every row, whoever staged it.
Purge ==
  /\ staging' = {}
  /\ UNCHANGED <<groupOf, base, exception, current, daily, now>>

\* Time passes between two runs of the worker.
Wait ==
  /\ now < MaxTime
  /\ now' = now + 1
  /\ UNCHANGED <<staging, groupOf, base, exception, current, daily>>

Listings == UNION {[shelf -> Price \cup {None}] : shelf \in SUBSET Variant \ {{}}}

Next ==
  \/ \E s \in Store, kind \in FileKind, listing \in Listings :
       \E g \in Header[s] : StageFile(s, kind, g, listing)
  \/ \E s \in Store : \E g \in Header[s] : MoveStore(s, g)
  \/ Rebuild
  \/ Purge
  \/ Wait

Spec == Init /\ [][Next]_vars

-----------------------------------------------------------------------------
(* What GET /products/{id}/history says: api/routers/search.py.            *)

\* The points of the chart, of the last `days' days.
Points(v, days) == {d \in daily : d.key[1] = v /\ d.key[2] >= Day(now) - days}

\* current_min, of the prices on any shelf; {} is NULL.
Shelf(v) == {c.price : c \in {c \in current : c.key[2] = v}}
CurrentMin(v) == {p \in Shelf(v) : \A q \in Shelf(v) : p <= q}

-----------------------------------------------------------------------------
(* What must hold.                                                         *)

\* Every table holds rows of its columns' types; staging stays finite.
TypeOK ==
  /\ staging \subseteq StagingRow /\ IsFiniteSet(staging)
  /\ groupOf \in [Store -> Group \cup {None}]
  /\ base \subseteq HistoryRow(BaseKey)
  /\ exception \subseteq HistoryRow(Pair)
  /\ current \subseteq CurrentRow
  /\ daily \subseteq DailyRow
  /\ now \in Nat

SingleOpen(history) ==
  \A r, q \in history : r.key = q.key /\ r.to = Open /\ q.to = Open => r = q

\* One base row per (group, variant) and one exception per (store, variant) is in
\* force at a time, whatever is staged, re-staged or folded twice: the partial
\* indexes idx_pb_open and idx_pe_open are not unique, so only the order of the
\* fold's statements keeps this.
OneOpenRow == SingleOpen(base) /\ SingleOpen(exception)

Before(r, q) == r.to # Open /\ r.to <= q.from

Timeline(history, t) ==
  /\ \A r \in history : r.from < t /\ (r.to # Open => r.from < r.to /\ r.to < t)
  /\ \A r, q \in history : r.key = q.key => r = q \/ Before(r, q) \/ Before(q, r)

\* The rows of a key are disjoint, non-empty intervals of the past: an as-of query
\* at any instant finds at most one base price and at most one exception.
HistoryIsATimeline == Timeline(base, now) /\ Timeline(exception, now)

AlwaysChanges(history) ==
  \A r, q \in history : r.key = q.key /\ r.to = q.from => r.price # q.price

\* A row is closed and another opened only for a different price: a fold that
\* changes nothing writes nothing, so a change counted from the rows is a change.
NoChurn == AlwaysChanges(base) /\ AlwaysChanges(exception)

NoGaps(history) ==
  \A r \in history : r.to # Open => \E q \in history : q.key = r.key /\ q.from = r.to

\* Once a group has a base price it has one at every later instant: a base row is
\* closed only by the row that replaces it.
BaseHasNoGaps == NoGaps(base)

\* The upsert's ON CONFLICT key: one current price per (store, variant).  Two open
\* rows of a key would make the INSERT touch a row twice, which Postgres refuses.
OneCurrentRow == \A c, d \in current : c.key = d.key => c = d

PriceAt(history, k, t) ==
  {r.price : r \in {r \in history : /\ r.key = k
                                    /\ r.from <= t
                                    /\ r.to = Open \/ t < r.to}}

\* Every price shown is one the history had in force, for that store or for some
\* group of the chain, at the instant the row was stamped: later folds, moves of
\* the store and purges never leave a shown price without its evidence.
CurrentBackedByHistory ==
  \A c \in current :
    /\ c.updated < now
    /\ \/ c.price \in PriceAt(exception, c.key, c.updated)
       \/ \E g \in Group : c.price \in PriceAt(base, <<g, c.key[2]>>, c.updated)

OnlyAppends(old, new, t) ==
  /\ \A r \in old : r \in new \/ (r.to = Open /\ [r EXCEPT !.to = t] \in new)
  /\ \A r \in new \ old : r.to = t \/ (r.from = t /\ r.to = Open)

\* No step rewrites history: a row stays, or its open end is closed at the present
\* instant; a new row starts at the present instant.
HistoryOnlyAppends ==
  [][OnlyAppends(base, base', now) /\ OnlyAppends(exception, exception', now)]_vars

\* The prices staged for the pair of row r.
Stated(r) ==
  {q.price : q \in {q \in Priced(staging) : q.store = r.store /\ q.variant = r.variant}}

\* COALESCE(exception, base) of the two histories as of t, for the group r names.
AsOf(bases, exceptions, r, t) ==
  LET own == PriceAt(exceptions, <<r.store, r.variant>>, t)
  IN  IF own # {} THEN own ELSE PriceAt(bases, <<r.group, r.variant>>, t)

\* A fold records what was published: asked for the instant of the fold, history
\* answers every staged pair with one price its store stated.  (With HistoryOnlyAppends
\* the answer never changes afterwards.)
FoldIsRecorded ==
  [][Rebuild => \A r \in Priced(staging) :
                  LET answer == AsOf(base', exception', r, now)
                  IN  answer # {} /\ answer \subseteq Stated(r)]_vars

\* Files and store record agree on the group of s.
Consistent(s) ==
  \A q \in Priced(staging) : q.store = s => q.group \in {groupOf[s], None}

\* A fold shows what was published: a store whose files name the group on its record
\* gets, for every item it priced, a current price it stated itself, stamped now.
FoldIsShown ==
  [][Rebuild => \A r \in Priced(staging) : Consistent(r.store) =>
                  \E c \in current' : /\ c.key = <<r.store, r.variant>>
                                      /\ c.price \in Stated(r)
                                      /\ c.updated = now]_vars

\* The priced rows of variant v whose file names group g.
GroupRows(g, v) == {r \in Priced(staging) : r.group = g /\ r.variant = v}

ListedOnce(g, v) ==
  \A r, q \in Priced(staging) :
    r.variant = v /\ q.variant = v /\ r.store = q.store => r = q

\* The base price is the one that needs the fewest exceptions: when every store lists
\* an item once, no other price of the group would leave fewer of the stores that
\* published it with an exception of their own.
BaseNeedsFewestExceptions ==
  [][Rebuild =>
       \A g \in Group, v \in Variant : ListedOnce(g, v) =>
         \A p \in Price :
           Cardinality({r \in GroupRows(g, v) : IsOpen(exception', <<r.store, v>>)})
             <= Cardinality({r \in GroupRows(g, v) : r.price # p})]_vars

\* "Ties broken by the lower price so a split never invents an increase": a group's
\* base rises only when more rows state the new price than state the old one.
SplitNeverRaisesBase ==
  [][Rebuild =>
       \A r \in base, q \in base' :
         r.key = q.key /\ r.to = Open /\ q.to = Open /\ q.price > r.price =>
           LET At(p) == {s \in GroupRows(q.key[1], q.key[2]) : s.price = p}
           IN  Cardinality(At(q.price)) > Cardinality(At(r.price))]_vars

\* What a delta leaves out stays: a fold touches the current price of a pair no
\* staged row names only to drop it after MaxAge of silence, and no pair appears
\* that its store did not list.
QuietPairsKeepTheirPrice ==
  [][Rebuild =>
       /\ \A c \in current \ current' :
            c.key \in Observed(staging) \/ c.updated < now - MaxAge
       /\ \A c \in current' \ current : c.key \in Observed(staging)]_vars

\* The chart of a past day is final: only the row of the present day is rewritten.
PastDaysAreFinal ==
  [][\A d \in daily : d.key[2] # Day(now) => d \in daily']_vars

LastLow(v, days) ==
  {d.low : d \in {d \in Points(v, days) :
                    \A e \in Points(v, days) : e.key[2] <= d.key[2]}}

\* The chart ends where the shelf is: a product with a current price has a day on record,
\* and the lowest price of the last day shown is the one given as current, whatever was
\* left out of the last fold, folded again the same day or not folded since.
ChartMeetsShelf ==
  \A v \in Linked : Shelf(v) # {} =>
    /\ \E d \in daily : d.key[1] = v
    /\ \A days \in Window : Points(v, days) # {} => LastLow(v, days) = CurrentMin(v)

-----------------------------------------------------------------------------
(* Each history implements PriceLedger.                                    *)

\* The values and the change log that a history table encodes.
Valued(history, Key) ==
  [k \in Key |-> IF IsOpen(history, k)
                 THEN CHOOSE p \in Price : p \in OpenPrices(history, k) ELSE None]

Logged(history) ==
  {[key |-> r.key, price |-> r.price, at |-> r.from] : r \in history}
  \cup {[key |-> r.key, price |-> None, at |-> r.to] :
          r \in {r \in history : /\ r.to # Open
                                 /\ \A q \in history : q.key = r.key => q.from # r.to}}

BaseLedger == INSTANCE PriceLedger WITH
  Key <- BaseKey, MayClear <- FALSE, value <- Valued(base, BaseKey), log <- Logged(base)

ExceptionLedger == INSTANCE PriceLedger WITH
  Key <- Pair, MayClear <- TRUE, value <- Valued(exception, Pair),
  log <- Logged(exception)

\* price_base is the complete log of every group's price, which once known is never lost.
BaseIsALedger == BaseLedger!Spec

\* price_exception is the complete log of every store's own price, which a store loses
\* when it agrees with its group again.
ExceptionIsALedger == ExceptionLedger!Spec

-----------------------------------------------------------------------------
(* What the repository says of this code and the code does not do.         *)

\* "price_current is a flattened copy" of COALESCE(exception, base)
\* (catalog/prices.py:14, catalog/models.py:142): a shown price is the open price of
\* its pair.  A delta that moves the base leaves the copies of the stores it does not
\* mention behind.
CurrentIsAFlattenedCopy ==
  \A c \in current : c.price \in Effective(base, exception, groupOf, c.key)

\* "Close exceptions that changed, and those that stopped being exceptions"
\* (catalog/prices.py:213): an exception is closed only on evidence, a row staged for
\* its own pair or a full file of its store.  For the code any row of the store is
\* enough, a delta about other items included.
ExceptionsCloseOnEvidence ==
  [][\A r \in exception \ exception' :
       \/ r.key \in Observed(staging)
       \/ \E q \in staging : q.store = r.key[1] /\ q.kind = "full"]_vars
=============================================================================
