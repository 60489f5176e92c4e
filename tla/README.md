# Formal models of the grocery price comparison service

TLA+ modules, TLC configurations and TLAPS proofs for the program in `src/`: a
worker that ingests the price files Israeli grocery chains must publish, a
Postgres price history, and an API and web page that compare baskets.

Line references are to `src/`. Every module says at its head what it models;
comments on properties say which behaviour of the code they are about.

## 1. Inventory

| Component | State | Operations | Interacts with |
|---|---|---|---|
| Price store, `catalog/prices.py` | `price_base`, `price_exception` (SCD2), `price_current`, `price_daily` | `rebuild`: close, open, flatten, prune, roll up | reads `staging_items`, `stores`, `product_variants`; read by every API route |
| Ingestion cycle, `ingestion/__main__.py`, `pipeline.py`, `download.py` | files under `STORAGE_PATH`, `ingested_files`, `staging_items`, `stores`, the locals of a job | download per chain, load in one transaction, discard, build, fold, geocode, purge | cron starts it; the scraper library writes the files; shares disk and database with any other job |
| Run records, `pipeline._volume_warning` | `ingestion_runs` | one row per chain and cycle, compared with its own average | status feeds the exit code of the job |
| Catalogue, `catalog/build.py` | `product_variants`, `canonical_products` | upsert variants and canonicals, link and unlink, refresh chain counts | runs between download and fold |
| Geocoding, `catalog/geocode.py` | coordinates of stores, `geocode_cache` | geocode, grade, review queue, confirm | Google; read by distance search |
| Promotions, `catalog/promotions.py`, `api/basket/promotions.py` | `promotions`, `promotion_items` | classify, apply to basket lines | the basket route |
| Basket, `api/basket/optimizer.py`, `api/routers/basket.py` | none | best store, best pair of stores | reads `price_current` |
| Search, browse, coverage, `api/routers/` | none | queries | read the tables above |
| Web page, `web/app.js` | basket in local storage, results on the page | search, browse, optimize | the API, asynchronously |
| Containers, `deploy/` | a marker file, the crontab | start-up, health check | start the jobs |
| Archive, configuration, schema and migrations, distances, phase-0 scripts (`storage.py`, `config.py`, `db/`, `api/geo.py`, `scripts/`) | none of their own | copy files, read the environment, create tables, compute | write-only, constants, or run once |
| Parsing, `normalize.py`, `fieldmap.py`, `xmlstream.py`, `barcode.py`, `packsize.py` | none | from XML to rows | the load and the catalogue |

What is hard here, and what would make each component correct:

- **Price store.** History is folded from whatever is staged: full files, deltas,
  leftovers of a dead job, the same rows twice. The two histories have no
  unique constraint, so only the order of the statements keeps one open row per
  key; the flattened copy is driven by what this fold observed, not by what
  changed. Correct means: the rows of a key are a complete, gap-free,
  non-repeating change log; nothing recorded is rewritten; what was published is
  recorded and shown; what was not published is left alone.
- **Ingestion cycle.** Five transactions and a shared directory, each of which
  may fail or be cut short, jobs that may overlap (two crontab lines, no lock),
  portals that repeat and correct files under the same name. Correct means: a
  file on record is never lost, none is folded twice, rows leave staging only
  after a fold, a chain never ingests another's files, and whatever stays
  published eventually reaches the histories.
- **Catalogue.** Build, fold and purge are separate transactions, loads commit
  between them, barcodes come in several spellings, the threshold may change.
  Correct means: what is compared is one product, its chain count is true, no
  branch offers what it is not linked to, and every branch comes to offer what
  is comparable.
- **Geocoding.** A run reads its stores at once and writes them minutes later,
  over rows that a person or a store file may have changed; lookups cost money
  and are cached in a transaction that can be lost. Correct means: nothing is
  placed at a region, paid for twice or moved unasked, doubtful places reach a
  person, and new stores are placed.
- **Basket.** Greedy assignment and local improvement over promotions that are
  neither linear nor of one line's price only. Correct means: every item is
  bought once, the search ends at the cheapest split, and a split is shown only
  if it is worth the second stop.
- **Web page and API.** Requests without numbers answered in any order, several
  statements per request with folds committing between them, three copies of a
  basket. Correct means: what is on screen is the answer to what was asked.

`PROJECT.json` lists each hazard at its line, with the properties that cover it
or the reason why none does.

## 2. Modules

| Module | Models | |
|---|---|---|
| `PriceHistory` | `catalog/prices.py`, with `_load_items`, `_load_stores` and `purge_staging` as its environment; the chart of `GET /products/{id}/history`; the refinement mapping of each history | state machine, properties |
| `PriceLedger` | what one history promises: a current value per key and an append-only log of its changes | abstract specification |
| `PriceHistoryProofs`, `PriceFoldProofs` | inductive invariant of the price store; the fold's action properties, the refinement, fewest exceptions, the chart | proofs |
| `Cycle` | `cmd_cycle` of `ingestion/__main__.py` over `pipeline.py` and `download.py`, several jobs, with failures and kills | state machine, properties, fairness |
| `CycleProofs` | types for any jobs; safety for jobs that do not overlap | proofs |
| `Ordering` | `ORDER BY` and `list.sort` by a key that tells rows apart | operator |
| `Barcode` | `catalog/barcode.py`, digit by digit | operators |
| `Catalog` | `catalog/build.py` between loads, fold and purge; extends `Barcode` | state machine, properties, fairness |
| `CatalogProofs` | types; links, counts and offers agree; what is compared spells one number | proofs |
| `Geocode` | `catalog/geocode.py`, beside store files and a reviewer | state machine, properties, fairness |
| `GeocodeProofs` | types and every safety property of `Geocode` | proofs |
| `Basket` | a request of `api/routers/basket.py`, `api/basket/` and `catalog/promotions.py` | state machine, properties |
| `BasketProofs` | every item is bought once; the split is the cheapest; a split shown is worth its stop | proofs |
| `Browse` | the queries of `api/routers/catalog.py`, the price table and the rows of a search in `search.py` | operators |
| `WebPage` | `web/app.js` in one tab over `Browse`, with folds in between | state machine, properties |
| `WebPageProofs` | the lists, the empty line, cards and tables; the copies of the basket; answers and orders | proofs |
| `SetFacts` | finite sets: induction over subsets, least and greatest elements, sums, sorted rows | lemmas |
| `PriceHistoryMC`, `CycleMC`, `CatalogMC`, `GeocodeMC`, `BasketMC`, `WebPageMC` | the instances below | for TLC |

The components meet at tables. `Cycle` models the order and the failures of the
transactions, the other modules one transaction each with its neighbours as an
environment that may do anything the code allows: `PriceHistory` stages and
purges at will, `Catalog` folds only what `price_current.canonical_id` needs,
`Geocode` runs beside `_load_stores`, and `WebPage` sees a fold as the next table
of prices.

### `PriceHistory`

Tables are sets of records and each SQL statement is an operator on them with
the statement's `WHERE` clause as the set's condition: `ModalBase` and
`Exceptions` are the two temporary tables, `CloseChanged`, `CloseResolved` and
`OpenMissing` the updates and inserts, `Flatten`, `Upsert`, `PruneStale` and
`RollUp` the rest. `FoldBase` and `FoldException` put them in the order of
`rebuild`, and the action `Rebuild` is the whole transaction with its one
timestamp. `StageFile` stages one price file (any sub-chain code its header may
carry, any prices including none), `MoveStore` is a store file that moves a
branch to another group, `Purge` empties staging and `Wait` lets time pass; they
are free to happen in any order, which covers folds of leftovers and repeated
folds. A file's sub-chain code and the group on the store's record are separate,
as in the code. `Points` and `CurrentMin` are the two queries of the chart. Left
out: unit prices, averages and store counts, which no step
reads back, and the alarm of `_warn_if_model_broke`. One chain is modelled since
no key is shared between chains; staged items are taken to be registered
variants, which `_upsert_variants` sees to in the preceding transaction (for
items with a name).

### `Cycle`

A job is a record of the locals a later step reads: the chain it works on, the
halves of its download still to do, the `before` snapshot, the files of the
result, the registry it read when its transaction opened, and what `cmd_cycle`
keeps of the outcomes (any healthy chain, any rows). One action per step:
`Start`, `Snapshot`, `Fetch` or `FetchFails`, `OpenChain`, `LoadChain` or
`LoadAborts`, `Discard`, then `GiveUp`, `NothingNew`, or `Build`, `Rebuild`,
`Purge`; `Crash` may follow any of them. The window between `OpenChain` and
`LoadChain` is the one in which a job holds a registry read earlier; the commit
is atomic. `LoadChain` parses the files that are new by name and size: `bad`
ones raise, `torn` ones after a batch was already inserted. `Discard` unlinks
the files of the result, save those that it fails to remove, which the code logs
and forgets; they are then in every later snapshot. A file's content is a
version number and its size a function of it. A file whose name `classify` does
not know may come with any download and is put on record unread. Staging is a
set: a file staged twice before a fold is there once. A portal publishes
successive versions of a name and does not withdraw it or go back; which of the
served files the scraper gets is arbitrary. The geocoding step between fold and
purge writes nothing the model holds, and its failure is a `Crash` there.
`KEEP_LOCAL_FILES` is off. The archive is not state: `put` swallows its failures
and nothing reads it back.

### `Barcode` and `Catalog`

`normalize_barcode` is digit by digit: padding to 13, in-store prefixes, check
digit; the filter on digits is the rows of `Ordered`, place by place, so that
the provers can reason about it. `Build` is the one transaction of `build`, its
four statements the operators `UpsertVariants`, `Eligible`/`Retitled`/`Counted`,
`Linked` and `Refreshed` in that order; `Fold` copies `canonical_id` for the
staged pairs and drops rows for age at will; `Purge` ends the cycle. `Stage` may
happen between any two of them, as another job's load may. `Configure` restarts
the worker with another `CATALOG_MIN_CHAIN_COUNT`. Manufacturers, brands and
pack sizes, which no statement reads back, are left out. The docstring of
`_link_variants` (`catalog/build.py:218`) says that a variant whose barcode
falls below the threshold loses its link; the statement only unlinks variants
whose product row does not exist, and products are never deleted: theorem
`LinksAreFinal`.

### `Geocode`

`geocode_stores` is one transaction of an ORM session. `Start` reads the stores,
`NoAddress`, `FromCache`, `Lookup` and `LookupFails` take the next one of the
batch, `Commit` writes the columns whose values changed (`Merge`), `Rollback`
loses all of it, the cached answers included, but not the bill. Nothing is sent
before the commit (a textual statement does not flush the session, SQLAlchemy
2.0), so `cmd_confirm` and `Move` commit at any moment of a run. A position is
named by the query and the response that it comes from, so the grade of a row
can be compared with its position. One run at a time.

The docstrings promise that every doubtful position goes to the review queue
(`geocode.py:16`, 88-92). Three ways lead past it, since nothing takes `verified`
back: a store confirmed while a run that had read it unplaced is looking it up,
a confirmed store that `--refresh` looks up again, and a store confirmed before
it had a position at all. `DoubtIsListed` names these ways and claims that there
is no other. Search and basket read `Store.lat` whatever its confidence, so the
queue is the only place where a doubt has an effect.

### `Basket`

A request from its SELECTs to its response: `Load` (the rows, any of several
cheapest codes of a product, and the promotions in force `Now`), `Rank`, `Split`
(greedy), `Try` one move, `NextPass`, `Assigned`, `Answer`. `LineCost` and
`classify` are translated with their truncations, the two ways in which a rate
is published and rounding half to even. An item that a request names twice has
its first place and its last quantity, as in the dict of the route. `Payable`,
the reference that the properties use, says what a line may cost without going
through `classify`; it truncates quantities and reads the two spellings of a
rate as the code does, since nothing else says what they mean. The order of
candidates stands for the location filter.

### `Browse` and `WebPage`

`Browse` gives the answers of `GET /products`, `/filters`, `/search` and
`/products/{id}/prices` as operators on the rows a statement sees, with SQL's
free choices (which of several cheapest rows comes first, which rows a LIMIT
without ORDER BY keeps) as sets. A row is one of `price_current`, one per branch
and code, so a branch may have several for one product, and it is rows that a
LIMIT counts. `Keys` is what each of the six orders of the catalogue compares.
In `WebPage` every listener up to its first `await` is an action, and what
follows the `await` another: `CatalogLands`, `CatalogFails`, `FacetsLand`,
`TableLands`, `SearchLands`, `SearchFails`, `OrderLands`, `OrderFails`, each for
any request on its way. Which names a query matches, and in which order, is the
arbitrary constant `Hits`. Each statement of a request reads a version of the
prices committed between its sending and its landing. `Reload` loses what is on
its way. The history variables `sent`, `inTurn`, `lastOrder` and `steady` are
read by properties only.

## 3. Runs

| Run | Bounds | What it shows |
|---|---|---|
| `price_history` | 3 branches, one of which files under the group or none; 1 item, 2 prices; clock 1 to 4, 3 staged rows; stale after 1, days of 2; the two like branches are exchanged by symmetry | types, `HistoryIsATimeline`, `NoChurn`, `ChartMeetsShelf`, `CurrentBackedByHistory`, `HistoryOnlyAppends`, `FoldIsRecorded`, `FoldIsShown`, `QuietPairsKeepTheirPrice`, `PastDaysAreFinal`, `BaseNeedsFewestExceptions`, `SplitNeverRaisesBase`; each history implements `PriceLedger` |
| `cycle` | 1 job, 2 chains, a store file and 2 price files, one of them corrected once; 1 failure of any kind | types, `OwnFilesOnly`, `RegisteredIsKept`, `EndedIsFolded`, `PurgedIsFolded`, `IngestedOnce`, and the liveness property `PublishedIsFolded` |
| `catalog` | 2 chains, 3 branches; a barcode in two spellings and an in-store code; 2 names; thresholds 1 and 3, 2 staged rows | types, `ComparedAreOneProduct`, `ChainCountIsHonest`, `ShownIsLinked`, and the liveness property `ComparableIsShown` |
| `geocode` | 2 stores, 3 addresses, 3 answers (doubtful, a region, abroad) and none; `--limit` 1 or absent; 1 move or lost run | types, `BilledOnce`, `DoubtIsListed`, `PlacedIsLeftAlone`, and the liveness property `NewStoreIsPlaced` |
| `basket` | 3 stores of 2 chains, 2 products, 2 baskets, one of which names an item twice, 7 promotions up to two at a time beside 2 that are out of date; the code's pool and candidate limits | `EachItemIsBoughtOnce`, `PairIsOptimal`, `SplitIsWorthItsStop`, `Terminates` |
| `web_page` | 3 stores of 2 chains, 3 products, one of them in 4 rows, one fold; 2 queries, one without hits; 2 forms with different orders; pages of 1, tables of 3 rows; 5 clicks, 2 of them in the catalogue and the search | `ListsAreTheAnswers` (of the grid and of the search), `EmptyMeansNothing`, `CardAndTableAgree`, `CopiesAgree`, `ResultIsOfTheLastOrder` |
| `price_flattened` | 2 branches, deltas | violated: a delta leaves other stores' copies of a moved base behind |
| `price_delta` | 2 branches, 2 items, full files and deltas | violated: a delta closes exceptions of items it does not mention |
| `cycle_overlap` | 2 jobs, no failures | violated: overlapping jobs purge rows nobody folded |
| `cycle_retry` | 1 job, 1 database error | violated: files of a rolled back chain are never new again |
| `cycle_leftover` | 1 job, 1 kill | violated: staged files wait unfolded while later cycles end as having nothing new |
| `basket_saving` | as `basket` | violated: a split shown for its coverage costs more, and the page announces the difference as a saving |

Why the bounds are enough.

- `price_history`: the fold treats each key alone, so one item and two prices
  produce every transition of a history: opened, restated, changed, resolved,
  moved to another group, aged out. Three staged rows give stores that agree or
  disagree, one store staged twice, majorities and ties. The clock gives three
  folds (at 1, 2 and 3; nothing is staged once it has stopped) and thus a change
  and a change back, the second and third fold on one day and the first on
  another (`DayLength` 2), and a price of the first fold that is past the age
  limit in the third (`MaxAge` 1). No property names a branch, so exchanging the
  two whose files always name the group is sound.
- `cycle`: two chains give leftovers of one while the other downloads, the
  corrected file a second version under a known name, and one failure can hit
  any step of any cycle. Cycles repeat without bound.
- `catalog`: two branches of one chain that spell one barcode in two ways tell
  rows from chains; threshold 3 is one more than there are chains, so that a
  product can fall below it after it was built. Cycles repeat without bound.
- `geocode`: two stores share or do not share an address; one answer that is
  usable but doubtful, two that are refused, for a region and for a place abroad,
  and none; a batch of one leaves the other store waiting. Runs and reviews
  repeat without bound.
- `basket`: the promotions reach every branch of `LineCost` and `classify`, two
  at a time so that they compete for a line; the two that are out of date, one on
  each side, would win every line they cover; three stores give three pairs of
  both chains.
- `web_page`: two looks suffice for two requests in flight, of the catalogue or of
  the search, a page turned after a chip, a form edited before a page; five clicks
  for an item added, the basket opened, an order, an edit and a second order, a
  reload in the place of any of them. One product has more rows than a table
  takes, the others fewer, so tables and searches are cut and not cut.

`MaxTime`, `MaxStaged`, `MaxFaults`, `Last`, `MaxEvents`, `MaxClicks` and
`MaxLooks` are the only bounds, and they occur in guards only.
`CHECK_DEADLOCK FALSE` is used where the system really stops: a request ends
(`Basket`) and the customer has clicked enough (`WebPage`).

**Fairness.** In `Cycle`, cron fires for ever and a step of a job that can be taken
is taken (`WF` on `Work`). A scraper that is asked for a kind of file of a chain
again and again gets all of it again and again (`SF` on `FetchAll`, one chain and
kind at a time, so no run has to be lucky twice): without it the portal could
withhold a file for ever. No fairness is given to parsing: `PublishedIsFolded`
holds because a parse failure is a fault, of which there are finitely many. Its
premise excludes failed downloads, database errors and kills, after which it is
in fact false (`cycle_retry`, `cycle_leftover`). In `Catalog` the cycle goes on
(`WF` on `Build`, `Fold`, `Purge`) and every branch's daily full file is staged
before some build (`SF`, one branch at a time): other loads may come first, so
weak fairness would not do. In `Geocode` the cycle starts a run without options
again and again (`SF`, since runs by hand may be in progress when it tries), a run
in progress goes on (`WF`), and the provider does not fail for ever (`SF` on
`Lookup`). In `Basket` a request runs until it is answered (`WF` on `Next`).
`WebPage` assumes none: an answer may never come, and only safety is claimed.

## 4. Proofs

All for every value of the constants (`PROJECT.json`, "theorems").

**Price store.** The invariant `IInv` of `PriceHistoryProofs` is the conjunction of
the named properties: types, `HistoryIsATimeline`, `NoChurn`, `BaseHasNoGaps`,
`OneCurrentRow`, `CurrentBackedByHistory`. None is inductive alone:
`OneOpenRow`, for instance, follows from the timeline, which needs every row to
start and end before the present instant, or the two rows of a key could touch
at the instant of the fold. `Rebuild` is the only action that disturbs the
tables; its proof goes statement by statement, first through `Close` (any
subset of open rows may be closed), then `OpenMissing` (a key without an open
row may get one), with `fresh` a function of the key. That the temporary tables
are functions of their key is a lemma about `ModalBase` and `Exceptions`, and
rests on the tie rule. `PriceFoldProofs` proves the action properties of the
fold from `IInv`; that `DISTINCT ON` finds a highest-ranked row for every staged
key follows from prices being naturals and `<` being well founded on them. For
the chart the invariant adds `ChartIsCurrent`: `price_current` is finite (so that
a lowest price exists), no row of `price_daily` is of a day to come, and the last
day on record of a product holds its lowest current price. A fold keeps that
because it rolls the whole table up, quiet pairs included.

That each history implements `PriceLedger` is proved there too. `Valued` and
`Logged` map a table to a value per key and a log. `RowsAfter` says what rows a
step leaves, from `HistoryOnlyAppends`, the timeline and no churn; `FoldIsLogged`
that the log of the new table is the old log and one entry per key whose value
changed; `LedgerStep` that this is a step of the ledger. For `price_base` no key
is ever cleared, which is `BaseHasNoGaps`. `FewestExceptionsTheorem` compares
cardinalities: the row that ranks first exists, its price has the most rows, and
rows that agree with it get no exception.

**Cycle** (`CycleProofs`). `TypeOK` holds for any number of jobs. The other theorems
assume `Alone` (no two jobs), which is necessary: `cycle_overlap` breaks
`PurgedIsFolded` with two. The invariant adds to the properties that a job's
locals agree with the shared state (`Agreement`: while fetching, everything on
disk is in its snapshot; while loading, the registry it read is current; while
purging, every staged row was folded; its files are its chain's) and that the
registry remembers the newest staged version of a file, which neither disk nor
portal precede (`Newest`, without which `IngestedOnce` is not inductive).
`IInv` was checked by TLC on `cycle`'s instance before it was proved.
`EndedIsFolded` has an invariant of its own, `Carried`: while nothing was killed and
no download failed, a job remembers (`rows`) that it left something in staging, a
chain that did so was healthy, and what is fetched is of a chain the library has
not disabled; so the job can end in none of the two early ways.

**Catalogue** (`CatalogProofs`). `CatalogInvariant` adds `LinksAreKept` to the
properties: links go to the product of the variant's own barcode, to rows that
exist, and leave no product without a variant. The last part is what makes
`ChainCountIsHonest` inductive, since the refresh skips products without one.
`ShownIsLinked` then needs that links are final. `ComparedAreOneProduct` compares
the numbers that two codes spell, written out to 13 places, and not their
normalised barcodes: two linked variants share a barcode, and a barcode
determines the number (`BarcodeSpells`: thirteen digits are the number itself and
no in-store code, eight are an EAN-8, five places behind).

**Geocoding** (`GeocodeProofs`). `RunIsCurrent` carries the argument: a row
nobody has verified is still the row that the run in progress has read, so
writing the changed columns over it writes a row of one piece, position and
confidence together; a position that differs from the one read is a person's;
and a run looks up again what was placed only when told to refresh.
`RowsAreGraded` says of stored rows that position and confidence belong
together. From these follow `DoubtIsListed`, for which a row that nobody has
verified has to be on every list that has room for it, and `PlacedIsLeftAlone`.
`BilledOnce` needs that a query was paid for at most once more than there are
rollbacks, and then is in the cache or in the run's answers.

**Basket** (`BasketProofs`). `EachItemIsBoughtOnce` is inductive as it stands.
For the other two the invariant is `BasketInv`. `PairIsOptimal` is the claim
that local improvement is exact: a line costs the same whatever else its store
sells, so the cost of a split is a sum of lines, a move changes one term of it,
and where no single move gains every term is the smaller of its two;
`TriedAreSettled` says that in a pass that has moved nothing yet no item tried
so far gains. `PlansOK` keeps that of the plans already made.
`SplitIsWorthItsStop` needs that the first single store is the best of all
(`SingleOK`, `PoolOK`), which holds because an `ORDER BY` lists all rows, each
once (`RowsInOrder` of `SetFacts`).

**Web page** (`WebPageProofs`). `PageInv` has three parts. `PageType` says
besides the types what a card claims: the version of the prices behind its price
and behind its table, from which `CardAndTableAgree` follows when no fold came
between: a LIMIT keeps some of the rows in scope, at least one, and all if fewer
are kept than it allows. `GridInv`: while the page is `steady`, at most one
request is on its way, it is the last one sent, and the grid is empty until it
is answered; the page asked for is the first or one that the count of the same
filter makes, which is what `EmptyMeansNothing` needs. `SearchInv` says the same
of a search that no other overtook. `CopiesAgree` is inductive; for
`ResultIsOfTheLastOrder` the invariant `OneOrder` adds that the button is
disabled exactly while one order is on its way, and that order is the last.

**Sets** (`SetFacts`). The library's induction theorems take an operator, which no
backend here can instantiate. Induction over finite sets is therefore stated
with a set for the hypothesis, the subsets that have the property, and proved
once from the well-foundedness of strict inclusion (`SubsetInduction`). Sums,
extremes and sorted rows rest on it.

Assumptions are the named `ASSUME`s of the modules: types, finiteness and
disjointness of the constants, versions numbered from 1.

**Model-checked only.** `PublishedIsFolded`, `ComparableIsShown`, `NewStoreIsPlaced`
and `Terminates`, since liveness is out of the prover's reach, and the six
violations. Every invariant and every action property of a passing run is
stated by a theorem.

## 5. Not modelled

- Run records and the volume alert: `ingestion_runs` is written once per chain,
  and what reads it only logs.
- Two rebuilds whose statements interleave under READ COMMITTED: a rebuild is one
  step here. Which rows each statement sees depends on row locks and on waits
  that the code does not state.
- The coverage view of the page and its queries, which are read-only; the history
  panel of a card, which shares its place with the table of stores, so that the
  later answer of two clicks stays; which names a query matches (trigrams).
- Distances, roads and minutes (`api/geo.py`): floating-point geometry without
  state. Baskets take minutes as given.
- `packsize.py`, `fieldmap.py`, `xmlstream.py` and most of `normalize.py`: matching
  of Hebrew text and streaming of XML, without state to interleave.
- `store_promotions` and `resolve_variants` of `catalog/promotions.py`: nothing in
  the program calls them, so the tables they write stay empty. `Basket` takes
  promotions as arbitrary rows.
- The raw archive (failures are swallowed and nothing reads it), configuration
  (constants here), containers, migrations and the phase-0 scripts.
- A database that loses committed data.

## 6. What is left

1. Two rebuilds statement by statement, with the locks Postgres takes.
2. Chains whose stores arrive after their prices, across cycles.
3. The pair pool: an instance with more stores than `PAIR_POOL`.
4. The two panels of a card (`web/app.js`, `wireCardActions`) in one place.
5. The overlapping jobs of `Cycle`: which of its properties survive without `Alone`.

## 7. Running

    tlc -config PriceHistory.cfg PriceHistoryMC.tla
    tlc -config Cycle.cfg CycleMC.tla
    tlc -config Catalog.cfg CatalogMC.tla
    tlc -config Geocode.cfg GeocodeMC.tla
    tlc -config Basket.cfg BasketMC.tla
    tlc -config WebPage.cfg WebPageMC.tla
    for m in PriceHistory PriceFold Cycle Catalog Geocode Basket WebPage
    do tlapm ${m}Proofs.tla; done
    tlapm SetFacts.tla

The runs that end in a violation use the other configurations, each with the
`MC` module whose name it begins with (`Price...` with `PriceHistoryMC`). The
mutants in `PROJECT.json` are one plausible bug per property, each defined next
to the definition it replaces and marked `Mutant`; under it TLC finds the
property violated.
