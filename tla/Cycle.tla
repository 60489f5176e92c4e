-------------------------------- MODULE Cycle --------------------------------
(***************************************************************************)
(* The ingestion worker: ingestion/__main__.py's `cycle' over              *)
(* ingestion/pipeline.py, ingestion/download.py and the transactions they  *)
(* open.                                                                   *)
(*                                                                         *)
(* cron starts a job per crontab line; a job walks the active chains       *)
(* (download, one transaction per chain, discard the files), then builds   *)
(* the catalog, folds the prices and purges staging, each in a transaction *)
(* of its own.  Jobs share the disk and the database and nothing keeps     *)
(* them apart.  A job may fail or be killed between any two of its steps.  *)
(*                                                                         *)
(* A file's contents are its version.  No step of a cycle reads the archive, *)
(* whose failures the pipeline swallows, or ingestion_runs, which feeds the *)
(* volume warning; neither is state here.                                  *)
(***************************************************************************)
EXTENDS Integers, FiniteSets, Sequences

CONSTANTS
  Chain,        \* ids of the active chains, walked in this order
  File,         \* names of published files
  ChainOf,      \* ChainOf[f]: the chain whose portal publishes f
  Kind,         \* Kind[f]: what the name says the file is
  Version,      \* the contents a name may successively have
  Size,         \* Size[v]: bytes of version v
  Disabled,     \* chains whose scraper the library has switched off
  Worker,       \* the jobs of the crontab
  Daily,        \* those that fetch store files too; the others run --deltas
  None,
  Fault,        \* what may go wrong: "fetch", "parse", "load", "unlink", "crash"
  Last,         \* bound of the model: Last[f] is the last version of f
  MaxFaults     \* bound of the model: faults in all

ASSUME ChainAssumption == Chain \subseteq Nat /\ Disabled \subseteq Chain
\* The kinds of normalize.classify; it knows a file by its name alone.
FileKinds == {"stores", "price_full", "price_delta", "promo_full", "promo_delta", "unknown"}

ASSUME FileAssumption == ChainOf \in [File -> Chain] /\ Kind \in [File -> FileKinds]
ASSUME VersionAssumption ==
  /\ Version \subseteq Nat \ {0} /\ \A v \in Version : 1..v \subseteq Version
  /\ Size \in [Version -> Nat \ {0}] /\ Last \in [File -> Version]
ASSUME WorkerAssumption == Daily \subseteq Worker
ASSUME NoneAssumption == None \notin Nat
ASSUME FaultAssumption ==
  Fault \subseteq {"fetch", "parse", "load", "unlink", "crash"} /\ MaxFaults \in Nat

VARIABLES
  portal,       \* the version each name has on its portal
  disk,         \* the version each name has under STORAGE_PATH
  registry,     \* ingested_files: size_bytes by chain and name
  staging,      \* staging_items, one row per file staged
  stores,       \* the chains that have a row in `stores'
  variants,     \* product_variants: the items each chain's files brought
  folded,       \* rows a fold has read; `attached' ones entered the histories
  job,          \* the local state of every worker
  faults        \* the faults so far: their number and their kinds

vars == <<portal, disk, registry, staging, stores, variants, folded, job, faults>>
tables == <<registry, staging, stores, variants, folded>>

HEALTHY_STATUSES == {"ok", "partial", "unchanged"}

NothingKnown == [f \in File |-> None]

\* What a cycle holds between two of its steps; a local no later step reads is reset.
Idle == [pc |-> "idle", todo |-> {}, chain |-> None, left |-> <<>>, before |-> {},
         files |-> {}, error |-> FALSE, known |-> NothingKnown,
         healthy |-> FALSE, rows |-> FALSE]

Job == [pc : {"idle", "snapshot", "fetch", "open", "load", "discard", "decide", "prices",
              "purge"},
        todo : SUBSET Chain, chain : Chain \cup {None},
        left : Seq(SUBSET FileKinds), before : SUBSET File,
        files : SUBSET File, error : BOOLEAN, known : [File -> Nat \cup {None}],
        healthy : BOOLEAN, rows : BOOLEAN]

\* A staged file; `whole' is false for the batches of a file that failed later.
Row == [chain : Chain, file : File, version : Version, whole : BOOLEAN]

-----------------------------------------------------------------------------
(* Helpers.                                                                *)

Present(d) == {f \in File : d[f] # None}

IsPrice(f) == Kind[f] \in {"price_full", "price_delta"}
IsParsed(f) == IsPrice(f) \/ Kind[f] = "stores"

\* Mutant: the corrected file of a known name is taken for the old one.
KnownByName(known, d) == {f \in File : known[f] # None}

\* path.stat().st_size, 0 when another job has removed the file.
SizeOnDisk(d, f) == IF d[f] = None THEN 0 ELSE Size[d[f]]

\* Files the registry holds with the size they have on disk.
Known(known, d) == {f \in File : known[f] = SizeOnDisk(d, f)}

\* Mutant: whatever lies in the folder belongs to the chain being fetched.
NewFilesAll(d, before) == Present(d)

\* Mutant: the library's own status file is taken for a published one.
NewFilesAndStatus(d, before) == (Present(d) \ before) \cup {"status"}

\* sorted(_snapshot(root) - before)
NewFiles(d, before) == Present(d) \ before

\* Mutant: remembered before it is parsed.
RememberAll(known, fresh, good, d) ==
  [f \in File |-> IF f \in fresh THEN SizeOnDisk(d, f) ELSE known[f]]

\* Mutant: ON CONFLICT DO NOTHING.
RememberOnce(known, fresh, good, d) ==
  [f \in File |-> IF f \in good /\ known[f] = None THEN SizeOnDisk(d, f) ELSE known[f]]

\* _remember_file, for the files that parsed.
Remember(known, fresh, good, d) ==
  [f \in File |-> IF f \in good THEN SizeOnDisk(d, f) ELSE known[f]]

\* The downloads of FULL_TYPES, store files apart, and the one of DELTA_TYPES.  A file
\* whose name says nothing may come with any of them.
Halves(w) ==
  IF w \in Daily THEN <<{"stores", "unknown"}, {"price_full", "promo_full", "unknown"}>>
                 ELSE <<{"price_delta", "promo_delta", "unknown"}>>

\* All that job w asks for.
Asked(w) == UNION {Halves(w)[i] : i \in DOMAIN Halves(w)}

\* One half is done: on to the other, or to the database.
HalfDone(j) ==
  [j EXCEPT !.before = {}, !.left = Tail(@),
            !.pc = IF Len(j.left) = 1 THEN "open" ELSE "snapshot"]

\* The next active chain, or the end of run_cycle.
NextChain(w, j) ==
  IF j.todo = {}
  THEN [j EXCEPT !.pc = "decide", !.chain = None, !.files = {}, !.error = FALSE]
  ELSE LET c == CHOOSE c \in j.todo : \A d \in j.todo : c <= d
       IN  [j EXCEPT !.pc = "snapshot", !.chain = c, !.todo = @ \ {c},
                     !.left = Halves(w), !.files = {}, !.error = FALSE]

\* Mutant: the chain just done decides what the cycle does next.
OutcomeOfTheLast(j, status, rows) ==
  [j EXCEPT !.healthy = status \in HEALTHY_STATUSES, !.rows = rows,
            !.known = NothingKnown]

\* What run_cycle remembers of a chain: any healthy status, any rows.
Outcome(j, status, rows) ==
  [j EXCEPT !.healthy = @ \/ status \in HEALTHY_STATUSES, !.rows = @ \/ rows,
            !.known = NothingKnown]

\* DownloadResult.status
DownloadStatus(j) ==
  IF j.error THEN "failed"
  ELSE IF j.chain \in Disabled THEN "skipped_unstable"
  ELSE IF j.files # {} THEN "ok" ELSE "no_files"

\* The status _ingest_chain leaves on the run.
RunStatus(j, bad, skipped, rows, storesSeen, hasStores) ==
  LET parsed == IF bad # {} THEN "partial" ELSE DownloadStatus(j)
      idle == IF parsed = "ok" /\ ~ rows /\ ~ storesSeen
              THEN IF skipped # {} THEN "unchanged" ELSE "no_files"
              ELSE parsed
  IN  IF rows /\ ~ hasStores THEN "partial" ELSE idle

\* Job w moves on; its new locals are j.
Becomes(w, j) == job' = [job EXCEPT ![w] = j]

MayFail(kind) == kind \in Fault /\ faults.count < MaxFaults
Failed(kind) == faults' = [count |-> faults.count + 1, kinds |-> faults.kinds \cup {kind}]

-----------------------------------------------------------------------------
(* The steps of a cycle.                                                   *)

\* A chain publishes a file, or a correction under the same name.
Publish(f) ==
  LET v == IF portal[f] = None THEN 1 ELSE portal[f] + 1
  IN  /\ v <= Last[f]
      /\ portal' = [portal EXCEPT ![f] = v]
      /\ UNCHANGED <<disk, tables, job, faults>>

\* cron fires.  A job never overlaps itself here; two crontab lines may.
Start(w) ==
  /\ job[w].pc = "idle"
  /\ Becomes(w, NextChain(w, [Idle EXCEPT !.todo = Chain]))
  /\ UNCHANGED <<portal, disk, tables, faults>>

\* download_chain up to the scraper, or past it when the library has disabled it.
Snapshot(w) ==
  /\ job[w].pc = "snapshot"
  /\ Becomes(w, IF job[w].chain \in Disabled
                THEN [job[w] EXCEPT !.pc = "open"]
                ELSE [job[w] EXCEPT !.pc = "fetch", !.before = Present(disk)])
  /\ UNCHANGED <<portal, disk, tables, faults>>

\* The files the portal of job w's chain serves for the half being fetched.
Served(w) ==
  {f \in Present(portal) : ChainOf[f] = job[w].chain /\ Kind[f] \in Head(job[w].left)}

\* The scraper writes `got' and stops; it keeps no memory of earlier runs.
Scrape(w, got) ==
  /\ job[w].pc = "fetch"
  /\ got \subseteq Served(w)
  /\ disk' = [f \in File |-> IF f \in got THEN portal[f] ELSE disk[f]]

Fetch(w, got) ==
  /\ Scrape(w, got)
  /\ Becomes(w, HalfDone([job[w] EXCEPT !.files = @ \cup NewFiles(disk', job[w].before)]))
  /\ UNCHANGED <<portal, tables, faults>>

\* The scraper raises: what it wrote stays on disk and out of the result.
FetchFails(w, got) ==
  /\ MayFail("fetch")
  /\ Scrape(w, got)
  /\ Becomes(w, HalfDone([job[w] EXCEPT !.error = TRUE]))
  /\ Failed("fetch")
  /\ UNCHANGED <<portal, tables>>

\* _ingest_chain opens its transaction and reads the registry.
OpenChain(w) ==
  /\ job[w].pc = "open"
  /\ Becomes(w, [job[w] EXCEPT !.pc = "load", !.known = registry[job[w].chain]])
  /\ UNCHANGED <<portal, disk, tables, faults>>

\* The loop over the files and the commit.  `bad' files raise while they are parsed,
\* `torn' ones after some of their rows were inserted, which stay.
LoadChain(w, bad, torn) ==
  LET c == job[w].chain
      fresh == job[w].files \ Known(job[w].known, disk)
      good == fresh \ bad
      priced == {f \in good : IsPrice(f)}
      storesOf(files) == \E f \in files : Kind[f] = "stores"
      status == RunStatus(job[w], bad, job[w].files \ fresh, priced # {}, storesOf(good),
                          c \in stores \/ storesOf(good \cup torn))
  IN  /\ job[w].pc = "load"
      /\ bad \subseteq {f \in fresh : IsParsed(f)}
      /\ torn \subseteq bad \cap Present(disk)
      /\ {f \in fresh : IsParsed(f) /\ f \notin Present(disk)} \subseteq bad
      /\ IF bad \cap Present(disk) = {}
         THEN UNCHANGED faults
         ELSE MayFail("parse") /\ Failed("parse")
      /\ registry' = [registry EXCEPT ![c] = Remember(@, fresh, good, disk)]
      /\ staging' = staging \cup
           {[chain |-> c, file |-> f, version |-> disk[f], whole |-> f \in priced] :
              f \in {f \in priced \cup torn : IsPrice(f)}}
      /\ stores' = IF storesOf(good \cup torn) THEN stores \cup {c} ELSE stores
      /\ Becomes(w, [Outcome(job[w], status, priced # {}) EXCEPT !.pc = "discard"])
      /\ UNCHANGED <<portal, disk, variants, folded>>

\* A database error inside the loop: the later statements fail too, the whole chain is
\* rolled back and its files are not discarded.
LoadAborts(w) ==
  /\ MayFail("load")
  /\ job[w].pc = "load"
  /\ job[w].files # {}
  /\ Becomes(w, NextChain(w, [job[w] EXCEPT !.known = NothingKnown]))
  /\ Failed("load")
  /\ UNCHANGED <<portal, disk, tables>>

\* download.discard unlinks the chain's files; those of `kept' it cannot remove, which
\* is logged and nothing else.
Discard(w, kept) ==
  /\ job[w].pc = "discard"
  /\ kept \subseteq job[w].files \cap Present(disk)
  /\ IF kept = {} THEN UNCHANGED faults ELSE MayFail("unlink") /\ Failed("unlink")
  /\ disk' = [f \in File |-> IF f \in job[w].files \ kept THEN None ELSE disk[f]]
  /\ Becomes(w, NextChain(w, job[w]))
  /\ UNCHANGED <<portal, tables>>

\* No chain is healthy: exit 1.
GiveUp(w) ==
  /\ job[w].pc = "decide"
  /\ ~ job[w].healthy
  /\ Becomes(w, Idle)
  /\ UNCHANGED <<portal, disk, tables, faults>>

\* Mutant: staging is purged on this way out too.
NothingNewPurges(w) ==
  /\ job[w].pc = "decide"
  /\ job[w].healthy /\ ~ job[w].rows
  /\ Becomes(w, Idle)
  /\ staging' = {}
  /\ UNCHANGED <<portal, disk, registry, stores, variants, folded, faults>>

\* Every file of the cycle was on record already: exit 0.
NothingNew(w) ==
  /\ job[w].pc = "decide"
  /\ job[w].healthy /\ ~ job[w].rows
  /\ Becomes(w, Idle)
  /\ UNCHANGED <<portal, disk, tables, faults>>

\* catalog_build.build registers the staged items.
Build(w) ==
  /\ job[w].pc = "decide"
  /\ job[w].healthy /\ job[w].rows
  /\ variants' = variants \cup {<<r.chain, r.file>> : r \in staging}
  /\ Becomes(w, [job[w] EXCEPT !.pc = "prices"])
  /\ UNCHANGED <<portal, disk, registry, staging, stores, folded, faults>>

\* Rows that join a store of their chain and a registered item.
Attached(r) == r.chain \in stores /\ <<r.chain, r.file>> \in variants

\* catalog_prices.rebuild folds whatever is staged (module PriceHistory).
Rebuild(w) ==
  /\ job[w].pc = "prices"
  /\ folded' = folded \cup {[row |-> r, attached |-> Attached(r)] : r \in staging}
  /\ Becomes(w, [job[w] EXCEPT !.pc = "purge"])
  /\ UNCHANGED <<portal, disk, registry, staging, stores, variants, faults>>

\* purge_staging deletes every row.
Purge(w) ==
  /\ job[w].pc = "purge"
  /\ staging' = {}
  /\ Becomes(w, Idle)
  /\ UNCHANGED <<portal, disk, registry, stores, variants, folded, faults>>

\* The process ends between two steps: killed, or an exception no step catches.
Crash(w) ==
  /\ MayFail("crash")
  /\ job[w].pc # "idle"
  /\ Becomes(w, Idle)
  /\ Failed("crash")
  /\ UNCHANGED <<portal, disk, tables>>

-----------------------------------------------------------------------------
Init ==
  /\ portal = [f \in File |-> None]
  /\ disk = [f \in File |-> None]
  /\ registry = [c \in Chain |-> [f \in File |-> None]]
  /\ staging = {}
  /\ stores \in SUBSET Chain
  /\ variants = {}
  /\ folded = {}
  /\ job = [w \in Worker |-> Idle]
  /\ faults = [count |-> 0, kinds |-> {}]

\* What worker w does when nothing but its files fails.
Work(w) ==
  \/ Start(w) \/ Snapshot(w) \/ OpenChain(w)
  \/ \E got \in SUBSET Present(portal) : Fetch(w, got)
  \/ \E bad, torn \in SUBSET File : LoadChain(w, bad, torn)
  \/ \E kept \in SUBSET File : Discard(w, kept)
  \/ GiveUp(w) \/ NothingNew(w) \/ Build(w) \/ Rebuild(w) \/ Purge(w)

Next ==
  \/ \E f \in File : Publish(f)
  \/ \E w \in Worker : Work(w)
  \/ \E w \in Worker : LoadAborts(w) \/ Crash(w)
  \/ \E w \in Worker : \E got \in SUBSET Present(portal) : FetchFails(w, got)

Spec == Init /\ [][Next]_vars

\* The scraper gets all that is served of a chain's files of one kind.
FetchAll(w, c, k) ==
  /\ job[w].pc = "fetch" /\ job[w].chain = c /\ k \in Head(job[w].left)
  /\ Fetch(w, Served(w))

\* cron keeps firing, a cycle keeps moving, and a scraper that is run again and again
\* gets everything again and again.
Fairness ==
  \A w \in Worker :
    /\ WF_vars(Work(w))
    /\ \A c \in Chain, k \in {"stores", "price_full", "price_delta"} : SF_vars(FetchAll(w, c, k))

FairSpec == Spec /\ Fairness

-----------------------------------------------------------------------------
(* What must hold.                                                         *)

\* The database and every worker's locals have their types.
TypeOK ==
  /\ portal \in [File -> Version \cup {None}]
  /\ disk \in [File -> Version \cup {None}]
  /\ registry \in [Chain -> [File -> Nat \cup {None}]]
  /\ staging \subseteq Row
  /\ stores \subseteq Chain
  /\ variants \subseteq Chain \X File
  /\ folded \subseteq [row : Row, attached : BOOLEAN]
  /\ job \in [Worker -> Job]
  /\ \A w \in Worker :
       /\ job[w].chain = None <=> job[w].pc \in {"idle", "decide", "prices", "purge"}
       /\ job[w].pc \in {"snapshot", "fetch"} => job[w].left # <<>>
  /\ faults \in [count : Nat, kinds : SUBSET Fault]

\* Leftovers of a failed download or a killed job are never taken for files of the
\* chain being fetched: what a chain has registered, staged or folded, its own portal
\* published.
OwnFilesOnly ==
  /\ \A c \in Chain, f \in File : registry[c][f] # None => ChainOf[f] = c
  /\ \A r \in staging : ChainOf[r.file] = r.chain
  /\ \A x \in folded : ChainOf[x.row.file] = x.row.chain

Holds(rows, c, f, size) ==
  \E r \in rows : r.chain = c /\ r.file = f /\ r.whole /\ Size[r.version] = size

\* "Every published file already folded into the database": a price file on record has
\* all its rows folded or waiting in staging, at whatever step jobs failed or died.
RegisteredIsKept ==
  \A c \in Chain, f \in File :
    IsPrice(f) /\ registry[c][f] # None =>
      Holds(staging \cup {x.row : x \in folded}, c, f, registry[c][f])

\* Nothing leaves the staging table before a fold has read it.
PurgedIsFolded ==
  [][\A r \in staging \ staging' : \E x \in folded : x.row = r]_vars

\* A file is folded once: however often the portal serves it and however many jobs
\* died on it, what a fold has read whole is not staged again.
IngestedOnce ==
  [][\A r \in staging' \ staging : r.whole => \A x \in folded : x.row # r]_vars

Faultless == faults.kinds \subseteq {"parse"}

\* As long as downloads and the database work and no job dies, a price file some job
\* asks for and that stays on its portal reaches the histories of a chain whose stores
\* are known: a correction under the same name is noticed by its size, and a file that
\* does not parse is tried again.
PublishedIsFolded ==
  [] Faultless =>
    \A f \in File, v \in Version :
      (/\ IsPrice(f) /\ \E w \in Worker : Kind[f] \in Asked(w)
       /\ ChainOf[f] \in stores \ Disabled
       /\ <>[](portal[f] = v)) =>
        <>(\E x \in folded : x.attached /\ x.row.whole /\ x.row.file = f
                               /\ Size[x.row.version] = Size[v])

\* Only a job that dies, or a download that fails, strands what a cycle staged: as long
\* as neither happened, no complete file waits in staging once a cycle is over,
\* whichever chains found nothing, could not be read or were rolled back in it.
EndedIsFolded ==
  faults.kinds \cap {"fetch", "crash"} = {} =>
    \A w \in Worker : job[w].pc = "idle" => \A r \in staging : ~ r.whole

-----------------------------------------------------------------------------
(* What the repository says of this code and the code does not do.         *)

\* "a file that blew up is retried on the next cycle rather than being remembered as
\* done" (ingestion/pipeline.py:230): a chain's file that is on disk and not on record
\* is among the files its next download hands over.  Left on disk by a chain that was
\* rolled back, it is in the next snapshot and never new again.
BlownUpIsRetried ==
  \A w \in Worker : job[w].pc = "open" /\ ~ job[w].error =>
    \A f \in Present(disk) :
      /\ ChainOf[f] = job[w].chain /\ Kind[f] \in Asked(w)
      /\ registry[job[w].chain][f] = None
      => f \in job[w].files

\* "Every file this cycle was one the database already held. Rebuilding the catalog and
\* folding an empty staging table into history would [...] change nothing"
\* (ingestion/__main__.py:81): a cycle that ends early as having nothing new leaves no
\* row of a complete file waiting.  When the cycle that staged it died before its fold,
\* the files are on record and every later cycle ends early until another file arrives.
NothingNewIsNothing ==
  \A w \in Worker : job[w].pc = "decide" /\ job[w].healthy /\ ~ job[w].rows =>
    \A r \in staging : r.whole => \E x \in folded : x.row = r
=============================================================================
