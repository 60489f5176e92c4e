------------------------------- MODULE Geocode -------------------------------
(***************************************************************************)
(* Placing the branches on the map: catalog/geocode.py, run by every cycle *)
(* and by hand, beside the store files and the person who reviews it.      *)
(*                                                                         *)
(* A run is one transaction of a session.  It reads its stores at once,    *)
(* looks the addresses up one by one and sends its UPDATEs at the commit,  *)
(* of the columns that it has changed: the statements on the cache are     *)
(* plain SQL and flush nothing, so a person or a store file may commit     *)
(* anything in between.  One run at a time.  A position is named by the    *)
(* query and the response it comes from.                                   *)
(***************************************************************************)
EXTENDS Integers, FiniteSets, FiniteSetsExt

CONSTANTS
  Store,        \* stores.id
  Address,      \* pairs of a street and a city
  Published,    \* Published[s]: the addresses that the store files may give s
  City,         \* the cities that are names and not numeric codes
  Response,     \* what the provider may find
  Limit,        \* values of --limit; 0 is none
  Floor,        \* GEOCODE_CONFIDENCE_MIN, per mille
  Key,          \* GOOGLE_MAPS_API_KEY is set
  None,         \* SQL NULL
  Human,        \* coordinates that a person gave
  NoResult,     \* ZERO_RESULTS
  MaxEvents     \* bound of the model: changes of address and failed runs in all

ASSUME StoreAssumption == Store \subseteq Nat /\ IsFiniteSet(Store)
ASSUME AddressAssumption == \A a \in Address : DOMAIN a = {"street", "city"}
ASSUME PublishedAssumption == Published \in [Store -> SUBSET Address]
ASSUME LimitAssumption == Limit \subseteq Nat /\ 0 \in Limit
ASSUME KeyAssumption == Key \in BOOLEAN
ASSUME NoneAssumption == None \notin Nat /\ None \notin Response \cup {NoResult}
ASSUME BoundAssumption == MaxEvents \in Nat

VARIABLES
  stores,       \* the rows of `stores'
  cache,        \* geocode_cache: the answer kept for every query
  run,          \* the run in progress
  paid,         \* the lookups answered, all of them billed
  moves, rollbacks

vars == <<stores, cache, run, paid, moves, rollbacks>>

-----------------------------------------------------------------------------
(* What is asked and what is made of the answer.                           *)

\* build_query: the street, and the city unless it is a numeric code.
build_query(a) ==
  LET city == IF a.city \in City THEN a.city ELSE None
  IN  IF a.street = None /\ city = None THEN None ELSE <<a.street, city>>

Query == {build_query(a) : a \in Address} \ {None}

LOCATION_CONFIDENCE ==
  [ROOFTOP |-> 1000, RANGE_INTERPOLATED |-> 850, GEOMETRIC_CENTER |-> 600,
   APPROXIMATE |-> 300]

\* grade: per mille; a partial match counts 0.7, a type of no name 0.5.
Confidence(r) ==
  LET full == IF r.type \in DOMAIN LOCATION_CONFIDENCE
              THEN LOCATION_CONFIDENCE[r.type] ELSE 500
  IN  IF r.partial THEN (full * 7) \div 10 ELSE full

\* rejected_reason is NULL: there is a result, inside Israel, finer than a region.
Usable(r) == r # NoResult /\ r.inside /\ r.type # "APPROXIMATE"

Answer == Response \cup {NoResult}
Position == [of : Query, by : {r \in Response : Usable(r)}] \cup {Human, None}

ASSUME MarkerAssumption ==
  Human # None /\ Human \notin [of : Query, by : Response] /\ None \notin [of : Query, by : Response]

Row == [address : Address, at : Position, confidence : 0..1000 \cup {None},
        verified : BOOLEAN, asked : Query \cup {None}]

Idle == [on |-> FALSE, refresh |-> FALSE, todo |-> {}, read |-> <<>>, write |-> <<>>,
         found |-> <<>>]

Init ==
  /\ stores \in [Store -> {[address |-> a, at |-> None, confidence |-> None,
                            verified |-> FALSE, asked |-> None] : a \in Address}]
  /\ \A s \in Store : stores[s].address \in Published[s]
  /\ cache = [q \in Query |-> None]
  /\ paid = [q \in Query |-> 0]
  /\ run = Idle /\ moves = 0 /\ rollbacks = 0

-----------------------------------------------------------------------------
(* A run of geocode_stores.                                                *)

\* Mutant: the batch of a run is its first store, whoever asks.
SelectedOne(refresh) ==
  LET open == {s \in Store : refresh \/ stores[s].at = None}
  IN  {s \in open : \A r \in open : s <= r}

\* The rows of the SELECT before its LIMIT.
Selected(refresh) == {s \in Store : refresh \/ stores[s].at = None}

\* The first `limit' by id.
Limited(ids, limit) ==
  IF limit = 0 THEN ids ELSE {s \in ids : Cardinality({r \in ids : r < s}) < limit}

\* The SELECT that reads the stores, and their rows as the session keeps them.
Start(limit, refresh) ==
  /\ ~run.on
  /\ run' = [Idle EXCEPT !.on = TRUE, !.refresh = refresh,
                         !.todo = Limited(Selected(refresh), limit),
                         !.read = stores, !.write = stores, !.found = cache]
  /\ UNCHANGED <<stores, cache, paid, moves, rollbacks>>

\* The command, and the cycle once its prices are folded; without a key there is no
\* _geocoder and neither does anything.
cmd_geocode == Key /\ \E limit \in Limit, refresh \in BOOLEAN : Start(limit, refresh)
CycleGeocodes == Key /\ Start(0, FALSE)

\* Mutant: a position is replaced and its confidence is not.
PlacedKeepsConfidence(w, q, r) ==
  IF Usable(r) THEN [w EXCEPT !.asked = q, !.at = [of |-> q, by |-> r]]
  ELSE [w EXCEPT !.asked = q]

\* Mutant: a refusal is written like any answer.
PlacedAnyway(w, q, r) ==
  [w EXCEPT !.asked = q, !.at = [of |-> q, by |-> r],
            !.confidence = IF r = NoResult THEN 0 ELSE Confidence(r)]

\* The row that the answer r for query q makes of w; a refused answer changes no position.
Placed(w, q, r) ==
  IF Usable(r) THEN [w EXCEPT !.asked = q, !.at = [of |-> q, by |-> r],
                              !.confidence = Confidence(r)]
  ELSE [w EXCEPT !.asked = q]

NextStore == Min(run.todo)

\* A store without an address is passed over.
NoAddress(s) ==
  /\ run.on /\ run.todo # {} /\ s = NextStore
  /\ build_query(run.read[s].address) = None
  /\ run' = [run EXCEPT !.todo = @ \ {s}]
  /\ UNCHANGED <<stores, cache, paid, moves, rollbacks>>

\* Mutant: only positions are kept, so a refusal is asked for again.
AnsweredForgets(s, q, r) ==
  run' = [run EXCEPT !.todo = @ \ {s}, !.write[s] = Placed(@, q, r),
                     !.found[q] = IF Usable(r) THEN r ELSE @]

Answered(s, q, r) ==
  run' = [run EXCEPT !.todo = @ \ {s}, !.write[s] = Placed(@, q, r), !.found[q] = r]

\* _from_cache: rows that were committed, and those of this run.
Known(q) == run.found[q]

FromCache(s) ==
  /\ run.on /\ run.todo # {} /\ s = NextStore
  /\ LET q == build_query(run.read[s].address)
     IN  q # None /\ Known(q) # None /\ Answered(s, q, Known(q))
  /\ UNCHANGED <<stores, cache, paid, moves, rollbacks>>

\* The provider answers, which is billed, and _to_cache keeps what it said.
Lookup(s) ==
  /\ run.on /\ run.todo # {} /\ s = NextStore
  /\ LET q == build_query(run.read[s].address)
     IN  /\ q # None /\ Known(q) = None
         /\ \E r \in Answer : Answered(s, q, r)
         /\ paid' = [paid EXCEPT ![q] = @ + 1]
  /\ UNCHANGED <<stores, cache, moves, rollbacks>>

\* lookup raises: the address is left for another run.
LookupFails(s) ==
  /\ run.on /\ run.todo # {} /\ s = NextStore
  /\ LET q == build_query(run.read[s].address)
     IN  /\ q # None /\ Known(q) = None
         /\ run' = [run EXCEPT !.todo = @ \ {s}, !.write[s].asked = q]
  /\ UNCHANGED <<stores, cache, paid, moves, rollbacks>>

\* Mutant: the whole row is written as the session holds it.
MergeWhole(row, read, write) == [c \in DOMAIN row |-> write[c]]

\* A session writes the columns whose value is not the one it has read.
Merge(row, read, write) ==
  [c \in DOMAIN row |-> IF write[c] # read[c] THEN write[c] ELSE row[c]]

Commit ==
  /\ run.on /\ run.todo = {}
  /\ stores' = [s \in Store |-> Merge(stores[s], run.read[s], run.write[s])]
  /\ cache' = run.found
  /\ run' = Idle
  /\ UNCHANGED <<paid, moves, rollbacks>>

\* The run dies or its connection does: what it wrote and kept is lost.
Rollback ==
  /\ run.on /\ moves + rollbacks < MaxEvents
  /\ run' = Idle /\ rollbacks' = rollbacks + 1
  /\ UNCHANGED <<stores, cache, paid, moves>>

-----------------------------------------------------------------------------
(* Those who change the rows beside it.                                    *)

\* review_queue: the rows its SELECT finds.
ReviewQueue ==
  {s \in Store : /\ ~stores[s].verified
                 /\ \/ stores[s].at = None
                    \/ stores[s].confidence # None /\ stores[s].confidence < Floor}

\* Rows without a confidence first, then the least confident, then by id.
Rank(s) == IF stores[s].confidence = None THEN -1 ELSE stores[s].confidence
Worse(r, s) == Rank(r) < Rank(s) \/ (Rank(r) = Rank(s) /\ r < s)

\* The stores that cmd_review prints.
cmd_review(limit) ==
  {s \in ReviewQueue : Cardinality({r \in ReviewQueue : Worse(r, s)}) < limit}

\* confirm, with or without coordinates.
confirm(s) ==
  \/ stores' = [stores EXCEPT ![s].verified = TRUE]
  \/ stores' = [stores EXCEPT ![s] = [@ EXCEPT !.verified = TRUE, !.at = Human,
                                              !.confidence = 1000]]

\* cmd_confirm: of a store that there is; coordinates outside Israel are refused.
cmd_confirm(s) ==
  /\ confirm(s)
  /\ UNCHANGED <<cache, run, paid, moves, rollbacks>>

\* _load_stores publishes another address and leaves the position alone.
Move(s) ==
  /\ moves + rollbacks < MaxEvents /\ moves' = moves + 1
  /\ \E a \in Published[s] \ {stores[s].address} :
       stores' = [stores EXCEPT ![s].address = a]
  /\ UNCHANGED <<cache, run, paid, rollbacks>>

Step(s) == NoAddress(s) \/ FromCache(s) \/ Lookup(s) \/ LookupFails(s)

Next ==
  \/ cmd_geocode \/ CycleGeocodes
  \/ \E s \in Store : Step(s) \/ cmd_confirm(s) \/ Move(s)
  \/ Commit \/ Rollback

Spec == Init /\ [][Next]_vars

\* The cycle repeats and goes on to its end, and the provider does not fail for ever.
FairSpec ==
  /\ Spec
  /\ SF_vars(CycleGeocodes) /\ WF_vars(Commit)
  /\ \A s \in Store : WF_vars(Step(s)) /\ SF_vars(Lookup(s))

-----------------------------------------------------------------------------
(* Properties.                                                             *)

\* Every variable holds values of its column.
TypeOK ==
  /\ stores \in [Store -> Row]
  /\ cache \in [Query -> Answer \cup {None}]
  /\ run.on \in BOOLEAN /\ run.refresh \in BOOLEAN
  /\ run.todo \subseteq Store
  /\ run.on => /\ run.read \in [Store -> Row] /\ run.write \in [Store -> Row]
               /\ run.found \in [Query -> Answer \cup {None}]
  /\ paid \in [Query -> Nat] /\ moves \in 0..MaxEvents /\ rollbacks \in 0..MaxEvents

\* geocode_cache: an answer is paid for once, whichever stores share the address and
\* however often runs are refreshed, save for runs whose transaction was lost.
BilledOnce == \A q \in Query : paid[q] <= 1 + rollbacks

\* How much the provider trusts a position, a person's the most and none the least.
Certainty(at) ==
  CASE at = None -> -1
    [] at = Human -> 1000
    [] OTHER -> Confidence(at.by)

Doubted(s) ==
  stores[s].at # Human /\ (stores[s].at = None \/ Certainty(stores[s].at) < Floor)

\* On every list that cmd_review prints, or behind as many as fill it, none more certain.
Listed(s) ==
  \A limit \in Limit \ {0} :
    \/ s \in cmd_review(limit)
    \/ /\ Cardinality(cmd_review(limit)) = limit
       /\ \A r \in cmd_review(limit) : Certainty(stores[r].at) <= Certainty(stores[s].at)

\* "It must clear the confidence floor, or it goes to the review queue" (geocode.py:16):
\* only a person's confirmation takes a position that the provider doubts, or none, off
\* the list, and a run puts one in place off the list only over a row that was confirmed,
\* told to refresh or having read it without a position.  (That much the code does let
\* past the queue: nothing withdraws a confirmation when the position changes.)
DoubtIsListed ==
  [][\A s \in Store : (Doubted(s) /\ ~Listed(s))' =>
       \/ stores'[s].verified /\ stores'[s].at = stores[s].at
       \/ stores[s].verified /\ run.on /\ (run.refresh \/ run.read[s].at = None)]_vars

\* geocode_stores is idempotent: a position is replaced by a person, by a run that was
\* told to refresh, or, when a person gave it to a store that a run had read without
\* one, by that run; never by a run what another run has found.
PlacedIsLeftAlone ==
  [][\A s \in Store :
       stores'[s].at # stores[s].at /\ stores[s].at # None =>
         \/ stores'[s].at = Human
         \/ run.on /\ (run.refresh \/ (run.read[s].at = None /\ stores[s].at = Human))]_vars

\* The cycle: a store that has an address comes to be placed, unless the provider has
\* refused the address or a file published another; nothing in front of it in the batch
\* keeps it waiting for ever.
NewStoreIsPlaced ==
  \A s \in Store : \A q \in Query :
    (stores[s].at = None /\ build_query(stores[s].address) = q)
      ~> \/ stores[s].at # None
         \/ build_query(stores[s].address) # q
         \/ cache[q] # None /\ ~Usable(cache[q])
=============================================================================
