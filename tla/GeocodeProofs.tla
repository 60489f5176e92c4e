--------------------------- MODULE GeocodeProofs ---------------------------
(***************************************************************************)
(* Proofs about Geocode, for any stores, addresses and answers, whatever a *)
(* person and the store files commit while a run is under way and however  *)
(* often a run is lost: who may change a position, who is asked to look at *)
(* one, and what the provider is paid.                                     *)
(*                                                                         *)
(* A run writes the columns that it changed over rows that others may have *)
(* changed since.  The argument is that a row nobody has verified is still *)
(* the row that the run has read, so that writing some of its columns      *)
(* writes all of them.                                                     *)
(***************************************************************************)
EXTENDS Geocode, SetFacts

\* What a run in progress keeps.
RunRecord ==
  [on : {TRUE}, refresh : BOOLEAN, todo : SUBSET Store,
   read : [Store -> Row], write : [Store -> Row], found : [Query -> Answer \cup {None}]]

Columns ==
  /\ stores \in [Store -> Row]
  /\ cache \in [Query -> Answer \cup {None}]
  /\ run = Idle \/ run \in RunRecord
  /\ paid \in [Query -> Nat] /\ moves \in 0..MaxEvents /\ rollbacks \in 0..MaxEvents

\* A row nobody has verified has the confidence of the answer it is placed by.
Graded(row) ==
  ~row.verified => /\ row.at # Human
                   /\ row.confidence = IF row.at = None THEN None ELSE Confidence(row.at.by)

-----------------------------------------------------------------------------
(* Answers and rows.                                                       *)

LEMMA ConfidenceRange ==
  ASSUME NEW r
  PROVE  Confidence(r) \in 0..1000
<1> DEFINE full == IF r.type \in DOMAIN LOCATION_CONFIDENCE
                   THEN LOCATION_CONFIDENCE[r.type] ELSE 500
<1>1. full \in {1000, 850, 600, 300, 500}
  BY DEF LOCATION_CONFIDENCE
<1>2. Confidence(r) = IF r.partial THEN (full * 7) \div 10 ELSE full
  BY DEF Confidence
<1> HIDE DEF full
<1>3. (full * 7) \div 10 \in 0..1000 /\ full \in 0..1000
  BY <1>1
<1> QED
  BY <1>2, <1>3

LEMMA QueryType ==
  ASSUME NEW a \in Address, build_query(a) # None
  PROVE  build_query(a) \in Query
BY DEF Query

LEMMA AskedRow ==
  ASSUME NEW w \in Row, NEW q \in Query
  PROVE  /\ [w EXCEPT !.asked = q] \in Row
         /\ [w EXCEPT !.asked = q].verified = w.verified
         /\ [w EXCEPT !.asked = q].at = w.at
         /\ Graded(w) => Graded([w EXCEPT !.asked = q])
BY DEF Row, Graded

LEMMA PlacedRow ==
  ASSUME NEW w \in Row, NEW q \in Query, NEW r \in Answer
  PROVE  /\ Placed(w, q, r) \in Row
         /\ Placed(w, q, r).verified = w.verified
         /\ Graded(w) => Graded(Placed(w, q, r))
<1>1. CASE Usable(r)
  <2>1. Placed(w, q, r) = [w EXCEPT !.asked = q, !.at = [of |-> q, by |-> r],
                                    !.confidence = Confidence(r)]
    BY <1>1 DEF Placed
  <2>2. r \in Response /\ [of |-> q, by |-> r] \in Position
    BY <1>1 DEF Usable, Answer, Position
  <2>3. Confidence(r) \in 0..1000
    BY ConfidenceRange
  <2> DEFINE place == [of |-> q, by |-> r]
             grade == Confidence(r)
  <2>4. /\ place \in Position /\ grade \in 0..1000 \cup {None} /\ place.by = r
        /\ place # Human /\ place # None
    BY <2>2, <2>3, MarkerAssumption
  <2>5. Placed(w, q, r) = [w EXCEPT !.asked = q, !.at = place, !.confidence = grade]
    BY <2>1
  <2> HIDE DEF place, grade
  <2>6. Placed(w, q, r) = [address |-> w.address, at |-> place, confidence |-> grade,
                           verified |-> w.verified, asked |-> q]
    BY <2>5 DEF Row
  <2>7. /\ Placed(w, q, r) \in Row /\ Placed(w, q, r).verified = w.verified
        /\ Placed(w, q, r).at = place /\ Placed(w, q, r).confidence = grade
    BY <2>4, <2>6 DEF Row
  <2> QED
    BY <2>4, <2>7 DEF Graded, grade
<1>2. CASE ~Usable(r)
  BY <1>2, AskedRow DEF Placed
<1> QED
  BY <1>1, <1>2

\* The two rows that confirm may leave.
LEMMA VerifiedRow ==
  ASSUME NEW row \in Row
  PROVE  [row EXCEPT !.verified = TRUE] \in Row
BY DEF Row

LEMMA GivenRow ==
  ASSUME NEW row \in Row
  PROVE  [row EXCEPT !.verified = TRUE, !.at = Human, !.confidence = 1000] \in Row
<1> DEFINE C == 0..1000 \cup {None}
           full == 1000
<1>1. Human \in Position /\ full \in C
  BY DEF Position
<1>2. Row = [address : Address, at : Position, confidence : C, verified : BOOLEAN,
             asked : Query \cup {None}]
  BY DEF Row
<1> HIDE DEF C, full
<1>3. [row EXCEPT !.verified = TRUE, !.at = Human, !.confidence = full] \in Row
  BY <1>1, <1>2
<1> QED
  BY <1>3 DEF full

LEMMA MergeRow ==
  ASSUME NEW row \in Row, NEW read \in Row, NEW write \in Row
  PROVE  /\ Merge(row, read, write) \in Row
         /\ Merge(row, read, write).at = IF write.at # read.at THEN write.at ELSE row.at
         /\ Merge(row, read, write).verified
              = IF write.verified # read.verified THEN write.verified ELSE row.verified
         /\ Merge(row, read, write).confidence
              = IF write.confidence # read.confidence THEN write.confidence
                ELSE row.confidence
<1>1. DOMAIN row = {"address", "at", "confidence", "verified", "asked"}
  BY DEF Row
<1>2. Merge(row, read, write)
        = [address |-> IF write.address # read.address THEN write.address ELSE row.address,
           at |-> IF write.at # read.at THEN write.at ELSE row.at,
           confidence |-> IF write.confidence # read.confidence THEN write.confidence
                          ELSE row.confidence,
           verified |-> IF write.verified # read.verified THEN write.verified
                        ELSE row.verified,
           asked |-> IF write.asked # read.asked THEN write.asked ELSE row.asked]
  BY <1>1 DEF Merge
<1> QED
  BY <1>2 DEF Row

-----------------------------------------------------------------------------
(* The types.                                                              *)

\* What a store of the batch is left with: its row in the session, and an answer kept.
LEMMA StepShape ==
  ASSUME Columns, NEW s \in Store, Step(s)
  PROVE  /\ run \in RunRecord /\ run' \in RunRecord
         /\ run'.read = run.read /\ run'.refresh = run.refresh
         /\ run.todo # {} /\ s = Min(run.todo) /\ run'.todo = run.todo \ {s}
         /\ \A u \in Store : u # s => run'.write[u] = run.write[u]
         /\ run'.write[s].verified = run.write[s].verified
         /\ Graded(run.write[s]) => Graded(run'.write[s])
         /\ UNCHANGED <<stores, cache, moves, rollbacks>>
<1> DEFINE q == build_query(run.read[s].address)
           asked(w) == [w EXCEPT !.asked = q]
<1>1. run \in RunRecord /\ run.todo # {} /\ s = Min(run.todo)
  <2>1. run.on
    BY DEF Step, NoAddress, FromCache, Lookup, LookupFails
  <2>2. run # Idle
    BY <2>1 DEF Idle
  <2> QED
    BY <2>2 DEF Columns, Step, NoAddress, FromCache, Lookup, LookupFails, NextStore
<1>2. run.write[s] \in Row /\ run.read[s].address \in Address
  BY <1>1 DEF RunRecord, Row
<1>3. q # None => q \in Query
  BY <1>2, QueryType
<1> HIDE DEF q
<1>4. CASE NoAddress(s)
  <2>1. run' = [run EXCEPT !.todo = @ \ {s}]
    BY <1>4 DEF NoAddress
  <2> QED
    BY <1>1, <1>4, <2>1 DEF NoAddress, RunRecord
<1>5. ASSUME NEW r \in Answer, q # None, Answered(s, q, r)
      PROVE  /\ run' \in RunRecord
             /\ run'.read = run.read /\ run'.refresh = run.refresh
             /\ run'.todo = run.todo \ {s}
             /\ \A u \in Store : u # s => run'.write[u] = run.write[u]
             /\ run'.write[s] = Placed(run.write[s], q, r)
  <2> DEFINE w == Placed(run.write[s], q, r)
  <2>1. w \in Row
    BY <1>2, <1>3, <1>5, PlacedRow
  <2>2. run' = [run EXCEPT !.todo = @ \ {s}, !.write[s] = w, !.found[q] = r]
    BY <1>1, <1>5 DEF Answered
  <2>3. q \in Query
    BY <1>3, <1>5
  <2> HIDE DEF w
  <2>4. run' \in RunRecord /\ run'.write[s] = w
    BY <1>1, <2>1, <2>2, <2>3 DEF RunRecord
  <2> QED
    BY <1>1, <2>2, <2>4 DEF RunRecord, w
<1>6. CASE FromCache(s)
  <2>1. q # None /\ Known(q) # None /\ Answered(s, q, Known(q))
    BY <1>6 DEF FromCache, q
  <2>2. Known(q) \in Answer
    BY <1>1, <1>3, <2>1 DEF Known, RunRecord
  <2> QED
    BY <1>1, <1>2, <1>3, <1>5, <1>6, <2>1, <2>2, PlacedRow DEF FromCache
<1>7. CASE Lookup(s)
  <2>1. q # None /\ \E r \in Answer : Answered(s, q, r)
    BY <1>7 DEF Lookup, q
  <2> QED
    BY <1>1, <1>2, <1>3, <1>5, <1>7, <2>1, PlacedRow DEF Lookup
<1>8. CASE LookupFails(s)
  <2> DEFINE w == asked(run.write[s])
  <2>1. q # None /\ run' = [run EXCEPT !.todo = @ \ {s}, !.write[s].asked = q]
    BY <1>8 DEF LookupFails, q
  <2>2. w \in Row /\ w.verified = run.write[s].verified
          /\ (Graded(run.write[s]) => Graded(w))
    BY <1>2, <1>3, <2>1, AskedRow
  <2>3. run' = [run EXCEPT !.todo = @ \ {s}, !.write[s] = w]
    BY <2>1
  <2> HIDE DEF w
  <2>4. run' \in RunRecord /\ run'.write[s] = w
    BY <1>1, <2>2, <2>3 DEF RunRecord
  <2>5. /\ run'.read = run.read /\ run'.refresh = run.refresh
        /\ run'.todo = run.todo \ {s}
        /\ \A u \in Store : u # s => run'.write[u] = run.write[u]
    BY <1>1, <2>3 DEF RunRecord
  <2> QED
    BY <1>1, <1>8, <2>2, <2>4, <2>5 DEF LookupFails
<1> QED
  BY <1>1, <1>4, <1>6, <1>7, <1>8 DEF Step

LEMMA MergedType ==
  ASSUME Columns, Commit
  PROVE  /\ run \in RunRecord /\ run.todo = {} /\ run' = Idle
         /\ stores' = [s \in Store |-> Merge(stores[s], run.read[s], run.write[s])]
         /\ stores' \in [Store -> Row] /\ cache' = run.found
<1>1. run # Idle
  BY DEF Commit, Idle
<1>2. run \in RunRecord
  BY <1>1 DEF Columns
<1>3. \A s \in Store : stores[s] \in Row /\ run.read[s] \in Row /\ run.write[s] \in Row
  BY <1>2 DEF Columns, RunRecord
<1>4. \A s \in Store : Merge(stores[s], run.read[s], run.write[s]) \in Row
  BY <1>3, MergeRow
<1> QED
  BY <1>2, <1>4 DEF Commit

\* A run starts by hand or from the cycle.
LEMMA RunsStart ==
  ASSUME cmd_geocode \/ CycleGeocodes
  PROVE  \E limit \in Limit, refresh \in BOOLEAN : Start(limit, refresh)
BY LimitAssumption DEF cmd_geocode, CycleGeocodes

LEMMA StartType ==
  ASSUME Columns, NEW limit \in Limit, NEW refresh \in BOOLEAN, Start(limit, refresh)
  PROVE  /\ run = Idle /\ run' \in RunRecord
         /\ run'.read = stores /\ run'.write = stores /\ run'.found = cache
         /\ run'.refresh = refresh /\ run'.todo \subseteq Selected(refresh)
         /\ UNCHANGED <<stores, cache, paid, moves, rollbacks>>
<1> DEFINE batch == Limited(Selected(refresh), limit)
<1>1. batch \subseteq Selected(refresh) /\ Selected(refresh) \subseteq Store
  BY DEF Limited, Selected
<1>2. run = Idle
  BY DEF Start, Columns, RunRecord
<1>3. run' = [Idle EXCEPT !.on = TRUE, !.refresh = refresh, !.todo = batch,
                          !.read = stores, !.write = stores, !.found = cache]
  BY DEF Start
<1> HIDE DEF batch
<1>4. run' = [on |-> TRUE, refresh |-> refresh, todo |-> batch, read |-> stores,
              write |-> stores, found |-> cache]
  BY <1>3 DEF Idle
<1>5. run' \in RunRecord
  BY <1>1, <1>4 DEF RunRecord, Columns
<1>6. /\ run'.read = stores /\ run'.write = stores /\ run'.found = cache
      /\ run'.refresh = refresh /\ run'.todo = batch
  BY <1>4
<1>7. UNCHANGED <<stores, cache, paid, moves, rollbacks>>
  BY DEF Start
<1> QED
  BY <1>1, <1>2, <1>5, <1>6, <1>7

LEMMA PaidType ==
  ASSUME Columns, NEW s \in Store, Step(s)
  PROVE  paid' \in [Query -> Nat]
BY DEF Columns, Step, NoAddress, FromCache, Lookup, LookupFails

LEMMA ColumnsInitially == Init => Columns
<1> SUFFICES ASSUME Init
             PROVE  Columns
  OBVIOUS
<1>1. ASSUME NEW s \in Store
      PROVE  stores[s] \in Row
  <2>1. PICK a \in Address : stores[s] = [address |-> a, at |-> None, confidence |-> None,
                                         verified |-> FALSE, asked |-> None]
    BY DEF Init
  <2>2. None \in Position /\ None \in 0..1000 \cup {None} /\ None \in Query \cup {None}
    BY DEF Position
  <2> QED
    BY <2>1, <2>2 DEF Row
<1>2. stores \in [Store -> Row]
  BY <1>1 DEF Init
<1> QED
  BY <1>2, BoundAssumption DEF Init, Columns

LEMMA ColumnsStep == Columns /\ [Next]_vars => Columns'
<1> SUFFICES ASSUME Columns, [Next]_vars
             PROVE  Columns'
  OBVIOUS
<1>1. ASSUME NEW limit \in Limit, NEW refresh \in BOOLEAN, Start(limit, refresh)
      PROVE  Columns'
  BY <1>1, StartType DEF Columns
<1>2. ASSUME NEW s \in Store, Step(s)
      PROVE  Columns'
  BY <1>2, StepShape, PaidType DEF Columns
<1>3. ASSUME NEW s \in Store, cmd_confirm(s)
      PROVE  Columns'
  <2>1. stores[s] \in Row
    BY DEF Columns
  <2>2. CASE stores' = [stores EXCEPT ![s].verified = TRUE]
    <3>1. [stores[s] EXCEPT !.verified = TRUE] \in Row
      BY <2>1, VerifiedRow
    <3> QED
      BY <1>3, <2>2, <3>1 DEF Columns, cmd_confirm, confirm
  <2>3. CASE stores' = [stores EXCEPT ![s] = [@ EXCEPT !.verified = TRUE, !.at = Human,
                                                      !.confidence = 1000]]
    <3> DEFINE row == [stores[s] EXCEPT !.verified = TRUE, !.at = Human, !.confidence = 1000]
    <3>1. row \in Row
      BY <2>1, GivenRow
    <3>2. stores' = [stores EXCEPT ![s] = row]
      BY <2>1, <2>3 DEF Columns
    <3> HIDE DEF row
    <3> QED
      BY <1>3, <3>1, <3>2 DEF Columns, cmd_confirm, confirm
  <2> QED
    BY <1>3, <2>2, <2>3 DEF cmd_confirm, confirm
<1>4. ASSUME NEW s \in Store, Move(s)
      PROVE  Columns'
  <2>1. PICK a \in Published[s] : stores' = [stores EXCEPT ![s].address = a]
    BY <1>4 DEF Move
  <2>2. a \in Address /\ stores[s] \in Row
    BY PublishedAssumption DEF Columns
  <2>3. [stores[s] EXCEPT !.address = a] \in Row
    BY <2>2 DEF Row
  <2>4. stores' \in [Store -> Row]
    BY <2>1, <2>3 DEF Columns
  <2>5. moves' \in 0..MaxEvents
    BY <1>4, BoundAssumption DEF Columns, Move
  <2> QED
    BY <1>4, <2>4, <2>5 DEF Columns, Move
<1>5. CASE Commit
  <2>1. cache' \in [Query -> Answer \cup {None}]
    BY <1>5, MergedType DEF RunRecord
  <2> QED
    BY <1>5, <2>1, MergedType DEF Columns, Commit
<1>6. CASE Rollback
  BY <1>6, BoundAssumption DEF Columns, Rollback
<1>7. CASE UNCHANGED vars
  BY <1>7 DEF Columns, vars
<1> QED
  BY <1>1, <1>2, <1>3, <1>4, <1>5, <1>6, <1>7, RunsStart DEF Next

LEMMA ColumnsHold == Spec => []Columns
BY ColumnsInitially, ColumnsStep, PTL DEF Spec

\* Every variable holds values of its column.
THEOREM GeocodeType == Spec => []TypeOK
<1>1. Columns => TypeOK
  <2> SUFFICES ASSUME Columns
               PROVE  TypeOK
    OBVIOUS
  <2>1. CASE run = Idle
    BY <2>1 DEF Columns, TypeOK, Idle
  <2>2. CASE run \in RunRecord
    BY <2>2 DEF Columns, TypeOK, RunRecord
  <2> QED
    BY <2>1, <2>2 DEF Columns
<1> QED
  BY <1>1, ColumnsHold, PTL

-----------------------------------------------------------------------------
(* A run and those beside it.                                              *)

\* What a run in progress may rely on: a row that nobody has verified is the row it has
\* read, a position it has not read is a person's, and only the rows of its batch differ
\* from what was read.
RunIsCurrent ==
  run \in RunRecord =>
    \A s \in Store :
      /\ Graded(run.write[s])
      /\ run.write[s].verified = run.read[s].verified
      /\ ~stores[s].verified => /\ ~run.read[s].verified
                                /\ run.read[s].at = stores[s].at
                                /\ run.read[s].confidence = stores[s].confidence
      /\ stores[s].at # run.read[s].at => stores[s].at = Human
      /\ s \in run.todo \/ run.write[s].at # run.read[s].at
           => run.refresh \/ run.read[s].at = None

RowsAreGraded == \A s \in Store : Graded(stores[s])

GeocodeInvariant == Columns /\ RowsAreGraded /\ RunIsCurrent

LEMMA IdleIsNoRecord == Idle \notin RunRecord
BY DEF Idle, RunRecord

LEMMA GeocodeInitially == Init => RowsAreGraded /\ RunIsCurrent
<1> SUFFICES ASSUME Init
             PROVE  RowsAreGraded /\ RunIsCurrent
  OBVIOUS
<1>1. \A s \in Store : stores[s].at = None
  BY DEF Init
<1>2. run \notin RunRecord
  BY IdleIsNoRecord DEF Init
<1> QED
  <2>1. \A s \in Store : stores[s].confidence = None
    BY DEF Init
  <2> QED
    BY <1>1, <1>2, <2>1, MarkerAssumption DEF RowsAreGraded, Graded, RunIsCurrent

\* The store a step is about is of the batch.
LEMMA StepOfBatch ==
  ASSUME Columns, NEW s \in Store, Step(s)
  PROVE  s \in run.todo
<1>1. run.todo # {} /\ run.todo \in SUBSET Nat /\ s = Min(run.todo)
  BY StepShape, StoreAssumption DEF RunRecord
<1> DEFINE T == run.todo
<1>2. \E m \in T : \A n \in T : m <= n
  BY <1>1, NatMinimum
<1> QED
  BY <1>1, <1>2 DEF Min

LEMMA CommitMerges ==
  ASSUME GeocodeInvariant, Commit, NEW s \in Store
  PROVE  /\ Graded(stores'[s]) /\ stores'[s].verified = stores[s].verified
         /\ stores'[s].at # stores[s].at =>
              \/ run.refresh
              \/ run.read[s].at = None /\ stores[s].at \in {None, Human}
<1> USE DEF GeocodeInvariant
<1> DEFINE row == stores[s]
           read == run.read[s]
           write == run.write[s]
<1>1. /\ run \in RunRecord /\ run.todo = {}
      /\ stores'[s] = Merge(row, read, write)
  BY MergedType
<1>2. row \in Row /\ read \in Row /\ write \in Row
  BY <1>1 DEF Columns, RunRecord
<1>3. /\ stores'[s].at = IF write.at # read.at THEN write.at ELSE row.at
      /\ stores'[s].verified = IF write.verified # read.verified THEN write.verified
                                ELSE row.verified
      /\ stores'[s].confidence = IF write.confidence # read.confidence
                                 THEN write.confidence ELSE row.confidence
  BY <1>1, <1>2, MergeRow
<1>4. /\ Graded(write) /\ write.verified = read.verified
      /\ ~row.verified => /\ ~read.verified /\ read.at = row.at
                          /\ read.confidence = row.confidence
      /\ row.at # read.at => row.at = Human
      /\ write.at # read.at => run.refresh \/ read.at = None
  BY <1>1 DEF RunIsCurrent
<1> DEFINE made == stores'[s]
<1> HIDE DEF row, read, write, made
<1>5. CASE row.verified
  <2>1. made.verified = row.verified
    BY <1>3, <1>4 DEF made
  <2>2. Graded(made)
    BY <1>5, <2>1 DEF Graded
  <2> QED
    BY <1>3, <1>4, <2>1, <2>2 DEF made, row, read
<1>6. CASE ~row.verified
  <2>1. made.at = write.at /\ made.confidence = write.confidence /\ ~write.verified
    BY <1>3, <1>4, <1>6 DEF made
  <2>2. Graded(made) /\ made.verified = row.verified
    BY <1>3, <1>4, <2>1 DEF Graded, made
  <2> QED
    BY <1>3, <1>4, <2>2 DEF made, row, read
<1> QED
  BY <1>5, <1>6

\* What a person or a store file does to a row leaves it current for a run, or verified.
LEMMA BesideARun ==
  ASSUME GeocodeInvariant, UNCHANGED run, NEW s \in Store,
         \A u \in Store : u # s => stores'[u] = stores[u],
         stores'[s].at \in {stores[s].at, Human},
         \/ stores'[s].verified
         \/ /\ stores'[s].verified = stores[s].verified /\ stores'[s].at = stores[s].at
            /\ stores'[s].confidence = stores[s].confidence
  PROVE  RowsAreGraded' /\ RunIsCurrent'
<1>1. \A u \in Store :
        /\ stores'[u].at \in {stores[u].at, Human}
        /\ \/ stores'[u].verified
           \/ /\ stores'[u].verified = stores[u].verified /\ stores'[u].at = stores[u].at
              /\ stores'[u].confidence = stores[u].confidence
  OBVIOUS
<1>2. \A u \in Store : Graded(stores'[u])
  BY <1>1 DEF GeocodeInvariant, RowsAreGraded, Graded
<1>3. RunIsCurrent'
  BY <1>1 DEF GeocodeInvariant, RunIsCurrent, Graded
<1> QED
  BY <1>2, <1>3 DEF RowsAreGraded, Graded

LEMMA ConfirmedShape ==
  ASSUME Columns, NEW s \in Store, cmd_confirm(s)
  PROVE  /\ stores'[s].verified
         /\ stores'[s].at = stores[s].at \/ stores'[s].at = Human
         /\ \A u \in Store : u # s => stores'[u] = stores[u]
         /\ UNCHANGED run
<1> DEFINE row == stores[s]
           given == [row EXCEPT !.verified = TRUE, !.at = Human, !.confidence = 1000]
           confirmed == [row EXCEPT !.verified = TRUE]
<1>1. row \in Row
  BY DEF Columns
<1>2. given.verified /\ given.at = Human
  BY <1>1 DEF Row
<1>3. confirmed.verified /\ confirmed.at = row.at
  BY <1>1 DEF Row
<1>4. stores' = [stores EXCEPT ![s] = confirmed] \/ stores' = [stores EXCEPT ![s] = given]
  BY DEF cmd_confirm, confirm
<1> HIDE DEF given, confirmed
<1> QED
  BY <1>2, <1>3, <1>4 DEF Columns, cmd_confirm, confirm

LEMMA GeocodeStep ==
  ASSUME GeocodeInvariant, [Next]_vars
  PROVE  RowsAreGraded' /\ RunIsCurrent'
<1> USE DEF GeocodeInvariant
<1>1. ASSUME NEW limit \in Limit, NEW refresh \in BOOLEAN, Start(limit, refresh)
      PROVE  RowsAreGraded' /\ RunIsCurrent'
  <2>1. /\ run'.read = stores /\ run'.write = stores /\ run'.refresh = refresh
        /\ run'.todo \subseteq Selected(refresh) /\ UNCHANGED stores
    BY <1>1, StartType
  <2> QED
    BY <2>1 DEF RowsAreGraded, Graded, RunIsCurrent, Selected
<1>2. ASSUME NEW s \in Store, Step(s)
      PROVE  RowsAreGraded' /\ RunIsCurrent'
  <2>1. /\ run \in RunRecord /\ run' \in RunRecord /\ s \in run.todo
        /\ run'.read = run.read /\ run'.refresh = run.refresh /\ run'.todo = run.todo \ {s}
        /\ \A u \in Store : u # s => run'.write[u] = run.write[u]
        /\ run'.write[s].verified = run.write[s].verified
        /\ Graded(run.write[s]) => Graded(run'.write[s])
        /\ UNCHANGED stores
    BY <1>2, StepShape, StepOfBatch
  <2>2. RowsAreGraded'
    BY <2>1 DEF RowsAreGraded, Graded
  <2>3. ASSUME NEW u \in Store
        PROVE  /\ Graded(run'.write[u])
               /\ run'.write[u].verified = run.write[u].verified
               /\ u \in run'.todo \/ run'.write[u].at # run.read[u].at
                    => run.refresh \/ run.read[u].at = None
    BY <2>1 DEF RunIsCurrent
  <2>4. RunIsCurrent'
    BY <2>1, <2>3 DEF RunIsCurrent, Graded
  <2> QED
    BY <2>2, <2>4
<1>3. ASSUME NEW s \in Store, cmd_confirm(s)
      PROVE  RowsAreGraded' /\ RunIsCurrent'
  <2>1. /\ stores'[s].verified /\ UNCHANGED run /\ stores'[s].at \in {stores[s].at, Human}
        /\ \A u \in Store : u # s => stores'[u] = stores[u]
    BY <1>3, ConfirmedShape
  <2> QED
    BY <2>1, BesideARun
<1>4. ASSUME NEW s \in Store, Move(s)
      PROVE  RowsAreGraded' /\ RunIsCurrent'
  <2>1. PICK a : stores' = [stores EXCEPT ![s].address = a]
    BY <1>4 DEF Move
  <2>2. stores[s] \in Row
    BY DEF Columns
  <2>3. /\ stores'[s].verified = stores[s].verified /\ stores'[s].at = stores[s].at
        /\ stores'[s].confidence = stores[s].confidence
    BY <2>1, <2>2 DEF Columns, Row
  <2>4. \A u \in Store : u # s => stores'[u] = stores[u]
    BY <2>1 DEF Columns
  <2> QED
    BY <1>4, <2>3, <2>4, BesideARun DEF Move
<1>5. CASE Commit
  <2>1. run' \notin RunRecord
    BY <1>5, MergedType, IdleIsNoRecord
  <2>2. \A s \in Store : Graded(stores'[s])
    BY <1>5, CommitMerges
  <2> QED
    BY <2>1, <2>2 DEF RowsAreGraded, Graded, RunIsCurrent
<1>6. CASE Rollback
  <2>1. run' \notin RunRecord /\ UNCHANGED stores
    BY <1>6, IdleIsNoRecord DEF Rollback
  <2> QED
    BY <2>1 DEF RowsAreGraded, Graded, RunIsCurrent
<1>7. CASE UNCHANGED vars
  BY <1>7 DEF RowsAreGraded, Graded, RunIsCurrent, vars
<1> QED
  BY <1>1, <1>2, <1>3, <1>4, <1>5, <1>6, <1>7, RunsStart DEF Next

LEMMA GeocodeIsInvariant == Spec => []GeocodeInvariant
<1>1. Init => GeocodeInvariant
  BY ColumnsInitially, GeocodeInitially DEF GeocodeInvariant
<1>2. GeocodeInvariant /\ [Next]_vars => GeocodeInvariant'
  BY ColumnsStep, GeocodeStep DEF GeocodeInvariant
<1> QED
  BY <1>1, <1>2, PTL DEF Spec

\* The rows of the queue as review_queue orders them.
QueueOrder == {rs \in ReviewQueue \X ReviewQueue : Worse(rs[1], rs[2])}

LEMMA QueueIsOrdered ==
  ASSUME GeocodeInvariant
  PROVE  /\ IsFiniteSet(ReviewQueue)
         /\ \A s \in ReviewQueue : Rank(s) \in Int /\ Rank(s) = Certainty(stores[s].at)
         /\ \A r, s \in ReviewQueue : r # s => <<r, s>> \in QueueOrder \/ <<s, r>> \in QueueOrder
         /\ \A r, s \in ReviewQueue : <<r, s>> \in QueueOrder => <<s, r>> \notin QueueOrder
         /\ \A r, s, u \in ReviewQueue :
              <<r, s>> \in QueueOrder /\ <<s, u>> \in QueueOrder => <<r, u>> \in QueueOrder
<1>1. IsFiniteSet(ReviewQueue)
  BY FS_Subset, StoreAssumption DEF ReviewQueue
<1>2. ASSUME NEW s \in ReviewQueue
      PROVE  s \in Nat /\ Rank(s) \in Int /\ Rank(s) = Certainty(stores[s].at)
  <2>1. s \in Store /\ Graded(stores[s]) /\ ~stores[s].verified
    BY DEF ReviewQueue, GeocodeInvariant, RowsAreGraded
  <2>2. Confidence(stores[s].at.by) \in 0..1000
    BY ConfidenceRange
  <2> QED
    BY <2>1, <2>2, StoreAssumption, NoneAssumption DEF Graded, Rank, Certainty
<1>3. \A r, s \in ReviewQueue : <<r, s>> \in QueueOrder <=> Worse(r, s)
  BY DEF QueueOrder
<1> HIDE DEF QueueOrder
<1> QED
  BY <1>1, <1>2, <1>3 DEF Worse

\* review_queue and cmd_review: an unverified row whose position the provider doubts is
\* listed.
LEMMA UnverifiedIsListed ==
  GeocodeInvariant => \A s \in Store : Doubted(s) /\ ~stores[s].verified => Listed(s)
<1>1. ASSUME GeocodeInvariant, NEW s \in Store, Doubted(s), ~stores[s].verified
      PROVE  s \in ReviewQueue
  <2>1. CASE stores[s].at = None
    BY <1>1, <2>1 DEF ReviewQueue
  <2>2. CASE stores[s].at # None
    <3>1. /\ stores[s].confidence = Confidence(stores[s].at.by)
          /\ Certainty(stores[s].at) = Confidence(stores[s].at.by)
      BY <1>1, <2>2 DEF GeocodeInvariant, RowsAreGraded, Graded, Certainty
    <3>2. Confidence(stores[s].at.by) # None
      BY ConfidenceRange, NoneAssumption
    <3> QED
      BY <1>1, <2>2, <3>1, <3>2 DEF ReviewQueue, Doubted
  <2> QED
    BY <2>1, <2>2
<1>2. ASSUME GeocodeInvariant, NEW s \in ReviewQueue, NEW limit \in Limit \ {0},
             s \notin cmd_review(limit)
      PROVE  /\ Cardinality(cmd_review(limit)) = limit
             /\ \A r \in cmd_review(limit) : Certainty(stores[r].at) <= Certainty(stores[s].at)
  <2> DEFINE Before(r) == Preceding(ReviewQueue, QueueOrder, r)
  <2>1. \A r \in ReviewQueue : {u \in ReviewQueue : Worse(u, r)} = Before(r)
    BY DEF Preceding, QueueOrder
  <2>2. cmd_review(limit) = {r \in ReviewQueue : Cardinality(Before(r)) < limit}
    BY <2>1 DEF cmd_review
  <2>3. /\ \A r, u \in ReviewQueue :
             <<r, u>> \in QueueOrder <=> Cardinality(Before(r)) < Cardinality(Before(u))
        /\ \A r \in ReviewQueue : /\ Cardinality(Before(r)) \in Nat
                                   /\ Cardinality(Before(r)) + 1 \in 1..Cardinality(ReviewQueue)
    BY <1>2, QueueIsOrdered, EveryPlaceIsTaken
  <2>4. limit \in Nat /\ Cardinality(Before(s)) >= limit
    BY <1>2, <2>2, <2>3, LimitAssumption
  <2>5. limit \in 0..Cardinality(ReviewQueue)
    BY <1>2, <2>3, <2>4, QueueIsOrdered, FS_CardinalityType
  <2>6. Cardinality({r \in ReviewQueue : Cardinality(Before(r)) < limit}) = limit
    BY <1>2, <2>5, QueueIsOrdered, FirstRows
  <2>7. ASSUME NEW r \in cmd_review(limit)
        PROVE  Certainty(stores[r].at) <= Certainty(stores[s].at)
    <3>1. r \in ReviewQueue /\ <<r, s>> \in QueueOrder
      BY <1>2, <2>2, <2>3, <2>4
    <3>2. Worse(r, s)
      BY <3>1 DEF QueueOrder
    <3> QED
      BY <1>2, <3>1, <3>2, QueueIsOrdered DEF Worse
  <2> QED
    BY <2>2, <2>6, <2>7
<1> QED
  BY <1>1, <1>2 DEF Listed

\* A position changes by a person's hand or at the end of a run.
LEMMA WhoMovesAStore ==
  ASSUME GeocodeInvariant, [Next]_vars, NEW s \in Store, stores'[s].at # stores[s].at
  PROVE  \/ stores'[s].at = Human
         \/ /\ run.on /\ stores'[s].verified = stores[s].verified
            /\ \/ run.refresh
               \/ run.read[s].at = None /\ stores[s].at \in {None, Human}
<1>1. CASE Commit
  BY <1>1, CommitMerges DEF Commit
<1>2. ASSUME NEW u \in Store, cmd_confirm(u)
      PROVE  stores'[s].at = Human
  BY <1>2, ConfirmedShape DEF GeocodeInvariant
<1>3. ASSUME NEW u \in Store, Move(u)
      PROVE  FALSE
  <2>1. stores[u] \in Row
    BY DEF GeocodeInvariant, Columns
  <2> QED
    BY <1>3, <2>1 DEF Move, GeocodeInvariant, Columns, Row
<1>4. ASSUME NEW u \in Store, Step(u)
      PROVE  FALSE
  BY <1>4, StepShape DEF GeocodeInvariant
<1>5. ASSUME NEW limit \in Limit, NEW refresh \in BOOLEAN, Start(limit, refresh)
      PROVE  FALSE
  BY <1>5 DEF Start
<1> QED
  BY <1>1, <1>2, <1>3, <1>4, <1>5, RunsStart DEF Next, Rollback, vars

\* cmd_review: a doubtful position leaves the list by a person's confirmation alone, and
\* a run puts one past the list only over a row that a person confirmed, told to refresh
\* or having read the row without a position.
THEOREM DoubtsAreListed == Spec => DoubtIsListed
<1> DEFINE Unlisted(s) == Doubted(s) /\ ~Listed(s)
           R == \A s \in Store : Unlisted(s) => stores[s].verified
           A == \A s \in Store : Unlisted(s)' =>
                  \/ stores'[s].verified /\ stores'[s].at = stores[s].at
                  \/ stores[s].verified /\ run.on /\ (run.refresh \/ run.read[s].at = None)
<1>1. GeocodeInvariant => R
  BY UnverifiedIsListed
<1>2. GeocodeInvariant /\ R' /\ [Next]_vars => [A]_vars
  <2> SUFFICES ASSUME GeocodeInvariant, R', [Next]_vars, NEW s \in Store, Unlisted(s)'
               PROVE  \/ stores'[s].verified /\ stores'[s].at = stores[s].at
                      \/ /\ stores[s].verified /\ run.on
                         /\ run.refresh \/ run.read[s].at = None
    OBVIOUS
  <2>1. stores'[s].verified /\ stores'[s].at # Human
    BY DEF Doubted
  <2> QED
    BY <2>1, WhoMovesAStore
<1> QED
  BY <1>1, <1>2, GeocodeIsInvariant, PTL DEF Spec, DoubtIsListed

\* geocode_stores: only a person moves a placed store, or a run that was told to; a run
\* that read the store before it was placed replaces what a person gave it meanwhile, and
\* nothing that another run has found.
THEOREM PlacedIsKept == Spec => PlacedIsLeftAlone
<1>1. GeocodeInvariant /\ [Next]_vars =>
        [\A s \in Store :
           stores'[s].at # stores[s].at /\ stores[s].at # None =>
             \/ stores'[s].at = Human
             \/ run.on /\ (run.refresh \/ (run.read[s].at = None /\ stores[s].at = Human))]_vars
  BY WhoMovesAStore
<1> QED
  BY <1>1, GeocodeIsInvariant, PTL DEF Spec, PlacedIsLeftAlone

-----------------------------------------------------------------------------
(* The bill.                                                               *)

\* A query without an answer on record has cost nothing but lost runs.
Owed(answers) == \A q \in Query : answers[q] = None => paid[q] <= rollbacks

Bill ==
  /\ BilledOnce
  /\ run = Idle => Owed(cache)
  /\ run \in RunRecord => Owed(run.found)

LEMMA BillStep ==
  ASSUME Columns, Bill, [Next]_vars
  PROVE  Bill'
<1>1. rollbacks \in Nat /\ \A q \in Query : paid[q] \in Nat
  BY BoundAssumption DEF Columns
<1>2. Idle \notin RunRecord
  BY IdleIsNoRecord
<1>3. ASSUME NEW limit \in Limit, NEW refresh \in BOOLEAN, Start(limit, refresh)
      PROVE  Bill'
  BY <1>2, <1>3, StartType DEF Bill, BilledOnce, Owed
<1>4. ASSUME NEW s \in Store, Step(s)
      PROVE  Bill'
  <2> DEFINE q == build_query(run.read[s].address)
  <2>1. run \in RunRecord /\ run' \in RunRecord /\ UNCHANGED <<cache, rollbacks>>
    BY <1>4, StepShape
  <2>2. run.read[s].address \in Address
    BY <2>1 DEF RunRecord, Row
  <2>3. q # None => q \in Query
    BY <2>2, QueryType
  <2> HIDE DEF q
  <2>4. CASE UNCHANGED paid /\ run'.found = run.found
    BY <1>2, <2>1, <2>4 DEF Bill, BilledOnce, Owed
  <2>5. CASE NoAddress(s) \/ LookupFails(s)
    <3>1. run'.found = run.found
      BY <2>1, <2>5 DEF NoAddress, LookupFails, RunRecord
    <3> QED
      BY <2>4, <2>5, <3>1 DEF NoAddress, LookupFails
  <2>6. CASE FromCache(s)
    <3>1. Answered(s, q, run.found[q]) /\ UNCHANGED paid
      BY <2>6 DEF FromCache, Known, q
    <3>2. run'.found = [run.found EXCEPT ![q] = run.found[q]]
      BY <2>1, <3>1 DEF Answered, RunRecord
    <3>3. run'.found = run.found
      BY <2>1, <3>2 DEF RunRecord
    <3> QED
      BY <2>4, <3>1, <3>3
  <2>7. CASE Lookup(s)
    <3>1. q \in Query /\ run.found[q] = None /\ paid' = [paid EXCEPT ![q] = @ + 1]
      BY <2>3, <2>7 DEF Lookup, Known, q
    <3>2. PICK r \in Answer : Answered(s, q, r)
      BY <2>7 DEF Lookup, q
    <3>3. run'.found = [run.found EXCEPT ![q] = r]
      BY <2>1, <3>2 DEF Answered, RunRecord
    <3>4. r # None
      BY NoneAssumption DEF Answer
    <3>5. paid[q] <= rollbacks
      BY <2>1, <3>1 DEF Bill, Owed
    <3>6. \A k \in Query : paid'[k] <= 1 + rollbacks
      BY <1>1, <3>1, <3>5 DEF Bill, BilledOnce, Columns
    <3>7. \A k \in Query : run'.found[k] = None => paid'[k] <= rollbacks
      BY <1>1, <2>1, <3>1, <3>3, <3>4 DEF Bill, Owed, Columns, RunRecord
    <3> QED
      BY <1>2, <2>1, <3>6, <3>7 DEF Bill, BilledOnce, Owed
  <2> QED
    BY <1>4, <2>5, <2>6, <2>7 DEF Step
<1>5. CASE Commit
  BY <1>2, <1>5, MergedType DEF Commit, Bill, BilledOnce, Owed
<1>6. CASE Rollback
  <2>1. run' = Idle /\ rollbacks' = rollbacks + 1 /\ UNCHANGED <<cache, paid>>
    BY <1>6 DEF Rollback
  <2>2. \A q \in Query : paid[q] <= 1 + rollbacks
    BY DEF Bill, BilledOnce
  <2> QED
    BY <1>1, <1>2, <2>1, <2>2 DEF Bill, BilledOnce, Owed
<1>7. ASSUME NEW s \in Store, cmd_confirm(s) \/ Move(s)
      PROVE  Bill'
  BY <1>7 DEF cmd_confirm, confirm, Move, Bill, BilledOnce, Owed
<1>8. CASE UNCHANGED vars
  BY <1>8 DEF vars, Bill, BilledOnce, Owed
<1> QED
  BY <1>3, <1>4, <1>5, <1>6, <1>7, <1>8, RunsStart DEF Next

\* geocode_cache: no query is billed twice, but for the runs whose transaction was lost.
THEOREM NothingIsBilledTwice == Spec => []BilledOnce
<1>1. Init => Bill
  <2> SUFFICES ASSUME Init
               PROVE  Bill
    OBVIOUS
  <2>1. Idle \notin RunRecord
    BY IdleIsNoRecord
  <2>2. rollbacks = 0 /\ run = Idle /\ \A q \in Query : paid[q] = 0
    BY DEF Init
  <2> QED
    BY <2>1, <2>2 DEF Bill, BilledOnce, Owed
<1>2. Bill => BilledOnce
  BY DEF Bill
<1> QED
  BY <1>1, <1>2, BillStep, ColumnsHold, PTL DEF Spec
=============================================================================
