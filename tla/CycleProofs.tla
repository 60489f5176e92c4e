----------------------------- MODULE CycleProofs -----------------------------
(***************************************************************************)
(* Proofs about Cycle.  With one job at a time, for any chains, files and  *)
(* sizes and however often downloads, parsing, the database or the process *)
(* fail: nothing staged is deleted before a fold has read it, nothing on   *)
(* record is lost, and no chain ingests another chain's leftovers.         *)
(*                                                                         *)
(* The types hold for any number of jobs.  The rest needs `Alone', and the *)
(* violation run of CycleOverlap.cfg shows why.                            *)
(***************************************************************************)
EXTENDS Cycle, SetFacts, SequenceTheorems

\* No two jobs run side by side.
Alone == \A u, w \in Worker : u = w

-----------------------------------------------------------------------------
(* The type invariant.                                                     *)

Shape(j) ==
  /\ j \in Job
  /\ j.chain = None <=> j.pc \in {"idle", "decide", "prices", "purge"}
  /\ j.pc \in {"snapshot", "fetch"} => j.left # <<>>

LEMMA HalvesType ==
  ASSUME NEW w \in Worker
  PROVE  Halves(w) \in Seq(SUBSET FileKinds) /\ Halves(w) # <<>>
<1> DEFINE kinds == SUBSET FileKinds
<1>1. /\ {"stores", "unknown"} \in kinds /\ {"price_full", "promo_full", "unknown"} \in kinds
      /\ {"price_delta", "promo_delta", "unknown"} \in kinds
  BY DEF FileKinds
<1> HIDE DEF kinds
<1>2. \A a, b \in kinds : <<a, b>> \in Seq(kinds) /\ <<a>> \in Seq(kinds)
                            /\ <<a, b>> # <<>> /\ <<a>> # <<>>
  OBVIOUS
<1>3. Halves(w) \in Seq(kinds) /\ Halves(w) # <<>>
  BY <1>1, <1>2 DEF Halves
<1> QED
  BY <1>3 DEF kinds

LEMMA NothingKnownType == NothingKnown \in [File -> Nat \cup {None}]
BY DEF NothingKnown

LEMMA IdleShape == Shape(Idle)
BY NothingKnownType DEF Shape, Job, Idle

LEMMA NextChainShape ==
  ASSUME NEW w \in Worker, NEW j \in Job
  PROVE  Shape(NextChain(w, j))
<1>1. CASE j.todo = {}
  <2>1. NextChain(w, j) = [j EXCEPT !.pc = "decide", !.chain = None, !.files = {},
                                    !.error = FALSE]
    BY <1>1 DEF NextChain
  <2> QED
    BY <2>1 DEF Shape, Job
<1>2. CASE j.todo # {}
  <2> DEFINE c == CHOOSE c \in j.todo : \A d \in j.todo : c <= d
  <2>1. j.todo \in SUBSET Nat /\ j.todo \subseteq Chain
    BY ChainAssumption DEF Job
  <2>2. c \in j.todo
    BY <1>2, <2>1, NatMinimum
  <2>3. c \in Chain /\ c # None
    BY <2>1, <2>2, NoneAssumption
  <2>4. NextChain(w, j) = [j EXCEPT !.pc = "snapshot", !.chain = c, !.todo = @ \ {c},
                                    !.left = Halves(w), !.files = {}, !.error = FALSE]
    BY <1>2 DEF NextChain
  <2>5. Halves(w) \in Seq(SUBSET FileKinds) /\ Halves(w) # <<>>
    BY HalvesType
  <2> DEFINE h == Halves(w)
  <2> HIDE DEF c, h
  <2>6. NextChain(w, j) \in Job
    BY <2>1, <2>3, <2>4, <2>5 DEF Job, h
  <2>7. /\ NextChain(w, j).chain = c /\ NextChain(w, j).pc = "snapshot"
        /\ NextChain(w, j).left = h
    BY <2>4 DEF Job, h
  <2> QED
    BY <2>3, <2>5, <2>6, <2>7 DEF Shape, h
<1> QED
  BY <1>1, <1>2

\* The jobs' part of TypeOK.
Shapes == job \in [Worker -> Job] /\ \A w \in Worker : Shape(job[w])

\* The tables' part.
Tables ==
  /\ portal \in [File -> Version \cup {None}]
  /\ disk \in [File -> Version \cup {None}]
  /\ registry \in [Chain -> [File -> Nat \cup {None}]]
  /\ staging \subseteq Row
  /\ stores \subseteq Chain
  /\ variants \subseteq Chain \X File
  /\ folded \subseteq [row : Row, attached : BOOLEAN]
  /\ faults \in [count : Nat, kinds : SUBSET Fault]

LEMMA TypeParts == TypeOK <=> Tables /\ Shapes
BY DEF TypeOK, Tables, Shapes, Shape

LEMMA ShapeUpdate ==
  ASSUME Shapes, NEW w \in Worker, NEW j, Shape(j), job' = [job EXCEPT ![w] = j]
  PROVE  Shapes'
BY DEF Shapes, Shape

LEMMA FaultsType ==
  ASSUME Tables, NEW kind, MayFail(kind), Failed(kind)
  PROVE  faults' \in [count : Nat, kinds : SUBSET Fault]
BY DEF Tables, MayFail, Failed

LEMMA ScrapeType ==
  ASSUME Tables, NEW w \in Worker, NEW got, Scrape(w, got)
  PROVE  disk' \in [File -> Version \cup {None}]
BY DEF Tables, Scrape

\* A job between its last file and its next half.
LEMMA HalfDoneShape ==
  ASSUME NEW j \in Job, j.left # <<>>, j.chain # None
  PROVE  Shape(HalfDone(j))
<1> DEFINE kinds == SUBSET FileKinds
<1>1. j.left \in Seq(kinds)
  BY DEF Job
<1>2. Tail(j.left) \in Seq(kinds)
  <2> HIDE DEF kinds
  <2> QED
    BY <1>1, HeadTailProperties
<1>3. Len(j.left) # 1 => Tail(j.left) # <<>>
  <2> HIDE DEF kinds
  <2>1. Len(Tail(j.left)) = Len(j.left) - 1 /\ Len(j.left) \in Nat
    BY <1>1, HeadTailProperties, LenProperties
  <2>2. Tail(j.left) = <<>> => Len(Tail(j.left)) = 0
    BY <1>2, EmptySeq, ZenonT(20)
  <2> DEFINE n == Len(j.left)
             m == Len(Tail(j.left))
  <2>3. m = n - 1 /\ n \in Nat /\ (Tail(j.left) = <<>> => m = 0)
    BY <2>1, <2>2
  <2> HIDE DEF n, m
  <2>4. n # 1 => Tail(j.left) # <<>>
    BY <2>3
  <2> QED
    BY <2>4 DEF n
<1> DEFINE pc == IF Len(j.left) = 1 THEN "open" ELSE "snapshot"
           rest == Tail(j.left)
           k == [j EXCEPT !.before = {}, !.left = rest, !.pc = pc]
<1>4. /\ pc \in {"open", "snapshot"} /\ (pc = "snapshot" => rest # <<>>)
      /\ rest \in Seq(SUBSET FileKinds)
  BY <1>2, <1>3
<1>5. HalfDone(j) = k
  BY DEF HalfDone, Job
<1> HIDE DEF pc, rest
<1>6. k \in Job
  BY <1>4 DEF Job
<1>7. k.pc = pc /\ k.left = rest /\ k.chain = j.chain
  BY DEF Job
<1> QED
  BY <1>4, <1>5, <1>6, <1>7 DEF Shape

\* A step that leaves the tables' types and gives job w a shape keeps TypeOK.
LEMMA StepTypes ==
  ASSUME TypeOK, Tables', NEW w \in Worker, NEW j, Shape(j), Becomes(w, j)
  PROVE  TypeOK'
<1>1. Shapes'
  BY ShapeUpdate, TypeParts DEF Becomes
<1> QED
  BY <1>1 DEF TypeOK, Tables, Shapes, Shape

LEMMA StartTypes ==
  ASSUME TypeOK, NEW w \in Worker, Start(w)
  PROVE  TypeOK'
<1> DEFINE j == [Idle EXCEPT !.todo = Chain]
<1>1. j \in Job
  BY IdleShape DEF Shape, Job
<1> HIDE DEF j
<1>2. Shape(NextChain(w, j))
  BY <1>1, NextChainShape
<1>3. Becomes(w, NextChain(w, j))
  BY DEF Start, j
<1>4. Tables'
  BY TypeParts DEF Start, Tables, tables
<1> QED
  BY <1>2, <1>3, <1>4, StepTypes

LEMMA SnapshotTypes ==
  ASSUME TypeOK, NEW w \in Worker, Snapshot(w)
  PROVE  TypeOK'
<1> DEFINE j == IF job[w].chain \in Disabled
                THEN [job[w] EXCEPT !.pc = "open"]
                ELSE [job[w] EXCEPT !.pc = "fetch", !.before = Present(disk)]
<1>1. Shape(job[w]) /\ job[w].pc = "snapshot"
  BY TypeParts DEF Shapes, Snapshot
<1>2. Present(disk) \subseteq File
  BY DEF Present
<1>3. Shape(j)
  BY <1>1, <1>2 DEF Shape, Job
<1>4. Becomes(w, j)
  BY DEF Snapshot
<1>5. Tables'
  BY TypeParts DEF Snapshot, Tables, tables
<1> HIDE DEF j
<1> QED
  BY <1>3, <1>4, <1>5, StepTypes

LEMMA FetchTypes ==
  ASSUME TypeOK, NEW w \in Worker, NEW got, Fetch(w, got)
  PROVE  TypeOK'
<1> DEFINE new == job[w].files \cup NewFiles(disk', job[w].before)
           j == [job[w] EXCEPT !.files = new]
<1>1. Shape(job[w]) /\ job[w].pc = "fetch" /\ job[w] \in Job
  BY TypeParts DEF Shapes, Shape, Fetch, Scrape
<1>2. new \in SUBSET File
  BY <1>1 DEF NewFiles, Present, Job
<1>3. Becomes(w, HalfDone(j))
  BY <1>1 DEF Fetch, Job
<1> HIDE DEF new
<1>4. j \in Job /\ j.left # <<>> /\ j.chain # None
  BY <1>1, <1>2 DEF Shape, Job
<1> HIDE DEF j
<1>5. Shape(HalfDone(j))
  BY <1>4, HalfDoneShape
<1>6. Tables'
  BY TypeParts, ScrapeType DEF Fetch, Tables, tables
<1> QED
  BY <1>3, <1>5, <1>6, StepTypes

LEMMA FetchFailsTypes ==
  ASSUME TypeOK, NEW w \in Worker, NEW got, FetchFails(w, got)
  PROVE  TypeOK'
<1> DEFINE j == [job[w] EXCEPT !.error = TRUE]
<1>1. Shape(job[w]) /\ job[w].pc = "fetch" /\ job[w] \in Job
  BY TypeParts DEF Shapes, Shape, FetchFails, Scrape
<1>2. Becomes(w, HalfDone(j))
  BY DEF FetchFails
<1>3. j \in Job /\ j.left # <<>> /\ j.chain # None
  BY <1>1 DEF Shape, Job
<1> HIDE DEF j
<1>4. Shape(HalfDone(j))
  BY <1>3, HalfDoneShape
<1>5. Tables'
  BY TypeParts, ScrapeType, FaultsType DEF FetchFails, Tables, tables
<1> QED
  BY <1>2, <1>4, <1>5, StepTypes

LEMMA OpenChainTypes ==
  ASSUME TypeOK, NEW w \in Worker, OpenChain(w)
  PROVE  TypeOK'
<1> DEFINE known == registry[job[w].chain]
           j == [job[w] EXCEPT !.pc = "load", !.known = known]
<1>1. Shape(job[w]) /\ job[w].pc = "open" /\ job[w] \in Job
  BY TypeParts DEF Shapes, Shape, OpenChain
<1>2. job[w].chain \in Chain
  BY <1>1 DEF Shape, Job
<1>3. known \in [File -> Nat \cup {None}]
  BY <1>2 DEF TypeOK
<1>4. Becomes(w, j)
  BY DEF OpenChain
<1> HIDE DEF known
<1>5. Shape(j)
  BY <1>1, <1>3 DEF Shape, Job
<1>6. Tables'
  BY TypeParts DEF OpenChain, Tables, tables
<1> HIDE DEF j
<1> QED
  BY <1>4, <1>5, <1>6, StepTypes

LEMMA SizeType ==
  ASSUME NEW d \in [File -> Version \cup {None}], NEW f \in File
  PROVE  SizeOnDisk(d, f) \in Nat
BY VersionAssumption DEF SizeOnDisk

LEMMA RememberType ==
  ASSUME NEW d \in [File -> Version \cup {None}], NEW known \in [File -> Nat \cup {None}],
         NEW fresh, NEW good
  PROVE  Remember(known, fresh, good, d) \in [File -> Nat \cup {None}]
BY SizeType DEF Remember

LEMMA OutcomeType ==
  ASSUME NEW j, Shape(j), NEW status, NEW rows \in BOOLEAN, NEW pc, j.pc = "load",
         pc = "discard"
  PROVE  Shape([Outcome(j, status, rows) EXCEPT !.pc = pc])
<1> DEFINE h == j.healthy \/ status \in HEALTHY_STATUSES
           r == j.rows \/ rows
           k == [j EXCEPT !.healthy = h, !.rows = r, !.known = NothingKnown, !.pc = pc]
<1>1. h \in BOOLEAN /\ r \in BOOLEAN
  OBVIOUS
<1>2. [Outcome(j, status, rows) EXCEPT !.pc = pc] = k
  BY DEF Outcome, Shape, Job
<1> HIDE DEF h, r
<1>3. Shape(k)
  BY <1>1, NothingKnownType DEF Shape, Job
<1> QED
  BY <1>2, <1>3

\* The parts of LoadChain, for the case where job w reads `bad' files.
Fresh(w) == job[w].files \ Known(job[w].known, disk)
PricedOf(w, bad) == {f \in Fresh(w) \ bad : IsPrice(f)}
RowOf(w, bad, f) == [chain |-> job[w].chain, file |-> f, version |-> disk[f],
                     whole |-> f \in PricedOf(w, bad)]
Loaded(w, bad, torn) == {f \in PricedOf(w, bad) \cup torn : IsPrice(f)}
Remembered(w, bad) == Remember(registry[job[w].chain], Fresh(w), Fresh(w) \ bad, disk)

LEMMA LoadChainParts ==
  ASSUME TypeOK, NEW w \in Worker, NEW bad, NEW torn, LoadChain(w, bad, torn)
  PROVE  /\ job[w].chain \in Chain /\ job[w].pc = "load" /\ Fresh(w) \subseteq File
         /\ Loaded(w, bad, torn) \subseteq Present(disk) \cap Fresh(w)
         /\ registry' = [registry EXCEPT ![job[w].chain] = Remembered(w, bad)]
         /\ staging' = staging \cup {RowOf(w, bad, f) : f \in Loaded(w, bad, torn)}
         /\ stores' \subseteq Chain
         /\ \E status : Becomes(w, [Outcome(job[w], status, PricedOf(w, bad) # {})
                                      EXCEPT !.pc = "discard"])
         /\ UNCHANGED <<portal, disk, variants, folded>>
         /\ UNCHANGED faults \/ (MayFail("parse") /\ Failed("parse"))
<1>1. job[w] \in Job /\ Shape(job[w]) /\ job[w].pc = "load"
  BY TypeParts DEF Shapes, Shape, LoadChain
<1>2. job[w].chain \in Chain /\ job[w].files \subseteq File
  BY <1>1 DEF Shape, Job
<1>3. Fresh(w) \subseteq File
  BY <1>2 DEF Fresh
<1>4. Loaded(w, bad, torn) \subseteq Present(disk) \cap Fresh(w)
  <2>1. \A f \in Fresh(w) : IsParsed(f) /\ f \notin Present(disk) => f \in bad
    BY DEF LoadChain, Fresh
  <2>2. bad \subseteq Fresh(w) /\ torn \subseteq bad \cap Present(disk)
    BY DEF LoadChain, Fresh
  <2> QED
    BY <2>1, <2>2 DEF Loaded, PricedOf, IsParsed
<1>5. registry' = [registry EXCEPT ![job[w].chain] = Remembered(w, bad)]
  BY DEF LoadChain, Remembered, Fresh
<1>6. staging' = staging \cup {RowOf(w, bad, f) : f \in Loaded(w, bad, torn)}
  BY DEF LoadChain, RowOf, Loaded, PricedOf, Fresh
<1>7. stores' \subseteq Chain
  BY <1>2 DEF LoadChain, TypeOK
<1>8. \E status : Becomes(w, [Outcome(job[w], status, PricedOf(w, bad) # {})
                                EXCEPT !.pc = "discard"])
  BY DEF LoadChain, PricedOf, Fresh
<1>9. /\ UNCHANGED <<portal, disk, variants, folded>>
      /\ UNCHANGED faults \/ (MayFail("parse") /\ Failed("parse"))
  BY DEF LoadChain
<1> QED
  BY <1>1, <1>2, <1>3, <1>4, <1>5, <1>6, <1>7, <1>8, <1>9

LEMMA LoadChainTypes ==
  ASSUME TypeOK, NEW w \in Worker, NEW bad, NEW torn, LoadChain(w, bad, torn)
  PROVE  TypeOK'
<1> DEFINE rows == PricedOf(w, bad) # {}
<1>1. PICK status : Becomes(w, [Outcome(job[w], status, rows) EXCEPT !.pc = "discard"])
  BY LoadChainParts
<1>2. Shape([Outcome(job[w], status, rows) EXCEPT !.pc = "discard"])
  <2>1. rows \in BOOLEAN /\ Shape(job[w]) /\ job[w].pc = "load"
    BY LoadChainParts, TypeParts DEF Shapes
  <2> HIDE DEF rows
  <2> QED
    BY <2>1, OutcomeType
<1>3. /\ disk \in [File -> Version \cup {None}]
      /\ registry \in [Chain -> [File -> Nat \cup {None}]]
  BY DEF TypeOK
<1>4. registry' \in [Chain -> [File -> Nat \cup {None}]]
  <2>1. registry[job[w].chain] \in [File -> Nat \cup {None}]
    BY <1>3, LoadChainParts
  <2>2. Remembered(w, bad) \in [File -> Nat \cup {None}]
    BY <1>3, <2>1, RememberType DEF Remembered
  <2> QED
    BY <1>3, <2>2, LoadChainParts
<1>5. staging' \subseteq Row
  <2>1. \A f \in Loaded(w, bad, torn) : RowOf(w, bad, f) \in Row
    <3> SUFFICES ASSUME NEW f \in Loaded(w, bad, torn) PROVE RowOf(w, bad, f) \in Row
      OBVIOUS
    <3> DEFINE b == f \in PricedOf(w, bad)
               c == job[w].chain
    <3>1. f \in File /\ disk[f] \in Version
      BY <1>3, LoadChainParts DEF Present
    <3>2. b \in BOOLEAN /\ c \in Chain
      BY LoadChainParts
    <3> HIDE DEF b, c
    <3>3. [chain |-> c, file |-> f, version |-> disk[f], whole |-> b] \in Row
      BY <3>1, <3>2 DEF Row
    <3> QED
      BY <3>3 DEF RowOf, b, c
  <2>2. staging \subseteq Row
    BY DEF TypeOK
  <2> QED
    BY <2>1, <2>2, LoadChainParts
<1>6. faults' \in [count : Nat, kinds : SUBSET Fault]
  BY LoadChainParts, FaultsType, TypeParts DEF Tables
<1>7. Tables'
  BY <1>4, <1>5, <1>6, LoadChainParts DEF TypeOK, Tables
<1> DEFINE j == [Outcome(job[w], status, rows) EXCEPT !.pc = "discard"]
<1>8. Shape(j) /\ Becomes(w, j)
  BY <1>1, <1>2
<1> HIDE DEF j
<1> QED
  BY <1>7, <1>8, StepTypes

LEMMA LoadAbortsTypes ==
  ASSUME TypeOK, NEW w \in Worker, LoadAborts(w)
  PROVE  TypeOK'
<1> DEFINE j == [job[w] EXCEPT !.known = NothingKnown]
<1>1. job[w] \in Job
  BY DEF TypeOK
<1>2. j \in Job
  BY <1>1, NothingKnownType DEF Job
<1>3. Becomes(w, NextChain(w, j))
  BY DEF LoadAborts
<1>4. Tables'
  BY TypeParts, FaultsType DEF LoadAborts, Tables, tables
<1> HIDE DEF j
<1> QED
  BY <1>2, <1>3, <1>4, NextChainShape, StepTypes

LEMMA DiscardTypes ==
  ASSUME TypeOK, NEW w \in Worker, NEW kept, Discard(w, kept)
  PROVE  TypeOK'
<1>1. Shape(NextChain(w, job[w])) /\ Becomes(w, NextChain(w, job[w]))
  BY NextChainShape DEF TypeOK, Discard
<1>2. Tables'
  BY TypeParts, FaultsType DEF Discard, Tables, tables
<1> QED
  BY <1>1, <1>2, StepTypes

\* The steps that end a cycle.
LEMMA EndTypes ==
  ASSUME TypeOK, NEW w \in Worker,
         GiveUp(w) \/ NothingNew(w) \/ Purge(w) \/ Crash(w)
  PROVE  TypeOK'
<1>1. Becomes(w, Idle)
  BY DEF GiveUp, NothingNew, Purge, Crash
<1>2. Tables'
  BY TypeParts, FaultsType DEF GiveUp, NothingNew, Purge, Crash, Tables, tables
<1> QED
  BY <1>1, <1>2, IdleShape, StepTypes

LEMMA BuildTypes ==
  ASSUME TypeOK, NEW w \in Worker, Build(w)
  PROVE  TypeOK'
<1> DEFINE j == [job[w] EXCEPT !.pc = "prices"]
<1>1. Shape(job[w]) /\ job[w].pc = "decide"
  BY TypeParts DEF Shapes, Build
<1>2. Shape(j)
  BY <1>1 DEF Shape, Job
<1>3. Tables'
  BY TypeParts DEF Build, Tables, Row
<1>4. Becomes(w, j)
  BY DEF Build
<1> HIDE DEF j
<1> QED
  BY <1>2, <1>3, <1>4, StepTypes

LEMMA RebuildTypes ==
  ASSUME TypeOK, NEW w \in Worker, Rebuild(w)
  PROVE  TypeOK'
<1> DEFINE j == [job[w] EXCEPT !.pc = "purge"]
<1>1. Shape(job[w]) /\ job[w].pc = "prices"
  BY TypeParts DEF Shapes, Rebuild
<1>2. Shape(j)
  BY <1>1 DEF Shape, Job
<1>3. folded' \subseteq [row : Row, attached : BOOLEAN]
  <2>1. \A r \in staging : Attached(r) \in BOOLEAN
    BY DEF Attached
  <2>2. staging \subseteq Row /\ folded \subseteq [row : Row, attached : BOOLEAN]
    BY DEF TypeOK
  <2>3. folded' = folded \cup {[row |-> r, attached |-> Attached(r)] : r \in staging}
    BY DEF Rebuild
  <2> QED
    BY <2>1, <2>2, <2>3
<1>4. Tables'
  BY <1>3, TypeParts DEF Rebuild, Tables
<1>5. Becomes(w, j)
  BY DEF Rebuild
<1> HIDE DEF j
<1> QED
  BY <1>2, <1>4, <1>5, StepTypes

LEMMA PublishTypes ==
  ASSUME TypeOK, NEW f \in File, Publish(f)
  PROVE  TypeOK'
<1> DEFINE v == IF portal[f] = None THEN 1 ELSE portal[f] + 1
<1>1. v \in Version
  <2>1. Last[f] \in Version /\ 1..Last[f] \subseteq Version /\ v <= Last[f]
    BY VersionAssumption DEF Publish
  <2>2. portal \in [File -> Version \cup {None}]
    BY DEF TypeOK
  <2>3. portal[f] = None \/ portal[f] \in Nat \ {0}
    BY <2>2, VersionAssumption
  <2>4. v \in Nat \ {0}
    BY <2>3
  <2>5. Last[f] \in Nat
    BY <2>1, VersionAssumption
  <2> QED
    BY <2>1, <2>3
<1>2. portal' \in [File -> Version \cup {None}]
  BY <1>1 DEF Publish, TypeOK
<1>3. Tables' /\ Shapes'
  BY <1>2, TypeParts DEF Publish, Tables, Shapes, tables
<1> QED
  BY <1>3 DEF TypeOK, Tables, Shapes, Shape

LEMMA NextTypes ==
  ASSUME TypeOK, Next
  PROVE  TypeOK'
BY StartTypes, SnapshotTypes, FetchTypes, FetchFailsTypes, OpenChainTypes, LoadChainTypes,
   LoadAbortsTypes, DiscardTypes, EndTypes, BuildTypes, RebuildTypes, PublishTypes
   DEF Next, Work

LEMMA InitTypes == Init => TypeOK
<1> SUFFICES ASSUME Init PROVE TypeOK
  OBVIOUS
<1>1. Tables
  BY DEF Init, Tables
<1>2. Shapes
  BY IdleShape DEF Init, Shapes, Shape
<1> QED
  BY <1>1, <1>2, TypeParts

LEMMA TypesKept == TypeOK /\ [Next]_vars => TypeOK'
<1>1. TypeOK /\ UNCHANGED vars => TypeOK'
  BY DEF TypeOK, vars, tables
<1> QED
  BY <1>1, NextTypes

\* Whatever fails and however many jobs run, the tables and the jobs' locals have their
\* types; in particular a job holds a chain exactly while it works on one, and what it
\* is fetching is one of the halves it has left.
THEOREM TypeCorrectness == Spec => []TypeOK
BY InitTypes, TypesKept, PTL DEF Spec

-----------------------------------------------------------------------------
(* One job at a time.  The strengthening of the properties that is          *)
(* inductive: what a job knows of the disk and of the registry is current,  *)
(* its files are its chain's, and the registry remembers the newest of the  *)
(* versions that were staged, which neither disk nor portal precede.        *)

Rows == staging \cup {x.row : x \in folded}

\* A job's locals j agree with the disk, the registry, staging and the folded rows.
Agrees(j, d, known, staged, read) ==
  /\ j.pc = "fetch" => Present(d) \subseteq j.before
  /\ j.pc = "load" => j.known = known[j.chain]
  /\ j.pc = "purge" => \A r \in staged : \E x \in read : x.row = r
  /\ \A f \in j.files : ChainOf[f] = j.chain

Agreement == \A w \in Worker : Agrees(job[w], disk, registry, staging, folded)

\* m is the version the registry remembers of a file.
IsLatest(c, f, m) ==
  /\ registry[c][f] = Size[m]
  /\ portal[f] # None /\ m <= portal[f]
  /\ disk[f] # None => m <= disk[f]

PricedRows == \A r \in Rows : IsPrice(r.file)

Newest ==
  /\ \A f \in Present(disk) : f \in Present(portal) /\ disk[f] <= portal[f]
  /\ \A r \in Rows : r.whole =>
       \E m \in Version : r.version <= m /\ IsLatest(r.chain, r.file, m)

IInv ==
  /\ TypeOK
  /\ Agreement
  /\ OwnFilesOnly
  /\ PricedRows
  /\ RegisteredIsKept
  /\ Newest

\* With one job, the agreement after a step is that of the job that took it.
LEMMA AloneAgrees ==
  ASSUME Alone, TypeOK, NEW w \in Worker, NEW j, Becomes(w, j),
         Agrees(j, disk', registry', staging', folded')
  PROVE  Agreement'
<1>1. job' = [job EXCEPT ![w] = j] /\ job \in [Worker -> Job]
  BY DEF Becomes, TypeOK
<1>2. \A u \in Worker : job'[u] = j
  BY <1>1 DEF Alone
<1> QED
  BY <1>2 DEF Agreement

LEMMA NextChainFields ==
  ASSUME NEW w \in Worker, NEW j \in Job
  PROVE  NextChain(w, j).pc \in {"snapshot", "decide"} /\ NextChain(w, j).files = {}
BY DEF NextChain, Job

LEMMA HalfDoneFields ==
  ASSUME NEW j \in Job
  PROVE  /\ HalfDone(j).pc \in {"open", "snapshot"}
         /\ HalfDone(j).files = j.files /\ HalfDone(j).chain = j.chain
BY DEF HalfDone, Job

\* A job whose files are its chain's and that is at none of the three steps that
\* depend on what it read earlier.
LEMMA AgreesElsewhere ==
  ASSUME NEW j, NEW d, NEW known, NEW staged, NEW read,
         j.pc \notin {"fetch", "load", "purge"}, \A f \in j.files : ChainOf[f] = j.chain
  PROVE  Agrees(j, d, known, staged, read)
BY DEF Agrees

\* Steps that move a job on and leave all that the invariant is about.
LEMMA QuietStep ==
  ASSUME Alone, IInv, TypeOK', NEW w \in Worker, NEW j, Becomes(w, j),
         UNCHANGED <<portal, disk, registry, staging, folded>>,
         Agrees(j, disk, registry, staging, folded)
  PROVE  IInv'
<1>1. Agreement'
  BY AloneAgrees DEF IInv
<1>2. OwnFilesOnly' /\ PricedRows' /\ RegisteredIsKept' /\ Newest'
  BY DEF IInv, OwnFilesOnly, PricedRows, RegisteredIsKept, Newest, IsLatest, Rows, Present
<1> QED
  BY <1>1, <1>2 DEF IInv

LEMMA StartInv ==
  ASSUME Alone, IInv, TypeOK', NEW w \in Worker, Start(w)
  PROVE  IInv'
<1> DEFINE j == [Idle EXCEPT !.todo = Chain]
<1>1. j \in Job
  BY IdleShape DEF Shape, Job
<1> HIDE DEF j
<1>2. Becomes(w, NextChain(w, j)) /\ UNCHANGED <<portal, disk, registry, staging, folded>>
  BY DEF Start, j, tables
<1>3. Agrees(NextChain(w, j), disk, registry, staging, folded)
  BY <1>1, NextChainFields, AgreesElsewhere
<1> QED
  BY <1>2, <1>3, QuietStep

LEMMA SnapshotInv ==
  ASSUME Alone, IInv, TypeOK', NEW w \in Worker, Snapshot(w)
  PROVE  IInv'
<1> DEFINE j == IF job[w].chain \in Disabled
                THEN [job[w] EXCEPT !.pc = "open"]
                ELSE [job[w] EXCEPT !.pc = "fetch", !.before = Present(disk)]
<1>1. job[w] \in Job /\ \A f \in job[w].files : ChainOf[f] = job[w].chain
  BY DEF IInv, TypeOK, Agreement, Agrees
<1>2. Agrees(j, disk, registry, staging, folded)
  BY <1>1 DEF Agrees, Job
<1>3. Becomes(w, j) /\ UNCHANGED <<portal, disk, registry, staging, folded>>
  BY DEF Snapshot, tables
<1> HIDE DEF j
<1> QED
  BY <1>2, <1>3, QuietStep

LEMMA OpenChainInv ==
  ASSUME Alone, IInv, TypeOK', NEW w \in Worker, OpenChain(w)
  PROVE  IInv'
<1> DEFINE j == [job[w] EXCEPT !.pc = "load", !.known = registry[job[w].chain]]
<1>1. job[w] \in Job /\ \A f \in job[w].files : ChainOf[f] = job[w].chain
  BY DEF IInv, TypeOK, Agreement, Agrees
<1>2. Agrees(j, disk, registry, staging, folded)
  BY <1>1 DEF Agrees, Job
<1>3. Becomes(w, j) /\ UNCHANGED <<portal, disk, registry, staging, folded>>
  BY DEF OpenChain, tables
<1> HIDE DEF j
<1> QED
  BY <1>2, <1>3, QuietStep

LEMMA LoadAbortsInv ==
  ASSUME Alone, IInv, TypeOK', NEW w \in Worker, LoadAborts(w)
  PROVE  IInv'
<1> DEFINE j == [job[w] EXCEPT !.known = NothingKnown]
<1>1. j \in Job
  <2>1. job[w] \in Job
    BY DEF IInv, TypeOK
  <2> QED
    BY <2>1, NothingKnownType DEF Job
<1>2. Becomes(w, NextChain(w, j)) /\ UNCHANGED <<portal, disk, registry, staging, folded>>
  BY DEF LoadAborts, tables
<1> HIDE DEF j
<1>3. Agrees(NextChain(w, j), disk, registry, staging, folded)
  BY <1>1, NextChainFields, AgreesElsewhere
<1> QED
  BY <1>2, <1>3, QuietStep

LEMMA BuildInv ==
  ASSUME Alone, IInv, TypeOK', NEW w \in Worker, Build(w)
  PROVE  IInv'
<1> DEFINE j == [job[w] EXCEPT !.pc = "prices"]
<1>1. job[w] \in Job /\ \A f \in job[w].files : ChainOf[f] = job[w].chain
  BY DEF IInv, TypeOK, Agreement, Agrees
<1>2. Agrees(j, disk, registry, staging, folded)
  BY <1>1 DEF Agrees, Job
<1>3. Becomes(w, j) /\ UNCHANGED <<portal, disk, registry, staging, folded>>
  BY DEF Build
<1> HIDE DEF j
<1> QED
  BY <1>2, <1>3, QuietStep

\* The ways out that write nothing.
LEMMA EndInv ==
  ASSUME Alone, IInv, TypeOK', NEW w \in Worker, GiveUp(w) \/ NothingNew(w) \/ Crash(w)
  PROVE  IInv'
<1>1. Becomes(w, Idle) /\ UNCHANGED <<portal, disk, registry, staging, folded>>
  BY DEF GiveUp, NothingNew, Crash, tables
<1>2. Agrees(Idle, disk, registry, staging, folded)
  BY AgreesElsewhere DEF Idle
<1> QED
  BY <1>1, <1>2, QuietStep

\* The scraper overwrites a file only with what its portal has now.
LEMMA ScrapeNewest ==
  ASSUME IInv, TypeOK', NEW w \in Worker, NEW got, Scrape(w, got),
         UNCHANGED <<portal, registry, staging, folded>>
  PROVE  Newest'
<1>1. /\ disk' = [f \in File |-> IF f \in got THEN portal[f] ELSE disk[f]]
      /\ got \subseteq Present(portal)
  BY DEF Scrape, Served
<1>2. portal \in [File -> Version \cup {None}] /\ Version \subseteq Nat
  BY VersionAssumption DEF IInv, TypeOK
<1>3. \A f \in Present(disk) : f \in Present(portal) /\ disk[f] <= portal[f]
  BY DEF IInv, Newest
<1>4. \A f \in Present(disk') : f \in Present(portal) /\ disk'[f] <= portal[f]
  <2> SUFFICES ASSUME NEW f \in Present(disk')
               PROVE  f \in Present(portal) /\ disk'[f] <= portal[f]
    OBVIOUS
  <2>1. f \in File /\ disk'[f] # None
    BY DEF Present
  <2>2. CASE f \in got
    <3>1. disk'[f] = portal[f] /\ f \in Present(portal)
      BY <1>1, <2>1, <2>2
    <3>2. portal[f] \in Nat
      BY <1>2, <3>1 DEF Present
    <3> QED
      BY <3>1, <3>2
  <2>3. CASE f \notin got
    <3>1. disk'[f] = disk[f]
      BY <1>1, <2>1, <2>3
    <3>2. f \in Present(disk)
      BY <2>1, <3>1 DEF Present
    <3> QED
      BY <1>3, <3>1, <3>2
  <2> QED
    BY <2>2, <2>3
<1>5. Rows' = Rows
  BY DEF Rows
<1>6. ASSUME NEW r \in Rows, r.whole
      PROVE  \E m \in Version : r.version <= m /\ IsLatest(r.chain, r.file, m)'
  <2>1. PICK m \in Version : r.version <= m /\ IsLatest(r.chain, r.file, m)
    BY <1>6 DEF IInv, Newest
  <2>2. r \in Row
    BY DEF Rows, IInv, TypeOK
  <2>3. r.file \in File
    BY <2>2 DEF Row
  <2>4. disk'[r.file] # None => m <= disk'[r.file]
    BY <1>1, <2>1, <2>3 DEF IsLatest
  <2>5. IsLatest(r.chain, r.file, m)'
    BY <2>1, <2>4 DEF IsLatest
  <2> QED
    BY <2>1, <2>5
<1>7. \A r \in Rows' : r.whole =>
        \E m \in Version : r.version <= m /\ IsLatest(r.chain, r.file, m)'
  BY <1>5, <1>6
<1>8. \A f \in Present(disk)' : f \in Present(portal)' /\ disk'[f] <= portal'[f]
  BY <1>4 DEF Present
<1> QED
  BY <1>7, <1>8 DEF Newest

\* What Fetch adds to a job's files is what its chain's portal served.
LEMMA NewFilesAreServed ==
  ASSUME IInv, NEW w \in Worker, NEW got, Scrape(w, got)
  PROVE  \A f \in NewFiles(disk', job[w].before) : ChainOf[f] = job[w].chain
<1>1. Present(disk) \subseteq job[w].before
  BY DEF IInv, Agreement, Agrees, Scrape
<1>2. \A f \in NewFiles(disk', job[w].before) : f \in got
  BY <1>1 DEF NewFiles, Present, Scrape
<1> QED
  BY <1>2 DEF Scrape, Served

LEMMA FetchInv ==
  ASSUME Alone, IInv, TypeOK', NEW w \in Worker, NEW got,
         Fetch(w, got) \/ FetchFails(w, got)
  PROVE  IInv'
<1>1. Scrape(w, got) /\ UNCHANGED <<portal, registry, staging, folded>>
  BY DEF Fetch, FetchFails, tables
<1>2. job[w] \in Job /\ (\A f \in job[w].files : ChainOf[f] = job[w].chain)
  BY DEF IInv, TypeOK, Agreement, Agrees
<1>3. PICK j \in Job : /\ Becomes(w, HalfDone(j))
                       /\ j.chain = job[w].chain
                       /\ \A f \in j.files : ChainOf[f] = j.chain
  <2>1. CASE Fetch(w, got)
    <3> DEFINE new == job[w].files \cup NewFiles(disk', job[w].before)
    <3>1. new \subseteq File /\ \A f \in new : ChainOf[f] = job[w].chain
      BY <1>1, <1>2, NewFilesAreServed DEF NewFiles, Present, Job
    <3>2. Becomes(w, HalfDone([job[w] EXCEPT !.files = new]))
      BY <1>2, <2>1 DEF Fetch, Job
    <3> HIDE DEF new
    <3>3. [job[w] EXCEPT !.files = new] \in Job
      BY <1>2, <3>1 DEF Job
    <3> QED
      BY <1>2, <3>1, <3>2, <3>3 DEF Job
  <2>2. CASE FetchFails(w, got)
    <3>1. Becomes(w, HalfDone([job[w] EXCEPT !.error = TRUE]))
      BY <2>2 DEF FetchFails
    <3>2. [job[w] EXCEPT !.error = TRUE] \in Job
      BY <1>2 DEF Job
    <3> QED
      BY <1>2, <3>1, <3>2 DEF Job
  <2> QED
    BY <2>1, <2>2
<1>4. Agrees(HalfDone(j), disk', registry', staging', folded')
  BY <1>3, HalfDoneFields, AgreesElsewhere
<1>5. Agreement'
  BY <1>3, <1>4, AloneAgrees DEF IInv
<1>6. OwnFilesOnly' /\ PricedRows' /\ RegisteredIsKept'
  BY <1>1 DEF IInv, OwnFilesOnly, PricedRows, RegisteredIsKept, Rows
<1> QED
  BY <1>1, <1>5, <1>6, ScrapeNewest DEF IInv

LEMMA PublishInv ==
  ASSUME IInv, TypeOK', NEW f \in File, Publish(f)
  PROVE  IInv'
<1>1. /\ UNCHANGED <<disk, registry, staging, folded, job>>
      /\ portal' = [portal EXCEPT ![f] = IF portal[f] = None THEN 1 ELSE portal[f] + 1]
  BY DEF Publish, tables
<1>2. Agreement' /\ OwnFilesOnly' /\ PricedRows' /\ RegisteredIsKept'
  BY <1>1 DEF IInv, Agreement, OwnFilesOnly, PricedRows, RegisteredIsKept, Rows
<1>3. portal \in [File -> Version \cup {None}] /\ Version \subseteq Nat /\ None \notin Nat
  BY VersionAssumption, NoneAssumption DEF IInv, TypeOK
<1>4. \A g \in Present(portal) : portal'[g] # None /\ \A m \in Nat :
        m <= portal[g] => m <= portal'[g]
  <2> SUFFICES ASSUME NEW g \in Present(portal), NEW m \in Nat
               PROVE  portal'[g] # None /\ (m <= portal[g] => m <= portal'[g])
    OBVIOUS
  <2>1. g \in File /\ portal[g] \in Nat
    BY <1>3 DEF Present
  <2>2. portal'[g] \in {portal[g], portal[g] + 1}
    BY <1>1, <1>3, <2>1
  <2>3. portal'[g] \in Nat /\ portal[g] <= portal'[g]
    BY <2>1, <2>2
  <2> QED
    BY <1>3, <2>1, <2>3
<1>5. disk \in [File -> Version \cup {None}]
  BY DEF IInv, TypeOK
<1>6. \A g \in Present(disk)' : g \in Present(portal)' /\ disk'[g] <= portal'[g]
  <2> SUFFICES ASSUME NEW g \in Present(disk)
               PROVE  g \in File /\ portal'[g] # None /\ disk[g] <= portal'[g]
    BY <1>1 DEF Present
  <2>1. g \in Present(portal) /\ disk[g] <= portal[g]
    BY DEF IInv, Newest
  <2>2. g \in File /\ disk[g] \in Nat
    BY <1>3, <1>5 DEF Present
  <2> QED
    BY <1>4, <2>1, <2>2
<1>7. ASSUME NEW r \in Rows, r.whole
      PROVE  \E m \in Version : r.version <= m /\ IsLatest(r.chain, r.file, m)'
  <2>1. PICK m \in Version : r.version <= m /\ IsLatest(r.chain, r.file, m)
    BY <1>7 DEF IInv, Newest
  <2>2. r \in Row
    BY DEF Rows, IInv, TypeOK
  <2>3. r.file \in Present(portal) /\ m \in Nat /\ m <= portal[r.file]
    BY <1>3, <2>1, <2>2 DEF Row, IsLatest, Present
  <2>4. IsLatest(r.chain, r.file, m)'
    BY <1>1, <1>4, <2>1, <2>3 DEF IsLatest
  <2> QED
    BY <2>1, <2>4
<1>8. Newest'
  BY <1>1, <1>6, <1>7 DEF Newest, Rows
<1> QED
  BY <1>2, <1>8 DEF IInv

LEMMA DiscardInv ==
  ASSUME Alone, IInv, TypeOK', NEW w \in Worker, NEW kept, Discard(w, kept)
  PROVE  IInv'
<1>1. /\ disk' = [f \in File |-> IF f \in job[w].files \ kept THEN None ELSE disk[f]]
      /\ UNCHANGED <<portal, registry, staging, folded>>
      /\ Becomes(w, NextChain(w, job[w]))
  BY DEF Discard, tables
<1>2. Agreement'
  <2>1. job[w] \in Job
    BY DEF IInv, TypeOK
  <2>2. Agrees(NextChain(w, job[w]), disk', registry', staging', folded')
    BY <2>1, NextChainFields, AgreesElsewhere
  <2> QED
    BY <1>1, <2>2, AloneAgrees DEF IInv
<1>3. OwnFilesOnly' /\ PricedRows' /\ RegisteredIsKept'
  BY <1>1 DEF IInv, OwnFilesOnly, PricedRows, RegisteredIsKept, Rows
<1>4. \A f \in File : disk'[f] # None => disk'[f] = disk[f]
  BY <1>1
<1>5. \A f \in Present(disk)' : f \in Present(portal)' /\ disk'[f] <= portal'[f]
  BY <1>1, <1>4 DEF IInv, Newest, Present
<1>6. ASSUME NEW r \in Rows, r.whole
      PROVE  \E m \in Version : r.version <= m /\ IsLatest(r.chain, r.file, m)'
  <2>1. PICK m \in Version : r.version <= m /\ IsLatest(r.chain, r.file, m)
    BY <1>6 DEF IInv, Newest
  <2>2. r.file \in File
    BY DEF Rows, IInv, TypeOK, Row
  <2> QED
    BY <1>1, <1>4, <2>1, <2>2 DEF IsLatest
<1>7. Newest'
  BY <1>1, <1>5, <1>6 DEF Newest, Rows
<1> QED
  BY <1>2, <1>3, <1>7 DEF IInv

LEMMA RebuildInv ==
  ASSUME Alone, IInv, TypeOK', NEW w \in Worker, Rebuild(w)
  PROVE  IInv'
<1> DEFINE j == [job[w] EXCEPT !.pc = "purge"]
<1>1. job[w] \in Job /\ \A f \in job[w].files : ChainOf[f] = job[w].chain
  BY DEF IInv, TypeOK, Agreement, Agrees
<1>2. /\ folded' = folded \cup {[row |-> r, attached |-> Attached(r)] : r \in staging}
      /\ UNCHANGED <<portal, disk, registry, staging>>
      /\ Becomes(w, j)
  BY DEF Rebuild
<1>3. \A r \in staging : \E x \in folded' : x.row = r
  <2> SUFFICES ASSUME NEW r \in staging PROVE \E x \in folded' : x.row = r
    OBVIOUS
  <2> DEFINE x == [row |-> r, attached |-> Attached(r)]
  <2>1. x \in folded' /\ x.row = r
    BY <1>2
  <2> QED
    BY <2>1
<1>4. \A x \in folded' : x \in folded \/ x.row \in staging
  BY <1>2
<1>5. Rows' = Rows
  BY <1>2, <1>3, <1>4 DEF Rows
<1>6. Agreement'
  <2>1. Agrees(j, disk', registry', staging', folded')
    BY <1>1, <1>2, <1>3 DEF Agrees, Job
  <2> HIDE DEF j
  <2> QED
    BY <1>2, <2>1, AloneAgrees DEF IInv
<1>7. OwnFilesOnly'
  BY <1>2, <1>4 DEF IInv, OwnFilesOnly
<1>8. PricedRows' /\ Newest'
  BY <1>2, <1>5 DEF IInv, PricedRows, Newest, IsLatest, Present
<1>9. RegisteredIsKept'
  <2>1. RegisteredIsKept /\ UNCHANGED registry /\ UNCHANGED Rows
    BY <1>2, <1>5 DEF IInv
  <2> QED
    BY <2>1 DEF RegisteredIsKept, Rows
<1> QED
  BY <1>6, <1>7, <1>8, <1>9 DEF IInv

LEMMA PurgeInv ==
  ASSUME Alone, IInv, TypeOK', NEW w \in Worker, Purge(w)
  PROVE  IInv'
<1>1. /\ staging' = {} /\ Becomes(w, Idle) /\ job[w].pc = "purge"
      /\ UNCHANGED <<portal, disk, registry, folded>>
  BY DEF Purge
<1>2. \A r \in staging : \E x \in folded : x.row = r
  BY <1>1 DEF IInv, Agreement, Agrees
<1>3. Rows' = Rows
  BY <1>1, <1>2 DEF Rows
<1>4. Agreement'
  <2>1. Agrees(Idle, disk', registry', staging', folded')
    BY AgreesElsewhere DEF Idle
  <2> QED
    BY <1>1, <2>1, AloneAgrees DEF IInv
<1>5. OwnFilesOnly'
  BY <1>1 DEF IInv, OwnFilesOnly
<1>6. PricedRows' /\ Newest'
  BY <1>1, <1>3 DEF IInv, PricedRows, Newest, IsLatest, Present
<1>7. RegisteredIsKept'
  <2>1. RegisteredIsKept /\ UNCHANGED registry /\ UNCHANGED Rows
    BY <1>1, <1>3 DEF IInv
  <2> QED
    BY <2>1 DEF RegisteredIsKept, Rows
<1> QED
  BY <1>4, <1>5, <1>6, <1>7 DEF IInv

\* The registry after LoadChain: the files that parsed, and nothing else, change.
LEMMA RegistryAfter ==
  ASSUME TypeOK, NEW w \in Worker, NEW bad, NEW torn, LoadChain(w, bad, torn)
  PROVE  /\ \A f \in Fresh(w) \ bad : registry'[job[w].chain][f] = SizeOnDisk(disk, f)
         /\ \A c \in Chain, f \in File :
              c # job[w].chain \/ f \notin Fresh(w) \ bad
                => registry'[c][f] = registry[c][f]
<1>1. registry \in [Chain -> [File -> Nat \cup {None}]]
  BY DEF TypeOK
<1>2. /\ job[w].chain \in Chain /\ Fresh(w) \subseteq File
      /\ registry' = [registry EXCEPT ![job[w].chain] = Remembered(w, bad)]
  BY LoadChainParts
<1>3. registry'[job[w].chain] = Remembered(w, bad)
  BY <1>1, <1>2
<1>4. \A f \in Fresh(w) \ bad : Remembered(w, bad)[f] = SizeOnDisk(disk, f)
  BY <1>2 DEF Remembered, Remember
<1>5. \A f \in File : f \notin Fresh(w) \ bad
                        => Remembered(w, bad)[f] = registry[job[w].chain][f]
  BY <1>2 DEF Remembered, Remember
<1>6. \A c \in Chain : c # job[w].chain => registry'[c] = registry[c]
  BY <1>1, <1>2
<1> QED
  BY <1>3, <1>4, <1>5, <1>6

\* The rows after LoadChain, and that those of a file that parsed are whole.
LEMMA RowsAfter ==
  ASSUME TypeOK, NEW w \in Worker, NEW bad, NEW torn, LoadChain(w, bad, torn)
  PROVE  /\ Rows' = Rows \cup {RowOf(w, bad, f) : f \in Loaded(w, bad, torn)}
         /\ \A f \in Fresh(w) \ bad : IsPrice(f) =>
              /\ f \in Present(disk) /\ SizeOnDisk(disk, f) = Size[disk[f]]
              /\ f \in Loaded(w, bad, torn) /\ RowOf(w, bad, f).whole
         /\ \A f \in Loaded(w, bad, torn) :
              /\ f \in Fresh(w) /\ f \in Present(disk) /\ IsPrice(f)
              /\ RowOf(w, bad, f).whole => f \in Fresh(w) \ bad
<1>1. /\ staging' = staging \cup {RowOf(w, bad, f) : f \in Loaded(w, bad, torn)}
      /\ UNCHANGED folded /\ Loaded(w, bad, torn) \subseteq Present(disk) \cap Fresh(w)
  BY LoadChainParts
<1>2. Rows' = Rows \cup {RowOf(w, bad, f) : f \in Loaded(w, bad, torn)}
  BY <1>1 DEF Rows
<1>3. ASSUME NEW f \in Fresh(w) \ bad, IsPrice(f)
      PROVE  /\ f \in Present(disk) /\ SizeOnDisk(disk, f) = Size[disk[f]]
             /\ f \in Loaded(w, bad, torn) /\ RowOf(w, bad, f).whole
  <2>1. f \in Loaded(w, bad, torn) /\ f \in PricedOf(w, bad)
    BY <1>3 DEF Loaded, PricedOf
  <2>2. f \in Present(disk)
    BY <1>1, <2>1
  <2> QED
    BY <2>1, <2>2 DEF RowOf, SizeOnDisk, Present
<1>4. \A f \in Loaded(w, bad, torn) :
        /\ f \in Fresh(w) /\ f \in Present(disk) /\ IsPrice(f)
        /\ RowOf(w, bad, f).whole => f \in Fresh(w) \ bad
  BY <1>1 DEF Loaded, PricedOf, RowOf
<1> QED
  BY <1>2, <1>3, <1>4

LEMMA LoadChainNewest ==
  ASSUME IInv, NEW w \in Worker, NEW bad, NEW torn, LoadChain(w, bad, torn)
  PROVE  Newest'
<1>0. TypeOK
  BY DEF IInv
<1>1. UNCHANGED <<portal, disk>> /\ job[w].chain \in Chain
  BY <1>0, LoadChainParts
<1>2. \A f \in Present(disk) : f \in Present(portal) /\ disk[f] <= portal[f]
  BY DEF IInv, Newest
<1>3. disk \in [File -> Version \cup {None}] /\ Version \subseteq Nat
  BY <1>0, VersionAssumption DEF TypeOK
<1>4. \* A file that parsed: its version on disk is the one remembered.
      ASSUME NEW f \in Fresh(w) \ bad, IsPrice(f), NEW c, c = job[w].chain
      PROVE  \E m \in Version : m = disk[f] /\ IsLatest(c, f, m)'
  <2>1. f \in Present(disk) /\ registry'[c][f] = Size[disk[f]]
    BY <1>0, <1>4, RowsAfter, RegistryAfter
  <2>2. disk[f] \in Version /\ disk[f] \in Nat
    BY <1>3, <2>1 DEF Present
  <2>3. PICK m \in Version : m = disk[f]
    BY <2>2
  <2>4. m <= disk[f]
    BY <2>2, <2>3
  <2>5. f \in Present(portal) /\ disk[f] <= portal[f]
    BY <1>2, <2>1
  <2>6. IsLatest(c, f, m)'
    BY <1>1, <2>1, <2>3, <2>4, <2>5 DEF IsLatest, Present
  <2> QED
    BY <2>3, <2>6
<1>5. ASSUME NEW r \in Rows, r.whole
      PROVE  \E m \in Version : r.version <= m /\ IsLatest(r.chain, r.file, m)'
  <2>1. PICK m \in Version : r.version <= m /\ IsLatest(r.chain, r.file, m)
    BY <1>5 DEF IInv, Newest
  <2>2. r \in Row /\ IsPrice(r.file)
    BY DEF IInv, Rows, TypeOK, PricedRows
  <2>3. r.file \in File /\ r.chain \in Chain /\ r.version \in Nat /\ m \in Nat
    BY <1>3, <2>2 DEF Row
  <2>4. CASE r.chain = job[w].chain /\ r.file \in Fresh(w) \ bad
    <3>1. PICK n \in Version : n = disk[r.file] /\ IsLatest(r.chain, r.file, n)'
      BY <1>4, <2>2, <2>4
    <3>2. n \in Nat /\ n # None
      BY <1>3, <3>1, NoneAssumption
    <3>3. m <= n
      BY <2>1, <3>1, <3>2 DEF IsLatest
    <3>4. r.version <= n
      BY <2>1, <2>3, <3>2, <3>3
    <3> QED
      BY <3>1, <3>4
  <2>5. CASE r.chain # job[w].chain \/ r.file \notin Fresh(w) \ bad
    <3>1. registry'[r.chain][r.file] = registry[r.chain][r.file]
      BY <1>0, <2>3, <2>5, RegistryAfter
    <3>2. IsLatest(r.chain, r.file, m)'
      BY <1>1, <2>1, <3>1 DEF IsLatest
    <3> QED
      BY <2>1, <3>2
  <2> QED
    BY <2>4, <2>5
<1>6. ASSUME NEW f \in Loaded(w, bad, torn), NEW r, r = RowOf(w, bad, f), r.whole
      PROVE  \E m \in Version : r.version <= m /\ IsLatest(r.chain, r.file, m)'
  <2>1. r.chain = job[w].chain /\ r.file = f /\ r.version = disk[f]
    BY <1>6 DEF RowOf
  <2>2. f \in Fresh(w) \ bad /\ IsPrice(f)
    BY <1>0, <1>6, RowsAfter
  <2>3. PICK m \in Version : m = disk[f] /\ IsLatest(r.chain, f, m)'
    BY <1>4, <2>1, <2>2
  <2>4. m <= m
    BY <1>3
  <2> QED
    BY <2>1, <2>3, <2>4
<1>7. \A r \in Rows' : r.whole =>
        \E m \in Version : r.version <= m /\ IsLatest(r.chain, r.file, m)'
  <2>1. Rows' = Rows \cup {RowOf(w, bad, f) : f \in Loaded(w, bad, torn)}
    BY <1>0, RowsAfter
  <2> QED
    BY <1>5, <1>6, <2>1
<1>8. \A f \in Present(disk)' : f \in Present(portal)' /\ disk'[f] <= portal'[f]
  BY <1>1, <1>2 DEF Present
<1> QED
  BY <1>7, <1>8 DEF Newest

LEMMA LoadChainInv ==
  ASSUME Alone, IInv, TypeOK', NEW w \in Worker, NEW bad, NEW torn,
         LoadChain(w, bad, torn)
  PROVE  IInv'
<1>1. TypeOK /\ OwnFilesOnly /\ PricedRows /\ RegisteredIsKept
  BY DEF IInv
<1>2. /\ job[w] \in Job /\ job[w].chain \in Chain /\ Fresh(w) \subseteq File
      /\ \A f \in Fresh(w) : ChainOf[f] = job[w].chain
      /\ \A f \in job[w].files : ChainOf[f] = job[w].chain
  <2>1. \A f \in job[w].files : ChainOf[f] = job[w].chain
    BY DEF IInv, Agreement, Agrees
  <2>2. Fresh(w) \subseteq job[w].files
    BY DEF Fresh
  <2> QED
    BY <1>1, <2>1, <2>2, LoadChainParts DEF TypeOK
<1>3. Agreement'
  <2>1. PICK status : Becomes(w, [Outcome(job[w], status, PricedOf(w, bad) # {})
                                    EXCEPT !.pc = "discard"])
    BY <1>1, LoadChainParts
  <2> DEFINE j == [Outcome(job[w], status, PricedOf(w, bad) # {}) EXCEPT !.pc = "discard"]
  <2>2. j.pc = "discard" /\ j.files = job[w].files /\ j.chain = job[w].chain
    BY <1>2 DEF Outcome, Job
  <2>3. Becomes(w, j)
    BY <2>1
  <2> HIDE DEF j
  <2>4. Agrees(j, disk', registry', staging', folded')
    BY <1>2, <2>2, AgreesElsewhere
  <2> QED
    BY <1>1, <2>3, <2>4, AloneAgrees
<1>4. \A f \in Loaded(w, bad, torn) :
        /\ RowOf(w, bad, f).chain = job[w].chain /\ RowOf(w, bad, f).file = f
        /\ RowOf(w, bad, f).version = disk[f]
  BY DEF RowOf
<1>5. OwnFilesOnly'
  <2>1. ASSUME NEW c \in Chain, NEW f \in File, registry'[c][f] # None
        PROVE  ChainOf[f] = c
    <3>1. CASE c = job[w].chain /\ f \in Fresh(w) \ bad
      BY <1>2, <3>1
    <3>2. CASE c # job[w].chain \/ f \notin Fresh(w) \ bad
      BY <1>1, <2>1, <3>2, RegistryAfter DEF OwnFilesOnly
    <3> QED
      BY <3>1, <3>2
  <2>2. \A r \in staging' : ChainOf[r.file] = r.chain
    <3>1. staging' = staging \cup {RowOf(w, bad, f) : f \in Loaded(w, bad, torn)}
      BY <1>1, LoadChainParts
    <3>2. \A f \in Loaded(w, bad, torn) : ChainOf[f] = job[w].chain
      BY <1>1, <1>2, RowsAfter
    <3> QED
      BY <1>1, <1>4, <3>1, <3>2 DEF OwnFilesOnly
  <2>3. \A x \in folded' : ChainOf[x.row.file] = x.row.chain
    BY <1>1, LoadChainParts DEF OwnFilesOnly
  <2> QED
    BY <2>1, <2>2, <2>3 DEF OwnFilesOnly
<1>6. PricedRows'
  <2>1. \A f \in Loaded(w, bad, torn) : IsPrice(RowOf(w, bad, f).file)
    BY <1>1, <1>4, RowsAfter
  <2>2. Rows' = Rows \cup {RowOf(w, bad, f) : f \in Loaded(w, bad, torn)}
    BY <1>1, RowsAfter
  <2> QED
    BY <1>1, <2>1, <2>2 DEF PricedRows
<1>7. RegisteredIsKept'
  <2> SUFFICES ASSUME NEW c \in Chain, NEW f \in File,
                      IsPrice(f), registry'[c][f] # None
               PROVE  \E r \in Rows' : /\ r.chain = c /\ r.file = f /\ r.whole
                                       /\ Size[r.version] = registry'[c][f]
    BY DEF RegisteredIsKept, Holds, Rows
  <2>1. Rows' = Rows \cup {RowOf(w, bad, g) : g \in Loaded(w, bad, torn)}
    BY <1>1, RowsAfter
  <2>2. CASE c = job[w].chain /\ f \in Fresh(w) \ bad
    <3>1. /\ f \in Loaded(w, bad, torn) /\ RowOf(w, bad, f).whole
          /\ registry'[c][f] = Size[disk[f]]
      BY <1>1, <2>2, RowsAfter, RegistryAfter
    <3> QED
      BY <1>4, <2>1, <2>2, <3>1
  <2>3. CASE c # job[w].chain \/ f \notin Fresh(w) \ bad
    <3>1. registry'[c][f] = registry[c][f]
      BY <1>1, <2>3, RegistryAfter
    <3>2. PICK r \in Rows : /\ r.chain = c /\ r.file = f /\ r.whole
                            /\ Size[r.version] = registry[c][f]
      BY <1>1, <3>1 DEF RegisteredIsKept, Holds, Rows
    <3> QED
      BY <2>1, <3>1, <3>2
  <2> QED
    BY <2>2, <2>3
<1>8. Newest'
  BY LoadChainNewest
<1> QED
  BY <1>3, <1>5, <1>6, <1>7, <1>8 DEF IInv

LEMMA InitInv == Init => IInv
<1> SUFFICES ASSUME Init PROVE IInv
  OBVIOUS
<1>1. TypeOK
  BY InitTypes
<1>2. Rows = {} /\ Present(disk) = {}
  BY DEF Init, Rows, Present
<1>3. Agreement
  BY AgreesElsewhere DEF Init, Agreement, Idle
<1>4. OwnFilesOnly /\ PricedRows /\ RegisteredIsKept /\ Newest
  BY <1>2 DEF Init, OwnFilesOnly, PricedRows, RegisteredIsKept, Newest
<1> QED
  BY <1>1, <1>3, <1>4 DEF IInv

LEMMA StepInv ==
  ASSUME Alone, IInv, [Next]_vars
  PROVE  IInv'
<1>1. TypeOK'
  BY TypesKept DEF IInv
<1>2. CASE Next
  BY <1>1, <1>2, StartInv, SnapshotInv, FetchInv, OpenChainInv, LoadChainInv, LoadAbortsInv,
     DiscardInv, EndInv, BuildInv, RebuildInv, PurgeInv, PublishInv DEF Next, Work
<1>3. CASE UNCHANGED vars
  BY <1>1, <1>3 DEF IInv, vars, tables, Agreement, OwnFilesOnly, PricedRows,
     RegisteredIsKept, Newest, IsLatest, Rows, Present
<1> QED
  BY <1>2, <1>3

\* With one job at a time the invariant holds in every reachable state.
THEOREM Invariance == Alone /\ Spec => []IInv
<1> SUFFICES ASSUME Alone PROVE Spec => []IInv
  OBVIOUS
<1>1. Init => IInv
  BY InitInv
<1>2. IInv /\ [Next]_vars => IInv'
  BY StepInv
<1> QED
  BY <1>1, <1>2, PTL DEF Spec

\* One job at a time: what a chain has on record, staged or folded, its own portal
\* published, whatever failed downloads and killed jobs left on the disk.
THEOREM OwnFilesTheorem == Alone /\ Spec => []OwnFilesOnly
<1>1. IInv => OwnFilesOnly
  BY DEF IInv
<1> QED
  BY <1>1, Invariance, PTL

\* One job at a time: a price file on record has all its rows folded or waiting in
\* staging, whatever failed or died and at whatever step.
THEOREM RegisteredTheorem == Alone /\ Spec => []RegisteredIsKept
<1>1. IInv => RegisteredIsKept
  BY DEF IInv
<1> QED
  BY <1>1, Invariance, PTL

\* One job at a time: purge_staging deletes only rows that a fold has read.
THEOREM PurgedTheorem == Alone /\ Spec => PurgedIsFolded
<1>1. ASSUME IInv, [Next]_vars
      PROVE  \A r \in staging \ staging' : \E x \in folded : x.row = r
  <2>1. CASE \E w \in Worker : Purge(w)
    BY <1>1, <2>1 DEF IInv, Agreement, Agrees, Purge
  <2>2. CASE \E w \in Worker, bad, torn \in SUBSET File : LoadChain(w, bad, torn)
    BY <1>1, <2>2, LoadChainParts DEF IInv
  <2>3. CASE UNCHANGED staging
    BY <2>3
  <2>4. (\E w \in Worker : Purge(w)) \/ UNCHANGED staging
          \/ \E w \in Worker, bad, torn \in SUBSET File : LoadChain(w, bad, torn)
    BY <1>1 DEF Next, Work, vars, tables, Publish, Start, Snapshot, OpenChain, Discard, Fetch,
       GiveUp, NothingNew, Build, Rebuild, LoadAborts, Crash, FetchFails
  <2> QED
    BY <2>1, <2>2, <2>3, <2>4
<1>2. IInv /\ [Next]_vars =>
        [\A r \in staging \ staging' : \E x \in folded : x.row = r]_vars
  BY <1>1
<1> QED
  BY <1>2, Invariance, PTL DEF Spec, PurgedIsFolded

\* One job at a time: what a fold has read whole is never staged again, however often
\* the portal serves it and however many downloads, transactions or jobs failed on it.
THEOREM IngestedOnceTheorem == Alone /\ Spec => IngestedOnce
<1>1. ASSUME IInv, NEW w \in Worker, NEW bad, NEW torn, LoadChain(w, bad, torn),
             NEW r \in staging' \ staging, r.whole, NEW x \in folded, x.row = r
      PROVE  FALSE
  <2>1. TypeOK
    BY <1>1 DEF IInv
  <2>2. PICK f \in Loaded(w, bad, torn) : r = RowOf(w, bad, f)
    BY <1>1, <2>1, LoadChainParts
  <2>3. r.chain = job[w].chain /\ r.file = f /\ r.version = disk[f]
    BY <2>2 DEF RowOf
  <2>4. f \in Fresh(w) \ bad /\ IsPrice(f)
    BY <1>1, <2>1, <2>2, RowsAfter
  <2>5. /\ f \in File /\ f \in Present(disk) /\ SizeOnDisk(disk, f) = Size[disk[f]]
        /\ job[w].pc = "load"
    BY <1>1, <2>1, <2>4, RowsAfter, LoadChainParts
  <2>6. registry[r.chain][f] # Size[disk[f]]
    <3>1. job[w].known = registry[job[w].chain]
      BY <1>1, <2>5 DEF IInv, Agreement, Agrees
    <3>2. job[w].known[f] # SizeOnDisk(disk, f)
      BY <2>4, <2>5 DEF Fresh, Known
    <3> QED
      BY <2>3, <2>5, <3>1, <3>2
  <2>7. PICK m \in Version : disk[f] <= m /\ IsLatest(r.chain, f, m)
    <3>1. r \in Rows
      BY <1>1 DEF Rows
    <3> QED
      BY <1>1, <2>3, <3>1 DEF IInv, Newest
  <2>8. disk[f] \in Nat /\ m \in Nat
    BY <2>1, <2>5, VersionAssumption DEF TypeOK, Present
  <2>9. m <= disk[f] /\ registry[r.chain][f] = Size[m]
    BY <2>5, <2>7 DEF IsLatest, Present
  <2>10. m = disk[f]
    BY <2>7, <2>8, <2>9
  <2> QED
    BY <2>6, <2>9, <2>10
<1>2. ASSUME IInv, [Next]_vars
      PROVE  \A r \in staging' \ staging : r.whole => \A x \in folded : x.row # r
  <2>1. CASE \E w \in Worker, bad, torn \in SUBSET File : LoadChain(w, bad, torn)
    BY <1>1, <1>2, <2>1
  <2>2. CASE staging' \subseteq staging
    BY <2>2
  <2>3. staging' \subseteq staging
          \/ \E w \in Worker, bad, torn \in SUBSET File : LoadChain(w, bad, torn)
    BY <1>2 DEF Next, Work, vars, tables, Publish, Start, Snapshot, OpenChain, Discard, Fetch,
       GiveUp, NothingNew, Build, Rebuild, Purge, LoadAborts, Crash, FetchFails
  <2> QED
    BY <2>1, <2>2, <2>3
<1>3. IInv /\ [Next]_vars =>
        [\A r \in staging' \ staging : r.whole => \A x \in folded : x.row # r]_vars
  BY <1>2
<1> QED
  BY <1>3, Invariance, PTL DEF Spec, IngestedOnce
-----------------------------------------------------------------------------
(* What a cycle leaves in staging.  A job that nothing killed and whose     *)
(* downloads worked remembers that it staged something until it purges, and *)
(* a chain that staged something counts as healthy, so the job neither      *)
(* gives up nor takes staging for empty.                                    *)

Unharmed == faults.kinds \cap {"fetch", "crash"} = {}

\* Job j remembers the rows of `staged'.
Carries(j, staged) ==
  /\ (\E r \in staged : r.whole) => j.rows
  /\ j.rows => j.healthy /\ j.pc # "idle"
  /\ ~ j.error
  /\ j.pc = "fetch" \/ j.files # {} => j.chain \notin Disabled

Carried == Unharmed => \A w \in Worker : Carries(job[w], staging)

LEMMA AloneCarries ==
  ASSUME Alone, TypeOK, NEW w \in Worker, NEW j, Becomes(w, j),
         Unharmed' => Carries(j, staging')
  PROVE  Carried'
<1>1. job' = [job EXCEPT ![w] = j] /\ job \in [Worker -> Job]
  BY DEF Becomes, TypeOK
<1>2. \A u \in Worker : job'[u] = j
  BY <1>1 DEF Alone
<1> QED
  BY <1>2 DEF Carried

\* A failure is never forgotten.
LEMMA StillUnharmed ==
  ASSUME TypeOK, Unharmed',
         UNCHANGED faults \/ \E kind : MayFail(kind) /\ Failed(kind)
  PROVE  Unharmed
BY DEF Unharmed, Failed, TypeOK

LEMMA NextChainCarries ==
  ASSUME NEW w \in Worker, NEW j \in Job, NEW staged,
         (\E r \in staged : r.whole) => j.rows, j.rows => j.healthy
  PROVE  Carries(NextChain(w, j), staged)
<1> DEFINE k == NextChain(w, j)
<1>1. /\ k.pc \in {"snapshot", "decide"} /\ k.files = {} /\ k.error = FALSE
      /\ k.rows = j.rows /\ k.healthy = j.healthy
  BY DEF NextChain, Job
<1> HIDE DEF k
<1>2. Carries(k, staged)
  BY <1>1 DEF Carries
<1> QED
  BY <1>2 DEF k

\* The steps that keep the files, the flags and the staging table.
LEMMA CarriedOn ==
  ASSUME Alone, TypeOK, Carried, NEW w \in Worker, NEW j, Becomes(w, j),
         UNCHANGED <<staging, faults>>, j.rows = job[w].rows, j.healthy = job[w].healthy,
         j.error = job[w].error, j.pc # "idle",
         j.pc = "fetch" \/ j.files # {} =>
           j.chain \notin Disabled \/ (j.files = job[w].files /\ j.pc # "fetch"
                                         /\ j.chain = job[w].chain)
  PROVE  Carried'
<1>1. ASSUME Unharmed' PROVE Carries(j, staging')
  <2>1. Carries(job[w], staging)
    BY <1>1, StillUnharmed DEF Carried
  <2> QED
    BY <2>1 DEF Carries
<1> QED
  BY <1>1, AloneCarries

LEMMA StartCarries ==
  ASSUME Alone, TypeOK, Carried, NEW w \in Worker, Start(w)
  PROVE  Carried'
<1> DEFINE j == [Idle EXCEPT !.todo = Chain]
<1>1. j \in Job /\ j.rows = FALSE
  BY IdleShape DEF Shape, Job, Idle
<1> HIDE DEF j
<1>2. /\ Becomes(w, NextChain(w, j)) /\ UNCHANGED <<staging, faults>>
      /\ job[w].pc = "idle"
  BY DEF Start, j, tables
<1>3. ASSUME Unharmed' PROVE Carries(NextChain(w, j), staging')
  <2>1. Carries(job[w], staging)
    BY <1>2, <1>3, StillUnharmed DEF Carried
  <2>2. ~ \E r \in staging' : r.whole
    BY <1>2, <2>1 DEF Carries
  <2> QED
    BY <1>1, <2>2, NextChainCarries
<1> QED
  BY <1>2, <1>3, AloneCarries

LEMMA SnapshotCarries ==
  ASSUME Alone, TypeOK, Carried, NEW w \in Worker, Snapshot(w)
  PROVE  Carried'
<1> DEFINE j == IF job[w].chain \in Disabled
                THEN [job[w] EXCEPT !.pc = "open"]
                ELSE [job[w] EXCEPT !.pc = "fetch", !.before = Present(disk)]
<1>1. job[w] \in Job
  BY DEF TypeOK
<1>2. /\ j.rows = job[w].rows /\ j.healthy = job[w].healthy /\ j.error = job[w].error
      /\ j.files = job[w].files /\ j.chain = job[w].chain /\ j.pc \in {"open", "fetch"}
      /\ j.pc = "fetch" => j.chain \notin Disabled
  BY <1>1 DEF Job
<1>3. Becomes(w, j) /\ UNCHANGED <<staging, faults>>
  BY DEF Snapshot, tables
<1> HIDE DEF j
<1> QED
  BY <1>2, <1>3, CarriedOn

LEMMA FetchCarries ==
  ASSUME Alone, TypeOK, Carried, NEW w \in Worker, NEW got, Fetch(w, got)
  PROVE  Carried'
<1> DEFINE j == HalfDone([job[w] EXCEPT !.files = @ \cup NewFiles(disk', job[w].before)])
<1>1. job[w] \in Job
  BY DEF TypeOK
<1>2. /\ j.rows = job[w].rows /\ j.healthy = job[w].healthy /\ j.error = job[w].error
      /\ j.chain = job[w].chain /\ j.pc \in {"open", "snapshot"}
  BY <1>1 DEF HalfDone, Job
<1>3. Becomes(w, j) /\ UNCHANGED <<staging, faults>> /\ job[w].pc = "fetch"
  BY DEF Fetch, Scrape, tables
<1> HIDE DEF j
<1>4. ASSUME Unharmed' PROVE Carries(j, staging')
  <2>1. Carries(job[w], staging)
    BY <1>3, <1>4, StillUnharmed DEF Carried
  <2> QED
    BY <1>2, <1>3, <2>1 DEF Carries
<1> QED
  BY <1>3, <1>4, AloneCarries

LEMMA OpenChainCarries ==
  ASSUME Alone, TypeOK, Carried, NEW w \in Worker, OpenChain(w)
  PROVE  Carried'
<1> DEFINE j == [job[w] EXCEPT !.pc = "load", !.known = registry[job[w].chain]]
<1>1. job[w] \in Job
  BY DEF TypeOK
<1>2. /\ j.rows = job[w].rows /\ j.healthy = job[w].healthy /\ j.error = job[w].error
      /\ j.files = job[w].files /\ j.chain = job[w].chain /\ j.pc = "load"
  BY <1>1 DEF Job
<1>3. Becomes(w, j) /\ UNCHANGED <<staging, faults>>
  BY DEF OpenChain, tables
<1> HIDE DEF j
<1> QED
  BY <1>2, <1>3, CarriedOn

\* A chain that staged a complete file counts as healthy.
LEMMA RowsAreHealthy ==
  ASSUME NEW j \in Job, ~ j.error, j.files # {}, j.chain \notin Disabled,
         NEW bad, NEW skipped, NEW seen, NEW known
  PROVE  RunStatus(j, bad, skipped, TRUE, seen, known) \in HEALTHY_STATUSES
BY DEF RunStatus, DownloadStatus, HEALTHY_STATUSES

LEMMA LoadChainCarries ==
  ASSUME Alone, TypeOK, Carried, NEW w \in Worker, NEW bad, NEW torn,
         LoadChain(w, bad, torn)
  PROVE  Carried'
<1> DEFINE rows == PricedOf(w, bad) # {}
           skipped == job[w].files \ Fresh(w)
           seen == \E f \in Fresh(w) \ bad : Kind[f] = "stores"
           stored == job[w].chain \in stores
                       \/ \E f \in (Fresh(w) \ bad) \cup torn : Kind[f] = "stores"
           status == RunStatus(job[w], bad, skipped, rows, seen, stored)
           healthy == job[w].healthy \/ status \in HEALTHY_STATUSES
           j == [Outcome(job[w], status, rows) EXCEPT !.pc = "discard"]
<1>1. job[w] \in Job
  BY DEF TypeOK
<1>2. Becomes(w, j)
  BY DEF LoadChain, PricedOf, Fresh
<1>3. staging' = staging \cup {RowOf(w, bad, f) : f \in Loaded(w, bad, torn)}
  BY LoadChainParts
<1>4. UNCHANGED faults \/ \E kind : MayFail(kind) /\ Failed(kind)
  BY LoadChainParts
<1>5. /\ j.healthy = healthy /\ j.rows = (job[w].rows \/ rows) /\ j.pc = "discard"
      /\ j.error = job[w].error /\ j.files = job[w].files /\ j.chain = job[w].chain
  BY <1>1 DEF Outcome, Job
<1> HIDE DEF j
<1>6. ASSUME Unharmed' PROVE Carries(j, staging')
  <2>1. Carries(job[w], staging)
    BY <1>4, <1>6, StillUnharmed DEF Carried
  <2>2. \A f \in Loaded(w, bad, torn) : RowOf(w, bad, f).whole => rows
    BY DEF RowOf
  <2>3. (\E r \in staging' : r.whole) => job[w].rows \/ rows
    BY <1>3, <2>1, <2>2 DEF Carries
  <2>4. rows => status \in HEALTHY_STATUSES
    <3> SUFFICES ASSUME rows PROVE status \in HEALTHY_STATUSES
      OBVIOUS
    <3>1. job[w].files # {} /\ rows = TRUE
      BY DEF PricedOf, Fresh
    <3>2. ~ job[w].error /\ job[w].chain \notin Disabled
      BY <2>1, <3>1 DEF Carries
    <3> HIDE DEF rows, skipped, seen, stored
    <3> QED
      BY <1>1, <3>1, <3>2, RowsAreHealthy
  <2> HIDE DEF rows, status
  <2> QED
    BY <1>5, <2>1, <2>3, <2>4 DEF Carries
<1> QED
  BY <1>2, <1>6, AloneCarries

\* Both ways of ending a chain: rolled back, or with its files discarded.
LEMMA ChainDoneCarries ==
  ASSUME Alone, TypeOK, Carried, NEW w \in Worker, NEW kept,
         LoadAborts(w) \/ Discard(w, kept)
  PROVE  Carried'
<1>1. PICK j \in Job : /\ Becomes(w, NextChain(w, j))
                       /\ j.rows = job[w].rows /\ j.healthy = job[w].healthy
  <2>1. job[w] \in Job
    BY DEF TypeOK
  <2>2. CASE LoadAborts(w)
    <3> DEFINE j == [job[w] EXCEPT !.known = NothingKnown]
    <3>1. j \in Job /\ j.rows = job[w].rows /\ j.healthy = job[w].healthy
      BY <2>1, NothingKnownType DEF Job
    <3>2. Becomes(w, NextChain(w, j))
      BY <2>2 DEF LoadAborts
    <3> QED
      BY <3>1, <3>2
  <2>3. CASE Discard(w, kept)
    BY <2>1, <2>3 DEF Discard
  <2> QED
    BY <2>2, <2>3
<1>2. UNCHANGED staging /\ (UNCHANGED faults \/ \E kind : MayFail(kind) /\ Failed(kind))
  BY DEF LoadAborts, Discard, tables
<1>3. ASSUME Unharmed' PROVE Carries(NextChain(w, j), staging')
  <2>1. Carries(job[w], staging)
    BY <1>2, <1>3, StillUnharmed DEF Carried
  <2>2. ((\E r \in staging' : r.whole) => j.rows) /\ (j.rows => j.healthy)
    BY <1>1, <1>2, <2>1 DEF Carries
  <2> QED
    BY <2>2, NextChainCarries
<1> QED
  BY <1>1, <1>3, AloneCarries

\* The three ways a cycle ends: none of them leaves a complete file behind.
LEMMA EndCarries ==
  ASSUME Alone, TypeOK, Carried, NEW w \in Worker, GiveUp(w) \/ NothingNew(w) \/ Purge(w)
  PROVE  Carried'
<1>1. /\ Becomes(w, Idle) /\ UNCHANGED faults
      /\ staging' = {} \/ (UNCHANGED staging /\ ~ (job[w].healthy /\ job[w].rows))
  BY DEF GiveUp, NothingNew, Purge, tables
<1>2. ASSUME Unharmed' PROVE Carries(Idle, staging')
  <2>1. Carries(job[w], staging)
    BY <1>1, <1>2, StillUnharmed DEF Carried
  <2>2. ~ \E r \in staging' : r.whole
    BY <1>1, <2>1 DEF Carries
  <2> QED
    BY <2>2 DEF Carries, Idle
<1> QED
  BY <1>1, <1>2, AloneCarries

LEMMA FoldCarries ==
  ASSUME Alone, TypeOK, Carried, NEW w \in Worker, Build(w) \/ Rebuild(w)
  PROVE  Carried'
<1>1. job[w] \in Job
  BY DEF TypeOK
<1>2. PICK pc \in {"prices", "purge"} : Becomes(w, [job[w] EXCEPT !.pc = pc])
  BY DEF Build, Rebuild
<1> DEFINE j == [job[w] EXCEPT !.pc = pc]
<1>3. /\ j.rows = job[w].rows /\ j.healthy = job[w].healthy /\ j.error = job[w].error
      /\ j.files = job[w].files /\ j.chain = job[w].chain /\ j.pc \in {"prices", "purge"}
  BY <1>1 DEF Job
<1>4. Becomes(w, j) /\ UNCHANGED <<staging, faults>>
  BY <1>2 DEF Build, Rebuild
<1> HIDE DEF j
<1> QED
  BY <1>3, <1>4, CarriedOn

\* The steps after which nothing is promised, and those of the portals.
LEMMA OthersCarry ==
  ASSUME TypeOK, Carried,
         \/ UNCHANGED vars
         \/ \E f \in File : Publish(f)
         \/ \E w \in Worker : Crash(w) \/ \E got : FetchFails(w, got)
  PROVE  Carried'
<1>1. CASE UNCHANGED vars \/ \E f \in File : Publish(f)
  BY <1>1 DEF vars, tables, Publish, Carried, Unharmed
<1>2. CASE \E w \in Worker : Crash(w) \/ \E got : FetchFails(w, got)
  <2>1. PICK kind \in {"fetch", "crash"} : Failed(kind)
    BY <1>2 DEF Crash, FetchFails
  <2>2. kind \in faults'.kinds
    BY <2>1 DEF Failed
  <2>3. ~ Unharmed'
    BY <2>2 DEF Unharmed
  <2> QED
    BY <2>3 DEF Carried
<1> QED
  BY <1>1, <1>2

\* One job at a time: unless a job died or a download failed, no complete file waits in
\* staging once a cycle is over, whatever its chains found, could not read or rolled back.
THEOREM EndedTheorem == Alone /\ Spec => []EndedIsFolded
<1> SUFFICES ASSUME Alone PROVE Spec => []EndedIsFolded
  OBVIOUS
<1>1. Init => Carried
  BY DEF Init, Carried, Carries, Idle
<1>2. TypeOK /\ Carried /\ [Next]_vars => Carried'
  BY StartCarries, SnapshotCarries, FetchCarries, OpenChainCarries, LoadChainCarries,
     ChainDoneCarries, EndCarries, FoldCarries, OthersCarry DEF Next, Work
<1>3. Carried => EndedIsFolded
  BY DEF Carried, Carries, Unharmed, EndedIsFolded
<1> QED
  BY <1>1, <1>2, <1>3, TypeCorrectness, PTL DEF Spec
=============================================================================
