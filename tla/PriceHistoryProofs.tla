------------------------- MODULE PriceHistoryProofs -------------------------
(***************************************************************************)
(* Proofs about PriceHistory, for any number of stores, items, price       *)
(* groups and prices and for every sequence of files, folds, purges and    *)
(* store moves.                                                            *)
(*                                                                         *)
(* The argument: the rows of tmp_base and of tmp_exception have distinct   *)
(* keys (`Functional'), which is what MODAL_PRICE_SQL's rank = 1 and       *)
(* EXCEPTION_SQL's DISTINCT ON are for; closing before opening then keeps  *)
(* each history a timeline, whatever was staged.                           *)
(***************************************************************************)
EXTENDS PriceHistory, FiniteSetTheorems, TLAPS

Functional(fresh) == \A f, g \in fresh : f.key = g.key => f = g

\* A history between the statements of the fold at t: rows already closed at t, no
\* row opened yet.
HalfFolded(history, t) ==
  /\ \A r \in history : r.from < t /\ (r.to # Open => r.from < r.to /\ r.to <= t)
  /\ \A r, q \in history : r.key = q.key => r = q \/ Before(r, q) \/ Before(q, r)

-----------------------------------------------------------------------------
(* The staged rows of one fold.                                            *)

LEMMA SupportIsNat ==
  ASSUME NEW rows, IsFiniteSet(rows), NEW r
  PROVE  Support(rows, r) \in Nat
<1> DEFINE same == {q \in rows : q.group = r.group /\ q.variant = r.variant
                                   /\ q.price = r.price}
<1>1. same \in SUBSET rows
  OBVIOUS
<1>2. IsFiniteSet(same)
  BY <1>1, FS_Subset
<1> QED
  BY <1>2, FS_CardinalityType DEF Support

\* rank = 1 leaves one row per (group, variant): the ranking is antisymmetric.
LEMMA ModalBaseFresh ==
  ASSUME NEW staged \in SUBSET StagingRow, IsFiniteSet(staged)
  PROVE  /\ ModalBase(staged) \subseteq FreshRow(BaseKey)
         /\ Functional(ModalBase(staged))
<1> DEFINE rows == Priced(staged)
<1>1. rows \subseteq staged /\ \A r \in rows : r.price \in Price
  BY DEF Priced, StagingRow
<1>2. IsFiniteSet(rows)
  BY <1>1, FS_Subset
<1>3. ModalBase(staged) \subseteq FreshRow(BaseKey)
  BY <1>1 DEF ModalBase, FreshRow, BaseKey, StagingRow
<1>4. ASSUME NEW r \in rows, NEW q \in rows, Ranks(rows, r, q), Ranks(rows, q, r)
      PROVE  r.price = q.price
  <2>1. Support(rows, r) \in Nat /\ Support(rows, q) \in Nat
    BY <1>2, SupportIsNat
  <2>2. r.price \in Nat /\ q.price \in Nat
    BY <1>1, PriceAssumption
  <2> QED
    BY <1>4, <2>1, <2>2 DEF Ranks
<1>5. ASSUME NEW f \in ModalBase(staged), NEW g \in ModalBase(staged), f.key = g.key
      PROVE  f = g
  <2>1. PICK r \in rows :
          /\ f = [key |-> <<r.group, r.variant>>, price |-> r.price]
          /\ \A q \in rows : q.group = r.group /\ q.variant = r.variant
                               => Ranks(rows, r, q)
    BY DEF ModalBase
  <2>2. PICK s \in rows :
          /\ g = [key |-> <<s.group, s.variant>>, price |-> s.price]
          /\ \A q \in rows : q.group = s.group /\ q.variant = s.variant
                               => Ranks(rows, s, q)
    BY DEF ModalBase
  <2>3. r.group = s.group /\ r.variant = s.variant
    BY <1>5, <2>1, <2>2
  <2>4. r.price = s.price
    BY <1>4, <2>1, <2>2, <2>3
  <2> QED
    BY <2>1, <2>2, <2>3, <2>4
<1> QED
  BY <1>3, <1>5 DEF Functional

\* DISTINCT ON leaves one row per (store, variant).
LEMMA ExceptionsFresh ==
  ASSUME NEW staged \in SUBSET StagingRow, NEW modal
  PROVE  /\ Exceptions(staged, modal) \subseteq FreshRow(Pair)
         /\ Functional(Exceptions(staged, modal))
<1> DEFINE rows == Disagreeing(staged, modal)
<1>1. rows \subseteq staged /\ \A r \in rows : r.price \in Price
  BY DEF Disagreeing, Priced, StagingRow
<1>2. Exceptions(staged, modal) \subseteq FreshRow(Pair)
  BY <1>1 DEF Exceptions, FreshRow, Pair, StagingRow
<1>3. ASSUME NEW f \in Exceptions(staged, modal), NEW g \in Exceptions(staged, modal),
             f.key = g.key
      PROVE  f = g
  <2>1. PICK r \in rows :
          /\ f = [key |-> <<r.store, r.variant>>, price |-> r.price]
          /\ \A q \in rows : q.store = r.store /\ q.variant = r.variant
                               => r.price <= q.price
    BY DEF Exceptions
  <2>2. PICK s \in rows :
          /\ g = [key |-> <<s.store, s.variant>>, price |-> s.price]
          /\ \A q \in rows : q.store = s.store /\ q.variant = s.variant
                               => s.price <= q.price
    BY DEF Exceptions
  <2>3. r.store = s.store /\ r.variant = s.variant
    BY <1>3, <2>1, <2>2
  <2>4. r.price <= s.price /\ s.price <= r.price
    BY <2>1, <2>2, <2>3
  <2>5. r.price \in Nat /\ s.price \in Nat
    BY <1>1, PriceAssumption
  <2>6. r.price = s.price
    BY <2>4, <2>5
  <2> QED
    BY <2>1, <2>2, <2>3, <2>6
<1> QED
  BY <1>2, <1>3 DEF Functional

-----------------------------------------------------------------------------
(* One fold of one history.                                                *)

LEMMA CloseType ==
  ASSUME NEW Key, NEW history \in SUBSET HistoryRow(Key), NEW rows \in SUBSET history,
         NEW t \in Nat
  PROVE  Close(history, rows, t) \subseteq HistoryRow(Key)
BY DEF Close, HistoryRow, Time

LEMMA CloseIsHalfFolded ==
  ASSUME NEW Key, NEW history \in SUBSET HistoryRow(Key), NEW t \in Nat,
         NEW rows \in SUBSET {r \in history : r.to = Open},
         HalfFolded(history, t)
  PROVE  HalfFolded(Close(history, rows, t), t)
<1> DEFINE after == Close(history, rows, t)
<1>1. after \subseteq HistoryRow(Key)
  BY CloseType
<1>2. ASSUME NEW r \in after
      PROVE  \/ r \in history /\ r \notin rows
             \/ \E o \in rows : r = [o EXCEPT !.to = t]
  BY DEF Close
<1>3. ASSUME NEW o \in rows
      PROVE  /\ [o EXCEPT !.to = t].key = o.key
             /\ [o EXCEPT !.to = t].from = o.from
             /\ [o EXCEPT !.to = t].to = t
             /\ o \in history /\ o.to = Open /\ o.from \in Nat
  BY DEF HistoryRow, Time
<1>4. ASSUME NEW r \in after
      PROVE  r.from < t /\ (r.to # Open => r.from < r.to /\ r.to <= t)
  <2>1. CASE r \in history
    BY <2>1 DEF HalfFolded
  <2>2. CASE \E o \in rows : r = [o EXCEPT !.to = t]
    BY <2>2, <1>3 DEF HalfFolded
  <2> QED
    BY <1>2, <2>1, <2>2
<1>5. ASSUME NEW r \in after, NEW q \in after, r.key = q.key
      PROVE  r = q \/ Before(r, q) \/ Before(q, r)
  <2>1. CASE r \in history /\ q \in history
    BY <2>1, <1>5 DEF HalfFolded
  <2>2. ASSUME NEW a \in after, NEW b \in history, b \notin rows, a.key = b.key,
               NEW o \in rows, a = [o EXCEPT !.to = t]
        PROVE  Before(b, a)
    <3>1. o # b /\ o.key = b.key /\ o.to = Open /\ a.from = o.from
      BY <2>2, <1>3
    <3>2. Before(b, o)
      BY <3>1, <1>3, <2>2 DEF HalfFolded, Before
    <3> QED
      BY <3>1, <3>2 DEF Before
  <2>3. ASSUME NEW o \in rows, NEW u \in rows,
               r = [o EXCEPT !.to = t], q = [u EXCEPT !.to = t]
        PROVE  r = q
    <3>1. o.key = u.key /\ o.to = Open /\ u.to = Open
      BY <1>3, <1>5, <2>3
    <3>2. o = u
      BY <3>1, <1>3 DEF HalfFolded, Before
    <3> QED
      BY <3>2, <2>3
  <2> QED
    BY <1>2, <1>5, <2>1, <2>2, <2>3
<1> QED
  BY <1>4, <1>5 DEF HalfFolded

LEMMA OpenMissingType ==
  ASSUME NEW Key, NEW history \in SUBSET HistoryRow(Key), NEW t \in Nat,
         NEW fresh \in SUBSET FreshRow(Key)
  PROVE  OpenMissing(history, fresh, t) \subseteq HistoryRow(Key)
BY DEF OpenMissing, HistoryRow, FreshRow, Time

\* Opening where nothing is open completes the fold: the timeline reaches t + 1.
LEMMA OpenMissingIsATimeline ==
  ASSUME NEW Key, NEW history \in SUBSET HistoryRow(Key), NEW t \in Nat,
         NEW fresh \in SUBSET FreshRow(Key), Functional(fresh), HalfFolded(history, t)
  PROVE  Timeline(OpenMissing(history, fresh, t), t + 1)
<1> DEFINE after == OpenMissing(history, fresh, t)
           missing == {f \in fresh : ~ IsOpen(history, f.key)}
<1>1. ASSUME NEW r \in after
      PROVE  \/ r \in history
             \/ \E f \in missing : r = [key |-> f.key, price |-> f.price,
                                        from |-> t, to |-> Open]
  BY DEF OpenMissing
<1>2. ASSUME NEW r \in history
      PROVE  /\ r.from \in Nat /\ r.from < t
             /\ r.to # Open => r.to \in Nat /\ r.from < r.to /\ r.to <= t
  BY DEF HalfFolded, HistoryRow, Time
<1>3. ASSUME NEW r \in after
      PROVE  r.from < t + 1 /\ (r.to # Open => r.from < r.to /\ r.to < t + 1)
  <2>1. CASE r \in history
    BY <2>1, <1>2
  <2>2. CASE r.from = t /\ r.to = Open
    BY <2>2
  <2> QED
    BY <1>1, <2>1, <2>2
<1>4. ASSUME NEW r \in history, NEW f \in missing, r.key = f.key
      PROVE  r.to # Open /\ r.to <= t
  BY <1>2, <1>4 DEF IsOpen
<1>5. ASSUME NEW r \in after, NEW q \in after, r.key = q.key
      PROVE  r = q \/ Before(r, q) \/ Before(q, r)
  <2>1. CASE r \in history /\ q \in history
    BY <2>1, <1>5 DEF HalfFolded
  <2>2. CASE r \in history /\ q \notin history
    BY <2>2, <1>1, <1>4, <1>5 DEF Before
  <2>3. CASE r \notin history /\ q \in history
    BY <2>3, <1>1, <1>4, <1>5 DEF Before
  <2>4. CASE r \notin history /\ q \notin history
    BY <2>4, <1>1, <1>5 DEF Functional
  <2> QED
    BY <2>1, <2>2, <2>3, <2>4
<1> QED
  BY <1>3, <1>5 DEF Timeline

\* Rows closed at t disagree with the fresh price of their key.
Outdated(history, fresh, t) ==
  \A r \in history, f \in fresh : r.key = f.key /\ r.to = t => r.price # f.price

LEMMA TimelineIsHalfFolded ==
  ASSUME NEW Key, NEW history \in SUBSET HistoryRow(Key), NEW t \in Nat,
         Timeline(history, t)
  PROVE  HalfFolded(history, t)
<1>1. ASSUME NEW r \in history
      PROVE  r.from < t /\ (r.to # Open => r.from < r.to /\ r.to <= t)
  BY DEF Timeline, HistoryRow, Time
<1> QED
  BY <1>1 DEF Timeline, HalfFolded

\* A closed row keeps its key, its price and the instant it came into force.
LEMMA ClosedRow ==
  ASSUME NEW Key, NEW history \in SUBSET HistoryRow(Key), NEW t \in Nat,
         NEW rows \in SUBSET {r \in history : r.to = Open},
         NEW r \in Close(history, rows, t)
  PROVE  \/ r \in history /\ r \notin rows
         \/ \E o \in rows : /\ r = [o EXCEPT !.to = t]
                            /\ r.key = o.key /\ r.price = o.price
                            /\ r.from = o.from /\ r.to = t
BY DEF Close, HistoryRow

LEMMA CloseAlwaysChanges ==
  ASSUME NEW Key, NEW history \in SUBSET HistoryRow(Key), NEW t \in Nat,
         NEW rows \in SUBSET {r \in history : r.to = Open},
         HalfFolded(history, t), AlwaysChanges(history)
  PROVE  AlwaysChanges(Close(history, rows, t))
<1> SUFFICES ASSUME NEW r \in Close(history, rows, t), NEW q \in Close(history, rows, t),
                    r.key = q.key, r.to = q.from
             PROVE  r.price # q.price
  BY DEF AlwaysChanges
<1>1. PICK o \in history : o.key = q.key /\ o.price = q.price /\ o.from = q.from
  BY ClosedRow
<1>2. o.from < t /\ o.from \in Nat
  BY DEF HalfFolded, HistoryRow, Time
<1>3. r \in history
  BY <1>1, <1>2, ClosedRow
<1> QED
  BY <1>1, <1>3 DEF AlwaysChanges

LEMMA CloseChangedOutdates ==
  ASSUME NEW Key, NEW history \in SUBSET HistoryRow(Key), NEW t \in Nat,
         NEW fresh, Functional(fresh), Timeline(history, t)
  PROVE  Outdated(CloseChanged(history, fresh, t), fresh, t)
<1> DEFINE rows == {r \in history : r.to = Open
                                     /\ \E f \in fresh : f.key = r.key /\ f.price # r.price}
<1> SUFFICES ASSUME NEW r \in Close(history, rows, t), NEW f \in fresh,
                    r.key = f.key, r.to = t
             PROVE  r.price # f.price
  BY DEF Outdated, CloseChanged
<1>1. r \notin history
  BY MarkerAssumption DEF Timeline, HistoryRow, Time
<1>2. rows \in SUBSET {o \in history : o.to = Open}
  OBVIOUS
<1> HIDE DEF rows
<1>3. PICK o \in rows : r.key = o.key /\ r.price = o.price
  BY <1>1, <1>2, ClosedRow
<1>4. PICK g \in fresh : g.key = o.key /\ g.price # o.price
  BY DEF rows
<1> QED
  BY <1>3, <1>4 DEF Functional

LEMMA CloseResolvedOutdates ==
  ASSUME NEW Key, NEW history \in SUBSET HistoryRow(Key), NEW t \in Nat,
         NEW fresh, NEW staged, Outdated(history, fresh, t)
  PROVE  Outdated(CloseResolved(history, fresh, staged, t), fresh, t)
<1> DEFINE rows == {r \in history : /\ r.to = Open
                                    /\ \A f \in fresh : f.key # r.key
                                    /\ \E q \in staged : q.store = r.key[1]}
<1> SUFFICES ASSUME NEW r \in Close(history, rows, t), NEW f \in fresh,
                    r.key = f.key, r.to = t
             PROVE  r.price # f.price
  BY DEF Outdated, CloseResolved
<1>1. CASE r \in history
  BY <1>1 DEF Outdated
<1>2. CASE \E o \in rows : r.key = o.key
  BY <1>2
<1> QED
  BY <1>1, <1>2, ClosedRow

LEMMA OpenMissingAlwaysChanges ==
  ASSUME NEW Key, NEW history \in SUBSET HistoryRow(Key), NEW t \in Nat,
         NEW fresh \in SUBSET FreshRow(Key), HalfFolded(history, t),
         AlwaysChanges(history), Outdated(history, fresh, t)
  PROVE  AlwaysChanges(OpenMissing(history, fresh, t))
<1> SUFFICES ASSUME NEW r \in OpenMissing(history, fresh, t),
                    NEW q \in OpenMissing(history, fresh, t),
                    r.key = q.key, r.to = q.from
             PROVE  r.price # q.price
  BY DEF AlwaysChanges
<1>1. \A x \in OpenMissing(history, fresh, t) :
        \/ x \in history /\ x.from \in Nat /\ x.from < t
        \/ \E f \in fresh : x.key = f.key /\ x.price = f.price /\ x.from = t /\ x.to = Open
  BY DEF OpenMissing, HalfFolded, HistoryRow, Time
<1>2. q.from \in Nat
  BY <1>1
<1>3. r \in history
  BY <1>1, <1>2, MarkerAssumption
<1>4. CASE q \in history
  BY <1>3, <1>4 DEF AlwaysChanges
<1>5. CASE \E f \in fresh : q.key = f.key /\ q.price = f.price /\ q.from = t
  BY <1>3, <1>5 DEF Outdated
<1> QED
  BY <1>1, <1>4, <1>5

LEMMA CloseOnlyAppends ==
  ASSUME NEW Key, NEW history \in SUBSET HistoryRow(Key), NEW t \in Nat,
         NEW rows \in SUBSET {r \in history : r.to = Open}
  PROVE  OnlyAppends(history, Close(history, rows, t), t)
<1>1. ASSUME NEW r \in history
      PROVE  \/ r \in Close(history, rows, t)
             \/ r.to = Open /\ [r EXCEPT !.to = t] \in Close(history, rows, t)
  BY DEF Close
<1>2. ASSUME NEW r \in Close(history, rows, t) \ history
      PROVE  r.to = t
  BY DEF Close, HistoryRow
<1> QED
  BY <1>1, <1>2 DEF OnlyAppends

\* Statements of one fold compose: what one closed the next leaves alone.
LEMMA OnlyAppendsComposes ==
  ASSUME NEW a, NEW b, NEW c, NEW t \in Nat, NEW Key,
         a \subseteq HistoryRow(Key), OnlyAppends(a, b, t), OnlyAppends(b, c, t)
  PROVE  OnlyAppends(a, c, t)
<1>1. ASSUME NEW r \in a
      PROVE  r \in c \/ (r.to = Open /\ [r EXCEPT !.to = t] \in c)
  <2>1. CASE r \in b
    BY <2>1 DEF OnlyAppends
  <2>2. CASE r \notin b
    <3>1. r.to = Open /\ [r EXCEPT !.to = t] \in b
      BY <2>2 DEF OnlyAppends
    <3>2. [r EXCEPT !.to = t].to # Open
      BY MarkerAssumption DEF HistoryRow
    <3> QED
      BY <3>1, <3>2 DEF OnlyAppends
  <2> QED
    BY <2>1, <2>2
<1>2. ASSUME NEW r \in c \ a
      PROVE  r.to = t \/ (r.from = t /\ r.to = Open)
  BY DEF OnlyAppends
<1> QED
  BY <1>1, <1>2 DEF OnlyAppends

LEMMA OpenMissingOnlyAppends ==
  ASSUME NEW history, NEW fresh, NEW t
  PROVE  OnlyAppends(history, OpenMissing(history, fresh, t), t)
BY DEF OnlyAppends, OpenMissing

\* What a fold's two closing statements hand to the opening one.
ReadyToOpen(Key, before, half, fresh, t) ==
  /\ half \subseteq HistoryRow(Key)
  /\ HalfFolded(half, t)
  /\ AlwaysChanges(half)
  /\ Outdated(half, fresh, t)
  /\ OnlyAppends(before, half, t)

\* What a fold leaves, given what the previous one left.
SoundFold(Key, before, after, t) ==
  /\ after \subseteq HistoryRow(Key)
  /\ Timeline(after, t + 1)
  /\ AlwaysChanges(after)
  /\ OnlyAppends(before, after, t)

LEMMA CloseChangedIsReady ==
  ASSUME NEW Key, NEW history \in SUBSET HistoryRow(Key), NEW t \in Nat,
         NEW fresh, Functional(fresh),
         Timeline(history, t), AlwaysChanges(history)
  PROVE  ReadyToOpen(Key, history, CloseChanged(history, fresh, t), fresh, t)
<1> DEFINE rows == {r \in history : r.to = Open
                                     /\ \E f \in fresh : f.key = r.key /\ f.price # r.price}
<1>1. CloseChanged(history, fresh, t) = Close(history, rows, t)
  BY DEF CloseChanged
<1>2. rows \in SUBSET {r \in history : r.to = Open} /\ rows \in SUBSET history
  OBVIOUS
<1>3. Outdated(CloseChanged(history, fresh, t), fresh, t)
  BY CloseChangedOutdates
<1>4. HalfFolded(history, t)
  BY TimelineIsHalfFolded
<1> HIDE DEF rows
<1>5. Close(history, rows, t) \subseteq HistoryRow(Key)
  BY <1>2, CloseType
<1>6. HalfFolded(Close(history, rows, t), t)
  BY <1>2, <1>4, CloseIsHalfFolded
<1>7. AlwaysChanges(Close(history, rows, t))
  BY <1>2, <1>4, CloseAlwaysChanges
<1>8. OnlyAppends(history, Close(history, rows, t), t)
  BY <1>2, CloseOnlyAppends
<1> QED
  BY <1>1, <1>3, <1>5, <1>6, <1>7, <1>8 DEF ReadyToOpen

LEMMA CloseResolvedIsReady ==
  ASSUME NEW Key, NEW before \in SUBSET HistoryRow(Key), NEW half, NEW t \in Nat,
         NEW fresh, NEW staged, ReadyToOpen(Key, before, half, fresh, t)
  PROVE  ReadyToOpen(Key, before, CloseResolved(half, fresh, staged, t), fresh, t)
<1> DEFINE rows == {r \in half : /\ r.to = Open
                                 /\ \A f \in fresh : f.key # r.key
                                 /\ \E q \in staged : q.store = r.key[1]}
<1>1. CloseResolved(half, fresh, staged, t) = Close(half, rows, t)
  BY DEF CloseResolved
<1>2. rows \in SUBSET {r \in half : r.to = Open} /\ rows \in SUBSET half
  OBVIOUS
<1>3. /\ half \in SUBSET HistoryRow(Key) /\ HalfFolded(half, t) /\ AlwaysChanges(half)
      /\ Outdated(half, fresh, t) /\ OnlyAppends(before, half, t)
  BY DEF ReadyToOpen
<1>4. Outdated(CloseResolved(half, fresh, staged, t), fresh, t)
  BY <1>3, CloseResolvedOutdates
<1> HIDE DEF rows
<1>5. Close(half, rows, t) \subseteq HistoryRow(Key)
  BY <1>2, <1>3, CloseType
<1>6. HalfFolded(Close(half, rows, t), t)
  BY <1>2, <1>3, CloseIsHalfFolded
<1>7. AlwaysChanges(Close(half, rows, t))
  BY <1>2, <1>3, CloseAlwaysChanges
<1>8. OnlyAppends(half, Close(half, rows, t), t)
  BY <1>2, <1>3, CloseOnlyAppends
<1>9. OnlyAppends(before, Close(half, rows, t), t)
  BY <1>3, <1>8, OnlyAppendsComposes
<1> QED
  BY <1>1, <1>4, <1>5, <1>6, <1>7, <1>9 DEF ReadyToOpen

LEMMA OpenMissingIsSound ==
  ASSUME NEW Key, NEW before \in SUBSET HistoryRow(Key), NEW half, NEW t \in Nat,
         NEW fresh \in SUBSET FreshRow(Key), Functional(fresh),
         ReadyToOpen(Key, before, half, fresh, t)
  PROVE  SoundFold(Key, before, OpenMissing(half, fresh, t), t)
<1>1. /\ half \in SUBSET HistoryRow(Key) /\ HalfFolded(half, t) /\ AlwaysChanges(half)
      /\ Outdated(half, fresh, t) /\ OnlyAppends(before, half, t)
  BY DEF ReadyToOpen
<1>2. OpenMissing(half, fresh, t) \subseteq HistoryRow(Key)
  BY <1>1, OpenMissingType
<1>3. Timeline(OpenMissing(half, fresh, t), t + 1)
  BY <1>1, OpenMissingIsATimeline
<1>4. AlwaysChanges(OpenMissing(half, fresh, t))
  BY <1>1, OpenMissingAlwaysChanges
<1>5. OnlyAppends(half, OpenMissing(half, fresh, t), t)
  BY OpenMissingOnlyAppends
<1>6. OnlyAppends(before, OpenMissing(half, fresh, t), t)
  BY <1>1, <1>5, OnlyAppendsComposes
<1> QED
  BY <1>2, <1>3, <1>4, <1>6 DEF SoundFold

LEMMA FoldBaseIsSound ==
  ASSUME NEW Key, NEW history \in SUBSET HistoryRow(Key), NEW t \in Nat,
         NEW fresh \in SUBSET FreshRow(Key), Functional(fresh),
         Timeline(history, t), AlwaysChanges(history)
  PROVE  SoundFold(Key, history, FoldBase(history, fresh, t), t)
BY CloseChangedIsReady, OpenMissingIsSound DEF FoldBase

LEMMA FoldExceptionIsSound ==
  ASSUME NEW Key, NEW history \in SUBSET HistoryRow(Key), NEW t \in Nat,
         NEW fresh \in SUBSET FreshRow(Key), Functional(fresh), NEW staged,
         Timeline(history, t), AlwaysChanges(history)
  PROVE  SoundFold(Key, history, FoldException(history, fresh, staged, t), t)
<1>1. ReadyToOpen(Key, history, CloseChanged(history, fresh, t), fresh, t)
  BY CloseChangedIsReady
<1>2. ReadyToOpen(Key, history,
                  CloseResolved(CloseChanged(history, fresh, t), fresh, staged, t),
                  fresh, t)
  BY <1>1, CloseResolvedIsReady
<1> QED
  BY <1>2, OpenMissingIsSound DEF FoldException

\* Every base row the fold closes is replaced at the same instant.
LEMMA FoldBaseLeavesNoGaps ==
  ASSUME NEW Key, NEW history \in SUBSET HistoryRow(Key), NEW t \in Nat,
         NEW fresh \in SUBSET FreshRow(Key), Timeline(history, t), NoGaps(history)
  PROVE  NoGaps(FoldBase(history, fresh, t))
<1> DEFINE rows == {r \in history : r.to = Open
                                     /\ \E f \in fresh : f.key = r.key /\ f.price # r.price}
           half == Close(history, rows, t)
           after == FoldBase(history, fresh, t)
<1>1. after = OpenMissing(half, fresh, t)
  BY DEF FoldBase, CloseChanged
<1>2. rows \in SUBSET {r \in history : r.to = Open}
  OBVIOUS
<1>3. ASSUME NEW r \in half
      PROVE  \/ r \in history /\ r \notin rows
             \/ \E o \in rows : r.key = o.key /\ r.to = t
  BY <1>2, ClosedRow
<1>4. ASSUME NEW o \in history
      PROVE  \E q \in after : q.key = o.key /\ q.from = o.from
  <2>1. half \subseteq after
    BY <1>1 DEF OpenMissing
  <2>2. CASE o \notin rows
    BY <2>1, <2>2 DEF Close
  <2>3. CASE o \in rows
    <3>1. [o EXCEPT !.to = t] \in half
      BY <2>3 DEF Close
    <3>2. [o EXCEPT !.to = t].key = o.key /\ [o EXCEPT !.to = t].from = o.from
      BY DEF HistoryRow
    <3> QED
      BY <2>1, <3>1, <3>2
  <2> QED
    BY <2>2, <2>3
<1>5. ASSUME NEW o \in rows
      PROVE  \E q \in after : q.key = o.key /\ q.from = t
  <2>1. PICK f \in fresh : f.key = o.key
    OBVIOUS
  <2>2. ASSUME NEW x \in half, x.key = o.key, x.to = Open
        PROVE  FALSE
    <3>1. x \in history /\ x \notin rows
      BY <1>3, <2>2, MarkerAssumption
    <3> QED
      BY <3>1, <2>2 DEF Timeline, Before
  <2>3. ~ IsOpen(half, f.key)
    BY <2>1, <2>2 DEF IsOpen
  <2>4. [key |-> f.key, price |-> f.price, from |-> t, to |-> Open] \in after
    BY <1>1, <2>3 DEF OpenMissing
  <2> QED
    BY <2>1, <2>4
<1>6. ASSUME NEW r \in after, r.to # Open
      PROVE  \E q \in after : q.key = r.key /\ q.from = r.to
  <2>1. r \in half
    BY <1>1, <1>6 DEF OpenMissing
  <2>2. CASE r \in history
    <3>1. PICK o \in history : o.key = r.key /\ o.from = r.to
      BY <1>6, <2>2 DEF NoGaps
    <3> QED
      BY <1>4, <3>1
  <2>3. CASE \E o \in rows : r.key = o.key /\ r.to = t
    BY <1>5, <2>3
  <2> QED
    BY <1>3, <2>1, <2>2, <2>3
<1> QED
  BY <1>6 DEF NoGaps

-----------------------------------------------------------------------------
(* What a reader of a history sees.                                        *)

LEMMA TimelineIsSingleOpen ==
  ASSUME NEW history, NEW t, Timeline(history, t)
  PROVE  SingleOpen(history)
BY DEF Timeline, SingleOpen, Before

LEMMA TimelineOutlasts ==
  ASSUME NEW Key, NEW history \in SUBSET HistoryRow(Key), NEW t \in Nat,
         Timeline(history, t)
  PROVE  Timeline(history, t + 1)
<1>1. ASSUME NEW r \in history
      PROVE  r.from < t + 1 /\ (r.to # Open => r.from < r.to /\ r.to < t + 1)
  BY DEF Timeline, HistoryRow, Time
<1> QED
  BY <1>1 DEF Timeline

\* What was in force at a past instant stays so.
LEMMA PastPricesStay ==
  ASSUME NEW Key, NEW old \in SUBSET HistoryRow(Key), NEW new, NEW k,
         NEW t \in Nat, NEW u \in Nat, u < t, OnlyAppends(old, new, t)
  PROVE  PriceAt(old, k, u) \subseteq PriceAt(new, k, u)
<1> SUFFICES ASSUME NEW r \in old, r.key = k, r.from <= u, r.to = Open \/ u < r.to
             PROVE  r.price \in PriceAt(new, k, u)
  BY DEF PriceAt
<1>1. CASE r \in new
  BY <1>1 DEF PriceAt
<1>2. CASE r.to = Open /\ [r EXCEPT !.to = t] \in new
  <2> DEFINE q == [r EXCEPT !.to = t]
  <2>1. q.key = r.key /\ q.price = r.price /\ q.from = r.from /\ q.to = t
    BY DEF HistoryRow
  <2>2. q \in new
    BY <1>2
  <2> HIDE DEF q
  <2> QED
    BY <2>1, <2>2 DEF PriceAt
<1> QED
  BY <1>1, <1>2 DEF OnlyAppends

\* An open price is the price of the present instant.
LEMMA OpenIsInForce ==
  ASSUME NEW Key, NEW history \in SUBSET HistoryRow(Key), NEW t \in Nat,
         Timeline(history, t + 1), NEW k, NEW p \in OpenPrices(history, k)
  PROVE  p \in PriceAt(history, k, t) /\ k \in Key
<1>1. ASSUME NEW r \in history
      PROVE  r.from <= t /\ r.key \in Key
  BY DEF Timeline, HistoryRow, Time
<1> QED
  BY <1>1 DEF OpenPrices, PriceAt

-----------------------------------------------------------------------------
(* price_current and price_daily.                                          *)

OneRowPerKey(rows) == \A c, d \in rows : c.key = d.key => c = d

LEMMA OpenPricesType ==
  ASSUME NEW Key, NEW history \in SUBSET HistoryRow(Key), NEW k
  PROVE  OpenPrices(history, k) \subseteq Price
BY DEF OpenPrices, HistoryRow

LEMMA EffectiveIsSingle ==
  ASSUME NEW bases, NEW exceptions, NEW groups, NEW o,
         SingleOpen(bases), SingleOpen(exceptions),
         NEW p \in Effective(bases, exceptions, groups, o),
         NEW q \in Effective(bases, exceptions, groups, o)
  PROVE  p = q
BY DEF Effective, OpenPrices, SingleOpen

LEMMA FlattenType ==
  ASSUME NEW bases \in SUBSET HistoryRow(BaseKey), NEW exceptions \in SUBSET HistoryRow(Pair),
         NEW groups, NEW staged \in SUBSET StagingRow, NEW t \in Nat
  PROVE  Flatten(bases, exceptions, groups, staged, t) \subseteq CurrentRow
<1>1. Observed(staged) \subseteq Pair
  BY DEF Observed, StagingRow, Pair
<1>2. ASSUME NEW o PROVE Effective(bases, exceptions, groups, o) \subseteq Price
  BY OpenPricesType DEF Effective
<1> QED
  BY <1>1, <1>2 DEF Flatten, CurrentRow, Time

LEMMA FlattenIsOneRowPerKey ==
  ASSUME NEW bases, NEW exceptions, NEW groups, NEW staged, NEW t,
         SingleOpen(bases), SingleOpen(exceptions)
  PROVE  OneRowPerKey(Flatten(bases, exceptions, groups, staged, t))
<1> SUFFICES ASSUME NEW c \in Flatten(bases, exceptions, groups, staged, t),
                    NEW d \in Flatten(bases, exceptions, groups, staged, t),
                    c.key = d.key
             PROVE  c = d
  BY DEF OneRowPerKey
<1>1. PICK p \in Effective(bases, exceptions, groups, c.key) :
        c = [key |-> c.key, price |-> p, updated |-> t]
  BY DEF Flatten
<1>2. PICK q \in Effective(bases, exceptions, groups, d.key) :
        d = [key |-> d.key, price |-> q, updated |-> t]
  BY DEF Flatten
<1>3. p = q
  BY EffectiveIsSingle
<1> QED
  BY <1>1, <1>2, <1>3

LEMMA UpsertIsOneRowPerKey ==
  ASSUME NEW table, NEW rows, OneRowPerKey(table), OneRowPerKey(rows)
  PROVE  OneRowPerKey(Upsert(table, rows))
BY DEF OneRowPerKey, Upsert

LEMMA RollUpType ==
  ASSUME NEW table \in SUBSET CurrentRow, NEW t \in Nat
  PROVE  RollUp(table, t) \subseteq DailyRow
<1>1. Day(t) \in Time
  BY TimeAssumption DEF Day, Time
<1>2. ASSUME NEW c \in table PROVE c.key[2] \in Variant /\ c.price \in Price
  BY DEF CurrentRow, Pair
<1> QED
  BY <1>1, <1>2 DEF RollUp, Extent, DailyRow

-----------------------------------------------------------------------------
(* The inductive invariant.                                                *)

\* No conjunct but TypeOK and HistoryIsATimeline is inductive alone: a fold keeps
\* the others because the histories it starts from are timelines.
IInv ==
  /\ TypeOK
  /\ HistoryIsATimeline
  /\ NoChurn
  /\ BaseHasNoGaps
  /\ OneCurrentRow
  /\ CurrentBackedByHistory

LEMMA InitIInv == Init => IInv
<1> SUFFICES ASSUME Init PROVE IInv
  OBVIOUS
<1>1. IsFiniteSet({})
  BY FS_EmptySet
<1>2. TypeOK
  BY <1>1 DEF Init, TypeOK
<1>3. HistoryIsATimeline /\ NoChurn /\ BaseHasNoGaps
  BY DEF Init, HistoryIsATimeline, Timeline, NoChurn, AlwaysChanges, BaseHasNoGaps, NoGaps
<1>4. OneCurrentRow /\ CurrentBackedByHistory
  BY DEF Init, OneCurrentRow, CurrentBackedByHistory
<1> QED
  BY <1>2, <1>3, <1>4 DEF IInv

\* Steps that leave the price tables alone.
LEMMA TablesUnchanged ==
  ASSUME IInv, TypeOK', UNCHANGED <<base, exception, current>>,
         now' = now \/ now' = now + 1
  PROVE  IInv'
<1>1. now \in Nat /\ base \in SUBSET HistoryRow(BaseKey) /\ exception \in SUBSET HistoryRow(Pair)
  BY DEF IInv, TypeOK
<1>2. Timeline(base, now + 1) /\ Timeline(exception, now + 1)
  BY <1>1, TimelineOutlasts DEF IInv, HistoryIsATimeline
<1>3. HistoryIsATimeline'
  BY <1>2 DEF IInv, HistoryIsATimeline
<1>4. NoChurn' /\ BaseHasNoGaps' /\ OneCurrentRow'
  BY DEF IInv, NoChurn, BaseHasNoGaps, OneCurrentRow
<1>5. \A c \in current : c.updated < now'
  BY <1>1 DEF IInv, TypeOK, CurrentBackedByHistory, CurrentRow, Time
<1>6. CurrentBackedByHistory'
  BY <1>5 DEF IInv, CurrentBackedByHistory
<1> QED
  BY <1>3, <1>4, <1>6 DEF IInv

LEMMA StageFileIInv ==
  ASSUME IInv, NEW s \in Store, NEW kind \in FileKind, NEW listing \in Listings,
         NEW g \in Header[s], StageFile(s, kind, g, listing)
  PROVE  IInv'
<1> DEFINE Row(v) == [store |-> s, variant |-> v, group |-> g, price |-> listing[v],
                      kind |-> kind, at |-> now]
           rows == {Row(v) : v \in DOMAIN listing}
           lister == [v \in DOMAIN listing |-> Row(v)]
<1>1. PICK shelf \in SUBSET Variant : listing \in [shelf -> Price \cup {None}]
  BY DEF Listings
<1>2. rows \subseteq StagingRow
  BY <1>1, HeaderAssumption DEF IInv, TypeOK, StagingRow, Time
<1>3. IsFiniteSet(DOMAIN listing)
  BY <1>1, VariantAssumption, FS_Subset
<1>4. lister \in Surjection(DOMAIN listing, rows)
  BY DEF Surjection
<1>5. IsFiniteSet(rows)
  BY <1>3, <1>4, FS_Surjection
<1>6. staging' = staging \cup rows
  BY DEF StageFile
<1> HIDE DEF rows
<1>7. IsFiniteSet(staging')
  BY <1>5, <1>6, FS_Union DEF IInv, TypeOK
<1>8. TypeOK'
  BY <1>2, <1>6, <1>7 DEF IInv, TypeOK, StageFile
<1> QED
  BY <1>8, TablesUnchanged DEF StageFile

LEMMA MoveStoreIInv ==
  ASSUME IInv, NEW s \in Store, NEW g \in Header[s], MoveStore(s, g)
  PROVE  IInv'
<1>1. TypeOK'
  BY HeaderAssumption DEF IInv, TypeOK, MoveStore
<1> QED
  BY <1>1, TablesUnchanged DEF MoveStore

LEMMA PurgeIInv ==
  ASSUME IInv, Purge
  PROVE  IInv'
<1>1. IsFiniteSet({})
  BY FS_EmptySet
<1>2. TypeOK'
  BY <1>1 DEF IInv, TypeOK, Purge
<1> QED
  BY <1>2, TablesUnchanged DEF Purge

LEMMA WaitIInv ==
  ASSUME IInv, Wait
  PROVE  IInv'
<1>1. TypeOK'
  BY DEF IInv, TypeOK, Wait
<1> QED
  BY <1>1, TablesUnchanged DEF Wait

\* Both histories after a fold.
LEMMA RebuildIsSound ==
  ASSUME IInv, Rebuild
  PROVE  /\ SoundFold(BaseKey, base, base', now)
         /\ SoundFold(Pair, exception, exception', now)
         /\ NoGaps(base')
<1> DEFINE modal == ModalBase(staging)
           fresh == Exceptions(staging, modal)
<1>1. /\ staging \in SUBSET StagingRow /\ IsFiniteSet(staging) /\ now \in Nat
      /\ base \in SUBSET HistoryRow(BaseKey) /\ exception \in SUBSET HistoryRow(Pair)
  BY DEF IInv, TypeOK
<1>2. modal \in SUBSET FreshRow(BaseKey) /\ Functional(modal)
  BY <1>1, ModalBaseFresh
<1>3. fresh \in SUBSET FreshRow(Pair) /\ Functional(fresh)
  BY <1>1, ExceptionsFresh
<1>4. /\ base' = FoldBase(base, modal, now)
      /\ exception' = FoldException(exception, fresh, staging, now)
  BY DEF Rebuild
<1>5. /\ Timeline(base, now) /\ AlwaysChanges(base) /\ NoGaps(base)
      /\ Timeline(exception, now) /\ AlwaysChanges(exception)
  BY DEF IInv, HistoryIsATimeline, NoChurn, BaseHasNoGaps
<1> HIDE DEF modal, fresh
<1>6. SoundFold(BaseKey, base, base', now)
  BY <1>1, <1>2, <1>4, <1>5, FoldBaseIsSound
<1>7. SoundFold(Pair, exception, exception', now)
  BY <1>1, <1>3, <1>4, <1>5, FoldExceptionIsSound
<1>8. NoGaps(base')
  BY <1>1, <1>2, <1>4, <1>5, FoldBaseLeavesNoGaps
<1> QED
  BY <1>6, <1>7, <1>8

LEMMA RebuildIInv ==
  ASSUME IInv, Rebuild
  PROVE  IInv'
<1> DEFINE shown == Flatten(base', exception', groupOf, staging, now)
           upserted == Upsert(current, shown)
<1>1. /\ staging \in SUBSET StagingRow /\ now \in Nat /\ current \in SUBSET CurrentRow
      /\ base \in SUBSET HistoryRow(BaseKey) /\ exception \in SUBSET HistoryRow(Pair)
      /\ daily \in SUBSET DailyRow /\ groupOf \in [Store -> Group \cup {None}]
      /\ IsFiniteSet(staging)
  BY DEF IInv, TypeOK
<1>2. /\ base' \in SUBSET HistoryRow(BaseKey) /\ exception' \in SUBSET HistoryRow(Pair)
      /\ Timeline(base', now + 1) /\ Timeline(exception', now + 1)
      /\ AlwaysChanges(base') /\ AlwaysChanges(exception') /\ NoGaps(base')
      /\ OnlyAppends(base, base', now) /\ OnlyAppends(exception, exception', now)
  BY RebuildIsSound DEF SoundFold
<1>3. /\ current' = PruneStale(upserted, now) /\ daily' = Upsert(daily, RollUp(current', now))
      /\ now' = now + 1 /\ UNCHANGED <<staging, groupOf>>
  BY DEF Rebuild
<1>4. shown \in SUBSET CurrentRow
  BY <1>1, <1>2, FlattenType
<1>5. OneRowPerKey(shown)
  BY <1>2, TimelineIsSingleOpen, FlattenIsOneRowPerKey
<1>6. current' \subseteq upserted
  BY <1>3 DEF PruneStale
<1>7. \A c \in current' : c \in current \/ c \in shown
  BY <1>6 DEF Upsert
<1>8. current' \in SUBSET CurrentRow
  BY <1>1, <1>4, <1>7
<1>9. TypeOK'
  <2>1. RollUp(current', now) \subseteq DailyRow
    BY <1>1, <1>8, RollUpType
  <2>2. daily' \subseteq DailyRow
    BY <1>1, <1>3, <2>1 DEF Upsert
  <2> QED
    BY <1>1, <1>2, <1>3, <1>8, <2>2 DEF TypeOK
<1>10. HistoryIsATimeline' /\ NoChurn' /\ BaseHasNoGaps'
  BY <1>2, <1>3 DEF HistoryIsATimeline, NoChurn, BaseHasNoGaps
<1>11. OneCurrentRow'
  <2>1. OneRowPerKey(current)
    BY DEF IInv, OneCurrentRow, OneRowPerKey
  <2>2. OneRowPerKey(upserted)
    BY <1>5, <2>1, UpsertIsOneRowPerKey
  <2> QED
    BY <1>6, <2>2 DEF OneRowPerKey, OneCurrentRow
<1>12. ASSUME NEW c \in current'
       PROVE  /\ c.updated < now'
              /\ \/ c.price \in PriceAt(exception', c.key, c.updated)
                 \/ \E g \in Group : c.price \in PriceAt(base', <<g, c.key[2]>>, c.updated)
  <2>1. CASE c \in current
    <3>1. c.updated \in Nat /\ c.updated < now
      BY <1>1, <2>1 DEF IInv, CurrentBackedByHistory, CurrentRow, Time
    <3>2. PriceAt(exception, c.key, c.updated) \subseteq PriceAt(exception', c.key, c.updated)
      BY <1>1, <1>2, <3>1, PastPricesStay
    <3>3. \A g \in Group : PriceAt(base, <<g, c.key[2]>>, c.updated)
                             \subseteq PriceAt(base', <<g, c.key[2]>>, c.updated)
      BY <1>1, <1>2, <3>1, PastPricesStay
    <3> QED
      BY <1>1, <1>3, <2>1, <3>1, <3>2, <3>3 DEF IInv, CurrentBackedByHistory
  <2>2. CASE c \in shown
    <3>1. PICK o \in Observed(staging) : \E p \in Effective(base', exception', groupOf, o) :
            c = [key |-> o, price |-> p, updated |-> now]
      BY <2>2 DEF Flatten
    <3>2. c.key = o /\ c.updated = now /\ c.price \in Effective(base', exception', groupOf, o)
      BY <3>1
    <3>3. CASE c.price \in OpenPrices(exception', o)
      <4>1. c.price \in PriceAt(exception', o, now)
        BY <1>1, <1>2, <3>3, OpenIsInForce
      <4> QED
        BY <1>1, <1>3, <3>2, <4>1
    <3>4. CASE c.price \in OpenPrices(base', <<groupOf[o[1]], o[2]>>)
      <4> DEFINE g == groupOf[o[1]]
                 k == <<g, o[2]>>
      <4>1. c.price \in OpenPrices(base', k)
        BY <3>4
      <4>2. k \in BaseKey => g \in Group
        BY DEF BaseKey
      <4> HIDE DEF k
      <4>3. c.price \in PriceAt(base', k, now) /\ k \in BaseKey
        BY <1>1, <1>2, <4>1, OpenIsInForce
      <4> QED
        BY <1>1, <1>3, <3>2, <4>2, <4>3 DEF k
    <3> QED
      BY <3>2, <3>3, <3>4 DEF Effective
  <2> QED
    BY <1>7, <2>1, <2>2
<1>13. CurrentBackedByHistory'
  BY <1>12 DEF CurrentBackedByHistory
<1> QED
  BY <1>9, <1>10, <1>11, <1>13 DEF IInv

LEMMA NextIInv == IInv /\ [Next]_vars => IInv'
<1> SUFFICES ASSUME IInv, [Next]_vars PROVE IInv'
  OBVIOUS
<1>1. ASSUME NEW s \in Store, NEW kind \in FileKind, NEW listing \in Listings,
             NEW g \in Header[s], StageFile(s, kind, g, listing)
      PROVE  IInv'
  BY <1>1, StageFileIInv
<1>2. ASSUME NEW s \in Store, NEW g \in Header[s], MoveStore(s, g)
      PROVE  IInv'
  BY <1>2, MoveStoreIInv
<1>3. CASE Rebuild
  BY <1>3, RebuildIInv
<1>4. CASE Purge
  BY <1>4, PurgeIInv
<1>5. CASE Wait
  BY <1>5, WaitIInv
<1>6. CASE UNCHANGED vars
  <2>1. TypeOK'
    BY <1>6 DEF IInv, TypeOK, vars
  <2> QED
    BY <1>6, <2>1, TablesUnchanged DEF vars
<1> QED
  BY <1>1, <1>2, <1>3, <1>4, <1>5, <1>6 DEF Next

\* prices.py: whatever is staged, folded, purged or moved in whichever order, the tables
\* keep their types, and the histories and price_current their named properties.
THEOREM Invariance == Spec => []IInv
<1> QED
  BY InitIInv, NextIInv, PTL DEF Spec

\* Every row of every table has its columns' types, whatever is staged and folded.
THEOREM TypeCorrectness == Spec => []TypeOK
<1>1. IInv => TypeOK
  BY DEF IInv
<1> QED
  BY Invariance, <1>1, PTL

\* A fold closes before it opens, so no key of either history ever has two open rows,
\* although no unique index of price_base and price_exception says so.
THEOREM OneOpenRowTheorem == Spec => []OneOpenRow
<1>1. IInv => OneOpenRow
  BY TimelineIsSingleOpen DEF IInv, HistoryIsATimeline, OneOpenRow
<1> QED
  BY Invariance, <1>1, PTL

\* The intervals of a key never overlap: an as-of query has at most one answer.
THEOREM TimelineTheorem == Spec => []HistoryIsATimeline
<1>1. IInv => HistoryIsATimeline
  BY DEF IInv
<1> QED
  BY Invariance, <1>1, PTL

\* The fold writes nothing for a price that did not change.
THEOREM NoChurnTheorem == Spec => []NoChurn
<1>1. IInv => NoChurn
  BY DEF IInv
<1> QED
  BY Invariance, <1>1, PTL

\* A group that has a base price keeps one: base rows are replaced, never just closed.
THEOREM NoGapsTheorem == Spec => []BaseHasNoGaps
<1>1. IInv => BaseHasNoGaps
  BY DEF IInv
<1> QED
  BY Invariance, <1>1, PTL

\* The upsert of price_current never meets the same (store, variant) twice.
THEOREM OneCurrentRowTheorem == Spec => []OneCurrentRow
<1>1. IInv => OneCurrentRow
  BY DEF IInv
<1> QED
  BY Invariance, <1>1, PTL

\* Every shown price is found in the history at the instant it was stamped.
THEOREM CurrentBackedTheorem == Spec => []CurrentBackedByHistory
<1>1. IInv => CurrentBackedByHistory
  BY DEF IInv
<1> QED
  BY Invariance, <1>1, PTL

HistoryOnlyAppendsStep ==
  OnlyAppends(base, base', now) /\ OnlyAppends(exception, exception', now)

LEMMA OnlyAppendsStep == IInv /\ [Next]_vars => [HistoryOnlyAppendsStep]_vars
<1> SUFFICES ASSUME IInv, Next PROVE HistoryOnlyAppendsStep
  BY DEF HistoryOnlyAppendsStep
<1>1. CASE Rebuild
  BY <1>1, RebuildIsSound DEF SoundFold, HistoryOnlyAppendsStep
<1>2. CASE UNCHANGED <<base, exception>>
  BY <1>2 DEF OnlyAppends, HistoryOnlyAppendsStep
<1> QED
  BY <1>1, <1>2 DEF Next, StageFile, MoveStore, Purge, Wait

\* No step rewrites history: rows are closed or appended at the present instant.
THEOREM OnlyAppendsTheorem == Spec => HistoryOnlyAppends
<1> QED
  BY Invariance, OnlyAppendsStep, PTL DEF Spec, HistoryOnlyAppends, HistoryOnlyAppendsStep
=============================================================================
