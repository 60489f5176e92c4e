--------------------------- MODULE PriceFoldProofs ---------------------------
(***************************************************************************)
(* What one fold does with what was published, proved for every staging    *)
(* table: it is recorded, it is shown, and a split never raises a price.   *)
(* Then the refinement of the two histories, and the chart of a product.   *)
(*                                                                         *)
(* The folds rest on two facts: the row DISTINCT ON ranks first exists,    *)
(* because prices are naturals and < is well founded on them; and after    *)
(* the fold the open rows of the staged keys are exactly the fresh ones.   *)
(***************************************************************************)
EXTENDS PriceHistoryProofs, SetFacts

\* A price the base does not explain yields an exception of its pair.
LEMMA ExceptionExists ==
  ASSUME NEW staged \in SUBSET StagingRow, NEW modal, NEW r \in Disagreeing(staged, modal)
  PROVE  \E f \in Exceptions(staged, modal) : f.key = <<r.store, r.variant>>
<1> DEFINE rows == Disagreeing(staged, modal)
           same == {q \in rows : q.store = r.store /\ q.variant = r.variant}
           prices == {q.price : q \in same}
<1>1. \A q \in rows : q.price \in Nat
  BY PriceAssumption DEF Disagreeing, Priced, StagingRow
<1>2. prices \in SUBSET Nat /\ prices # {}
  BY <1>1
<1>3. PICK m \in prices : \A n \in prices : m <= n
  BY <1>2, NatMinimum
<1>4. PICK q \in same : q.price = m
  OBVIOUS
<1>5. \A p \in rows : p.store = q.store /\ p.variant = q.variant => q.price <= p.price
  BY <1>3, <1>4
<1>6. [key |-> <<q.store, q.variant>>, price |-> q.price] \in Exceptions(staged, modal)
  BY <1>4, <1>5 DEF Exceptions
<1> QED
  BY <1>4, <1>6

\* An exception's price is one its store staged for the item.
LEMMA ExceptionIsStated ==
  ASSUME NEW staged, NEW modal, NEW f \in Exceptions(staged, modal)
  PROVE  \E q \in Priced(staged) : /\ f.key = <<q.store, q.variant>>
                                   /\ f.price = q.price
BY DEF Exceptions, Disagreeing

-----------------------------------------------------------------------------
(* The open rows after a fold.                                             *)

\* No open row contradicts a fresh price.
Agreed(history, fresh) ==
  \A r \in history, f \in fresh : r.key = f.key /\ r.to = Open => r.price = f.price

\* Every fresh price is in force.
InForce(history, fresh) ==
  \A f \in fresh : \E r \in history : r.key = f.key /\ r.price = f.price /\ r.to = Open

LEMMA CloseOpens ==
  ASSUME NEW Key, NEW history \in SUBSET HistoryRow(Key), NEW t \in Nat,
         NEW rows \in SUBSET {r \in history : r.to = Open},
         NEW r \in Close(history, rows, t), r.to = Open
  PROVE  r \in history /\ r \notin rows
<1>1. t # Open
  BY MarkerAssumption
<1> QED
  BY <1>1, ClosedRow

LEMMA CloseChangedAgrees ==
  ASSUME NEW Key, NEW history \in SUBSET HistoryRow(Key), NEW t \in Nat, NEW fresh
  PROVE  Agreed(CloseChanged(history, fresh, t), fresh)
<1> DEFINE rows == {r \in history : r.to = Open
                                     /\ \E f \in fresh : f.key = r.key /\ f.price # r.price}
<1> SUFFICES ASSUME NEW r \in Close(history, rows, t), NEW f \in fresh,
                    r.key = f.key, r.to = Open
             PROVE  r.price = f.price
  BY DEF Agreed, CloseChanged
<1>1. r \in history /\ r \notin rows
  BY CloseOpens
<1> QED
  BY <1>1

LEMMA CloseResolvedAgrees ==
  ASSUME NEW Key, NEW history \in SUBSET HistoryRow(Key), NEW t \in Nat, NEW fresh,
         NEW staged, Agreed(history, fresh)
  PROVE  Agreed(CloseResolved(history, fresh, staged, t), fresh)
<1> DEFINE rows == {r \in history : /\ r.to = Open
                                    /\ \A f \in fresh : f.key # r.key
                                    /\ \E q \in staged : q.store = r.key[1]}
<1> SUFFICES ASSUME NEW r \in Close(history, rows, t), NEW f \in fresh,
                    r.key = f.key, r.to = Open
             PROVE  r.price = f.price
  BY DEF Agreed, CloseResolved
<1>1. r \in history
  BY CloseOpens
<1> QED
  BY <1>1 DEF Agreed

LEMMA OpenMissingAgrees ==
  ASSUME NEW history, NEW t, NEW fresh, Agreed(history, fresh)
  PROVE  InForce(OpenMissing(history, fresh, t), fresh)
<1> SUFFICES ASSUME NEW f \in fresh
             PROVE  \E r \in OpenMissing(history, fresh, t) :
                      r.key = f.key /\ r.price = f.price /\ r.to = Open
  BY DEF InForce
<1>1. CASE IsOpen(history, f.key)
  BY <1>1 DEF IsOpen, Agreed, OpenMissing
<1>2. CASE ~ IsOpen(history, f.key)
  <2>1. [key |-> f.key, price |-> f.price, from |-> t, to |-> Open]
          \in OpenMissing(history, fresh, t)
    BY <1>2 DEF OpenMissing
  <2> QED
    BY <2>1
<1> QED
  BY <1>1, <1>2

LEMMA FoldBaseIsInForce ==
  ASSUME NEW Key, NEW history \in SUBSET HistoryRow(Key), NEW t \in Nat, NEW fresh
  PROVE  InForce(FoldBase(history, fresh, t), fresh)
BY CloseChangedAgrees, OpenMissingAgrees DEF FoldBase

LEMMA FoldExceptionIsInForce ==
  ASSUME NEW Key, NEW history \in SUBSET HistoryRow(Key), NEW t \in Nat, NEW fresh,
         NEW staged
  PROVE  InForce(FoldException(history, fresh, staged, t), fresh)
<1> DEFINE half == CloseChanged(history, fresh, t)
<1>1. Agreed(half, fresh)
  BY CloseChangedAgrees
<1>2. half \in SUBSET HistoryRow(Key)
  BY CloseType DEF CloseChanged
<1> HIDE DEF half
<1>3. Agreed(CloseResolved(half, fresh, staged, t), fresh)
  BY <1>1, <1>2, CloseResolvedAgrees
<1>4. InForce(OpenMissing(CloseResolved(half, fresh, staged, t), fresh, t), fresh)
  BY <1>3, OpenMissingAgrees
<1> QED
  BY <1>4 DEF FoldException, half

\* The exception a store still has after a fold that staged it is a fresh one.
LEMMA OnlyFreshExceptionsStay ==
  ASSUME NEW Key, NEW history \in SUBSET HistoryRow(Key), NEW t \in Nat, NEW fresh,
         NEW staged, NEW r \in FoldException(history, fresh, staged, t), r.to = Open,
         NEW q \in staged, q.store = r.key[1]
  PROVE  \E f \in fresh : f.key = r.key
<1> DEFINE half == CloseChanged(history, fresh, t)
           rows == {x \in half : /\ x.to = Open
                                 /\ \A f \in fresh : f.key # x.key
                                 /\ \E s \in staged : s.store = x.key[1]}
<1>1. half \in SUBSET HistoryRow(Key)
  BY CloseType DEF CloseChanged
<1>2. \/ r \in Close(half, rows, t)
      \/ \E f \in fresh : r.key = f.key
  BY DEF FoldException, CloseResolved, OpenMissing
<1>3. rows \in SUBSET {x \in half : x.to = Open}
  OBVIOUS
<1> HIDE DEF half
<1>4. CASE r \in Close(half, rows, t)
  <2>1. r \in half /\ r \notin rows
    BY <1>1, <1>3, <1>4, CloseOpens
  <2> QED
    BY <2>1
<1> QED
  BY <1>2, <1>4

-----------------------------------------------------------------------------
(* A fold and the rows it folds.                                           *)

Modal == ModalBase(staging)
OwnPrices == Exceptions(staging, Modal)

\* What the histories hold right after the fold.
LEMMA AfterRebuild ==
  ASSUME IInv, Rebuild
  PROVE  /\ InForce(base', Modal) /\ InForce(exception', OwnPrices)
         /\ SingleOpen(base') /\ SingleOpen(exception')
         /\ \A r \in exception', q \in staging :
              r.to = Open /\ q.store = r.key[1] => \E f \in OwnPrices : f.key = r.key
<1>1. /\ base \in SUBSET HistoryRow(BaseKey) /\ exception \in SUBSET HistoryRow(Pair)
      /\ now \in Nat
  BY DEF IInv, TypeOK
<1>2. /\ base' = FoldBase(base, Modal, now)
      /\ exception' = FoldException(exception, OwnPrices, staging, now)
  BY DEF Rebuild, Modal, OwnPrices
<1>3. InForce(base', Modal)
  BY <1>1, <1>2, FoldBaseIsInForce
<1>4. InForce(exception', OwnPrices)
  BY <1>1, <1>2, FoldExceptionIsInForce
<1>5. SingleOpen(base') /\ SingleOpen(exception')
  BY RebuildIsSound, TimelineIsSingleOpen DEF SoundFold
<1>6. ASSUME NEW r \in exception', NEW q \in staging, r.to = Open, q.store = r.key[1]
      PROVE  \E f \in OwnPrices : f.key = r.key
  BY <1>1, <1>2, <1>6, OnlyFreshExceptionsStay
<1> QED
  BY <1>3, <1>4, <1>5, <1>6

\* Right after the fold, in force and open are the same thing.
LEMMA PriceAtFold ==
  ASSUME NEW Key, NEW history \in SUBSET HistoryRow(Key), NEW k, NEW t \in Nat,
         Timeline(history, t + 1)
  PROVE  PriceAt(history, k, t) = OpenPrices(history, k)
<1>1. ASSUME NEW r \in history
      PROVE  r.from <= t /\ (r.to = Open \/ ~ t < r.to)
  BY DEF Timeline, HistoryRow, Time
<1>2. \A r \in history : r.from <= t /\ (r.to = Open \/ t < r.to) <=> r.to = Open
  BY <1>1
<1> QED
  BY <1>2 DEF PriceAt, OpenPrices

\* The price of a staged pair after the fold: an exception its store stated, or else
\* the base price of the group its file names, which is then what the row stated.
LEMMA PublishedPair ==
  ASSUME IInv, Rebuild, NEW r \in Priced(staging)
  PROVE  \/ /\ IsOpen(exception', <<r.store, r.variant>>)
            /\ OpenPrices(exception', <<r.store, r.variant>>) # {}
            /\ OpenPrices(exception', <<r.store, r.variant>>) \subseteq Stated(r)
         \/ /\ ~ IsOpen(exception', <<r.store, r.variant>>)
            /\ OpenPrices(exception', <<r.store, r.variant>>) = {}
            /\ OpenPrices(base', <<r.group, r.variant>>) = {r.price}
            /\ r.price \in Stated(r)
            /\ r.group # None
<1> DEFINE k == <<r.store, r.variant>>
<1>1. staging \in SUBSET StagingRow /\ r \in staging
  BY DEF IInv, TypeOK, Priced
<1>2. CASE IsOpen(exception', k)
  <2>1. OpenPrices(exception', k) # {}
    BY <1>2 DEF IsOpen, OpenPrices
  <2>2. ASSUME NEW x \in exception', x.key = k, x.to = Open
        PROVE  x.price \in Stated(r)
    <3>1. r.store = x.key[1]
      BY <2>2
    <3>2. PICK f \in OwnPrices : f.key = x.key
      BY <1>1, <2>2, <3>1, AfterRebuild
    <3>3. PICK y \in exception' : y.key = f.key /\ y.price = f.price /\ y.to = Open
      BY AfterRebuild DEF InForce
    <3>4. x = y
      BY <2>2, <3>2, <3>3, AfterRebuild DEF SingleOpen
    <3>5. PICK q \in Priced(staging) : f.key = <<q.store, q.variant>> /\ f.price = q.price
      BY ExceptionIsStated DEF OwnPrices
    <3>6. q.store = r.store /\ q.variant = r.variant
      BY <2>2, <3>2, <3>5
    <3> QED
      BY <3>3, <3>4, <3>5, <3>6 DEF Stated
  <2> QED
    BY <1>2, <2>1, <2>2 DEF OpenPrices
<1>3. CASE ~ IsOpen(exception', k)
  <2>1. OpenPrices(exception', k) = {}
    BY <1>3 DEF IsOpen, OpenPrices
  <2>2. r \notin Disagreeing(staging, Modal)
    <3>1. SUFFICES ASSUME r \in Disagreeing(staging, Modal) PROVE FALSE
      OBVIOUS
    <3>2. PICK f \in OwnPrices : f.key = k
      BY <1>1, <3>1, ExceptionExists DEF OwnPrices
    <3> QED
      BY <1>3, <3>2, AfterRebuild DEF InForce, IsOpen
  <2>3. [key |-> <<r.group, r.variant>>, price |-> r.price] \in Modal
    BY <2>2 DEF Disagreeing
  <2>4. PICK x \in base' : x.key = <<r.group, r.variant>> /\ x.price = r.price /\ x.to = Open
    BY <2>3, AfterRebuild DEF InForce
  <2>5. OpenPrices(base', <<r.group, r.variant>>) = {r.price}
    BY <2>4, AfterRebuild DEF SingleOpen, OpenPrices
  <2>6. r.group # None
    <3>1. PICK q \in Priced(staging) :
            /\ q.group # None
            /\ [key |-> <<r.group, r.variant>>, price |-> r.price]
                 = [key |-> <<q.group, q.variant>>, price |-> q.price]
      BY <2>3 DEF Modal, ModalBase
    <3>2. <<r.group, r.variant>> = <<q.group, q.variant>>
      BY <3>1
    <3> QED
      BY <3>1, <3>2
  <2>7. r.price \in Stated(r)
    BY DEF Stated
  <2> QED
    BY <1>3, <2>1, <2>5, <2>6, <2>7
<1> QED
  BY <1>2, <1>3

FoldIsRecordedStep ==
  Rebuild => \A r \in Priced(staging) :
               LET answer == AsOf(base', exception', r, now)
               IN  answer # {} /\ answer \subseteq Stated(r)

LEMMA RecordedStep == IInv /\ Next => FoldIsRecordedStep
<1> SUFFICES ASSUME IInv, Rebuild, NEW r \in Priced(staging)
             PROVE  /\ AsOf(base', exception', r, now) # {}
                    /\ AsOf(base', exception', r, now) \subseteq Stated(r)
  BY DEF FoldIsRecordedStep
<1>1. now \in Nat
  BY DEF IInv, TypeOK
<1>2. /\ base' \in SUBSET HistoryRow(BaseKey) /\ exception' \in SUBSET HistoryRow(Pair)
      /\ Timeline(base', now + 1) /\ Timeline(exception', now + 1)
  BY RebuildIsSound DEF SoundFold
<1>3. /\ PriceAt(exception', <<r.store, r.variant>>, now)
           = OpenPrices(exception', <<r.store, r.variant>>)
      /\ PriceAt(base', <<r.group, r.variant>>, now)
           = OpenPrices(base', <<r.group, r.variant>>)
  BY <1>1, <1>2, PriceAtFold
<1> QED
  BY <1>3, PublishedPair DEF AsOf

\* The histories answer, for the instant of the fold and ever after, every staged pair
\* with a price its store stated.
THEOREM FoldIsRecordedTheorem == Spec => FoldIsRecorded
<1>1. IInv /\ [Next]_vars => [FoldIsRecordedStep]_vars
  BY RecordedStep
<1> QED
  BY Invariance, <1>1, PTL DEF Spec, FoldIsRecorded, FoldIsRecordedStep

FoldIsShownStep ==
  Rebuild => \A r \in Priced(staging) : Consistent(r.store) =>
               \E c \in current' : /\ c.key = <<r.store, r.variant>>
                                   /\ c.price \in Stated(r)
                                   /\ c.updated = now

LEMMA ShownStep == IInv /\ Next => FoldIsShownStep
<1> SUFFICES ASSUME IInv, Rebuild, NEW r \in Priced(staging), Consistent(r.store)
             PROVE  \E c \in current' : /\ c.key = <<r.store, r.variant>>
                                        /\ c.price \in Stated(r)
                                        /\ c.updated = now
  BY DEF FoldIsShownStep
<1> DEFINE k == <<r.store, r.variant>>
           shown == Flatten(base', exception', groupOf, staging, now)
<1>1. now \in Nat
  BY DEF IInv, TypeOK
<1>2. k \in Observed(staging)
  BY DEF Observed, Priced
<1>3. PICK p \in Effective(base', exception', groupOf, k) : p \in Stated(r)
  <2>1. CASE IsOpen(exception', k)
    <3>1. /\ OpenPrices(exception', k) # {}
          /\ OpenPrices(exception', k) \subseteq Stated(r)
      BY <2>1, PublishedPair
    <3>2. Effective(base', exception', groupOf, k) = OpenPrices(exception', k)
      BY <2>1 DEF Effective
    <3> QED
      BY <3>1, <3>2
  <2>2. CASE ~ IsOpen(exception', k)
    <3>1. /\ OpenPrices(base', <<r.group, r.variant>>) = {r.price}
          /\ r.price \in Stated(r)
          /\ r.group # None
      BY <2>2, PublishedPair
    <3>2. r.group = groupOf[r.store]
      BY <3>1 DEF Consistent
    <3>3. Effective(base', exception', groupOf, k) = OpenPrices(base', <<r.group, r.variant>>)
      BY <2>2, <3>2 DEF Effective
    <3> QED
      BY <3>1, <3>3
  <2> QED
    BY <2>1, <2>2
<1> DEFINE c == [key |-> k, price |-> p, updated |-> now]
<1>4. c \in shown
  BY <1>2, <1>3 DEF Flatten
<1>5. c \in Upsert(current, shown)
  BY <1>4 DEF Upsert
<1>6. ~ now < now - MaxAge
  BY <1>1, TimeAssumption
<1>7. c \in current'
  BY <1>5, <1>6 DEF Rebuild, PruneStale
<1> QED
  BY <1>3, <1>7

\* A store whose files agree with its record is shown, for every item it priced, with a
\* price it stated.
THEOREM FoldIsShownTheorem == Spec => FoldIsShown
<1>1. IInv /\ [Next]_vars => [FoldIsShownStep]_vars
  BY ShownStep
<1> QED
  BY Invariance, <1>1, PTL DEF Spec, FoldIsShown, FoldIsShownStep

-----------------------------------------------------------------------------
(* Splits, silence and past days.                                          *)

\* A base row opened by the fold carries a price that ranks first among its group's.
LEMMA NewBaseRanksFirst ==
  ASSUME IInv, Rebuild, NEW r \in base, NEW q \in base',
         r.key = q.key, r.to = Open, q.to = Open, q.price # r.price
  PROVE  \E s \in Priced(staging) :
           /\ q.key = <<s.group, s.variant>> /\ q.price = s.price
           /\ \A z \in Priced(staging) : z.group = s.group /\ z.variant = s.variant
                                           => Ranks(Priced(staging), s, z)
<1> DEFINE rows == {x \in base : x.to = Open
                                   /\ \E f \in Modal : f.key = x.key /\ f.price # x.price}
           half == Close(base, rows, now)
<1>1. base \in SUBSET HistoryRow(BaseKey) /\ now \in Nat
  BY DEF IInv, TypeOK
<1>2. base' = OpenMissing(half, Modal, now)
  BY DEF Rebuild, FoldBase, CloseChanged, Modal
<1>3. q \notin half
  <2>1. rows \in SUBSET {x \in base : x.to = Open}
    OBVIOUS
  <2>2. q \in half => q \in base
    BY <1>1, <2>1, CloseOpens
  <2>3. SingleOpen(base)
    BY TimelineIsSingleOpen DEF IInv, HistoryIsATimeline
  <2> QED
    BY <2>2, <2>3 DEF SingleOpen
<1>4. PICK f \in Modal : q = [key |-> f.key, price |-> f.price, from |-> now, to |-> Open]
  BY <1>2, <1>3 DEF OpenMissing
<1>5. q.key = f.key /\ q.price = f.price
  BY <1>4
<1>6. PICK s \in Priced(staging) :
        /\ f = [key |-> <<s.group, s.variant>>, price |-> s.price]
        /\ \A z \in Priced(staging) : z.group = s.group /\ z.variant = s.variant
                                        => Ranks(Priced(staging), s, z)
  BY DEF Modal, ModalBase
<1> QED
  BY <1>5, <1>6

SplitStep ==
  Rebuild =>
    \A r \in base, q \in base' :
      r.key = q.key /\ r.to = Open /\ q.to = Open /\ q.price > r.price =>
        LET At(p) == {s \in GroupRows(q.key[1], q.key[2]) : s.price = p}
        IN  Cardinality(At(q.price)) > Cardinality(At(r.price))

LEMMA SplitNeverRaises == IInv /\ Next => SplitStep
<1> DEFINE rows == Priced(staging)
           At(g, v, p) == {s \in GroupRows(g, v) : s.price = p}
<1> SUFFICES ASSUME IInv, Rebuild, NEW r \in base, NEW q \in base',
                    r.key = q.key, r.to = Open, q.to = Open, q.price > r.price
             PROVE  Cardinality(At(q.key[1], q.key[2], q.price))
                      > Cardinality(At(q.key[1], q.key[2], r.price))
  BY DEF SplitStep
<1>1. q.price \in Nat /\ r.price \in Nat
  <2>1. base \subseteq HistoryRow(BaseKey) /\ base' \subseteq HistoryRow(BaseKey)
    BY RebuildIsSound DEF SoundFold, IInv, TypeOK
  <2> QED
    BY <2>1, PriceAssumption DEF HistoryRow
<1>2. q.price # r.price
  BY <1>1
<1>3. PICK s \in rows :
        /\ q.key = <<s.group, s.variant>> /\ q.price = s.price
        /\ \A z \in rows : z.group = s.group /\ z.variant = s.variant => Ranks(rows, s, z)
  BY <1>2, NewBaseRanksFirst
<1>4. IsFiniteSet(rows)
  <2>1. IsFiniteSet(staging) /\ rows \in SUBSET staging
    BY DEF IInv, TypeOK, Priced
  <2> QED
    BY <2>1, FS_Subset
<1> DEFINE g == s.group
           v == s.variant
<1>5. q.key[1] = g /\ q.key[2] = v
  BY <1>3
<1>6. ASSUME NEW z \in rows, z.group = g, z.variant = v
      PROVE  At(g, v, z.price) = {x \in rows : x.group = z.group /\ x.variant = z.variant
                                                 /\ x.price = z.price}
  BY <1>6 DEF GroupRows
<1>7. ASSUME NEW z \in rows, z.group = g, z.variant = v
      PROVE  Cardinality(At(g, v, z.price)) = Support(rows, z)
  BY <1>6, <1>7 DEF Support
<1>8. Support(rows, s) \in Nat
  BY <1>4, SupportIsNat
<1>9. Cardinality(At(g, v, q.price)) = Support(rows, s)
  BY <1>3, <1>7
<1>10. CASE At(g, v, r.price) = {}
  <2>1. Cardinality(At(g, v, r.price)) = 0
    BY <1>10, FS_EmptySet
  <2>2. s \in At(g, v, q.price)
    BY <1>3 DEF GroupRows
  <2>3. IsFiniteSet(At(g, v, q.price))
    <3>1. At(g, v, q.price) \in SUBSET rows
      BY DEF GroupRows
    <3> QED
      BY <1>4, <3>1, FS_Subset
  <2>4. Cardinality(At(g, v, q.price)) # 0
    BY <2>2, <2>3, FS_EmptySet
  <2> QED
    BY <1>5, <1>8, <1>9, <2>1, <2>4
<1>11. CASE At(g, v, r.price) # {}
  <2>1. PICK z \in rows : z.group = g /\ z.variant = v /\ z.price = r.price
    BY <1>11 DEF GroupRows
  <2>2. Ranks(rows, s, z)
    BY <1>3, <2>1
  <2>3. ~ s.price <= z.price
    BY <1>1, <1>3, <2>1
  <2>4. Support(rows, s) > Support(rows, z)
    BY <2>2, <2>3 DEF Ranks
  <2>5. Cardinality(At(g, v, r.price)) = Support(rows, z)
    BY <1>7, <2>1
  <2> QED
    BY <1>5, <1>9, <2>4, <2>5
<1> QED
  BY <1>10, <1>11

\* A tie is broken by the lower price: a base price rises only on a larger count.
THEOREM SplitTheorem == Spec => SplitNeverRaisesBase
<1>1. IInv /\ [Next]_vars => [SplitStep]_vars
  BY SplitNeverRaises
<1> QED
  BY Invariance, <1>1, PTL DEF Spec, SplitNeverRaisesBase, SplitStep

\* Some row of a group ranks first: the one with the largest count, then the lowest price.
LEMMA SomeRowRanksFirst ==
  ASSUME IInv, NEW g, NEW v, GroupRows(g, v) # {}
  PROVE  \E s \in GroupRows(g, v) : \A z \in GroupRows(g, v) : Ranks(Priced(staging), s, z)
<1> DEFINE rows == Priced(staging)
           size == Cardinality(rows)
           all == GroupRows(g, v)
           lacks == {size - Support(rows, z) : z \in all}
<1>1. IsFiniteSet(rows)
  <2>1. IsFiniteSet(staging) /\ rows \in SUBSET staging
    BY DEF IInv, TypeOK, Priced
  <2> QED
    BY <2>1, FS_Subset
<1>2. size \in Nat
  BY <1>1, FS_CardinalityType
<1>3. ASSUME NEW z \in rows PROVE Support(rows, z) \in Nat /\ size - Support(rows, z) \in Nat
  <2> DEFINE behind == {q \in rows : q.group = z.group /\ q.variant = z.variant
                                       /\ q.price = z.price}
  <2>1. behind \in SUBSET rows
    OBVIOUS
  <2> HIDE DEF behind
  <2>2. Cardinality(behind) \in Nat /\ Cardinality(behind) <= size
    BY <1>1, <2>1, FS_Subset, FS_CardinalityType
  <2>3. Support(rows, z) = Cardinality(behind)
    BY DEF Support, behind
  <2> QED
    BY <1>2, <2>2, <2>3
<1>4. all \subseteq rows /\ \A z \in all : z.price \in Nat
  BY PriceAssumption DEF IInv, TypeOK, GroupRows, Priced, StagingRow
<1> HIDE DEF rows, size, all
<1>5. lacks \in SUBSET Nat /\ lacks # {}
  BY <1>3, <1>4 DEF all
<1>6. PICK m \in lacks : \A n \in lacks : m <= n
  BY <1>5, NatMinimum
<1> DEFINE prices == {z.price : z \in {z \in all : size - Support(rows, z) = m}}
<1>7. prices \in SUBSET Nat /\ prices # {}
  BY <1>4, <1>6
<1>8. PICK p \in prices : \A n \in prices : p <= n
  BY <1>7, NatMinimum
<1>9. PICK s \in all : size - Support(rows, s) = m /\ s.price = p
  BY <1>8
<1>10. ASSUME NEW z \in all PROVE Ranks(rows, s, z)
  <2>1. size - Support(rows, s) <= size - Support(rows, z)
    BY <1>6, <1>9
  <2>2. Support(rows, s) \in Nat /\ Support(rows, z) \in Nat
    BY <1>3, <1>4, <1>9
  <2>3. Support(rows, s) >= Support(rows, z)
    BY <1>2, <2>1, <2>2
  <2>4. CASE Support(rows, s) > Support(rows, z)
    BY <2>4 DEF Ranks
  <2>5. CASE Support(rows, s) = Support(rows, z)
    <3>1. z.price \in prices
      BY <1>9, <2>5
    <3> QED
      BY <1>8, <1>9, <2>5, <3>1 DEF Ranks
  <2> QED
    BY <2>2, <2>3, <2>4, <2>5
<1> QED
  BY <1>9, <1>10 DEF rows, all

\* Where every store lists an item once, a store whose row has its group's first price
\* has no exception after the fold.
LEMMA AgreeingRowsAreNoExceptions ==
  ASSUME IInv, Rebuild, NEW g \in Group, NEW v \in Variant, ListedOnce(g, v),
         NEW s \in GroupRows(g, v),
         \A z \in GroupRows(g, v) : Ranks(Priced(staging), s, z),
         NEW r \in GroupRows(g, v), r.price = s.price
  PROVE  ~IsOpen(exception', <<r.store, v>>)
<1>1. SUFFICES ASSUME NEW x \in exception', x.key = <<r.store, v>>, x.to = Open PROVE FALSE
  BY DEF IsOpen
<1>2. r \in staging /\ r.store = x.key[1]
  BY <1>1 DEF GroupRows, Priced
<1>3. PICK f \in OwnPrices : f.key = <<r.store, v>>
  BY <1>1, <1>2, AfterRebuild
<1>4. PICK q \in Disagreeing(staging, Modal) : f = [key |-> <<q.store, q.variant>>, price |-> q.price]
  BY DEF OwnPrices, Exceptions
<1>5. q.store = r.store /\ q.variant = v
  BY <1>3, <1>4
<1>6. q = r
  BY <1>5 DEF ListedOnce, Disagreeing, GroupRows
<1>7. [key |-> <<s.group, s.variant>>, price |-> s.price] \in Modal
  <2>1. s \in Priced(staging) /\ s.group = g /\ s.variant = v /\ g # None
    BY MarkerAssumption DEF GroupRows
  <2>2. \A z \in Priced(staging) : z.group = s.group /\ z.variant = s.variant
                                     => Ranks(Priced(staging), s, z)
    BY <2>1 DEF GroupRows
  <2> QED
    BY <2>1, <2>2 DEF Modal, ModalBase
<1>8. [key |-> <<r.group, r.variant>>, price |-> r.price] \in Modal
  BY <1>7 DEF GroupRows
<1> QED
  BY <1>4, <1>6, <1>8 DEF Disagreeing

FewestStep ==
  Rebuild =>
    \A g \in Group, v \in Variant : ListedOnce(g, v) =>
      \A p \in Price :
        Cardinality({r \in GroupRows(g, v) : IsOpen(exception', <<r.store, v>>)})
          <= Cardinality({r \in GroupRows(g, v) : r.price # p})

LEMMA FewestExceptions == IInv /\ Next => FewestStep
<1> DEFINE Own(g, v) == {r \in GroupRows(g, v) : IsOpen(exception', <<r.store, v>>)}
           At(g, v, p) == {r \in GroupRows(g, v) : r.price = p}
           Not(g, v, p) == {r \in GroupRows(g, v) : r.price # p}
<1> SUFFICES ASSUME IInv, Rebuild, NEW g \in Group, NEW v \in Variant, ListedOnce(g, v),
                    NEW p \in Price
             PROVE  Cardinality(Own(g, v)) <= Cardinality(Not(g, v, p))
  BY DEF FewestStep
<1> DEFINE all == GroupRows(g, v)
           rows == Priced(staging)
<1>1. IsFiniteSet(rows) /\ all \in SUBSET rows
  <2>1. IsFiniteSet(staging) /\ rows \in SUBSET staging
    BY DEF IInv, TypeOK, Priced
  <2>2. all \in SUBSET rows
    BY DEF GroupRows
  <2> QED
    BY <2>1, <2>2, FS_Subset
<1>2. IsFiniteSet(all) /\ Cardinality(all) \in Nat
  BY <1>1, FS_Subset, FS_CardinalityType
<1>3. ASSUME NEW q
      PROVE  /\ IsFiniteSet(At(g, v, q)) /\ IsFiniteSet(Not(g, v, q))
             /\ Cardinality(At(g, v, q)) \in Nat /\ Cardinality(Not(g, v, q)) \in Nat
             /\ Cardinality(all) = Cardinality(At(g, v, q)) + Cardinality(Not(g, v, q))
  <2> DEFINE with == At(g, v, q)
             without == Not(g, v, q)
  <2>1. /\ with \in SUBSET all /\ without \in SUBSET all
        /\ all = with \cup without /\ with \cap without = {}
    OBVIOUS
  <2> HIDE DEF with, without, all
  <2>2. IsFiniteSet(with) /\ IsFiniteSet(without)
    BY <1>2, <2>1, FS_Subset
  <2>3. Cardinality(with) \in Nat /\ Cardinality(without) \in Nat
    BY <2>2, FS_CardinalityType
  <2>4. Cardinality(all) = Cardinality(with) + Cardinality(without) - Cardinality({})
    BY <2>1, <2>2, FS_Union
  <2>5. Cardinality(all) = Cardinality(with) + Cardinality(without)
    BY <2>3, <2>4, FS_EmptySet
  <2> QED
    BY <2>2, <2>3, <2>5 DEF with, without
<1>4. CASE all = {}
  <2>1. Own(g, v) = {}
    BY <1>4
  <2>2. Cardinality(Own(g, v)) = 0
    BY <2>1, FS_EmptySet
  <2>3. Cardinality(Not(g, v, p)) \in Nat
    BY <1>3
  <2> HIDE DEF Own, Not
  <2> QED
    BY <2>2, <2>3
<1>5. CASE all # {}
  <2>1. PICK s \in all : \A z \in all : Ranks(rows, s, z)
    BY <1>5, SomeRowRanksFirst
  <2>2. Own(g, v) \subseteq Not(g, v, s.price)
    BY <2>1, AgreeingRowsAreNoExceptions
  <2>3. Cardinality(Own(g, v)) <= Cardinality(Not(g, v, s.price))
    BY <1>3, <2>2, FS_Subset
  <2>4. ASSUME NEW z \in all PROVE Cardinality(At(g, v, z.price)) = Support(rows, z)
    <3>1. At(g, v, z.price) = {x \in rows : x.group = z.group /\ x.variant = z.variant
                                              /\ x.price = z.price}
      BY <2>4 DEF GroupRows
    <3> QED
      BY <3>1 DEF Support
  <2>5. Cardinality(At(g, v, p)) <= Cardinality(At(g, v, s.price))
    <3>1. CASE At(g, v, p) = {}
      <4>1. Cardinality(At(g, v, p)) = 0
        BY <3>1, FS_EmptySet
      <4>2. Cardinality(At(g, v, s.price)) \in Nat
        BY <1>3
      <4> HIDE DEF At
      <4> QED
        BY <4>1, <4>2
    <3>2. CASE At(g, v, p) # {}
      <4>1. PICK z \in all : z.price = p
        BY <3>2
      <4>2. Support(rows, s) > Support(rows, z) \/ Support(rows, s) = Support(rows, z)
        BY <2>1, <4>1 DEF Ranks
      <4>3. /\ Cardinality(At(g, v, s.price)) = Support(rows, s)
            /\ Cardinality(At(g, v, p)) = Support(rows, z)
        BY <2>1, <2>4, <4>1
      <4>4. Cardinality(At(g, v, s.price)) \in Nat /\ Cardinality(At(g, v, p)) \in Nat
        BY <1>3
      <4> QED
        BY <4>2, <4>3, <4>4
    <3> QED
      BY <3>1, <3>2
  <2>6. IsFiniteSet(Own(g, v)) /\ Cardinality(Own(g, v)) \in Nat
    BY <1>3, <2>2, FS_Subset, FS_CardinalityType
  <2> HIDE DEF Own, At, Not, all
  <2> QED
    BY <1>2, <1>3, <2>3, <2>5, <2>6
<1> QED
  BY <1>4, <1>5

\* Where every store lists an item once, no other base price would leave fewer stores
\* of the group with an exception.
THEOREM FewestExceptionsTheorem == Spec => BaseNeedsFewestExceptions
<1>1. IInv /\ [Next]_vars => [FewestStep]_vars
  BY FewestExceptions
<1> QED
  BY Invariance, <1>1, PTL DEF Spec, BaseNeedsFewestExceptions, FewestStep

QuietStep ==
  Rebuild =>
    /\ \A c \in current \ current' : c.key \in Observed(staging) \/ c.updated < now - MaxAge
    /\ \A c \in current' \ current : c.key \in Observed(staging)

LEMMA QuietPairs == Next => QuietStep
<1> SUFFICES ASSUME Rebuild
             PROVE  /\ \A c \in current \ current' :
                         c.key \in Observed(staging) \/ c.updated < now - MaxAge
                    /\ \A c \in current' \ current : c.key \in Observed(staging)
  BY DEF QuietStep
<1> DEFINE shown == Flatten(base', exception', groupOf, staging, now)
<1>1. current' = PruneStale(Upsert(current, shown), now)
  BY DEF Rebuild
<1>2. \A c \in shown : c.key \in Observed(staging)
  BY DEF Flatten
<1> HIDE DEF shown
<1> QED
  BY <1>1, <1>2 DEF PruneStale, Upsert

\* What no staged row mentions keeps its shown price until it is MaxAge old.
THEOREM QuietPairsTheorem == Spec => QuietPairsKeepTheirPrice
<1>1. [Next]_vars => [QuietStep]_vars
  BY QuietPairs
<1> QED
  BY <1>1, PTL DEF Spec, QuietPairsKeepTheirPrice, QuietStep

PastDaysStep == \A d \in daily : d.key[2] # Day(now) => d \in daily'

LEMMA PastDays == Next => PastDaysStep
<1> SUFFICES ASSUME Next, NEW d \in daily, d.key[2] # Day(now) PROVE d \in daily'
  BY DEF PastDaysStep
<1>1. CASE Rebuild
  <2>1. daily' = Upsert(daily, RollUp(current', now))
    BY <1>1 DEF Rebuild
  <2>2. \A e \in RollUp(current', now) : e.key[2] = Day(now)
    BY DEF RollUp, Extent
  <2> QED
    BY <2>1, <2>2 DEF Upsert
<1>2. CASE UNCHANGED daily
  BY <1>2
<1> QED
  BY <1>1, <1>2 DEF Next, StageFile, MoveStore, Purge, Wait

\* A fold rewrites the chart of the present day only.
THEOREM PastDaysTheorem == Spec => PastDaysAreFinal
<1>1. [Next]_vars => [PastDaysStep]_vars
  BY PastDays
<1> QED
  BY <1>1, PTL DEF Spec, PastDaysAreFinal, PastDaysStep

-----------------------------------------------------------------------------
(* The chart and the shelf.                                                *)

LEMMA DaysPass ==
  ASSUME NEW s \in Nat, NEW t \in Nat, s <= t
  PROVE  Day(s) \in Nat /\ Day(t) \in Nat /\ Day(s) <= Day(t)
<1> DEFINE d == DayLength
           p == s \div d
           q == t \div d
<1>1. d \in Nat /\ d > 0
  BY TimeAssumption
<1>2. p \in Nat /\ q \in Nat /\ s = d * p + (s % d) /\ t = d * q + (t % d)
  BY <1>1
<1>3. (s % d) \in 0..(d - 1) /\ (t % d) \in 0..(d - 1)
  BY <1>1
<1> HIDE DEF d, p, q
<1>4. ~(q + 1 <= p)
  <2> SUFFICES ASSUME q + 1 <= p
               PROVE  FALSE
    OBVIOUS
  <2>1. d * (q + 1) <= d * p
    BY <1>1, <1>2
  <2>2. d * (q + 1) = d * q + d
    BY <1>1, <1>2
  <2> DEFINE a == s % d
             b == t % d
             u == d * p
             w == d * q
  <2>3. s = u + a /\ t = w + b /\ a \in Nat /\ b < d /\ b \in Nat
    BY <1>1, <1>2, <1>3
  <2>4. u \in Nat /\ w \in Nat /\ w + d <= u
    BY <1>1, <1>2, <2>1, <2>2
  <2> HIDE DEF a, b, u, w
  <2> QED
    BY <1>1, <2>3, <2>4
<1>5. p <= q
  BY <1>2, <1>4
<1> QED
  BY <1>2, <1>5 DEF Day, p, q, d

\* A variant with a price in a finite table has its lowest one in the row of the day.
LEMMA RolledUp ==
  ASSUME NEW table \in SUBSET CurrentRow, IsFiniteSet(table), NEW t \in Nat,
         NEW v \in Linked, NEW c \in table, c.key[2] = v
  PROVE  /\ \E d \in RollUp(table, t) : d.key = <<v, Day(t)>>
         /\ \A d \in RollUp(table, t) : d.key[1] = v =>
              /\ \E e \in table : e.key[2] = v /\ e.price = d.low
              /\ \A e \in table : e.key[2] = v => d.low <= e.price
<1> DEFINE rows == {e \in table : e.key[2] = v}
           ps == {e.price : e \in rows}
<1>1. \A e \in table : e.price \in Nat /\ e.price # None
  BY PriceAssumption, MarkerAssumption DEF CurrentRow
<1>2. /\ \E m \in ps : \A n \in ps : m <= n
      /\ \E m \in ps : \A n \in ps : m >= n
  <2> DEFINE price == [e \in rows |-> e.price]
  <2>1. IsFiniteSet(rows)
    BY FS_Subset
  <2>2. ps = {price[e] : e \in rows}
    OBVIOUS
  <2>3. ps \subseteq Int /\ ps # {}
    BY <1>1
  <2> HIDE DEF price, rows
  <2>4. IsFiniteSet({price[e] : e \in rows})
    BY <2>1, ImageIsFinite
  <2> HIDE DEF ps
  <2> QED
    BY <2>2, <2>3, <2>4, LeastAndGreatest
<1>3. PICK l \in rows : \A e \in rows : l.price <= e.price
  BY <1>2
<1>4. PICK h \in rows : \A e \in rows : h.price >= e.price
  BY <1>2
<1>5. [key |-> <<v, Day(t)>>, low |-> l.price, high |-> h.price] \in RollUp(table, t)
  <2> DEFINE linked == {e \in table : e.key[2] \in Linked /\ e.price # None}
             Same(e) == {f \in linked : f.key[2] = e.key[2]}
             Lowest(e) == \A f \in Same(e) : e.price <= f.price
             Highest(e) == \A f \in Same(e) : e.price >= f.price
             Of(e) == {[key |-> <<e.key[2], Day(t)>>, low |-> e.price, high |-> f.price] :
                         f \in {f \in Same(e) : Highest(f)}}
  <2>1. l \in linked /\ h \in Same(l) /\ l.key[2] = v
    BY <1>1, <1>3, <1>4
  <2>2. Lowest(l)
    BY <1>3, <2>1
  <2>3. Highest(h)
    BY <1>4, <2>1
  <2>4. [key |-> <<v, Day(t)>>, low |-> l.price, high |-> h.price] \in Of(l)
    BY <2>1, <2>3
  <2>5. RollUp(table, t) = UNION {Of(e) : e \in {e \in linked : Lowest(e)}}
    BY Zenon DEF RollUp, Extent
  <2> HIDE DEF Of, Lowest, linked
  <2> QED
    BY <2>1, <2>2, <2>4, <2>5
<1>6. ASSUME NEW d \in RollUp(table, t), d.key[1] = v
      PROVE  /\ \E e \in table : e.key[2] = v /\ e.price = d.low
             /\ \A e \in table : e.key[2] = v => d.low <= e.price
  <2>1. PICK e \in table : /\ e.key[2] \in Linked
                           /\ \A r \in table : r.key[2] \in Linked /\ r.price # None
                                                 /\ r.key[2] = e.key[2] => e.price <= r.price
                           /\ \E x : d = [key |-> <<e.key[2], Day(t)>>, low |-> e.price, high |-> x]
    BY DEF RollUp, Extent
  <2>2. e.key[2] = v /\ d.low = e.price
    BY <1>6, <2>1
  <2> QED
    BY <1>1, <2>1, <2>2
<1> QED
  BY <1>5, <1>6

\* The last day of v in the chart has the lowest of the prices.
EndsAt(chart, v, prices, day) ==
  /\ \E d \in chart : d.key[1] = v /\ d.key[2] = day
  /\ \A d \in chart : d.key[1] = v =>
       /\ d.key[2] <= day
       /\ d.key[2] = day => d.low \in prices /\ \A p \in prices : d.low <= p

ChartIsCurrent ==
  /\ IsFiniteSet(current)
  /\ \A d \in daily : d.key[2] <= Day(now)
  /\ \A v \in Linked : Shelf(v) # {} => \E day \in Nat : EndsAt(daily, v, Shelf(v), day)

LEMMA CurrentStaysFinite ==
  ASSUME IInv, IsFiniteSet(current), Rebuild
  PROVE  IsFiniteSet(current')
<1> DEFINE shown == Flatten(base', exception', groupOf, staging, now)
           pair == [r \in staging |-> <<r.store, r.variant>>]
           key == [c \in shown |-> c.key]
<1>1. IsFiniteSet(staging)
  BY DEF IInv, TypeOK
<1>2. Observed(staging) = {pair[r] : r \in staging}
  BY DEF Observed
<1> HIDE DEF pair
<1>3. IsFiniteSet(Observed(staging))
  BY <1>1, <1>2, ImageIsFinite
<1>4. OneRowPerKey(shown)
  <2>1. base' \in SUBSET HistoryRow(BaseKey) /\ exception' \in SUBSET HistoryRow(Pair)
        /\ Timeline(base', now + 1) /\ Timeline(exception', now + 1) /\ now \in Nat
    BY RebuildIsSound DEF SoundFold, IInv, TypeOK
  <2> QED
    BY <2>1, TimelineIsSingleOpen, FlattenIsOneRowPerKey
<1>5. \A c \in shown : c.key \in Observed(staging)
  BY DEF Flatten
<1> HIDE DEF shown
<1>6. key \in Injection(shown, Observed(staging))
  BY <1>4, <1>5 DEF OneRowPerKey, Injection, IsInjective
<1>7. IsFiniteSet(shown)
  BY <1>3, <1>6, FS_Injection
<1>8. IsFiniteSet(current \cup shown)
  BY <1>7, FS_Union
<1>9. current' \subseteq current \cup shown
  BY DEF Rebuild, PruneStale, Upsert, shown
<1> QED
  BY <1>8, <1>9, FS_Subset

LEMMA ChartAfterRebuild ==
  ASSUME IInv, ChartIsCurrent, Rebuild
  PROVE  ChartIsCurrent'
<1>1. /\ now \in Nat /\ daily \in SUBSET DailyRow /\ daily' \in SUBSET DailyRow
      /\ current' \in SUBSET CurrentRow
  BY RebuildIInv DEF IInv, TypeOK
<1>2. daily' = Upsert(daily, RollUp(current', now)) /\ now' = now + 1
  BY DEF Rebuild
<1>3. IsFiniteSet(current')
  BY CurrentStaysFinite DEF ChartIsCurrent
<1>4. Day(now) \in Nat /\ Day(now + 1) \in Nat /\ Day(now) <= Day(now + 1)
  BY <1>1, DaysPass
<1>5. \A d \in RollUp(current', now) : d.key[2] = Day(now)
  BY DEF RollUp, Extent
<1>6. \A d \in daily' : d.key[2] <= Day(now)
  BY <1>2, <1>4, <1>5 DEF Upsert, ChartIsCurrent
<1>7. ASSUME NEW v \in Linked, NEW c \in current', c.key[2] = v
      PROVE  EndsAt(daily', v, Shelf(v)', Day(now))
  <2>1. PICK f \in RollUp(current', now) : f.key = <<v, Day(now)>>
    BY <1>1, <1>3, <1>7, RolledUp
  <2>2. \A d \in RollUp(current', now) : d.key[1] = v =>
          /\ \E e \in current' : e.key[2] = v /\ e.price = d.low
          /\ \A e \in current' : e.key[2] = v => d.low <= e.price
    BY <1>1, <1>3, <1>7, RolledUp
  <2>3. f \in daily' /\ f.key[1] = v /\ f.key[2] = Day(now)
    BY <1>2, <2>1 DEF Upsert
  <2>4. ASSUME NEW d \in daily', d.key[1] = v, d.key[2] = Day(now)
        PROVE  d \in RollUp(current', now)
    <3>1. d.key = <<v, Day(now)>>
      BY <1>1, <2>4 DEF DailyRow
    <3> QED
      BY <1>2, <2>1, <3>1 DEF Upsert
  <2>5. ASSUME NEW d \in daily', d.key[1] = v, d.key[2] = Day(now)
        PROVE  d.low \in Shelf(v)' /\ \A p \in Shelf(v)' : d.low <= p
    BY <2>2, <2>4, <2>5 DEF Shelf
  <2> QED
    BY <1>6, <2>3, <2>5 DEF EndsAt
<1>8. \A v \in Linked : Shelf(v)' # {} => \E c \in current' : c.key[2] = v
  BY DEF Shelf
<1>9. \A d \in daily' : d.key[2] <= Day(now')
  <2>1. \A d \in daily' : d.key[2] \in Nat
    BY <1>1 DEF DailyRow, Time
  <2> QED
    BY <1>2, <1>4, <1>6, <2>1
<1>10. ASSUME NEW v \in Linked, Shelf(v)' # {}
       PROVE  \E day \in Nat : EndsAt(daily', v, Shelf(v)', day)
  BY <1>4, <1>7, <1>8, <1>10
<1> QED
  BY <1>3, <1>9, <1>10 DEF ChartIsCurrent, Day, EndsAt

LEMMA ChartStep == IInv /\ ChartIsCurrent /\ [Next]_vars => ChartIsCurrent'
<1> SUFFICES ASSUME IInv, ChartIsCurrent, [Next]_vars
             PROVE  ChartIsCurrent'
  OBVIOUS
<1>1. CASE Rebuild
  BY <1>1, ChartAfterRebuild
<1>2. CASE UNCHANGED <<current, daily>> /\ (now' = now \/ now' = now + 1)
  <2>1. now \in Nat /\ daily \in SUBSET DailyRow
    BY DEF IInv, TypeOK
  <2>2. Day(now) \in Nat /\ Day(now') \in Nat /\ Day(now) <= Day(now')
    BY <1>2, <2>1, DaysPass
  <2>3. \A d \in daily : d.key[2] \in Nat
    BY <2>1 DEF DailyRow, Time
  <2>4. \A d \in daily' : d.key[2] <= Day(now')
    BY <1>2, <2>2, <2>3 DEF ChartIsCurrent
  <2>5. \A v \in Linked : Shelf(v)' = Shelf(v)
    BY <1>2 DEF Shelf
  <2>6. ASSUME NEW v \in Linked, Shelf(v)' # {}
        PROVE  \E day \in Nat : EndsAt(daily', v, Shelf(v)', day)
    BY <1>2, <2>5, <2>6 DEF ChartIsCurrent
  <2> QED
    BY <1>2, <2>4, <2>6 DEF ChartIsCurrent, Day, EndsAt
<1> QED
  BY <1>1, <1>2 DEF Next, StageFile, MoveStore, Purge, Wait, vars

\* price_history: the last point of a product's chart has the price that is given as
\* current beside it.
THEOREM ChartTheorem == Spec => []ChartMeetsShelf
<1>1. Init => ChartIsCurrent
  BY FS_EmptySet DEF Init, ChartIsCurrent, Shelf
<1>2. IInv /\ ChartIsCurrent => ChartMeetsShelf
  <2> SUFFICES ASSUME IInv, ChartIsCurrent, NEW v \in Linked, Shelf(v) # {}
               PROVE  /\ \E d \in daily : d.key[1] = v
                      /\ \A days \in Window :
                           Points(v, days) # {} => LastLow(v, days) = CurrentMin(v)
    BY DEF ChartMeetsShelf
  <2>1. PICK day \in Nat : EndsAt(daily, v, Shelf(v), day)
    BY DEF ChartIsCurrent
  <2>2. Shelf(v) \subseteq Nat /\ \A d \in daily : d.key[2] \in Nat
    BY PriceAssumption DEF IInv, TypeOK, Shelf, CurrentRow, DailyRow, Time
  <2>3. PICK l \in daily : l.key[1] = v /\ l.key[2] = day
    BY <2>1 DEF EndsAt
  <2>4. ASSUME NEW days \in Window, Points(v, days) # {}
        PROVE  LastLow(v, days) = CurrentMin(v)
    <3>1. PICK e \in Points(v, days) : TRUE
      BY <2>4
    <3>2. Day(now) \in Nat /\ days \in Nat
      BY DaysPass, TimeAssumption DEF IInv, TypeOK
    <3>3. e \in daily /\ e.key[1] = v /\ e.key[2] >= Day(now) - days /\ e.key[2] <= day
      BY <2>1, <3>1 DEF Points, EndsAt
    <3>4. l \in Points(v, days)
      BY <2>2, <2>3, <3>2, <3>3 DEF Points
    <3>5. ASSUME NEW d \in Points(v, days)
          PROVE  d \in daily /\ d.key[1] = v /\ d.key[2] <= day
                 /\ (d.key[2] = day => d.low \in CurrentMin(v))
      BY <2>1, <3>5 DEF Points, EndsAt, CurrentMin
    <3>6. ASSUME NEW d \in Points(v, days)
          PROVE  (\A f \in Points(v, days) : f.key[2] <= d.key[2]) <=> d.key[2] = day
      BY <2>2, <2>3, <3>4, <3>5
    <3>7. l.low \in LastLow(v, days) /\ LastLow(v, days) \subseteq CurrentMin(v)
      BY <2>3, <3>4, <3>5, <3>6 DEF LastLow
    <3>8. \A p, q \in CurrentMin(v) : p = q
      BY <2>2 DEF CurrentMin
    <3> QED
      BY <3>7, <3>8
  <2> QED
    BY <2>3, <2>4
<1> QED
  BY <1>1, <1>2, ChartStep, Invariance, PTL DEF Spec

-----------------------------------------------------------------------------
(* Each history implements PriceLedger: what a fold writes to the table is *)
(* what the ledger logs for the keys whose value it changes.               *)

LEMMA ValuedWhenOpen ==
  ASSUME NEW Key, NEW history \in SUBSET HistoryRow(Key), SingleOpen(history),
         NEW r \in history, r.to = Open
  PROVE  Valued(history, Key)[r.key] = r.price
<1>1. r.key \in Key /\ r.price \in Price
  BY DEF HistoryRow
<1>2. IsOpen(history, r.key)
  BY DEF IsOpen
<1>3. \A p : p \in OpenPrices(history, r.key) <=> p = r.price
  BY DEF OpenPrices, SingleOpen
<1>4. (CHOOSE p \in Price : p \in OpenPrices(history, r.key)) = r.price
  BY <1>1, <1>3
<1> QED
  BY <1>1, <1>2, <1>4 DEF Valued

LEMMA ValuedWhenClosed ==
  ASSUME NEW Key, NEW history, NEW k \in Key, ~IsOpen(history, k)
  PROVE  Valued(history, Key)[k] = None
BY DEF Valued

LEMMA ValuedType ==
  ASSUME NEW Key, NEW history \in SUBSET HistoryRow(Key), SingleOpen(history)
  PROVE  /\ Valued(history, Key) \in [Key -> Price \cup {None}]
         /\ \A k \in Key : IsOpen(history, k) => Valued(history, Key)[k] # None
<1>1. ASSUME NEW k \in Key, IsOpen(history, k)
      PROVE  Valued(history, Key)[k] \in Price
  <2>1. PICK r \in history : r.key = k /\ r.to = Open
    BY <1>1 DEF IsOpen
  <2> QED
    BY <2>1, ValuedWhenOpen DEF HistoryRow
<1>2. \A k \in Key : Valued(history, Key)[k] \in Price \cup {None}
  BY <1>1, ValuedWhenClosed
<1>3. Valued(history, Key) = [k \in Key |-> Valued(history, Key)[k]]
  BY DEF Valued
<1> QED
  BY <1>1, <1>2, <1>3, MarkerAssumption

\* The entries of a log: a price from its row's start, its end when nothing follows.
LEMMA LoggedEntries ==
  ASSUME NEW history, NEW x
  PROVE  x \in Logged(history) <=>
           \/ \E r \in history : x = [key |-> r.key, price |-> r.price, at |-> r.from]
           \/ \E r \in history :
                /\ r.to # Open /\ \A q \in history : q.key = r.key => q.from # r.to
                /\ x = [key |-> r.key, price |-> None, at |-> r.to]
BY DEF Logged

\* A row that ends with the fold was open before it.
EndsWereOpen(old, new, t) ==
  \A r \in new : r.to = t => \E q \in old : q.to = Open /\ r = [q EXCEPT !.to = t]

LEMMA FoldBaseEnds ==
  ASSUME NEW Key, NEW history \in SUBSET HistoryRow(Key), NEW t \in Nat, NEW fresh,
         Timeline(history, t)
  PROVE  EndsWereOpen(history, FoldBase(history, fresh, t), t)
<1>1. \A r \in history : r.to # t
  BY MarkerAssumption DEF Timeline
<1>2. EndsWereOpen(history, CloseChanged(history, fresh, t), t)
  BY <1>1 DEF EndsWereOpen, CloseChanged, Close
<1> QED
  BY <1>2, MarkerAssumption DEF EndsWereOpen, FoldBase, OpenMissing

LEMMA FoldExceptionEnds ==
  ASSUME NEW Key, NEW history \in SUBSET HistoryRow(Key), NEW t \in Nat, NEW fresh,
         NEW staged, Timeline(history, t)
  PROVE  EndsWereOpen(history, FoldException(history, fresh, staged, t), t)
<1> DEFINE half == CloseChanged(history, fresh, t)
           rest == CloseResolved(half, fresh, staged, t)
<1>1. \A r \in history : r.to # t
  BY MarkerAssumption DEF Timeline
<1>2. EndsWereOpen(history, half, t)
  BY <1>1 DEF EndsWereOpen, CloseChanged, Close
<1>3. \A r \in half : r.to = Open => r \in history
  BY MarkerAssumption DEF CloseChanged, Close, HistoryRow
<1> HIDE DEF half
<1>4. EndsWereOpen(history, rest, t)
  BY <1>2, <1>3 DEF EndsWereOpen, CloseResolved, Close
<1> QED
  BY <1>4, MarkerAssumption DEF EndsWereOpen, FoldException, OpenMissing, half

\* What the rows of a history are after a fold.
LEMMA RowsAfter ==
  ASSUME NEW Key, NEW old \in SUBSET HistoryRow(Key), NEW new \in SUBSET HistoryRow(Key),
         NEW t \in Nat, Timeline(old, t), OnlyAppends(old, new, t), EndsWereOpen(old, new, t)
  PROVE  /\ \A r \in old : r.from # t /\ r.to # t
         /\ \A r \in old : \E q \in new : q.key = r.key /\ q.price = r.price /\ q.from = r.from
         /\ \A r \in old : r.to # Open => r \in new
         /\ \A r \in new : r.from = t => r.to = Open
         /\ \A r \in new : r.from # t =>
              \E q \in old : q.key = r.key /\ q.price = r.price /\ q.from = r.from
         /\ \A r \in new : r.to # Open /\ r.to # t => r \in old
<1>1. \A r \in old : r.from # t /\ r.to # t
  BY MarkerAssumption DEF Timeline, HistoryRow, Time
<1>2. ASSUME NEW r \in old
      PROVE  \E q \in new : q.key = r.key /\ q.price = r.price /\ q.from = r.from
  <2>1. CASE r \in new
    BY <2>1
  <2>2. CASE [r EXCEPT !.to = t] \in new
    <3>1. /\ [r EXCEPT !.to = t].key = r.key
          /\ [r EXCEPT !.to = t].price = r.price
          /\ [r EXCEPT !.to = t].from = r.from
      BY DEF HistoryRow
    <3> QED
      BY <2>2, <3>1
  <2> QED
    BY <2>1, <2>2 DEF OnlyAppends
<1>3. \A r \in old : r.to # Open => r \in new
  BY DEF OnlyAppends
<1>4. ASSUME NEW r \in new
      PROVE  \/ r \in old
             \/ r.from = t /\ r.to = Open
             \/ r.to = t /\ \E q \in old : q.key = r.key /\ q.price = r.price /\ q.from = r.from
  <2>1. CASE r.to = t
    <3>1. PICK q \in old : r = [q EXCEPT !.to = t]
      BY <2>1 DEF EndsWereOpen
    <3>2. q.key = r.key /\ q.price = r.price /\ q.from = r.from
      BY <3>1 DEF HistoryRow
    <3> QED
      BY <2>1, <3>2
  <2> QED
    BY <2>1 DEF OnlyAppends
<1>5. ASSUME NEW r \in new, r.from = t PROVE r.to = Open
  BY <1>1, <1>4, <1>5
<1>6. ASSUME NEW r \in new, r.from # t
      PROVE  \E q \in old : q.key = r.key /\ q.price = r.price /\ q.from = r.from
  BY <1>4, <1>6
<1>7. \A r \in new : r.to # Open /\ r.to # t => r \in old
  BY <1>4
<1> QED
  BY <1>1, <1>2, <1>3, <1>5, <1>6, <1>7

\* What a fold adds to the log are its changes.
LogsChanges(Key, old, new, t) ==
  Logged(new) = Logged(old) \cup
    {[key |-> k, price |-> Valued(new, Key)[k], at |-> t] :
       k \in {k \in Key : Valued(new, Key)[k] # Valued(old, Key)[k]}}

LEMMA FoldIsLogged ==
  ASSUME NEW Key, NEW old \in SUBSET HistoryRow(Key), NEW new \in SUBSET HistoryRow(Key),
         NEW t \in Nat, Timeline(old, t), Timeline(new, t + 1), AlwaysChanges(new),
         OnlyAppends(old, new, t), EndsWereOpen(old, new, t)
  PROVE  LogsChanges(Key, old, new, t)
<1> DEFINE before == Valued(old, Key)
           after == Valued(new, Key)
           changes == {[key |-> k, price |-> after[k], at |-> t] :
                         k \in {k \in Key : after[k] # before[k]}}
<1>1. /\ \A r \in old : r.from # t /\ r.to # t
      /\ \A r \in old : \E q \in new : q.key = r.key /\ q.price = r.price /\ q.from = r.from
      /\ \A r \in old : r.to # Open => r \in new
      /\ \A r \in new : r.from = t => r.to = Open
      /\ \A r \in new : r.from # t =>
           \E q \in old : q.key = r.key /\ q.price = r.price /\ q.from = r.from
      /\ \A r \in new : r.to # Open /\ r.to # t => r \in old
  BY RowsAfter
<1>2. \A r \in old \cup new : r.key \in Key /\ r.price \in Price /\ r.price # None
  BY MarkerAssumption DEF HistoryRow
<1>3. SingleOpen(old) /\ SingleOpen(new)
  BY TimelineIsSingleOpen
<1>4. /\ \A r \in old : r.to = Open => before[r.key] = r.price
      /\ \A r \in new : r.to = Open => after[r.key] = r.price
  BY <1>3, ValuedWhenOpen
<1>5. /\ \A k \in Key : ~IsOpen(old, k) => before[k] = None
      /\ \A k \in Key : ~IsOpen(new, k) => after[k] = None
  BY ValuedWhenClosed
<1>6. t # Open
  BY MarkerAssumption
<1> HIDE DEF before, after
\* What starts with the fold changes the value of its key.
<1>7. ASSUME NEW r \in new, r.from = t
      PROVE  [key |-> r.key, price |-> r.price, at |-> r.from] \in changes
  <2>1. r.to = Open /\ after[r.key] = r.price
    BY <1>1, <1>4, <1>7
  <2>2. before[r.key] # r.price
    <3>1. CASE IsOpen(old, r.key)
      <4>1. PICK q \in old : q.key = r.key /\ q.to = Open
        BY <3>1 DEF IsOpen
      <4>2. q \notin new
        BY <1>1, <1>3, <1>7, <2>1, <4>1 DEF SingleOpen
      <4>3. [q EXCEPT !.to = t] \in new
        BY <4>2 DEF OnlyAppends
      <4>4. /\ [q EXCEPT !.to = t].key = r.key /\ [q EXCEPT !.to = t].to = r.from
            /\ [q EXCEPT !.to = t].price = q.price
        BY <1>7, <4>1 DEF HistoryRow
      <4>5. q.price # r.price
        BY <4>3, <4>4 DEF AlwaysChanges
      <4> QED
        BY <1>4, <4>1, <4>5
    <3>2. CASE ~IsOpen(old, r.key)
      BY <1>2, <1>5, <3>2
    <3> QED
      BY <3>1, <3>2
  <2> QED
    BY <1>2, <1>7, <2>1, <2>2
\* What ends with the fold and is not replaced leaves its key without a value.
<1>8. ASSUME NEW r \in new, r.to = t, \A q \in new : q.key = r.key => q.from # r.to
      PROVE  [key |-> r.key, price |-> None, at |-> r.to] \in changes
  <2>1. PICK q \in old : q.to = Open /\ r = [q EXCEPT !.to = t]
    BY <1>8 DEF EndsWereOpen
  <2>2. q.key = r.key /\ q.price = r.price
    BY <2>1 DEF HistoryRow
  <2>3. ~IsOpen(new, r.key)
    <3>1. SUFFICES ASSUME NEW o \in new, o.key = r.key, o.to = Open PROVE FALSE
      BY DEF IsOpen
    <3>2. Before(r, o)
      BY <1>6, <1>8, <3>1 DEF Timeline, Before
    <3>3. o.from = t
      BY <1>8, <3>2 DEF Timeline, Before, HistoryRow, Time
    <3> QED
      BY <1>8, <3>1, <3>3
  <2> QED
    BY <1>2, <1>4, <1>5, <1>8, <2>1, <2>2, <2>3
<1>9. ASSUME NEW k \in Key, after[k] # before[k]
      PROVE  [key |-> k, price |-> after[k], at |-> t] \in Logged(new)
  <2>1. CASE IsOpen(new, k)
    <3>1. PICK r \in new : r.key = k /\ r.to = Open
      BY <2>1 DEF IsOpen
    <3>2. r.from = t
      <4>1. SUFFICES ASSUME r.from # t PROVE FALSE
        OBVIOUS
      <4>2. PICK q \in old : q.key = r.key /\ q.price = r.price /\ q.from = r.from
        BY <1>1, <4>1
      <4>3. q.to # Open
        BY <1>4, <1>9, <3>1, <4>2
      <4>4. q \in new /\ q # r
        BY <1>1, <3>1, <4>3
      <4>5. Before(q, r)
        BY <3>1, <4>2, <4>4 DEF Timeline, Before
      <4> QED
        BY <4>2, <4>3, <4>4, <4>5 DEF Timeline, Before, HistoryRow, Time
    <3> QED
      BY <1>4, <3>1, <3>2, LoggedEntries
  <2>2. CASE ~IsOpen(new, k)
    <3>1. after[k] = None /\ IsOpen(old, k)
      BY <1>5, <1>9, <2>2
    <3>2. PICK q \in old : q.key = k /\ q.to = Open
      BY <3>1 DEF IsOpen
    <3>3. [q EXCEPT !.to = t] \in new
      BY <2>2, <3>2 DEF IsOpen, OnlyAppends
    <3>4. [q EXCEPT !.to = t].key = k /\ [q EXCEPT !.to = t].to = t
      BY <3>2 DEF HistoryRow
    <3>5. \A o \in new : o.key = k => o.from # t
      BY <1>1, <2>2 DEF IsOpen
    <3> QED
      BY <1>6, <3>1, <3>3, <3>4, <3>5, LoggedEntries
  <2> QED
    BY <2>1, <2>2
<1>10. ASSUME NEW x \in Logged(old) PROVE x \in Logged(new)
  <2>1. CASE \E r \in old : x = [key |-> r.key, price |-> r.price, at |-> r.from]
    BY <1>1, <2>1, LoggedEntries
  <2>2. ASSUME NEW r \in old, r.to # Open, \A q \in old : q.key = r.key => q.from # r.to,
               x = [key |-> r.key, price |-> None, at |-> r.to]
        PROVE  x \in Logged(new)
    <3>1. r \in new /\ r.to # t
      BY <1>1, <2>2
    <3>2. \A q \in new : q.key = r.key => q.from # r.to
      BY <1>1, <2>2, <3>1
    <3> QED
      BY <2>2, <3>1, <3>2, LoggedEntries
  <2> QED
    BY <2>1, <2>2, LoggedEntries
<1>11. ASSUME NEW x \in Logged(new) PROVE x \in Logged(old) \cup changes
  <2>1. ASSUME NEW r \in new, x = [key |-> r.key, price |-> r.price, at |-> r.from]
        PROVE  x \in Logged(old) \cup changes
    <3>1. CASE r.from = t
      BY <1>7, <2>1, <3>1
    <3>2. CASE r.from # t
      BY <1>1, <2>1, <3>2, LoggedEntries
    <3> QED
      BY <3>1, <3>2
  <2>2. ASSUME NEW r \in new, r.to # Open, \A q \in new : q.key = r.key => q.from # r.to,
               x = [key |-> r.key, price |-> None, at |-> r.to]
        PROVE  x \in Logged(old) \cup changes
    <3>1. CASE r.to = t
      BY <1>8, <2>2, <3>1
    <3>2. CASE r.to # t
      <4>1. r \in old /\ \A q \in old : q.key = r.key => q.from # r.to
        BY <1>1, <2>2, <3>2
      <4> QED
        BY <2>2, <4>1, LoggedEntries
    <3> QED
      BY <3>1, <3>2
  <2> QED
    BY <2>1, <2>2, LoggedEntries
<1> QED
  BY <1>9, <1>10, <1>11 DEF before, after, LogsChanges

\* One fold of a history is one change of its ledger.
LEMMA LedgerStep ==
  ASSUME NEW Key, NEW old \in SUBSET HistoryRow(Key), NEW new \in SUBSET HistoryRow(Key),
         NEW t \in Nat, Timeline(old, t), Timeline(new, t + 1)
  PROVE  /\ Valued(new, Key) \in [Key -> Price \cup {None}]
         /\ OnlyAppends(old, new, t) /\ NoGaps(new) =>
              \A k \in Key : Valued(new, Key)[k] = None => Valued(old, Key)[k] = None
<1>1. SingleOpen(old) /\ SingleOpen(new)
  BY TimelineIsSingleOpen
<1>2. ASSUME NEW k \in Key, OnlyAppends(old, new, t), NoGaps(new), IsOpen(old, k)
      PROVE  IsOpen(new, k)
  <2>1. PICK q \in old : q.key = k /\ q.to = Open
    BY <1>2 DEF IsOpen
  <2>2. CASE q \in new
    BY <2>1, <2>2 DEF IsOpen
  <2>3. CASE [q EXCEPT !.to = t] \in new
    <3>1. [q EXCEPT !.to = t].key = k /\ [q EXCEPT !.to = t].to = t
      BY <2>1 DEF HistoryRow
    <3>2. PICK o \in new : o.key = k /\ o.from = t
      BY <1>2, <2>3, <3>1, MarkerAssumption DEF NoGaps
    <3>3. o \notin old
      BY <3>2 DEF Timeline, HistoryRow, Time
    <3>4. o.to # Open => o.to \in Nat /\ t < o.to /\ o.to < t + 1
      BY <3>2 DEF Timeline, HistoryRow, Time
    <3> QED
      BY <3>2, <3>4 DEF IsOpen
  <2> QED
    BY <1>2, <2>2, <2>3 DEF OnlyAppends
<1> QED
  BY <1>1, <1>2, ValuedType, ValuedWhenClosed

BaseLedgerStep == [BaseLedger!Change]_(BaseLedger!ledger)
ExceptionLedgerStep == [ExceptionLedger!Change]_(ExceptionLedger!ledger)

LEMMA RefinesInitially == Init => BaseLedger!Init /\ ExceptionLedger!Init
<1>1. \A Key : Valued({}, Key) = [k \in Key |-> None]
  BY DEF Valued, IsOpen
<1>2. Logged({}) = {}
  BY DEF Logged
<1> QED
  BY <1>1, <1>2 DEF Init, BaseLedger!Init, ExceptionLedger!Init

LEMMA RefinesStep == IInv /\ [Next]_vars => BaseLedgerStep /\ ExceptionLedgerStep
<1> SUFFICES ASSUME IInv, [Next]_vars PROVE BaseLedgerStep /\ ExceptionLedgerStep
  OBVIOUS
<1>1. /\ base \in SUBSET HistoryRow(BaseKey) /\ exception \in SUBSET HistoryRow(Pair)
      /\ now \in Nat /\ Timeline(base, now) /\ Timeline(exception, now)
  BY DEF IInv, TypeOK, HistoryIsATimeline
<1>2. CASE Rebuild
  <2>1. SoundFold(BaseKey, base, base', now) /\ SoundFold(Pair, exception, exception', now)
        /\ NoGaps(base')
    BY <1>2, RebuildIsSound
  <2>2. EndsWereOpen(base, base', now) /\ EndsWereOpen(exception, exception', now)
    BY <1>1, <1>2, FoldBaseEnds, FoldExceptionEnds DEF Rebuild
  <2>3. now' = now + 1
    BY <1>2 DEF Rebuild
  <2>4. BaseLedger!Change
    <3>1. /\ base' \in SUBSET HistoryRow(BaseKey) /\ Timeline(base', now + 1)
          /\ AlwaysChanges(base') /\ OnlyAppends(base, base', now)
      BY <2>1 DEF SoundFold
    <3>2. Valued(base', BaseKey) \in [BaseKey -> Price \cup {None}]
      BY <1>1, <3>1, LedgerStep
    <3>3. \A k \in BaseKey : Valued(base', BaseKey)[k] = None => Valued(base, BaseKey)[k] = None
      BY <1>1, <2>1, <3>1, LedgerStep
    <3>4. LogsChanges(BaseKey, base, base', now)
      BY <1>1, <2>2, <3>1, FoldIsLogged
    <3> QED
      BY <2>3, <3>2, <3>3, <3>4 DEF LogsChanges, BaseLedger!Change
  <2>5. ExceptionLedger!Change
    <3>1. /\ exception' \in SUBSET HistoryRow(Pair) /\ Timeline(exception', now + 1)
          /\ AlwaysChanges(exception') /\ OnlyAppends(exception, exception', now)
      BY <2>1 DEF SoundFold
    <3>2. Valued(exception', Pair) \in [Pair -> Price \cup {None}]
      BY <1>1, <3>1, LedgerStep
    <3>3. LogsChanges(Pair, exception, exception', now)
      BY <1>1, <2>2, <3>1, FoldIsLogged
    <3> QED
      BY <2>3, <3>2, <3>3 DEF LogsChanges, ExceptionLedger!Change
  <2> QED
    BY <2>4, <2>5 DEF BaseLedgerStep, ExceptionLedgerStep
<1>3. CASE Wait
  <2>1. base' = base /\ exception' = exception /\ now' = now + 1
    BY <1>3 DEF Wait
  <2>2. /\ Valued(base, BaseKey) \in [BaseKey -> Price \cup {None}]
        /\ Valued(exception, Pair) \in [Pair -> Price \cup {None}]
    BY <1>1, TimelineIsSingleOpen, ValuedType
  <2>3. BaseLedger!Change
    BY <2>1, <2>2 DEF BaseLedger!Change
  <2>4. ExceptionLedger!Change
    BY <2>1, <2>2 DEF ExceptionLedger!Change
  <2> QED
    BY <2>3, <2>4 DEF BaseLedgerStep, ExceptionLedgerStep
<1>4. CASE UNCHANGED <<base, exception, now>>
  BY <1>4 DEF BaseLedgerStep, ExceptionLedgerStep, BaseLedger!ledger, ExceptionLedger!ledger
<1> QED
  BY <1>2, <1>3, <1>4 DEF Next, StageFile, MoveStore, Purge, vars

\* price_base implements a complete, append-only log of its groups' prices in which no
\* price, once known, is lost.
THEOREM BaseRefinesLedger == Spec => BaseIsALedger
<1> QED
  BY Invariance, RefinesInitially, RefinesStep, PTL
  DEF Spec, BaseIsALedger, BaseLedger!Spec, BaseLedgerStep

\* price_exception implements a complete, append-only log of the prices of its own that
\* each store had and lost.
THEOREM ExceptionRefinesLedger == Spec => ExceptionIsALedger
<1> QED
  BY Invariance, RefinesInitially, RefinesStep, PTL
  DEF Spec, ExceptionIsALedger, ExceptionLedger!Spec, ExceptionLedgerStep
=============================================================================
