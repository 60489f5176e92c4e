SPECIFICATION Spec
CONSTANTS
  Store = {s1, s2, s3}
  Settled = {s1, s2}
  Variant = {v1}
  Group = {g1}
  Price = {1, 2}
  FileKind = {"delta"}
  None = None
  Open = Open
  Header <- HeaderMC
  Linked = {v1}
  MaxAge = 1
  DayLength = 2
  Window = {0, 1}
  MaxTime = 4
  MaxStaged = 3
INVARIANTS TypeOK HistoryIsATimeline NoChurn ChartMeetsShelf CurrentBackedByHistory
PROPERTIES HistoryOnlyAppends FoldIsRecorded FoldIsShown QuietPairsKeepTheirPrice PastDaysAreFinal BaseIsALedger ExceptionIsALedger BaseNeedsFewestExceptions SplitNeverRaisesBase
SYMMETRY Alike
