SPECIFICATION Spec
CONSTANTS
  Store = {s1, s2}
  Settled = {s1, s2}
  Variant = {v1, v2}
  Group = {g1}
  Price = {1, 2}
  FileKind = {"full", "delta"}
  None = None
  Open = Open
  Header <- HeaderMC
  Linked = {v1, v2}
  MaxAge = 1
  DayLength = 2
  Window = {0, 1}
  MaxTime = 3
  MaxStaged = 2
PROPERTY ExceptionsCloseOnEvidence
