SPECIFICATION FairSpec
CONSTANTS
  Chain = {1, 2}
  s1 = s1
  p1 = p1
  p2 = p2
  Deltas = {}
  File = {s1, p1, p2}
  ChainOf <- ChainOfMC
  Kind <- KindMC
  Version = {1, 2}
  Size <- SizeMC
  Disabled = {}
  Worker = {w1}
  Daily = {w1}
  None = None
  Fault = {"fetch", "parse", "load", "unlink", "crash"}
  Last <- LastMC
  MaxFaults = 1
INVARIANTS TypeOK OwnFilesOnly RegisteredIsKept EndedIsFolded
PROPERTIES PurgedIsFolded IngestedOnce PublishedIsFolded
