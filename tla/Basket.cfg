SPECIFICATION Spec
CONSTANTS
  Product = {"milk", "bread"}
  TRAVEL_PENALTY_PER_STOP = 500
  TRAVEL_VALUE_PER_HOUR = 1500
  Input <- InputMC
  None = None
  Now = 5
  PAIR_POOL = 10
  MAX_CANDIDATE_STORES = 60
INVARIANTS EachItemIsBoughtOnce PairIsOptimal SplitIsWorthItsStop
PROPERTIES Terminates
CHECK_DEADLOCK FALSE
