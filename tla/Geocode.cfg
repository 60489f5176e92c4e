SPECIFICATION FairSpec
CONSTANTS
  street = street
  haifa = haifa
  code = code
  Store = {1, 2}
  Address <- AddressMC
  Published <- PublishedMC
  City = {haifa}
  Response <- ResponseMC
  Limit = {0, 1}
  Floor = 600
  Key = TRUE
  None = None
  Human = Human
  NoResult = NoResult
  MaxEvents = 1
INVARIANTS TypeOK BilledOnce
PROPERTIES DoubtIsListed PlacedIsLeftAlone NewStoreIsPlaced
