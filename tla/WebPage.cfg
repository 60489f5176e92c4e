SPECIFICATION Spec
CONSTANTS
  coop = coop
  mega = mega
  Product = {1, 2, 3}
  Alphabet <- AlphabetMC
  Variant = {1, 2, 3, 4, 5}
  Store <- StoreMC
  Active = {1, 2, 3}
  Chain = {coop, mega}
  ChainOf <- ChainOfMC
  None = None
  PageSize = 1
  TableLimit = 3
  Fields <- FieldsMC
  NoFields <- BlankMC
  Hits <- HitsMC
  Tables <- TablesMC
  MaxClicks = 5
  MaxLooks = 2
CHECK_DEADLOCK FALSE
INVARIANTS ListsAreTheAnswers EmptyMeansNothing CardAndTableAgree CopiesAgree ResultIsOfTheLastOrder
