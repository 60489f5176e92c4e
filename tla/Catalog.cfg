SPECIFICATION FairSpec
CONSTANTS
  c1 = c1
  c2 = c2
  s1 = s1
  s2 = s2
  s3 = s3
  Chain = {c1, c2}
  Store = {s1, s2, s3}
  ChainOf <- ChainOfMC
  Item <- ItemMC
  Sells <- SellsMC
  Name = {1, 2}
  Gives <- GivesMC
  Length <- LengthMC
  Threshold = {1, 3}
  None = None
  NoRow = NoRow
  MaxStaged = 2
INVARIANTS TypeOK ComparedAreOneProduct ChainCountIsHonest ShownIsLinked
PROPERTIES ComparableIsShown
