CONSTANTS
  milk = milk
  eggs = eggs
  rice = rice
  kale = kale
  salsa = salsa
  r1 = r1
  r2 = r2
  NoItem = NoItem
  Name <- Names
  Price <- Prices
  Score <- Scores
  Table <- Catalog
  Like <- LikeAll
  Refused = {salsa}
  Requests = {r1}
  Uncategorised <- NoRows
  MaxItems = 1
  Posted <- PostedUnequal
  Unreliable = FALSE
SPECIFICATION Spec
INVARIANT SafewaySubstitute
CHECK_DEADLOCK FALSE
