CONSTANTS
  milk = milk
  eggs = eggs
  rice = rice
  kale = kale
  salsa = salsa
  r1 = r1
  r2 = r2
  NoItem = NoItem
  Name <- Names
  Price <- Prices
  Score <- Scores
  Table <- Catalog
  Like <- LikeAll
  Refused = {salsa}
  Requests = {r1, r2}
  Uncategorised <- EggsOnly
  MaxItems = 2
  Posted <- PostedUnequal
  Unreliable = TRUE
SPECIFICATION TimerSpec
INVARIANTS
  TypeOK
  TimelyReply
  QuoteAddsUp
  LookupsInOrder
  NoFalseSubstitute
PROPERTIES
  ServesAsPromised
  CompareIsAnswered
  SearchIsAnswered
CHECK_DEADLOCK FALSE
