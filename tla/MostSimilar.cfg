CONSTANTS
  milk = milk
  wholeMilk = wholeMilk
  milkMilk = milkMilk
  bread = bread
  wholeBread = wholeBread
  Name <- Names
  Price <- Prices
  Score <- Scores
  MaxRows = 3
SPECIFICATION Spec
INVARIANTS
  LoopInv
  ReturnsMostSimilar
CHECK_DEADLOCK FALSE
