CONSTANTS
  milk = milk
  eggs = eggs
  salsa = salsa
  walmart = walmart
  safeway = safeway
  Item = {milk, eggs, salsa}
  Illegible = {salsa}
  Lists <- MCLists
  Stores = {walmart, safeway}
  Offered <- MCOffered
  Draws = TRUE
  Null = Null
  MaxRequests = 2
  MaxStored = 3
SPECIFICATION Spec
INVARIANTS
  TypeOK
  BodyIsList
  ComparedWasStored
  DrawnIsLatest
PROPERTY ShoppingUndisturbed
