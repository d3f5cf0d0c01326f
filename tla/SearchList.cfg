CONSTANTS
  milk = milk
  oat = oat
  salt = salt
  milkCarton = milkCarton
  oatMilk = oatMilk
  oatFlakes = oatFlakes
  Query = {milk, oat, salt}
  Item = {milkCarton, oatMilk, oatFlakes}
  Products <- MCProducts
  NoQuery = NoQuery
  MaxSearches = 3
SPECIFICATION Spec
INVARIANTS
  TypeOK
  NothingLost
  ExactlyFound
