CONSTANTS
  ann = ann
  ben = ben
  Account = {ann, ben}
  NoOne = NoOne
  MaxHomes = 2
  MaxCalls = 3
  MaxCompares = 2
SPECIFICATION FairSpec
INVARIANTS
  TypeOK
  SessionMatches
  OwnComparison
  FirstHomeHasBody
PROPERTY SplashEnds
