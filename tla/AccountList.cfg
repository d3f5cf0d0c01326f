CONSTANTS
  ann = ann
  ben = ben
  Account = {ann, ben}
  NoOne = NoOne
  Blank = Blank
  MaxHomes = 2
  MaxCalls = 2
  MaxCompares = 1
  MaxUnderWay = 2
  MaxLeft = 1
CONSTRAINT Unspoilt
SYMMETRY Alike
SPECIFICATION AccountListSpec
INVARIANTS
  AccountListTypeOK
  ListsAreOwn
  SettledPageIsOwn
PROPERTY NoPageBelowOrphan
