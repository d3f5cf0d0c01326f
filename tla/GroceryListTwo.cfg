CONSTANTS
  d1 = d1
  d2 = d2
  milk = milk
  eggs = eggs
  Devices <- TwoDevices
  Item <- TwoItems
  MaxEdits = 2
  MaxLeft = 1
SPECIFICATION FairSpec
INVARIANTS
  TypeOK
  ItemsAreStored
  ScreenShowsStored
  WritesAreRefreshed
PROPERTY Converges
