CONSTANTS
  d1 = d1
  d2 = d2
  milk = milk
  eggs = eggs
  Devices <- OneDevice
  Item <- TwoItems
  MaxEdits = 3
  MaxLeft = 2
SPECIFICATION PatientSession
INVARIANT NoDuplicates
