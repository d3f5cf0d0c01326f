CONSTANTS
  d1 = d1
  d2 = d2
  milk = milk
  eggs = eggs
  Devices <- OneDevice
  Item <- TwoItems
  MaxEdits = 2
  MaxLeft = 2
SPECIFICATION HastySession
PROPERTY EditsKeepTheRest
