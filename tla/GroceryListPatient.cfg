CONSTANTS
  d1 = d1
  d2 = d2
  milk = milk
  eggs = eggs
  Devices <- OneDevice
  Item <- TwoItems
  MaxEdits = 4
  MaxLeft = 2
SPECIFICATION PatientSpec
PROPERTIES
  EditsKeepTheRest
  FreshAddIsNew
