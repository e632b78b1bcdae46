SPECIFICATION Spec
CONSTANTS
  Chars <- TwoChars
  LineLength = 2
  HistoryLength = 2
  MaxCapacity = 4
INVARIANTS
  LineEndsInZeros
  StringsFit
  HistoryInOrder
PROPERTIES
  TypedLineIsKept
  TypedLineStays
