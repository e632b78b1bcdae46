SPECIFICATION Spec
CONSTANTS
  Chars <- TwoChars
  LineLength = 2
  HistoryLength = 2
  MaxCapacity = 4
PROPERTY
  InsertionShifts
