SPECIFICATION Spec
CONSTANTS
  NameBytes = 2
  Chunks <- MCChunks
  Names <- MCNames
  Modes = {"VM_MODE_STATIC", "VM_MODE_INTERACTIVE"}
  StackMax = 4
  MaxLines = 2
  MaxNumber = 3
  MaxString = 2
  MaxOutput = 2
PROPERTY
  AssignmentIsVisible
