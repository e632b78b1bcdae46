SPECIFICATION SessionSpec
CONSTANTS
  NameBytes = 2
  Chunks = {}
  Sessions <- MCSessions
  Programs <- MCPrograms
  Delivered <- MCDelivered
  Names <- MCNames
  JumpMax = 300
  ParamMax = 3
  MaxCode = 300
  Modes = {"VM_MODE_STATIC", "VM_MODE_INTERACTIVE"}
  StackMax = 8
  MaxLines = 3
  MaxNumber = 200
  MaxString = 4
  MaxOutput = 20
INVARIANTS
  RunsAsMeant
  MachineGetsPrograms
  PromptIsClean
PROPERTY
  LineEnds
