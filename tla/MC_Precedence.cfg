SPECIFICATION Spec
CONSTANTS
  NameBytes = 2
  Names <- MCNames
  Sources <- MCSources
  Programs <- MCPrograms
  JumpMax = 32767
  ParamMax = 256
  MaxCode = 1000
INVARIANTS
  FollowsManual
