SPECIFICATION Spec
CONSTANTS
  NameBytes = 2
  Sources <- MCSources
  Names <- MCNames
  Programs <- MCPrograms
  JumpMax = 86
  ParamMax = 3
  MaxCode = 1150
  MaxTokens = 4
INVARIANTS
  JumpsLand
  ScopesClose
  CallsFollowHeaders
  OnlyErrorsExhaust
  FollowsLanguage
  ProgramsAreWellFormed
PROPERTY
  CompilationEnds
