SPECIFICATION Spec
CONSTANTS
  Doubles <- MCDoubles
  Texts <- MCTexts
  Files <- MCFiles
  Ops = {"OP_POP", "OP_STRING", "OP_JUMP"}
  Headers <- MCHeaders
  JumpMax = 300
  MaxWritten = 3
  MaxLost = 14
INVARIANTS
  TypeOK
  ChunksArePortable
  ListsWhatWasWritten
  CutFilesListAPrefix
PROPERTY
  ListingEnds
