SPECIFICATION WritingSpec
CONSTANTS
  MaxText = 4
  Texts <- MCTexts
  Lists <- MCLists
  Gaps <- MCGaps
INVARIANTS
  OnlyUnterminatedTextsOverread
PROPERTIES
  TokensInOrder
  Settles
  GivesWhatWasWritten
