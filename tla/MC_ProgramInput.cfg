SPECIFICATION Spec
CONSTANTS
  Files = {"f", "g"}
  Missing = {"m"}
  None = None
  CommandLines <- MCCommandLines
  Choices <- MCChoices
INVARIANTS
  ModesHaveFiles
  OrderedOptions
PROPERTY
  ArgumentsEnd
