SPECIFICATION Spec
CONSTANTS
  n1 = n1
  n2 = n2
  n3 = n3
  n4 = n4
  n5 = n5
  v1 = v1
  v2 = v2
  Names <- SomeNames
  Values <- SomeValues
  Zero = v1
  Garbage = Garbage
  MaxCapacity = 4
INVARIANTS
  IInv
PROPERTY
  ImplementsMap
