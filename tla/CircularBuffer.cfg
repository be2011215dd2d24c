SPECIFICATION Spec
CONSTANTS
  Values <- SomeValues
  Capacity = 4
  Zero = 0
INVARIANT TypeOK
INVARIANT EndsAgree
PROPERTY ImplementsDeque
