SPECIFICATION Spec
CONSTANTS
  Lens <- SomeLens
  Cmd = 3
  Direct = 2
  FifoLen = 3
INVARIANT TypeOK
INVARIANT FramesWhole
INVARIANT AnswersInPlace
INVARIANT SetUpUndisturbed
INVARIANT TakenInBounds
PROPERTY AccessEnds
