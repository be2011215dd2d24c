SPECIFICATION Spec
CONSTANTS
  Lens <- SomeLens
  Header = 2
  InBuf = 3
  Size = 12
  Wrap = 16
  Batch = 5
  IncWrap = 6
  Tags = 4
INVARIANT TypeOK
INVARIANT DatagramsIntact
INVARIANT CopyAgrees
INVARIANT SpaceReturned
PROPERTY DrainEnds
