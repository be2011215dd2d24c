SPECIFICATION Spec
CONSTANTS
  Lens <- SomeLens
  ReplyLens <- SomeLens
  FifoLen = 2
  RxBufSize = 4
  Unsolicited = FALSE
INVARIANT TypeOK
INVARIANT SentWhole
INVARIANT ReceivedAnnounced
PROPERTY InterruptSettles
PROPERTY SendEnds
PROPERTY ImplementsPort
