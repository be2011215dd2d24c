SPECIFICATION Spec
CONSTANTS
  Lens <- SomeLens
  ReplyLens <- SomeLens
  FifoLen = 2
  RxBufSize = 4
  Unsolicited = TRUE
INVARIANT SentWhole
