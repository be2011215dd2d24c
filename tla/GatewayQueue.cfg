SPECIFICATION Spec
CONSTANTS
  UdpClients = {u1}
  TcpClients = {}
  NoClient = NoClient
  Port <- OwnPorts
  MaxSockNum = 0
  Frames <- QueueFrames
  QCap = 3
  DCap = 3
  ByteMod = 256
  MaxSlaves = 10
  SerialAttempts = 2
  ScanBytes = 2
  Noise = TRUE
INVARIANT TypeOK
INVARIANT Synced
INVARIANT CountersMatchQueue
INVARIANT QueueFlagBacked
INVARIANT AttemptsAccounted
PROPERTY TransactionKeepsHead
PROPERTY PriorityFifo
PROPERTY ImplementsService
