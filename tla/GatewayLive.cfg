SPECIFICATION FairSpec
CONSTANTS
  UdpClients = {u1}
  TcpClients = {t1}
  NoClient = NoClient
  Port <- OwnPorts
  MaxSockNum = 1
  Frames <- LiveFrames
  QCap = 2
  DCap = 2
  ByteMod = 256
  MaxSlaves = 10
  SerialAttempts = 2
  ScanBytes = 2
  Noise = FALSE
INVARIANT WireIntact
PROPERTY TransactionEnds
PROPERTY PriorityServed
PROPERTY ImplementsService
