SPECIFICATION Spec
CONSTANTS
  UdpClients = {}
  TcpClients = {t1, t2}
  NoClient = NoClient
  Port <- OwnPorts
  MaxSockNum = 2
  Frames <- SocketFrames
  QCap = 2
  DCap = 2
  ByteMod = 256
  MaxSlaves = 10
  SerialAttempts = 1
  ScanBytes = 2
  Noise = FALSE
INVARIANT Synced
INVARIANT CountersMatchQueue
PROPERTY ImplementsService
