SPECIFICATION FairSpec
CONSTANTS
  UdpClients = {u1}
  TcpClients = {}
  NoClient = NoClient
  Port <- OwnPorts
  MaxSockNum = 0
  Frames <- LongestFrames
  QCap = 2
  DCap = 2
  ByteMod = 4
  MaxSlaves = 10
  SerialAttempts = 2
  ScanBytes = 2
  Noise = FALSE
PROPERTY TransactionEnds
