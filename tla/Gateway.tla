------------------------------ MODULE Gateway ------------------------------
(***************************************************************************)
(* The gateway core: the request queue, the slave status table, the serial *)
(* transaction state machine and the main loop that drives them            *)
(* (Src/main.cpp, Src/ModbusTCP.cpp, Src/ModbusRTU.cpp), together with the *)
(* parts of the world the loop meets: clients, TCP connections of the      *)
(* Ethernet chip, the send timer, the RS485 line and the slaves on it.     *)
(*                                                                         *)
(* One pass of the loop is a cycle of pc.  Every handler is one action, or *)
(* one action per branch; the only handlers that take several steps are    *)
(* the two loops that may spin (the queue rotation of sendSerial and the   *)
(* wait for a free line at the end of recvSerial).  The world moves        *)
(* between any two steps.                                                  *)
(*                                                                         *)
(* An operator named X_Something is X with a fault seeded into it, the kind *)
(* of slip this code could contain: no action refers to it.  README.md says *)
(* which property notices which fault.                                     *)
(***************************************************************************)
EXTENDS Integers, Sequences, FiniteSets

CONSTANTS
  UdpClients,      \* clients that send requests over UDP
  TcpClients,      \* clients that send requests over TCP
  NoClient,        \* "nobody": the peer of a socket without a connection
  Port,            \* the source port of every TCP client
  MaxSockNum,      \* hardware sockets left for TCP (MAX_SOCK_NUM less UDP's)
  Frames,          \* the requests clients send: records [slave, len]
  QCap,            \* MAX_QUEUE_REQUESTS
  DCap,            \* MAX_QUEUE_DATA
  ByteMod,         \* 2^8, the range of the uint8_t index txNdx
  MaxSlaves,       \* MAX_SLAVES: addresses below it have a status
  SerialAttempts,  \* config.serialAttempts
  ScanBytes,       \* bytes of a frame on their way when SCAN_TIMEOUT is over
  Noise            \* TRUE: frames with a wrong CRC may arrive

Clients == UdpClients \cup TcpClients
Sockets == 0 .. (MaxSockNum - 1)

ASSUME ClientsAssumption ==
  /\ NoClient \notin Clients
  /\ UdpClients \cap TcpClients = {}
  /\ Port \in [TcpClients -> Nat]

ASSUME SizesAssumption ==
  /\ MaxSockNum \in Nat
  /\ QCap \in Nat \ {0}
  /\ DCap \in Nat \ {0}
  /\ MaxSlaves \in Nat \ {0}
  /\ SerialAttempts \in Nat \ {0}
  /\ ScanBytes \in Nat \ {0}
  /\ ByteMod \in Nat
  /\ ByteMod >= DCap + 2

\* A request without an address byte reads as a broadcast: inBuffer is zeroed
\* before the datagram is copied into it.
ASSUME FramesAssumption ==
  \A f \in Frames : /\ f.slave \in 0 .. 255
                    /\ f.len \in Nat
                    /\ f.len = 0 => f.slave = 0

ASSUME NoiseAssumption == Noise \in BOOLEAN

VARIABLES
  pc,                  \* where the main loop stands
  queueHeaders,        \* requests, head first
  queueData,           \* their bytes, head first
  slaveStatus,         \* the one status flag set for each tracked slave
  priorityReqInQueue,  \* count of priority requests
  socketInQueue,       \* per socket, count of queued requests
  serialState,         \* IDLE, SENDING, DELAY, WAITING
  txNdx, txBuffer,     \* sendSerial's frame under construction
  sendMicroTimer,      \* what the send timer was last armed for, and if over
  sending, wire,       \* the line carries the frame `wire' of ours, as it
                       \* was handed over or, where it has gone, as it went
  fetched,             \* how much of it has gone from txBuffer to the UART
  incoming,            \* the line carries a frame of a slave: <<frame>>
  rxBuf,               \* frames received since the buffer was last freed
  replying,            \* per slave, whose request it still works on
  snSR, peer,          \* per socket, its status register and remote client
  sent                 \* what the last step put on the network: <= 1 message

queue   == <<queueHeaders, queueData>>
books   == <<slaveStatus, priorityReqInQueue, socketInQueue>>
serial  == <<serialState, txNdx, txBuffer>>
line    == <<sending, wire, fetched, incoming, rxBuf, replying>>
tcp     == <<snSR, peer>>
vars    == <<pc, queue, books, serial, sendMicroTimer, line, tcp, sent>>

-----------------------------------------------------------------------------
(* Data *)

States   == {"IDLE", "SENDING", "DELAY", "WAITING"}

\* The flag set for a slave.  SLAVE_OK, SLAVE_ERROR_0X, SLAVE_ERROR_0A and no
\* flag at all are one value here: no code of this build tells them apart.
Statuses == {"OTHER", "0B", "0B_QUEUE"}

\* Addresses that may occur on the line, and those that have a status.
Slaves  == {f.slave : f \in Frames}
Tracked == {s \in Slaves : s < MaxSlaves}

Headers == [client : Clients, sock : 0 .. MaxSockNum, msgLen : 0 .. DCap,
            prio : BOOLEAN, scan : BOOLEAN, atts : 0 .. SerialAttempts]

\* A byte of a request.  Position 1 is the address.  Whose request it belongs
\* to is known only to the specification.
Bytes == [slave : Slaves, client : Clients, pos : 1 .. DCap]
RequestBytes(slave, client, len) ==
  [i \in 1 .. len |-> [slave |-> slave, client |-> client, pos |-> i]]

\* A frame: the request and its CRC, low byte first.
FrameBytes == Bytes \cup [of : Seq(Bytes), half : {"low", "high"}]
Framed(s) == s \o <<[of |-> s, half |-> "low"], [of |-> s, half |-> "high"]>>

\* A frame a slave sends: for whose request; or garbage that fails the CRC.
Garbage == [slave |-> 256, client |-> NoClient]
Replies == [slave : Slaves, client : Clients] \cup {Garbage}

Timers == [kind : {"none", "response", "scan", "frame"}, over : BOOLEAN]
Armed(kind) == [kind |-> kind, over |-> FALSE]

SocketStates == {"CLOSED", "LISTEN", "ESTABLISHED", "CLOSE_WAIT", "CLOSING"}

Messages == [to : Clients, about : Clients, kind : {"reply", "0A", "0B"}]

IsTcp(h) == h.sock \in Sockets
Current   == Head(queueHeaders)

TypeOK ==
  /\ pc \in {"sendSerial", "prioritise", "recvUdp", "recvSerial",
             "freeRxBuffer", "manageSockets"}
  /\ queueHeaders \in Seq(Headers)
  /\ Len(queueHeaders) <= QCap
  /\ queueData \in Seq(Bytes)
  /\ Len(queueData) <= DCap
  /\ slaveStatus \in [Tracked -> Statuses]
  /\ priorityReqInQueue \in Int
  /\ socketInQueue \in [Sockets -> Int]
  /\ serialState \in States
  /\ txNdx \in 0 .. (ByteMod - 1)
  /\ txBuffer \in Seq(FrameBytes)
  /\ sendMicroTimer \in Timers
  /\ sending \in BOOLEAN
  /\ wire \in Seq(FrameBytes)
  /\ fetched \in 0 .. Len(wire)
  /\ incoming \in Seq(Replies)
  /\ rxBuf \in Seq(Replies)
  /\ replying \in [Slaves -> Clients \cup {NoClient}]
  /\ snSR \in [Sockets -> SocketStates]
  /\ peer \in [Sockets -> TcpClients \cup {NoClient}]
  /\ sent \subseteq Messages

-----------------------------------------------------------------------------
(* Helpers of the handlers *)

\* getSlaveStatus / setSlaveStatus: an address without a status reads as
\* clear and ignores writes; setting one flag clears the others.
StatusOf(slave) == IF slave \in Tracked THEN slaveStatus[slave] ELSE "OTHER"
SetSlaveStatus(slave, status) ==
  slaveStatus' = IF slave \in Tracked
                 THEN [slaveStatus EXCEPT ![slave] = status]
                 ELSE slaveStatus

\* UART busy: a frame of ours or of a slave is on the line.
IsBusy == sending \/ incoming # <<>>

\* queueData[0]; with no byte queued the ring returns whatever its tail holds.
HeadAddresses == IF queueData = <<>> THEN Slaves ELSE {queueData[1].slave}

DropBytes_OneShort(n) == SubSeq(queueData, IF n = 0 THEN 1 ELSE n, Len(queueData))

DropBytes(n) == SubSeq(queueData, n + 1, Len(queueData))

DeleteRequest_PriorityKept ==
  LET h == Current IN
  /\ socketInQueue' = IF IsTcp(h)
                      THEN [socketInQueue EXCEPT ![h.sock] = @ - 1]
                      ELSE socketInQueue
  /\ UNCHANGED priorityReqInQueue
  /\ queueData' = DropBytes(h.msgLen)
  /\ queueHeaders' = Tail(queueHeaders)

DeleteRequest_SocketKept ==
  /\ UNCHANGED socketInQueue
  /\ priorityReqInQueue' = priorityReqInQueue - (IF Current.prio THEN 1 ELSE 0)
  /\ queueData' = DropBytes(Current.msgLen)
  /\ queueHeaders' = Tail(queueHeaders)

DeleteRequest ==
  LET h == Current IN
  /\ socketInQueue' = IF IsTcp(h)
                      THEN [socketInQueue EXCEPT ![h.sock] = @ - 1]
                      ELSE socketInQueue
  /\ priorityReqInQueue' = priorityReqInQueue - (IF h.prio THEN 1 ELSE 0)
  /\ queueData' = DropBytes(h.msgLen)
  /\ queueHeaders' = Tail(queueHeaders)

Recipients_AnyState(h) ==
  IF IsTcp(h)
  THEN {c \in {peer[h.sock]} : c # NoClient /\ Port[c] = Port[h.client]}
  ELSE {h.client}

Recipients_NoPortCheck(h) ==
  IF IsTcp(h) THEN {c \in {peer[h.sock]} : snSR[h.sock] = "ESTABLISHED"}
              ELSE {h.client}

\* Who gets a response to header h: the UDP sender; for TCP, whoever holds
\* the connection of that socket, provided the remote port is the same.
Recipients(h) ==
  IF IsTcp(h)
  THEN {c \in {peer[h.sock]} : /\ snSR[h.sock] = "ESTABLISHED"
                               /\ Port[c] = Port[h.client]}
  ELSE {h.client}

SendResponse_Kept(kind) ==
  /\ sent' = {[to |-> c, about |-> Current.client, kind |-> kind] : c \in Recipients(Current)}
  /\ UNCHANGED <<queue, priorityReqInQueue, socketInQueue>>

SendResponse(kind) ==
  /\ sent' = {[to |-> c, about |-> Current.client, kind |-> kind] : c \in Recipients(Current)}
  /\ DeleteRequest

-----------------------------------------------------------------------------
(* Requests from the network *)

QueueFull_OffByOne(len) ==
  Len(queueHeaders) > QCap \/ DCap - Len(queueData) < len - 1

QueueFull(len) == Len(queueHeaders) >= QCap \/ DCap - Len(queueData) < len

\* Store request f of client c, received on socket s (MaxSockNum for UDP).
Store(c, s, f, prio) ==
  /\ queueHeaders' = Append(queueHeaders,
       [client |-> c, sock |-> s, msgLen |-> f.len, prio |-> prio,
        scan |-> f.slave = 0, atts |-> 0])
  /\ queueData' = queueData \o RequestBytes(f.slave, c, f.len)
  /\ priorityReqInQueue' = priorityReqInQueue + (IF prio THEN 1 ELSE 0)
  /\ socketInQueue' = IF s \in Sockets
                      THEN [socketInQueue EXCEPT ![s] = @ + 1]
                      ELSE socketInQueue
  /\ sent' = {}

Reject(c, kind) ==
  /\ sent' = {[to |-> c, about |-> c, kind |-> kind]}
  /\ UNCHANGED <<queue, priorityReqInQueue, socketInQueue>>

CheckRequest(c, s, f) ==
  /\ \/ /\ QueueFull(f.len)
        /\ SetSlaveStatus(f.slave, "OTHER")   \* SLAVE_ERROR_0A
        /\ Reject(c, "0A")
     \/ /\ ~QueueFull(f.len)
        /\ StatusOf(f.slave) = "0B_QUEUE"
        /\ Reject(c, "0B")
        /\ UNCHANGED slaveStatus
     \/ /\ ~QueueFull(f.len)
        /\ StatusOf(f.slave) = "0B"
        /\ SetSlaveStatus(f.slave, "0B_QUEUE")
        /\ Store(c, s, f, FALSE)
     \/ /\ ~QueueFull(f.len)
        /\ StatusOf(f.slave) = "OTHER"
        /\ Store(c, s, f, TRUE)
        /\ UNCHANGED slaveStatus

\* Nothing arrived, or what arrived failed the MBAP or CRC check.
NoRequest ==
  /\ sent' = {}
  /\ UNCHANGED <<queue, books>>

RecvUdp ==
  /\ pc = "recvUdp"
  /\ pc' = "recvSerial"
  /\ NoRequest \/ \E c \in UdpClients, f \in Frames : CheckRequest(c, MaxSockNum, f)
  /\ UNCHANGED <<serial, sendMicroTimer, line, tcp>>

-----------------------------------------------------------------------------
(* sendSerial: one step of the serial state machine per call *)

SendSerialReady == sendMicroTimer.over /\ queueHeaders # <<>>

SendSerialSkip ==
  /\ pc = "sendSerial"
  /\ ~SendSerialReady
  /\ pc' = "recvUdp"
  /\ sent' = {}
  /\ UNCHANGED <<queue, books, serial, sendMicroTimer, line, tcp>>

Idle_AnyState ==
  /\ pc = "sendSerial" /\ SendSerialReady
  /\ pc' = "prioritise"
  /\ sent' = {}
  /\ UNCHANGED <<queue, books, serial, sendMicroTimer, line, tcp>>

\* IDLE, loop condition: rotate while some request has priority, not the first.
Idle ==
  /\ pc = "sendSerial" /\ SendSerialReady /\ serialState = "IDLE"
  /\ pc' = "prioritise"
  /\ sent' = {}
  /\ UNCHANGED <<queue, books, serial, sendMicroTimer, line, tcp>>

MustRotate_WhileAny == priorityReqInQueue # 0

MustRotate == priorityReqInQueue # 0 /\ ~Current.prio

Rotate_HeaderOnly ==
  /\ pc = "prioritise" /\ MustRotate
  /\ queueHeaders' = Append(Tail(queueHeaders), Current)
  /\ sent' = {}
  /\ UNCHANGED <<pc, queueData, books, serial, sendMicroTimer, line, tcp>>

Rotate ==
  /\ pc = "prioritise" /\ MustRotate
  /\ queueData' = DropBytes(Current.msgLen) \o SubSeq(queueData, 1, Current.msgLen)
  /\ queueHeaders' = Append(Tail(queueHeaders), Current)
  /\ sent' = {}
  /\ UNCHANGED <<pc, books, serial, sendMicroTimer, line, tcp>>

RotateDone ==
  /\ pc = "prioritise" /\ ~MustRotate
  /\ pc' = "recvUdp"
  /\ serialState' = "SENDING"
  /\ sent' = {}
  /\ UNCHANGED <<queue, books, txNdx, txBuffer, sendMicroTimer, line, tcp>>

Overwrite(old, new) == new \o SubSeq(old, Len(new) + 1, Len(old))

\* SENDING: fill txBuffer from its start and append the CRC, unless an earlier
\* call has done so, then hand the frame to the UART unless it is busy.  txNdx,
\* a uint8_t, is 0 or behind the CRC.
Sending ==
  LET len == Current.msgLen
      built == txNdx > len
      ndx == IF built THEN txNdx ELSE (len + 2) % ByteMod
      buf == IF built THEN txBuffer
             ELSE Overwrite(txBuffer, Framed(SubSeq(queueData, 1, len)))
  IN
  /\ pc = "sendSerial" /\ SendSerialReady /\ serialState = "SENDING"
  /\ pc' = "recvUdp"
  /\ txBuffer' = buf
  /\ IF ndx > len /\ ~IsBusy
     THEN /\ txNdx' = 0
          /\ serialState' = "DELAY"
          /\ sending' = TRUE
          /\ wire' = SubSeq(buf, 1, ndx)
          /\ fetched' = 0
     ELSE /\ txNdx' = ndx
          /\ UNCHANGED <<serialState, sending, wire, fetched>>
  /\ sent' = {}
  /\ UNCHANGED <<queue, books, sendMicroTimer, incoming, rxBuf, replying, tcp>>

Delay_FrameDelay ==
  /\ pc = "sendSerial" /\ SendSerialReady /\ serialState = "DELAY"
  /\ pc' = "recvUdp"
  /\ queueHeaders' = [queueHeaders EXCEPT ![1].atts = @ + 1]
  /\ sendMicroTimer' = Armed("frame")
  /\ serialState' = "WAITING"
  /\ sent' = {}
  /\ UNCHANGED <<queueData, books, txNdx, txBuffer, line, tcp>>

\* DELAY: count the attempt, arm the timer for the answer.
Delay ==
  /\ pc = "sendSerial" /\ SendSerialReady /\ serialState = "DELAY"
  /\ pc' = "recvUdp"
  /\ queueHeaders' = [queueHeaders EXCEPT ![1].atts = @ + 1]
  /\ sendMicroTimer' = Armed(IF Current.scan THEN "scan" ELSE "response")
  /\ serialState' = "WAITING"
  /\ sent' = {}
  /\ UNCHANGED <<queueData, books, txNdx, txBuffer, line, tcp>>

WaitingOver ==
  /\ pc = "sendSerial" /\ SendSerialReady /\ serialState = "WAITING"
  /\ pc' = "recvUdp"
  /\ serialState' = "IDLE"
  /\ UNCHANGED <<txNdx, txBuffer, sendMicroTimer, line, tcp>>

\* WAITING, no answer: a broadcast is done with,
TimeoutScan ==
  /\ WaitingOver
  /\ Current.scan
  /\ sent' = {}
  /\ DeleteRequest
  /\ UNCHANGED slaveStatus

TimeoutLast_FlagKept ==
  /\ WaitingOver
  /\ ~Current.scan /\ Current.atts >= SerialAttempts
  /\ UNCHANGED slaveStatus
  /\ SendResponse("0B")

\* the last attempt of a request is answered with exception 0x0B,
TimeoutLast ==
  /\ WaitingOver
  /\ ~Current.scan /\ Current.atts >= SerialAttempts
  /\ \E slave \in HeadAddresses : SetSlaveStatus(slave, "0B")
  /\ SendResponse("0B")

TimeoutRetry_OneMore ==
  /\ WaitingOver
  /\ ~Current.scan /\ Current.atts <= SerialAttempts
  /\ \E slave \in HeadAddresses : SetSlaveStatus(slave, "0B_QUEUE")
  /\ sent' = {}
  /\ UNCHANGED <<queue, priorityReqInQueue, socketInQueue>>

\* and an earlier attempt is repeated.
TimeoutRetry ==
  /\ WaitingOver
  /\ ~Current.scan /\ Current.atts < SerialAttempts
  /\ \E slave \in HeadAddresses : SetSlaveStatus(slave, "0B_QUEUE")
  /\ sent' = {}
  /\ UNCHANGED <<queue, priorityReqInQueue, socketInQueue>>

SendSerial == \/ SendSerialSkip
              \/ Idle \/ Rotate \/ RotateDone
              \/ Sending
              \/ Delay
              \/ TimeoutScan \/ TimeoutLast \/ TimeoutRetry

-----------------------------------------------------------------------------
(* recvSerial *)

RecvSerialNone ==
  /\ pc = "recvSerial"
  /\ rxBuf = <<>>
  /\ pc' = "manageSockets"
  /\ sent' = {}
  /\ UNCHANGED <<queue, books, serial, sendMicroTimer, line, tcp>>

\* Something was received: the CRC holds if it is one whole frame of a slave.
\* Whatever it is, the send timer is armed anew with the inter-frame delay.
Received ==
  /\ pc = "recvSerial"
  /\ rxBuf # <<>>
  /\ pc' = "freeRxBuffer"
  /\ sendMicroTimer' = Armed("frame")
  /\ UNCHANGED <<txNdx, txBuffer, line, tcp>>

ValidCRC == Len(rxBuf) = 1 /\ Head(rxBuf) # Garbage

RecvSerialReply_StillWaiting ==
  /\ Received
  /\ ValidCRC
  /\ serialState = "WAITING"
  /\ Head(rxBuf).slave \in HeadAddresses
  /\ SetSlaveStatus(Head(rxBuf).slave, "OTHER")
  /\ SendResponse("reply")
  /\ UNCHANGED serialState

RecvSerialReply ==
  /\ Received
  /\ ValidCRC
  /\ serialState = "WAITING"
  /\ Head(rxBuf).slave \in HeadAddresses
  /\ SetSlaveStatus(Head(rxBuf).slave, "OTHER")   \* SLAVE_OK or SLAVE_ERROR_0X
  /\ SendResponse("reply")
  /\ serialState' = "IDLE"

RecvSerialDiscard ==
  /\ Received
  /\ \/ ~ValidCRC
     \/ serialState # "WAITING"
     \/ \E slave \in HeadAddresses : slave # Head(rxBuf).slave
  /\ sent' = {}
  /\ UNCHANGED <<queue, books, serialState>>

\* while (modbus.freeRxBuffer() != SUCCESS): spins while the line is busy and
\* drops everything received up to then.
FreeRxBuffer ==
  /\ pc = "freeRxBuffer"
  /\ ~IsBusy
  /\ pc' = "manageSockets"
  /\ rxBuf' = <<>>
  /\ sent' = {}
  /\ UNCHANGED <<queue, books, serial, sendMicroTimer, sending, wire, fetched,
                 incoming, replying, tcp>>

RecvSerial == RecvSerialNone \/ RecvSerialReply \/ RecvSerialDiscard \/ FreeRxBuffer

-----------------------------------------------------------------------------
(* manageSockets *)

\* EthernetServer::begin: open the first closed socket, else force the first
\* closing one, for listening; nothing when there is none.
ServerBegin(sr) ==
  LET first(S) == CHOOSE s \in S : \A r \in S : s <= r
      closed   == {s \in Sockets : sr[s] = "CLOSED"}
      closing  == {s \in Sockets : sr[s] = "CLOSING"}
  IN IF closed # {} THEN [sr EXCEPT ![first(closed)] = "LISTEN"]
     ELSE IF closing # {} THEN [sr EXCEPT ![first(closing)] = "LISTEN"]
     ELSE sr

\* Sockets with a queued request are not looked at.
Seen   == {s \in Sockets : socketInQueue[s] = 0}
In(st) == {s \in Seen : snSR[s] = st}

\* Connections whose remote end closed are closed, too; closing ones that do
\* not get there are given up.
DropOver(left, stale) == [s \in Sockets |-> CASE s \in left  -> "CLOSING"
                                              [] s \in stale -> "CLOSED"
                                              [] OTHER       -> snSR[s]]

\* The sockets after one pass.  data: sockets with bytes to read; stale: closing
\* for TCP_DISCON_TIMEOUT; oldest: the longest idle connection beyond
\* config.tcpTimeout, if any, which has to go if no socket is about to be free.
AfterPass(data, stale, oldest) ==
  LET left == In("CLOSE_WAIT") \ data   \* remote end closed: DISCON
      available == In("CLOSED") \cup In("CLOSING") \cup left
      looked == DropOver(left, stale)
      begun == IF In("LISTEN") = {} THEN ServerBegin(looked) ELSE looked
  IN IF oldest # MaxSockNum /\ available = {}
     THEN [begun EXCEPT ![oldest] = "CLOSING"]
     ELSE begun

\* Of several sockets with data the last one is served, the others wait.
ManageSockets ==
  /\ pc = "manageSockets"
  /\ pc' = "sendSerial"
  /\ \E data \in SUBSET (In("ESTABLISHED") \cup In("CLOSE_WAIT")),
        stale \in SUBSET In("CLOSING") :
     \E oldest \in (In("ESTABLISHED") \ data) \cup {MaxSockNum} :
       /\ \/ NoRequest
          \/ \E s \in data, f \in Frames :
               (\A r \in data : r <= s) /\ CheckRequest(peer[s], s, f)
       /\ snSR' = AfterPass(data, stale, oldest)
       /\ peer' = [s \in Sockets |-> IF snSR'[s] \in {"ESTABLISHED", "CLOSE_WAIT"}
                                     THEN peer[s] ELSE NoClient]
  /\ UNCHANGED <<serial, sendMicroTimer, line>>

MainLoop == SendSerial \/ RecvUdp \/ RecvSerial \/ ManageSockets

-----------------------------------------------------------------------------
(* The world *)

\* The send timer runs out.  A request timeout is longer than any frame takes
\* on the line.  SCAN_TIMEOUT is not: it may end once ScanBytes have been fetched.
TimerExpires ==
  /\ ~sendMicroTimer.over
  /\ sending => \/ sendMicroTimer.kind = "frame"
                \/ sendMicroTimer.kind = "scan" /\ fetched >= ScanBytes
  /\ sendMicroTimer' = [sendMicroTimer EXCEPT !.over = TRUE]
  /\ sent' = {}
  /\ UNCHANGED <<pc, queue, books, serial, line, tcp>>

\* The interrupt handler moves bytes, by position, from txBuffer to the UART.
Fetch ==
  /\ sending
  /\ fetched' \in fetched + 1 .. Len(wire)
  /\ wire' = [k \in 1 .. Len(wire) |->
                IF fetched < k /\ k <= fetched' THEN txBuffer[k] ELSE wire[k]]
  /\ sent' = {}
  /\ UNCHANGED <<pc, queue, books, serial, sendMicroTimer, sending, incoming,
                 rxBuf, replying, tcp>>

\* Our frame has left the line.  If it went out as one whole request, the slave
\* addressed may start to work on it or be busy with an older one.  (txBuffer is
\* dead from here on unless a frame is being built: cleared.)
TxDone ==
  /\ sending /\ fetched = Len(wire)
  /\ sending' = FALSE
  /\ wire' = <<>>
  /\ fetched' = 0
  /\ txBuffer' = SubSeq(txBuffer, 1, txNdx)
  /\ \/ UNCHANGED replying
     \/ \E s \in Slaves \ {0}, c \in Clients, len \in 1 .. DCap :
          /\ wire = Framed(RequestBytes(s, c, len))
          /\ replying' = [replying EXCEPT ![s] = c]
  /\ sent' = {}
  /\ UNCHANGED <<pc, queue, books, serialState, txNdx, sendMicroTimer,
                 incoming, rxBuf, tcp>>

\* A slave answers, in time or late, or the line picks up noise.
LineStarts ==
  /\ ~IsBusy
  /\ \/ \E s \in Slaves :
          /\ replying[s] # NoClient
          /\ incoming' = <<[slave |-> s, client |-> replying[s]]>>
          /\ replying' = [replying EXCEPT ![s] = NoClient]
     \/ Noise /\ incoming' = <<Garbage>> /\ UNCHANGED replying
  /\ sent' = {}
  /\ UNCHANGED <<pc, queue, books, serial, sendMicroTimer, sending,
                 wire, fetched, rxBuf, tcp>>

\* The frame is complete.  Frames pile up until the buffer is freed; how many
\* beyond two does not matter.
LineIdle ==
  /\ incoming # <<>>
  /\ incoming' = <<>>
  /\ rxBuf' = IF Len(rxBuf) < 2 THEN rxBuf \o incoming ELSE rxBuf
  /\ sent' = {}
  /\ UNCHANGED <<pc, queue, books, serial, sendMicroTimer, sending,
                 wire, fetched, replying, tcp>>

Connect(s, c) ==
  /\ snSR[s] = "LISTEN"
  /\ \A r \in Sockets : peer[r] # c
  /\ snSR' = [snSR EXCEPT ![s] = "ESTABLISHED"]
  /\ peer' = [peer EXCEPT ![s] = c]

RemoteCloses(s) ==
  /\ snSR[s] = "ESTABLISHED"
  /\ snSR' = [snSR EXCEPT ![s] = "CLOSE_WAIT"]
  /\ UNCHANGED peer

\* Reset by the peer, retransmissions given up, or the end of a close.
ConnectionEnds(s) ==
  /\ snSR[s] \in {"ESTABLISHED", "CLOSE_WAIT", "CLOSING"}
  /\ snSR' = [snSR EXCEPT ![s] = "CLOSED"]
  /\ peer' = [peer EXCEPT ![s] = NoClient]

Network ==
  /\ \E s \in Sockets : \/ \E c \in TcpClients : Connect(s, c)
                        \/ RemoteCloses(s)
                        \/ ConnectionEnds(s)
  /\ sent' = {}
  /\ UNCHANGED <<pc, queue, books, serial, sendMicroTimer, line>>

World == TimerExpires \/ Fetch \/ TxDone \/ LineStarts \/ LineIdle \/ Network

-----------------------------------------------------------------------------

Init ==
  /\ pc = "sendSerial"
  /\ queueHeaders = <<>>
  /\ queueData = <<>>
  /\ slaveStatus = [s \in Tracked |-> "OTHER"]
  /\ priorityReqInQueue = 0
  /\ socketInQueue = [s \in Sockets |-> 0]
  /\ serialState = "IDLE"
  /\ txNdx = 0
  /\ txBuffer = <<>>
  /\ sendMicroTimer = [kind |-> "none", over |-> TRUE]
  /\ sending = FALSE
  /\ wire = <<>>
  /\ fetched = 0
  /\ incoming = <<>>
  /\ rxBuf = <<>>
  /\ replying = [s \in Slaves |-> NoClient]
  /\ snSR = ServerBegin([s \in Sockets |-> "CLOSED"])
  /\ peer = [s \in Sockets |-> NoClient]
  /\ sent = {}

Next == MainLoop \/ World

Spec == Init /\ [][Next]_vars

\* The loop never blocks; the timer, the UART and the line finish what they
\* have begun.  Clients and slaves owe nothing.
Fairness == /\ WF_vars(MainLoop)
            /\ WF_vars(TimerExpires)
            /\ WF_vars(Fetch)
            /\ WF_vars(TxDone)
            /\ WF_vars(LineIdle)

FairSpec == Spec /\ Fairness

-----------------------------------------------------------------------------
(* What the gateway promises.  All of it is stated over the queue as the     *)
(* code keeps it: headers in one ring, bytes in another, and counters beside *)
(* them.                                                                     *)

\* Where each request's bytes begin: at[i] bytes precede those of header i.
Layout(at) ==
  /\ at[1] = 0
  /\ \A i \in 1 .. Len(queueHeaders) : at[i + 1] = at[i] + queueHeaders[i].msgLen

\* The two rings are written, rotated and deleted in step (main.cpp:45): cut
\* at the lengths of the headers, the byte ring holds under each header one
\* whole request of that header's client, address first.
Synced ==
  \E at \in [1 .. Len(queueHeaders) + 1 -> 0 .. DCap] :
    /\ Layout(at)
    /\ at[Len(queueHeaders) + 1] = Len(queueData)
    /\ \A i \in 1 .. Len(queueHeaders) :
         \E slave \in Slaves :
           /\ queueHeaders[i].scan <=> slave = 0
           /\ \A k \in 1 .. queueHeaders[i].msgLen :
                queueData[at[i] + k] =
                  [slave |-> slave, client |-> queueHeaders[i].client, pos |-> k]

Count(P(_)) == Cardinality({i \in 1 .. Len(queueHeaders) : P(queueHeaders[i])})

\* The counters kept beside the queue agree with it: rotation, which runs while
\* priorityReqInQueue is not zero, finds a priority request and stops; a socket
\* is exempt from idle and close handling exactly while its one request waits.
CountersMatchQueue ==
  /\ priorityReqInQueue = Count(LAMBDA h : h.prio)
  /\ \A s \in Sockets : /\ socketInQueue[s] = Count(LAMBDA h : h.sock = s)
                        /\ socketInQueue[s] <= 1

\* A slave is marked as "failed and in queue", which makes checkRequest turn
\* away every request for it, only while a client's request for it is queued:
\* that request is what will clear the mark, so no slave is locked out.
QueueFlagBacked ==
  \A s \in Tracked : slaveStatus[s] = "0B_QUEUE" =>
    \E k \in 1 .. Len(queueData) : queueData[k].slave = s

\* The serial state machine is never away from IDLE without the request it
\* works on; a request waits for an answer only after an attempt was counted,
\* and an exhausted one is answered before anything else happens to it.
AttemptsAccounted ==
  /\ serialState # "IDLE" => queueHeaders # <<>>
  /\ serialState = "WAITING" => Current.atts >= 1
  /\ \A i \in 1 .. Len(queueHeaders) :
       (i # 1 \/ serialState # "WAITING") =>
         queueHeaders[i].atts < (IF queueHeaders[i].scan THEN 1 ELSE SerialAttempts)

\* While a frame of ours is on the line nothing writes the part of the buffer
\* that the UART interrupt has yet to read (ModbusRTU.cpp:72, "wait for last byte
\* (incl. CRC) to be sent"), with one exception: the bytes of a broadcast that
\* are still there when SCAN_TIMEOUT is over.
Broadcast(frame) == Len(frame) > 2 => frame[1].slave = 0
WireIntact ==
  sending => \A k \in fetched + 1 .. Len(wire) :
    txBuffer[k] = wire[k] \/ (k > ScanBytes /\ Broadcast(wire))

\* From SENDING to the end of its transaction the request at the head stays
\* there: the answer, the timeout and the attempt count are booked on the
\* request that was transmitted.
Identity(h) == [h EXCEPT !.atts = 0]
TransactionKeepsHead ==
  [][serialState # "IDLE" /\ serialState' # "IDLE"
       => Identity(Head(queueHeaders')) = Identity(Current)]_vars

\* Requests for responding slaves are served first come, first served: no step
\* reorders them, drops any but the first or inserts one before the last.
Rank(i) == Cardinality({j \in 1 .. i : queueHeaders[j].prio})
PriorityRequests ==
  {[rank |-> Rank(i), request |-> Identity(queueHeaders[i])] :
     i \in {j \in 1 .. Len(queueHeaders) : queueHeaders[j].prio}}
PriorityFifo ==
  [][\/ PriorityRequests' = PriorityRequests
     \/ PriorityRequests' = {[r EXCEPT !.rank = @ - 1] :
                               r \in {q \in PriorityRequests : q.rank > 1}}
     \/ \E r \in PriorityRequests' :
          /\ r.rank = Count(LAMBDA h : h.prio) + 1
          /\ PriorityRequests' = PriorityRequests \cup {r}
    ]_vars

\* Every transaction ends: no lost frame, busy line or stray reply leaves the
\* state machine in SENDING, DELAY or WAITING.
TransactionEnds == serialState # "IDLE" ~> serialState = "IDLE"

\* A TCP client's priority request is answered or given up, whatever the other
\* clients send.
PriorityServed ==
  \A s \in Sockets :
    (\E i \in 1 .. Len(queueHeaders) : queueHeaders[i].sock = s /\ queueHeaders[i].prio)
      ~> (socketInQueue[s] = 0)

-----------------------------------------------------------------------------
(* Seen by its clients, the gateway is the service of module Service.        *)

Requests == [client : Clients, sock : Sockets \cup {MaxSockNum}, broadcast : BOOLEAN]

Asked(h) == [client |-> h.client, sock |-> h.sock, broadcast |-> h.scan]

Waiting == [r \in Requests |->
              Cardinality({i \in 1 .. Len(queueHeaders) : Asked(queueHeaders[i]) = r})]

Connected == [s \in Sockets |-> IF snSR[s] = "ESTABLISHED" THEN peer[s] ELSE NoClient]

Service == INSTANCE Service WITH
  Udp <- MaxSockNum, waiting <- Waiting, connected <- Connected, said <- sent

\* sendResponse and deleteRequest (ModbusTCP.cpp:363, 394), through rotations,
\* retries, late answers, full queues and lost connections: every request that
\* was taken is answered exactly once, to its client if that can be reached;
\* none is dropped, answered twice or kept after its answer.
ImplementsService == Service!Spec
=============================================================================
