# Etherbridge: specifications, model checking and proofs

Etherbridge is the firmware of a Modbus gateway (STM32H533, W5500 Ethernet
chip, RS485). Clients send Modbus requests over TCP or UDP; the gateway queues
them, transmits them one at a time over RS485, and returns each answer, or an
exception, to its client. This directory holds TLA+ modules of the firmware,
the TLC configurations that check them and the proofs TLAPS checks.

Line numbers below and in `PROJECT.json` refer to the repository, under `src/`.

## 1. Inventory

The program is one endless loop (`Src/main.cpp:129-139`) over four handlers,
none of which waits except where stated, and three sources of concurrency: the
UART interrupt, the SPI interrupt and the Ethernet chip, whose sockets change
state on their own.

| Part | State | Operations | Talks to |
|---|---|---|---|
| Admission (`checkRequest`, `recvUdp`, `recvTcp`) | none of its own | check, refuse with 0x0A/0x0B, store | queue, slave status, counters |
| Request queue (`main.cpp:45-47`) | rings `queueHeaders`, `queueData`; counters `priorityReqInQueue`, `socketInQueue[]` | push, rotate, shift/unshift to count an attempt, delete | everything |
| Slave status table | one flag per address below 247 | `setSlaveStatus`, `getSlaveStatus` | admission, serial machine |
| Serial machine (`sendSerial`, `recvSerial`) | `serialState`, `txNdx`, `txBuffer`, `sendMicroTimer` | IDLE, SENDING, DELAY, WAITING; answer, retry, time out | queue, driver, clients |
| RS485 driver (`RS485.hpp`) | transmit pointer/length/position, receive buffer, `rxDone` | `send`, `isRxAvail`, `freeRxBuffer`, `isBusy`, interrupt handler | serial machine |
| Connections (`manageSockets`) | `lastSocketUse[]`, the chip's socket registers | look at every socket, read one, listen, disconnect the oldest | admission, chip |
| Request ring (`CircularBuffer.hpp`) | array, two pointers, count | push, unshift, shift, first, `[]`, clear | queue |
| Socket layer (`socket.cpp`, `EthernetUdp.cpp`, `EthernetClient.cpp`) | per socket `RX_RSR`, `RX_RD`, `RX_inc`, `TX_FSR` | begin, listen, receive, send | chip over SPI |
| DHCP client (`Dhcp.cpp`) | lease state, T1/T2 counters | request (blocks up to 60 s), `checkLease` from every pass | socket layer |
| Register access (`w5100.cpp`) | none of its own | `read`, `write` of registers and buffers | SPI channel |
| SPI master and channel | `busy`, buffer, positions, length | `begin`, `end`, `shift`, single `write`, interrupt handler | chip |
| Timers (`MicroTimer`, `Timer`) | start, duration | `sleep`, `isOver` on wrapping counters | all |
| CRC (`crc.cpp`) | `crc` | `checkCRC`, `calculateCRC` | admission, serial machine |

Not part of the running program: `scanRequest` (its call is commented out), the
web interface (likewise), `Dns.cpp` (no caller), and the vendored StreamLib,
Arduino core and CMSIS files.

What is hard here, and what makes each part correct:

* **Two rings and three counters that must agree.** Nothing ties a header to its
  bytes but that both rings are moved alike; nothing ties the counters to the
  queue but matching increments and decrements in different handlers. Correct:
  `Synced`, `CountersMatchQueue`, `QueueFlagBacked`.
* **A transaction spread over many passes.** Between transmission and answer the
  network adds requests, connections break, the line brings late answers and
  noise. Correct: `TransactionKeepsHead`, `AttemptsAccounted`, `TransactionEnds`,
  and, for the gateway as a whole, `ImplementsService`.
* **Priorities by rotation.** Correct: `PriorityFifo`, `PriorityServed`.
* **A buffer shared with an interrupt**, and a driver whose calls an interrupt
  can split. Correct: `WireIntact`, `SentWhole`, `ReceivedAnnounced`,
  `InterruptSettles`.
* **A lease that must be kept.** The client's state is left where the last call
  ended, its countdowns are driven by passes of any length. Correct:
  `RetriesAfterFailure`, `CountdownsKeepTime`, `RenewedInTime`, `AddressGranted`.
* **A copy of the chip's registers** that is brought up to date now and then while
  datagrams arrive. Correct: `DatagramsIntact`, `CopyAgrees`, `SpaceReturned`.
* **Transfers shared with an interrupt**, whose handler counts answers while its
  caller polls, and a chip select that is set and reset at several levels.
  Correct: `FramesWhole`, `AnswersInPlace`, `SetUpUndisturbed`, `TakenInBounds`,
  `AccessEnds`.
* **Limits.** Full rings, 8-bit indices, retries, timers: `TypeOK`, and the
  disagreements of section 5.

The hazards, each at its line and with the properties aimed at it, are listed in
`PROJECT.json`.

## 2. Modules

| Module | What it is |
|---|---|
| `Gateway` | queue, admission, slave status, serial machine and main loop, with the connections, the line, the slaves and the clients around them |
| `Service` | what the gateway promises its clients: requests taken, refused, answered, finished |
| `MCGateway` | values of its constants for TLC |
| `GatewayProofs` | types, rings, attempts, head of the queue, the transmit buffer |
| `GatewayBookProofs` | the counters, the order of service, the status marks |
| `GatewayServiceProofs` | `Gateway` implements `Service` |
| `CircularBuffer` | the ring: array, head, tail, count |
| `Deque` | what a ring promises: a bounded double-ended queue |
| `MCCircularBuffer` | values of its constants for TLC |
| `CircularBufferProofs` | theorems about `CircularBuffer`, the refinement of `Deque` among them |
| `RS485` | the driver's calls statement by statement, its interrupt handler, the UART with its FIFOs and the line |
| `SerialPort` | what the driver promises the main loop: one frame at a time, each way |
| `Dhcp` | the DHCP client, from start-up and from every pass of the main loop, and the servers |
| `UdpSocket` | `recvUdp` on the chip's receive buffer: parsing datagrams, the copy of the registers |
| `SpiMaster` | access to the chip's registers: the calls, the transfers, the interrupt handler, the FIFOs, the bus |
| `MCRS485`, `MCDhcp`, `MCUdpSocket`, `MCSpiMaster` | values of their constants for TLC |
| `RS485Proofs`, `SpiMasterProofs`, `UdpSocketProofs`, `DhcpProofs` | theorems about `RS485`, `SpiMaster`, `UdpSocket` and `Dhcp` |

### Gateway

`pc` says where the main loop stands. A handler is one action or one action for
each of its branches, whole: every change it makes is in it. Two handlers have
loops that may spin and are split there: the rotation of `sendSerial`
(`pc = "prioritise"`, one `Rotate` per turn) and the wait for an idle line at
the end of `recvSerial` (`pc = "freeRxBuffer"`). The world (timer, UART,
slaves, clients, chip) moves between any two actions.

| Code | Model |
|---|---|
| `queueHeaders`, `queueData` | sequences, head first; `CircularBuffer` and its proof of refinement justify this |
| `header_t` | client (`remIP`, `remPort`), socket (`MaxSockNum` for UDP), `msgLen`, the PRIORITY and SCAN flags, `atts` |
| a byte of a request | whose request, for which slave, which position: enough to tell any two bytes apart |
| `slaveStatus[][]` | per slave `"0B"`, `"0B_QUEUE"` or `"OTHER"`; `setSlaveStatus` clears all flags of a slave before it sets one, and nothing in this build reads the remaining flags |
| `txNdx` (`uint8_t`) | a number modulo `ByteMod` |
| `sendMicroTimer` | what it was armed for, and whether that time is over |
| the line | `sending`/`wire` (a frame of ours, as handed over and then as fetched), `fetched` (how many bytes the interrupt handler has read out of `txBuffer`, by position), `incoming` (a frame of a slave, or noise), `rxBuf` (what the driver has received) |
| slaves | `replying`: a slave that received a request may answer it, once, at any later time, or never |
| W5500 sockets | `snSR`, `peer`; INIT, SYNRECV and the four closing states are folded into their neighbours |
| what goes out on the network | `sent`: the messages of the last step, with the client each is for and the client whose request it is about |

Clients' inputs are the elements of `Frames`, any of them at any time; an
arriving packet that fails the header or CRC check is the choice `NoRequest`.
The ages `manageSockets` compares are choices (`stale`, `oldest`).

Assumptions of the model, each of which a run or an assumption names: TCP
clients connect from ports of their own (`OwnPorts`; the code compares remote
ports only, `ModbusTCP.cpp:383`); a response timeout is longer than a frame
takes on the line (500 ms against 267 ms), while `SCAN_TIMEOUT` (200 ms) may be
over once `ScanBytes` bytes of a frame have been fetched (about 192 at 9600 baud);
a request without an address byte reads as a
broadcast (the buffer is zeroed first).

### Service

The gateway seen from the network: `waiting`, how many requests of each kind were
taken and not done with; `connected`, the client on each socket; `said`, what the
last step sent. A request is done with exactly once, and then its client, nobody
else, gets one message about it, unless it was a broadcast, or came over TCP and
its client is gone. In `Gateway` the three are `Waiting` (a count over the headers
of the queue), `Connected` (the client on a socket whose register says ESTABLISHED,
the one state in which the code sends, `ModbusTCP.cpp:383`) and `sent`; rotation, retries, timers and the line are stutters.
`Service` does not say whose data an answer carries: a slave that
answers after its request was given up answers, for the gateway, the next request
for the same slave, since only the address is compared (`ModbusRTU.cpp:149`).

### CircularBuffer and Deque

One action per operation; pointers are indices. `Deque` keeps the elements as a
sequence, and the refinement maps it to the `count` slots from `head` on. The
result of the last call is part of the state (`fit`, `idx`, `out`), so the
refinement covers what the operations return.

### RS485

`at` is the statement the main loop has reached in `send` (lines 97, 98, 100) or
`freeRxBuffer` (130, 132). `Handler` is one whole run of the interrupt handler;
while an interrupt is pending the main loop does not move (`From`). The line
moves one character at a time: `ShiftIn`/`ShiftOut` for ours, `RxFrame`,
`RxByte`, `RxNext`, `RxIdle` for others'. `USART_ISR_BUSY` is about a character
being received, so a frame's last character is over, and the line not busy,
before the idle interrupt comes: that is where calls and interrupts meet.
Statements are taken in source order; `txBuf` and `txBufSize` are not volatile,
so a compiler may move their stores, which would only add to what the race run
shows.

`SerialPort` is the driver as the main loop sees it, in four variables: the frame
being sent, what the slaves heard of the last one, how many bytes of an answer will
be handed up, and what was handed up. Its steps are those `Gateway` has for the
line: a frame handed over (`Sending`), gone out (`TxDone`), an answer begun
(`LineStarts`), announced (`LineIdle`), given back (`FreeRxBuffer`). In the mapping
(`Port`) an answer counts as arriving until the handler has taken the idle
interrupt, and as handed up only while `rxDone` is set, so a handler that announces
too early or drops a byte that would have fitted is not a step of the port.

### Dhcp

`at` is `"setup"`, `"request"` (inside `request_DHCP_lease`) or `"loop"`. Inside,
each turn of the loop is an action: a message sent, a timeout (`Silence`), or a
packet. `ParseReply` and `ParseTimes` are what every accepted packet changes,
whatever its type. `CheckLease(e)` is a pass of the main loop that took `e` ticks,
with the countdowns and the decisions of `checkLease`; `Begun`, `RenewedTooLate`
and `Maintained` are the returns into its callers. Servers offer any address of
theirs at any time after a DISCOVER, acknowledge only requests that name them and
an address they own, refuse, or keep silent.

### UdpSocket

`at` follows `recvUdp`: `parsePacket`'s look at the count, its read of the header,
`read` into the buffer, the loop that reads the rest, the message handed on. A
datagram may arrive before each. `SocketRecv` is `socketRecv`, with the pointers
modulo `Wrap` (2^16) and `RX_inc` modulo `IncWrap` (2^8).

### SpiMaster

`at` is the call, or the statement of `shift`, the caller has reached; a call that
returns ERROR is repeated, as every caller does, so it is one action that waits.
The handler tests the status register twice, before it sends and before it
receives: it is two actions (`HandlerTx`, `HandlerRx`) between which the bus may
move; while an interrupt is pending the caller does not move. `Outer` is a begin or
end of a caller further out (every socket operation has them around its register
accesses). Byte `k` of an access is the number `k` and the chip's answer to it `-k`,
so that no two bytes are taken for each other. Whether disabling the peripheral
empties its receive FIFO is left open. Assumed: the handler is never later than the
FIFO is deep (all interrupts have the same priority, `Board.cpp:110-117`); accesses
have at least one byte.

## 3. Runs

| Run | Question | Instance | Result |
|---|---|---|---|
| `GatewayQueue` | do queue, counters, status and attempts stay consistent, is each request answered at most once? | 1 UDP client, requests of 1 and 2 bytes for 2 slaves, 3 headers, 3 bytes, 2 attempts, noise | holds, 1.6 million states |
| `GatewaySockets` | do connections that change hands confuse anything, does each answer reach its own client or nobody? | 2 TCP clients, 2 sockets, a slave and an empty broadcast, 2 headers, 2 bytes, 1 attempt | holds, 1.4 million states |
| `GatewayLive` | does every transaction end, is every priority request served, is the service kept over TCP and UDP, is a frame on the line left alone? | 1 UDP and 1 TCP client, 1 socket, a slave and broadcasts, both longer with their CRC than `ScanBytes` | holds, 0.4 million states |
| `GatewayLongestRequest` | does the longest request that is accepted end? | 1 slave, `ByteMod = DCap + 2` as in the code | violated (section 5) |
| `CircularBuffer` | does the ring implement the queue? | 4 slots, 3 values | holds, 36 thousand states |
| `RS485` | do frames go out whole and come in announced, through FIFOs and interrupts, one at a time to the main loop? | FIFOs of 2, receive buffer of 4, frames of 1, 2, 3 and 5 bytes, at most one answer to each, whole and in time | holds, 254 states |
| `RS485Race` | and if anything may come at any time? | the same, any frames, pauses | violated (section 5) |
| `Dhcp` | does the chip have the granted address, do countdowns keep time, is a lease renewed by its T1 and T2, is a failure retried? | 2 servers, 3 addresses, packets with all times, with a shorter lease alone, with none, 2 ticks a second, clock modulo 7, passes of 1 to 3 ticks | holds, 0.73 million states |
| `DhcpStaleTimes` | are T1 and T2 within the lease? | the same | violated (section 5) |
| `DhcpBusy` | is a failure retried when no socket is free or packets come late? | the same, `Calm = FALSE` | violated (section 5) |
| `UdpSocket` | does each datagram arrive whole and alone, is the chip's buffer freed? | datagrams of 0, 1, 3 and 5 bytes, buffer of 3, chip buffer of 12, pointers modulo 16, told at 5 bytes | holds, 0.2 million states |
| `SpiMaster` | is each selection of the chip one whole access, are its answers its own, does it end? | accesses of 1, 2, 3, 5 and 7 bytes behind a command of 3, FIFOs of 3 | holds, 1108 states |

Why the bounds are enough: three headers are the fewest for which rotation,
overtaking and a request behind both can differ; two lengths show a wrong cut of
the byte ring, which is full before and after the header ring in some states;
two attempts have a first, a retry and a last (one is enough where
only connections are in question); two sockets and two clients let
a socket change hands while its request waits. Frames shorter than, as long as
and longer than a FIFO and a buffer take every path through the driver; a clock
modulo 7 wraps within and between lease times, and not at a full second, like
the real one; the chip's buffer holds up to four datagrams, so that `Batch` is
reached inside one and between two; accesses go out with the command, in a
transfer of their own and byte by byte, shorter and longer than a FIFO. `QCap = 10`, `DCap = 254` and
`SerialAttempts = 3` of the firmware are covered by the theorems. All counters
are bounded by the queue, so no state constraint is needed, and no run turns
deadlock checking off: the loop always has a step.

**Fairness.** `WF(MainLoop)`: the loop is the only thread and never blocks for
ever on anything the model leaves out. `WF(TimerExpires)`, `WF(Fetch)`,
`WF(TxDone)`, `WF(LineIdle)`: a hardware timer runs out, the interrupt handler feeds
the UART, and a frame that has started ends.
Nothing is assumed of slaves and clients. The line is assumed free of endless
noise (`Noise = FALSE`) in the liveness run: with noise that never stops,
`recvSerial` re-arms the timer for ever and no timeout is reached, so
`TransactionEnds` says nothing of such a line. In `RS485`: the
handler runs when an interrupt is pending, a call that has begun goes on, and the
UART moves characters. In `Dhcp` and `UdpSocket`: the main loop runs; no packet is
owed. In `SpiMaster`: the caller goes on with an access it has begun, the handler
runs when an interrupt is pending, the bus shifts what it was given.

**Left to other runs.** `RS485` and `Dhcp` name what their passing runs leave out as
a constant. With `Unsolicited = FALSE` (the line carries answers only) no interrupt
falls between the statements of `send` or `freeRxBuffer`: the race of `send` shows
in `RS485Race` only, and that of `freeRxBuffer` (a frame that begins or ends between
lines 130 and 132 is partly dropped) in no run of its own. With `Calm = TRUE` a
socket is free and no packet for somebody else ends a call; the rest is `DhcpBusy`.

### Seeded faults

An operator `X_Something` is `X` with a fault of the kind this code could
contain; each property notices one when it takes the place of `X`.

| Fault | In the code it would be | Noticed by |
|---|---|---|
| `QueueFull_OffByOne` | `<` for `<=` in the admission test | `TypeOK` |
| `Rotate_HeaderOnly` | rotation forgets the bytes | `Synced` |
| `DropBytes_OneShort` | deletion leaves one byte | `Synced` |
| `DeleteRequest_PriorityKept` | no decrement of `priorityReqInQueue` | `CountersMatchQueue` |
| `DeleteRequest_SocketKept` | no decrement of `socketInQueue` | `CountersMatchQueue` |
| `TimeoutLast_FlagKept` | the mark of a failed slave survives its request | `QueueFlagBacked` |
| `TimeoutRetry_OneMore` | `>` for `>=` in the test of the attempts | `AttemptsAccounted` |
| `Delay_FrameDelay` | wait armed with the inter-frame delay | `WireIntact` |
| `Idle_AnyState` | rotation outside IDLE | `TransactionKeepsHead` |
| `MustRotate_WhileAny` | loop condition without the test of the head | `PriorityFifo`, `PriorityServed` |
| `SendResponse_Kept` | the request stays queued after its answer | `ImplementsService` |
| `Recipients_AnyState` | no test that the connection is open | `ImplementsService` |
| `Recipients_NoPortCheck` | no comparison of remote ports | `ImplementsService` |
| `RecvSerialReply_StillWaiting` | no return to IDLE after an answer | `TransactionEnds` |
| `DrainRx_Unbounded` | no test of the receive buffer's end | `TypeOK` |
| `DrainRx_DoneWithBytes` | end of frame noticed only together with bytes | `ReceivedAnnounced` |
| `SendCount_Kept` | position not reset | `SentWhole` |
| `FillTx_EnableKept` | interrupt not switched off with the last byte | `InterruptSettles` |
| `SendEnable_Not` | interrupt not switched on | `SendEnds` |
| `DrainRx_OneShort` | last place of the receive buffer not used | `ImplementsPort` |
| `Countdown_NoGuard` | subtraction below zero | `TypeOK` |
| `CountSeconds_NoRemainder` | part of a second dropped at each pass | `CountdownsKeepTime` |
| `Lease_RenewKept` | the countdown left at the lease time the parser put in | `RenewedInTime` |
| `Applies_Rebound` | a renewal's address not written to the chip | `AddressGranted` |
| `MayRebind_Leased` | no rebinding after a failed renewal | `RetriesAfterFailure` |
| `Advance_NoWrap` | pointer wider than the register | `TypeOK` |
| `Read_PastDatagram` | reads what fits, not what is left | `DatagramsIntact` |
| `Tells_Late`, `Tells_BatchOnly` | count wraps before the chip is told; not told at the end | `CopyAgrees`, `SpaceReturned` |
| `Drain_Uncounted` | byte read and not counted | `DrainEnds` |
| `HandlerTx_OneMore` | `<=` for `<` in the test of the position sent | `TypeOK` |
| `HandlerTx_EnableKept` | transmit interrupt not switched off after the last byte | `AccessEnds` |
| `TakeAnswer_EnableKept` | receive interrupt not switched off after the last answer | `SetUpUndisturbed` |
| `CloseTransfer_PosKept` | position of the answers not reset | `TakenInBounds` |
| `Shift_Undrained` | receive FIFO not emptied before a transfer | `AnswersInPlace` |
| `Deselect_Nested` | begin and end counted, the chip deselected by the last end only | `FramesWhole` |
| `After_NoWrap`, `Unshift_TailKept`, `Push_HeadKept` | missing wrap, missing move of the other pointer | `TypeOK`, `EndsAgree`, `ImplementsDeque` |

## 4. Theorems

Proved by TLAPS for all values of the constants that satisfy the assumptions
named in the modules (`ClientsAssumption`, `SizesAssumption`, `FramesAssumption`,
`NoiseAssumption` in `Gateway`, `CapacityAssumption`, `ZeroAssumption` in
`CircularBuffer`, `SizesAssumption` in `RS485`, `SpiMaster` and `UdpSocket`,
`OwnerAssumption`, `OptionsAssumption`, `TimesAssumption`, `NoneAssumption` in `Dhcp`);
TLC evaluates these on every run. What a theorem assumes beyond them is in its statement.

* `GatewayProofs!TypeCorrect`, `SyncedCorrect`, `AttemptsCorrect`, `HeadKept`.
  They follow from one inductive invariant, `Inv` (`Invariance`). The types
  alone are not inductive: transmission, rotation and deletion cut the byte
  ring at the length in the head's header, so the proof needs that the rings
  fit (`Fits`: a cut of the byte ring, one whole request per header); deletion
  and the attempt count need a request to work on, so it needs that a busy
  machine has one; and a connection that can be read must have a client.
  The lemmas of `GatewayProofs` show what appending, dropping, rotating and
  counting do to a fitting pair of rings, then that each handler is made of
  these.
* `GatewayBookProofs!CountersCorrect`, `FlagCorrect`. What the
  counters count are places in the queue, so the proof first shows that every step
  does one of five things to it (`Moves`: leaves it, counts an attempt at the head,
  deletes the head, rotates, appends), then what each does to the number of places
  with a property (`Number`, `Places`). A mark that a retry is queued needs to know
  which slave each header's bytes name, hence the invariant about their owners.
* `GatewayBookProofs!RotationEnds`: on the counters, whenever the loop turns the queue
  an urgent header waits behind the head, and each turn brings every header behind the
  head one place up. So `MustRotate` fails after fewer turns than there are headers;
  that the turns are taken is the fairness of the loop, and stays with TLC.
* `GatewayBookProofs!FifoCorrect`, on the same five moves. A request for a responding
  slave is known by its rank, the number of such requests up to its place
  (`PriorityRequests`). The rank is the number of urgent headers in a prefix, so the
  counting lemmas say what each move does to it: appending leaves the ranks there are
  (`RankedAppend`), dropping the head lowers them by one if it was urgent
  (`RankedTail`), and a rotation, which turns only heads that are not, is one of each
  and changes none.
* `GatewayServiceProofs!ServiceImplemented`: `Spec => ImplementsService`, under the
  assumption that no two TCP clients have the same port. On the invariants of the two modules before, each
  handler is mapped to the one action of `Service` it is, or to a stutter;
  the number of requests waiting of each kind changes by the same counting lemmas.
* `GatewayProofs!WireCorrect`: of a frame on the line nobody writes the bytes that
  are still to be read from `txBuffer`, except those of a broadcast behind `ScanBytes`,
  for frames and a `ScanBytes` of any size. The invariant (`LineInv`) says that as long
  as a frame is on the line the machine is held back by it (`Held`: in DELAY, or in
  WAITING with a timer that cannot be over), or the frame is a broadcast of which
  `ScanBytes` are already fetched (`Escaped`); then what the next request writes over its
  start is read by nobody. Both need that a frame kept back by a busy line is that of
  the head (`KeptBack`).
* `CircularBufferProofs!TypeCorrect`, `EndsCorrect`, `Refinement`. The
  refinement reduces each operation to a statement about sequences
  (`PushAppends`, `UnshiftPrepends`, `ShiftDrops`); the only arithmetic is that
  `operator []`'s remainder and the comparison with the end of the array are
  the same slot (`RemainderIsSlot`).
* `RS485Proofs!TypeCorrect` for any line, and `SentCorrect`, `ReceivedCorrect` for a
  line on which nothing comes unasked (`Unsolicited = FALSE`; section 5 shows what
  happens otherwise). The invariant says that what has been heard, is in the
  shifter, in the FIFO and yet to be fed are one frame (`InOrder`), that an
  interrupt that still has something to do is enabled (`Fed`), and that bytes
  received are those of one answer (`Answered`).
* `RS485Proofs!PortImplemented`: `Spec => ImplementsPort`, for the same line. On that
  invariant each step of the driver is one of the port or one the main loop does not
  see (`Unseen`). The number of bytes that will be handed up must not change while they
  move from the line to the FIFO and from there to the buffer, though the handler
  drops what does not fit: what did not fit in part does not fit later (`CutTwice`). A
  frame under way has at least one such byte, and a quiet line none left (`PortOK`),
  or the end of an answer could be a step that shows nothing.
* `SpiMasterProofs!TypeCorrect`, `FramesCorrect`, `AnswersCorrect`, `SetUpCorrect`,
  `InBoundsCorrect`. The invariant places every byte of the transfer under way: heard by
  the chip, in the transmit FIFO or not yet sent, and every answer: in the
  buffer or in the receive FIFO; between transfers both interrupts are off.
* `UdpSocketProofs!TypeCorrect`, `CopyCorrect`, `SpaceCorrect`, `IntactCorrect`. What
  the runs check says nothing of bytes still in the chip, so it is not inductive. The
  invariant cuts the chip's buffer into the datagrams pending (`Cuts`): the first one
  begins where it is known from how much of it was read (`Gone`), each begins where the
  one before it ends, and all bytes not read yet are in their places. It also says
  that fewer bytes than a batch are untold, and none when the copy counts no
  more (`Copy`). `Pointers` is the arithmetic of the registers that wrap; it
  needs that the chip's buffer is smaller than the registers' range.

* `DhcpProofs!TypeCorrect`, `AddressCorrect`, `CountdownsCorrect`, `RenewalCorrect`. What
  the run checks says nothing of a call under way. The invariant says whose address
  the chip has during a renewal and that a call that ends with a lease has just taken
  over what was acknowledged (`Address`); that a countdown which runs is exact but for the
  ticks `checkLease` has seen and not counted, fewer than a second of them in the loop
  (`Exact`, `Rest`); and that a lease just granted counts from its full times, with a
  T2 above zero, so that no rebinding follows at once. `ClockReads` and `ClockSetBack` are
  the arithmetic of the clock that wraps; they need that a pass and a second together
  are shorter than its range. `RenewalCorrect` needs no
  assumption about what packets give: on the countdowns that keep time, one that runs was
  set from the T1 or T2 it counts (`CountingDown`), so it is 0, and an attempt begins, before
  the lease is that old. That T1 and T2 are within the lease is not true of the code
  (section 5).

Only model-checked: the liveness properties (`TransactionEnds`, `PriorityServed`,
`InterruptSettles`, `SendEnds`, `RetriesAfterFailure`, `DrainEnds`, `AccessEnds`), which
are out of the prover's reach. Every invariant, every action property and every
refinement the passing runs check is a theorem.

## 5. Where the code and its comments disagree

Each is a run that ends in a counterexample; details are in `PROJECT.json`.

1. `GatewayLongestRequest`: a request of 254 bytes, for which the queue is sized
   (`ProjectSettings.h:41-42`), wraps the 8-bit `txNdx` and is never sent; the
   serial machine stays in SENDING until a reset (`ModbusRTU.cpp:44`, `:71`).
2. `DhcpStaleTimes`: T1 and T2 are calculated "if we didn't get it" (`Dhcp.cpp:83`), but
   only while they are 0. A later, shorter lease that comes without them keeps those of
   the longer one, and is renewed after it has ended.
3. `RS485Race`: the idle interrupt between the two statements of `send` that store
   length and position (`RS485.hpp:97-98`) makes the handler transmit from the old
   position: the frame goes out without its beginning, or with its tail first.
4. `DhcpBusy`: a renewal that finds no free socket, or whose time runs out after a
   packet for somebody else, is never followed by another attempt, though "it will
   retry" (`Ethernet.cpp:141`).

A limit no run ends in, since `WireIntact` excepts it: `SCAN_TIMEOUT` is 200 ms, in which
9600 baud carry 192 bytes, and a broadcast may have 256. The next request is then built
in `txBuffer` while the UART still reads the broadcast, though `ModbusRTU.cpp:72` asks to
"wait for last byte (incl. CRC) to be sent". The bytes that go out are wrong only if that
request is itself long enough to reach those not yet read, that is longer than about
190 bytes; in `GatewayLive` it is.

## 6. Plan, and what is left of it

The order was that of importance: the queue and the serial machine are what the
gateway is for (`Gateway`, `CircularBuffer` with `Deque`, their proofs), then the
drivers under them (`RS485` with `SerialPort`, `Dhcp`, `UdpSocket`, `SpiMaster`), then what the whole
promises (`Service`) and the proofs that it does. Left:

1. Reading TCP connections (`recvTcp`): what one pass takes for a request when
   segments arrive during it; sending (`TX_FSR`, `TX_WR`).
2. Both timers on wrapping counters against unbounded time, composed with
   `Gateway`, whose timer is now either running or over.

## 7. Not modelled

* Board, clock and pin set-up, `reset` and `setConfig` of the SPI: straight-line
  register writes, with nothing to interleave.
* The C runtime, the Arduino core, StreamLib and the CMSIS headers: vendored or
  generated. The CMSIS headers are 94 % of the lines of the repository and hold
  register addresses and no behaviour, so a share of the repository's lines says
  nothing about how much of the gateway is covered.
* `scanRequest`, the web interface, `Dns.cpp`: no caller. The same goes for the
  buffer transfers of `SPI_Master` by `write`, `read` and `dummy`.
* The arithmetic of the CRC: a frame is whole or fails the check. The timers'
  subtraction modulo 2^32.
* The statistics counters (`errorCnt`), the copy of the last response kept for a
  web page, the contents of requests beyond address and length.
