------------------------------- MODULE RS485 -------------------------------
(***************************************************************************)
(* Inc/RS485.hpp, the driver of the serial line: the calls the main loop   *)
(* makes, statement by statement, against the interrupt handler and the    *)
(* UART with its two FIFOs.  A pending interrupt preempts the main loop    *)
(* before its next statement; the handler itself is not interrupted, and   *)
(* is done long before the line has moved on by a character.               *)
(*                                                                         *)
(* A byte to transmit is its position in the frame.  Received bytes are    *)
(* only counted.  rxError is set by the handler and read by nobody: left   *)
(* out.  An operator named X_Something is X with a fault seeded into it.   *)
(***************************************************************************)
EXTENDS Integers, Sequences, FiniteSetsExt

CONSTANTS
  Lens,        \* lengths of the frames to transmit
  ReplyLens,   \* lengths of the frames of slaves
  FifoLen,     \* depth of either FIFO of the UART
  RxBufSize,   \* RX_BUF_SIZE
  Unsolicited  \* TRUE: the line may carry anything, at any time.  FALSE: one
               \* frame, without pauses, in answer to one of ours and in time

ASSUME SizesAssumption ==
  /\ Lens \subseteq Nat \ {0}
  /\ ReplyLens \subseteq Nat \ {0}
  /\ FifoLen \in Nat \ {0}
  /\ RxBufSize \in Nat \ {0}

ASSUME UnsolicitedAssumption == Unsolicited \in BOOLEAN

\* The statements of a call take effect in the order they are written in.
VARIABLES
  at,                           \* the statement the main loop has reached
  len,                          \* length of the frame in txBuf
  txBufSize, txBufCnt, txftie,  \* TXFTIE: interrupt when the FIFO is empty
  rxBufCnt, rxDone,
  txFifo, shifting, out,        \* bytes queued, in the shift register, gone out
  rxLine, left, rxFifo, idle,   \* the line, rest of its frame, bytes, IDLE flag
  owed                          \* a slave may still answer our last frame

tx   == <<len, txBufSize, txBufCnt, txftie>>
rx   == <<rxBufCnt, rxDone>>
uart == <<txFifo, shifting, out, rxLine, left, rxFifo, idle, owed>>
vars == <<at, tx, rx, uart>>

Statements == {"loop", "size", "count", "enable", "clear", "done"}

TypeOK ==
  /\ at \in Statements
  /\ len \in Lens \cup {0}
  /\ txBufSize \in Lens \cup {0}
  /\ txBufCnt \in Nat
  /\ txftie \in BOOLEAN
  /\ rxBufCnt \in 0 .. RxBufSize
  /\ rxDone \in BOOLEAN
  /\ txFifo \in Seq(Nat) /\ Len(txFifo) <= FifoLen
  /\ shifting \in Seq(Nat) /\ Len(shifting) <= 1
  /\ out \in Seq(Nat)
  /\ rxLine \in {"quiet", "byte", "gap"}
  /\ left \in Nat
  /\ rxFifo \in 0 .. FifoLen
  /\ idle \in BOOLEAN
  /\ owed \in BOOLEAN

-----------------------------------------------------------------------------
(* The UART's flags *)

\* TC: everything queued has left the shift register, too.
Complete == txFifo = <<>> /\ shifting = <<>>

\* USART_ISR_BUSY is about the receiver only.
IsBusy == rxLine = "byte" \/ ~Complete

\* isRxAvail # 0
Available == rxDone /\ rxBufCnt > 0

Pending == idle \/ rxFifo = FifoLen \/ (txftie /\ txFifo = <<>>)

-----------------------------------------------------------------------------
(* The interrupt handler *)

DrainRx_Unbounded ==
  /\ rxBufCnt' = rxBufCnt + rxFifo
  /\ rxFifo' = 0
  /\ rxDone' = (rxDone \/ idle)
  /\ idle' = FALSE

DrainRx_OneShort ==
  /\ rxBufCnt' = Min({rxBufCnt + rxFifo, RxBufSize - 1})
  /\ rxFifo' = 0
  /\ rxDone' = (rxDone \/ idle)
  /\ idle' = FALSE

DrainRx_DoneWithBytes ==
  /\ rxBufCnt' = Min({rxBufCnt + rxFifo, RxBufSize})
  /\ rxFifo' = 0
  /\ rxDone' = (rxDone \/ (idle /\ rxFifo > 0))
  /\ idle' = FALSE

\* Bytes beyond RX_BUF_SIZE are read and dropped.
DrainRx ==
  /\ rxBufCnt' = Min({rxBufCnt + rxFifo, RxBufSize})
  /\ rxFifo' = 0
  /\ rxDone' = (rxDone \/ idle)
  /\ idle' = FALSE

FillTx_EnableKept ==
  LET n == Min({txBufSize - txBufCnt, FifoLen - Len(txFifo)}) IN
  IF n > 0
  THEN /\ txFifo' = txFifo \o [i \in 1 .. n |-> txBufCnt + i]
       /\ txBufCnt' = txBufCnt + n
       /\ txBufSize' = (IF txBufCnt' = txBufSize THEN 0 ELSE txBufSize)
       /\ UNCHANGED txftie
  ELSE UNCHANGED <<txFifo, txBufCnt, txBufSize, txftie>>

FillTx ==
  LET n == Min({txBufSize - txBufCnt, FifoLen - Len(txFifo)}) IN
  IF n > 0
  THEN /\ txFifo' = txFifo \o [i \in 1 .. n |-> txBufCnt + i]
       /\ txBufCnt' = txBufCnt + n
       /\ IF txBufCnt' = txBufSize
          THEN txftie' = FALSE /\ txBufSize' = 0
          ELSE UNCHANGED <<txftie, txBufSize>>
  ELSE UNCHANGED <<txFifo, txBufCnt, txBufSize, txftie>>

Handler ==
  /\ Pending
  /\ DrainRx
  /\ FillTx
  /\ UNCHANGED <<at, len, shifting, out, rxLine, left, owed>>

-----------------------------------------------------------------------------
(* The main loop's calls.  Line numbers are those of RS485.hpp.              *)

From(a) == at = a /\ ~Pending
GoTo(a) == at' = a

\* send, 91-96.  The caller has put a frame of n bytes into txBuf.  Without
\* unsolicited frames an answer is over before its request is given up, and the
\* main loop frees it in the pass in which it sees it, before it sends again.
Send(n) ==
  /\ From("loop")
  /\ Unsolicited \/ (rxLine = "quiet" /\ ~rxDone)
  /\ ~IsBusy
  /\ len' = n
  /\ out' = <<>>
  /\ owed' = FALSE
  /\ GoTo("size")
  /\ UNCHANGED <<txBufSize, txBufCnt, txftie, rx, txFifo, shifting, rxLine, left,
                 rxFifo, idle>>

SendSize ==     \* 97
  /\ From("size")
  /\ txBufSize' = len
  /\ GoTo("count")
  /\ UNCHANGED <<len, txBufCnt, txftie, rx, uart>>

SendCount_Kept ==
  /\ From("count")
  /\ GoTo("enable")
  /\ UNCHANGED <<tx, rx, uart>>

SendCount ==    \* 98
  /\ From("count")
  /\ txBufCnt' = 0
  /\ GoTo("enable")
  /\ UNCHANGED <<len, txBufSize, txftie, rx, uart>>

SendEnable_Not ==
  /\ From("enable")
  /\ GoTo("loop")
  /\ UNCHANGED <<tx, rx, uart>>

SendEnable ==   \* 100
  /\ From("enable")
  /\ txftie' = TRUE
  /\ GoTo("loop")
  /\ UNCHANGED <<len, txBufSize, txBufCnt, rx, uart>>

\* recvSerial has looked at what was received: freeRxBuffer, 125, until SUCCESS.
Free ==
  /\ From("loop")
  /\ Available
  /\ ~IsBusy
  /\ GoTo("clear")
  /\ UNCHANGED <<tx, rx, uart>>

FreeClear ==    \* 130
  /\ From("clear")
  /\ rxBufCnt' = 0
  /\ GoTo("done")
  /\ UNCHANGED <<tx, rxDone, uart>>

FreeDone ==     \* 132
  /\ From("done")
  /\ rxDone' = FALSE
  /\ GoTo("loop")
  /\ UNCHANGED <<tx, rxBufCnt, uart>>

Call == (\E n \in Lens : Send(n)) \/ Free
Rest == SendSize \/ SendCount \/ SendEnable \/ FreeClear \/ FreeDone

-----------------------------------------------------------------------------
(* The line *)

\* A byte moves to the shift register, then out.  With the last byte of a
\* frame a slave may answer it.
ShiftIn ==
  /\ shifting = <<>> /\ txFifo # <<>>
  /\ shifting' = <<Head(txFifo)>>
  /\ txFifo' = Tail(txFifo)
  /\ UNCHANGED <<at, tx, rx, out, rxLine, left, rxFifo, idle, owed>>

ShiftOut ==
  /\ shifting # <<>>
  /\ ~Pending
  /\ shifting' = <<>>
  /\ out' = out \o shifting
  /\ owed' = (txFifo = <<>>)
  /\ UNCHANGED <<at, tx, rx, txFifo, rxLine, left, rxFifo, idle>>

\* The first byte of a frame starts.
RxFrame(n) ==
  /\ rxLine = "quiet" /\ Complete
  /\ Unsolicited \/ (owed /\ at = "loop" /\ ~txftie)
  /\ rxLine' = "byte"
  /\ left' = n
  /\ owed' = FALSE
  /\ UNCHANGED <<at, tx, rx, txFifo, shifting, out, rxFifo, idle>>

\* The stop bit is over.
RxByte ==
  /\ rxLine = "byte"
  /\ ~Pending
  /\ rxLine' = "gap"
  /\ left' = left - 1
  /\ rxFifo' = rxFifo + 1
  /\ UNCHANGED <<at, tx, rx, txFifo, shifting, out, idle, owed>>

RxNext ==
  /\ rxLine = "gap" /\ left > 0
  /\ rxLine' = "byte"
  /\ UNCHANGED <<at, tx, rx, txFifo, shifting, out, left, rxFifo, idle, owed>>

\* No start bit for the time of a character: IDLE.  In a pause, too.
RxIdle ==
  /\ rxLine = "gap"
  /\ left = 0 \/ Unsolicited
  /\ rxLine' = "quiet"
  /\ left' = 0
  /\ idle' = TRUE
  /\ UNCHANGED <<at, tx, rx, txFifo, shifting, out, rxFifo, owed>>

Line == ShiftIn \/ ShiftOut \/ (\E n \in ReplyLens : RxFrame(n)) \/ RxByte \/ RxNext \/ RxIdle

-----------------------------------------------------------------------------

Init ==
  /\ at = "loop"
  /\ len = 0
  /\ txBufSize = 0
  /\ txBufCnt = 0
  /\ txftie = FALSE
  /\ rxBufCnt = 0
  /\ rxDone = FALSE
  /\ txFifo = <<>>
  /\ shifting = <<>>
  /\ out = <<>>
  /\ rxLine = "quiet"
  /\ left = 0
  /\ rxFifo = 0
  /\ idle = FALSE
  /\ owed = FALSE

Next == Handler \/ Call \/ Rest \/ Line

\* The processor serves a pending interrupt and otherwise goes on with the
\* call it is in; the UART shifts what it was given and a byte that has begun
\* ends.  Nobody owes a call or a frame.
Fairness == /\ WF_vars(Handler)
            /\ WF_vars(Rest)
            /\ WF_vars(ShiftIn \/ ShiftOut)
            /\ WF_vars(RxByte \/ RxNext \/ RxIdle)

Spec == Init /\ [][Next]_vars /\ Fairness

-----------------------------------------------------------------------------

\* "sends Modbus RTU requests to HW serial port" (ModbusRTU.cpp:23): a frame
\* handed to send goes out in order, each byte once, and whole before the UART
\* reports completion, though it is fed in pieces by interrupts.
SentWhole ==
  /\ out \o shifting \o txFifo = [i \in 1 .. Len(out \o shifting \o txFifo) |-> i]
  /\ at = "loop" /\ Complete /\ ~Pending => Len(out) = len

\* "receives Modbus RTU replies" (ModbusRTU.cpp:26): once the line is quiet and
\* that was signalled, what is in the receive buffer is announced by rxDone, so
\* no frame is lost and none is left to be prefixed to the next one.
ReceivedAnnounced ==
  rxLine = "quiet" /\ ~idle /\ at = "loop" /\ rxBufCnt > 0 => rxDone

\* The handler leaves no interrupt condition standing for ever: the main loop
\* gets to run again.
InterruptSettles == []<>(~Pending)

\* A frame that was handed over is out at last, and its call has returned.
SendEnds == at = "enable" ~> (at = "loop" /\ Complete /\ Len(out) = len)

-----------------------------------------------------------------------------
(* Seen by the main loop, the driver is the port of module SerialPort.       *)

Transmitting == at \in {"size", "count", "enable"} \/ txftie \/ ~Complete

\* Bytes of the frame under way that will be in rxBuf when it has ended.
Expected == IF rxLine # "quiet" \/ idle
            THEN Min({rxBufCnt + rxFifo + left, RxBufSize}) ELSE 0

Port == INSTANCE SerialPort WITH
  sending  <- IF Transmitting THEN len ELSE 0,
  heard    <- IF Transmitting THEN <<>> ELSE out,
  arriving <- Expected,
  received <- IF rxDone THEN rxBufCnt ELSE 0

\* send, isRxAvail and freeRxBuffer (RS485.hpp:91-135) against the handler: half
\* duplex, with frames fed and drained piecemeal by interrupts, is one frame at
\* a time to the main loop, none cut, none merged with the next and none lost,
\* as long as frames come as answers only (not Unsolicited).
ImplementsPort == Port!Spec
=============================================================================
