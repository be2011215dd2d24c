----------------------------- MODULE SpiMaster -----------------------------
(***************************************************************************)
(* Access to the registers of the Ethernet chip: W5100Class::read and      *)
(* write (w5100.cpp) on SPI_Channel and SPI_Master, whose transfers an     *)
(* interrupt handler carries out while the caller polls.                   *)
(*                                                                         *)
(* Byte k of an access is the number k, the chip's answer to it is -k.     *)
(* The handler looks at the status register twice, and the bus may move    *)
(* between its two halves.  A pending interrupt preempts the caller before *)
(* its next statement.  An operator named X_Something is X with a fault    *)
(* seeded into it.                                                         *)
(***************************************************************************)
EXTENDS Integers, Sequences

CONSTANTS
  Lens,     \* of the data of an access
  Cmd,      \* length of the command before the data: 3
  Direct,   \* data this short goes out in one transfer with the command: 5
  FifoLen   \* depth of either FIFO of the peripheral

ASSUME SizesAssumption ==
  /\ Lens \subseteq Nat \ {0}
  /\ Cmd \in Nat \ {0}
  /\ Direct \in Nat
  /\ FifoLen \in Nat \ {0}

VARIABLES
  at,                   \* the call the caller is in, "idle" between accesses
  op, stage, written,   \* the access; what shift is for; bytes written singly
  buf, dataLen, rxPos, txPos, busy,   \* SPI_Master; buf is what dBuf points to
  handler,              \* "none", or "rx": the handler's second half is next
  ier,                  \* interrupts enabled: "TXPIE", "RXPIE"
  cs,                   \* chip select active; the peripheral is enabled with it
  txFifo, rxFifo,
  frame                 \* what the chip has heard since it was selected

caller == <<at, op, stage, written>>
master == <<buf, dataLen, rxPos, txPos, busy>>
fifos  == <<txFifo, rxFifo>>
vars   == <<caller, master, handler, ier, cs, fifos, frame>>

Ops == [read : BOOLEAN, len : Lens]

Count(from, n) == [i \in 1 .. n |-> from + i]
Answers(from, n) == [i \in 1 .. n |-> -(from + i)]

TypeOK ==
  /\ at \in {"idle", "shift", "set", "enable", "bytes", "end"}
  /\ op \in Ops
  /\ stage \in {"cmd", "data"}
  /\ written \in 0 .. op.len
  /\ buf \in Seq(Int)
  /\ dataLen \in 0 .. Len(buf)
  /\ rxPos \in 0 .. txPos
  /\ txPos \in 0 .. dataLen
  /\ busy \in BOOLEAN
  /\ handler \in {"none", "rx"}
  /\ ier \subseteq {"TXPIE", "RXPIE"}
  /\ cs \in BOOLEAN
  /\ txFifo \in Seq(Int) /\ Len(txFifo) <= FifoLen
  /\ rxFifo \in Seq(Int) /\ Len(rxFifo) <= FifoLen
  /\ frame \in Seq(Int)

-----------------------------------------------------------------------------
(* The peripheral's flags *)

TXP == Len(txFifo) < FifoLen
RXP == rxFifo # <<>>

IsBusy == busy \/ txFifo # <<>>   \* or TXC not set

Pending == ("TXPIE" \in ier /\ TXP) \/ ("RXPIE" \in ier /\ RXP)

\* The caller runs.
From(a) == at = a /\ handler = "none" /\ ~Pending

-----------------------------------------------------------------------------
(* The caller.  A call that returns ERROR is repeated until it succeeds.     *)

\* SPI_Channel::begin around an access, or around several: they nest without
\* being counted.
Select == cs' = TRUE /\ UNCHANGED <<fifos, frame>>

Deselect_Nested == UNCHANGED <<cs, fifos, frame>>

\* SPI_Channel::end.  Whether disabling the peripheral empties its receive
\* FIFO is left open.
Deselect ==
  /\ cs' = FALSE
  /\ frame' = <<>>
  /\ rxFifo' \in {<<>>, rxFifo}
  /\ UNCHANGED txFifo

Outer ==
  /\ From("idle") /\ ~IsBusy
  /\ Select \/ Deselect
  /\ UNCHANGED <<caller, master, handler, ier>>

Begin(o) ==
  /\ From("idle") /\ ~IsBusy
  /\ Select
  /\ at' = "shift"
  /\ op' = o
  /\ stage' = "cmd"
  /\ written' = 0
  /\ UNCHANGED <<master, handler, ier>>

\* What a write sends behind the command in the same transfer.
Inline == IF ~op.read /\ op.len <= Direct THEN op.len ELSE 0

ToShift == IF stage = "cmd" THEN Count(0, Cmd + Inline) ELSE Count(Cmd, op.len)

Shift_Undrained ==
  /\ From("shift") /\ ~IsBusy
  /\ buf' = ToShift
  /\ dataLen' = Len(ToShift)
  /\ at' = "set"
  /\ UNCHANGED <<op, stage, written, rxPos, txPos, busy, handler, ier, cs, fifos, frame>>

\* SPI_Master::shift, up to its second assignment.
Shift ==
  /\ From("shift") /\ ~IsBusy
  /\ rxFifo' = <<>>
  /\ buf' = ToShift
  /\ dataLen' = Len(ToShift)
  /\ at' = "set"
  /\ UNCHANGED <<op, stage, written, rxPos, txPos, busy, handler, ier, cs, txFifo, frame>>

ShiftBusy ==
  /\ From("set")
  /\ busy' = TRUE
  /\ at' = "enable"
  /\ UNCHANGED <<op, stage, written, buf, dataLen, rxPos, txPos, handler, ier, cs,
                 fifos, frame>>

\* The last statement of shift, and which call the caller makes next.
ShiftEnable ==
  /\ From("enable")
  /\ ier' = ier \cup {"TXPIE", "RXPIE"}
  /\ CASE stage = "data" \/ Inline > 0 -> at' = "end" /\ UNCHANGED stage
       [] stage = "cmd" /\ op.read     -> at' = "shift" /\ stage' = "data"
       [] OTHER                        -> at' = "bytes" /\ UNCHANGED stage
  /\ UNCHANGED <<op, written, master, handler, cs, fifos, frame>>

\* SPI_Master::write of one byte.  No interrupt: the answers pile up unread.
WriteByte ==
  /\ From("bytes") /\ ~IsBusy
  /\ txFifo' = Append(txFifo, Cmd + written + 1)
  /\ written' = written + 1
  /\ at' = (IF written' = op.len THEN "end" ELSE "bytes")
  /\ UNCHANGED <<op, stage, master, handler, ier, cs, rxFifo, frame>>

End ==
  /\ From("end") /\ ~IsBusy
  /\ Deselect
  /\ at' = "idle"
  /\ UNCHANGED <<op, stage, written, master, handler, ier>>

Access == Shift \/ ShiftBusy \/ ShiftEnable \/ WriteByte \/ End

-----------------------------------------------------------------------------
(* The interrupt handler *)

HandlerTx_OneMore ==
  /\ handler = "none" /\ Pending
  /\ handler' = "rx"
  /\ IF TXP /\ txPos <= dataLen
     THEN /\ txFifo' = Append(txFifo, IF txPos < dataLen THEN buf[txPos + 1] ELSE 0)
          /\ txPos' = txPos + 1
          /\ UNCHANGED ier
     ELSE /\ ier' = (IF TXP THEN ier \ {"TXPIE"} ELSE ier)
          /\ UNCHANGED <<txFifo, txPos>>
  /\ UNCHANGED <<caller, buf, dataLen, rxPos, busy, cs, rxFifo, frame>>

HandlerTx_EnableKept ==
  /\ handler = "none" /\ Pending
  /\ handler' = "rx"
  /\ IF TXP /\ txPos < dataLen
     THEN txFifo' = Append(txFifo, buf[txPos + 1]) /\ txPos' = txPos + 1
     ELSE UNCHANGED <<txFifo, txPos>>
  /\ UNCHANGED <<caller, buf, dataLen, rxPos, busy, ier, cs, rxFifo, frame>>

HandlerTx ==
  /\ handler = "none" /\ Pending
  /\ handler' = "rx"
  /\ IF TXP /\ txPos < dataLen
     THEN /\ txFifo' = Append(txFifo, buf[txPos + 1])
          /\ txPos' = txPos + 1
          /\ UNCHANGED ier
     ELSE /\ ier' = (IF TXP THEN ier \ {"TXPIE"} ELSE ier)
          /\ UNCHANGED <<txFifo, txPos>>
  /\ UNCHANGED <<caller, buf, dataLen, rxPos, busy, cs, rxFifo, frame>>

CloseTransfer_PosKept ==
  /\ txPos' = 0 /\ dataLen' = 0
  /\ rxPos' = rxPos + 1
  /\ busy' = FALSE

CloseTransfer ==
  /\ rxPos' = 0 /\ txPos' = 0 /\ dataLen' = 0
  /\ busy' = FALSE

TakeAnswer_EnableKept ==
  /\ buf' = [buf EXCEPT ![rxPos + 1] = Head(rxFifo)]
  /\ rxFifo' = Tail(rxFifo)
  /\ UNCHANGED ier
  /\ IF rxPos + 1 = dataLen
     THEN CloseTransfer
     ELSE rxPos' = rxPos + 1 /\ UNCHANGED <<dataLen, txPos, busy>>

TakeAnswer ==
  /\ buf' = [buf EXCEPT ![rxPos + 1] = Head(rxFifo)]
  /\ rxFifo' = Tail(rxFifo)
  /\ IF rxPos + 1 = dataLen
     THEN ier' = ier \ {"RXPIE"} /\ CloseTransfer
     ELSE rxPos' = rxPos + 1 /\ UNCHANGED <<ier, dataLen, txPos, busy>>

HandlerRx ==
  /\ handler = "rx"
  /\ handler' = "none"
  /\ IF RXP THEN TakeAnswer ELSE UNCHANGED <<master, ier, rxFifo>>
  /\ UNCHANGED <<caller, cs, txFifo, frame>>

Handler == HandlerTx \/ HandlerRx

-----------------------------------------------------------------------------

\* A byte goes over the bus, the answer comes back with it.  An answer that
\* finds the FIFO full is lost; during a transfer it does not come to that: the
\* handler is not later than the FIFO is deep.
Clock ==
  /\ cs /\ txFifo # <<>>
  /\ busy => Len(rxFifo) < FifoLen
  /\ txFifo' = Tail(txFifo)
  /\ rxFifo' = (IF Len(rxFifo) < FifoLen THEN Append(rxFifo, -Head(txFifo)) ELSE rxFifo)
  /\ frame' = Append(frame, Head(txFifo))
  /\ UNCHANGED <<caller, master, handler, ier, cs>>

-----------------------------------------------------------------------------

Init ==
  /\ at = "idle"
  /\ op \in Ops
  /\ stage = "cmd"
  /\ written = 0
  /\ buf = <<>>
  /\ dataLen = 0 /\ rxPos = 0 /\ txPos = 0 /\ busy = FALSE
  /\ handler = "none"
  /\ ier = {}
  /\ cs = FALSE
  /\ txFifo = <<>> /\ rxFifo = <<>>
  /\ frame = <<>>

Next == Outer \/ (\E o \in Ops : Begin(o)) \/ Access \/ Handler \/ Clock

\* The processor serves a pending interrupt and otherwise goes on with the
\* access; the bus shifts what it was given.  Nobody owes an access.
Fairness == WF_vars(Access) /\ WF_vars(Handler) /\ WF_vars(Clock)

Spec == Init /\ [][Next]_vars /\ Fairness

-----------------------------------------------------------------------------

\* The chip takes what it hears from select to deselect for one access
\* (w5100.cpp:160, :222): begin and end nest around accesses without being
\* counted and data goes out in one piece or byte by byte, yet each selection
\* holds one whole command with all its data, or nothing.
FramesWhole ==
  /\ at \in {"idle", "shift"} /\ stage = "cmd" => frame = <<>>
  /\ at = "end" /\ ~IsBusy => frame = Count(0, Cmd + op.len)

\* The bytes read are the chip's answers to the bytes after the command
\* (w5100.cpp:266-268), each in its place: no answer of an earlier byte, of the
\* command or of an earlier access is among them.
AnswersInPlace == at = "end" /\ op.read /\ ~IsBusy => buf = Answers(Cmd, op.len)

\* Transfers are set up in several statements (SPI_Master.cpp:157-162) with all
\* of their interrupts off: the handler has switched off both before the caller
\* sees the end of the transfer before.
SetUpUndisturbed == ~busy /\ handler = "none" /\ ~Pending => ier = {}

\* An answer the handler takes out of the FIFO is one of the transfer under way
\* and has room in its buffer (SPI_Master.cpp:242).
TakenInBounds == handler = "rx" /\ RXP => busy /\ rxPos < dataLen

\* Every access ends: its busy flag is cleared, whatever order interrupts, bus
\* and caller take.
AccessEnds == at = "shift" ~> at = "idle"
=============================================================================
