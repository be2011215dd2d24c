--------------------------- MODULE SpiMasterProofs ---------------------------
(***************************************************************************)
(* Transfers of the SPI master: no byte is lost, doubled or misplaced, for *)
(* every depth of the FIFOs and every length of an access.                 *)
(***************************************************************************)
EXTENDS SpiMaster, TLAPS

\* Number of the byte before the first one of the transfer under way.
Base == IF stage = "data" /\ at # "shift" THEN Cmd ELSE 0

TransferLen == IF Base = 0 THEN Cmd + Inline ELSE op.len

Handed == Len(frame) + Len(txFifo)

\* Bytes reach the chip in order.
InOrder ==
  /\ frame = Count(0, Len(frame))
  /\ txFifo = Count(Len(frame), Len(txFifo))

\* A transfer under way: every byte of it is still to be sent, in one of the
\* FIFOs, or answered.
UnderWay ==
  /\ busy <=> at # "set"
  /\ dataLen = Len(buf) /\ dataLen = TransferLen
  /\ Handed = Base + txPos
  /\ rxPos + Len(rxFifo) + Len(txFifo) = txPos
  /\ rxPos < dataLen
  /\ rxFifo = Answers(Base + rxPos, Len(rxFifo))
  /\ \A j \in 1 .. dataLen : buf[j] = IF j <= rxPos THEN -(Base + j) ELSE Base + j
  /\ at \in {"set", "enable"} => txPos = 0 /\ ier = {} /\ handler = "none"
  /\ at = "bytes" => written = 0

\* No transfer: the handler has at most to switch its own interrupt off.
Quiet ==
  /\ rxPos = 0 /\ txPos = 0 /\ ~busy
  /\ ier \subseteq {"TXPIE"}
  /\ ier # {} \/ handler = "rx" => txFifo = <<>> /\ rxFifo = <<>>

\* How much of the access is done at each call of the caller.
Progress ==
  /\ at = "idle" \/ (at = "shift" /\ stage = "cmd") =>
       frame = <<>> /\ txFifo = <<>> /\ dataLen = 0
  /\ at # "idle" => (stage = "data" => op.read)
  /\ at = "shift" /\ stage = "data" => (dataLen = 0 => Handed = Cmd)
  /\ at \in {"shift", "set", "enable"} => written = 0
  /\ at \in {"set", "enable"} => dataLen > 0
  /\ at = "bytes" =>
       /\ stage = "cmd" /\ ~op.read /\ Inline = 0 /\ written < op.len
       /\ dataLen = 0 => Handed = Cmd + written
  /\ at = "end" =>
       /\ op.read => stage = "data"
       /\ dataLen = 0 => Handed = Cmd + op.len
       /\ dataLen > 0 /\ ~op.read => Inline > 0
       /\ dataLen = 0 /\ op.read => buf = Answers(Cmd, op.len)

Inv ==
  /\ TypeOK
  /\ InOrder
  /\ dataLen > 0 => UnderWay
  /\ dataLen = 0 => Quiet
  /\ Progress

-----------------------------------------------------------------------------
(* Rows of consecutive bytes, and of their answers                           *)

\* Rows are sequences of integers of the length they are given.
LEMMA RowTypes ==
  ASSUME NEW f \in Nat, NEW n \in Nat
  PROVE  /\ Count(f, n) \in Seq(Int) /\ Len(Count(f, n)) = n
         /\ Answers(f, n) \in Seq(Int) /\ Len(Answers(f, n)) = n
         /\ Count(f, 0) = <<>> /\ Answers(f, 0) = <<>>
  BY DEF Count, Answers

\* Nothing at all is a row.
LEMMA Empty == <<>> \in Seq(Int) /\ Len(<<>>) = 0 /\ 0 <= FifoLen
  BY SizesAssumption

\* The next byte continues a row.
LEMMA CountAppend ==
  ASSUME NEW f \in Nat, NEW n \in Nat
  PROVE  Append(Count(f, n), f + n + 1) = Count(f, n + 1)
  BY DEF Count

LEMMA AnswersAppend ==
  ASSUME NEW f \in Nat, NEW n \in Nat
  PROVE  Append(Answers(f, n), -(f + n + 1)) = Answers(f, n + 1)
  BY DEF Answers

\* Sequences with the same elements are the same.
LEMMA SameElements ==
  ASSUME NEW s \in Seq(Int), NEW t \in Seq(Int), NEW n \in Nat, Len(s) = n, Len(t) = n,
         \A i \in 1 .. n : s[i] = t[i]
  PROVE  s = t
<1>1. /\ s = [i \in 1 .. n |-> s[i]]
      /\ t = [i \in 1 .. n |-> t[i]]
  OBVIOUS
<1> QED
  BY <1>1

\* A row without its first byte is the row from the second on.
LEMMA CountTail ==
  ASSUME NEW f \in Nat, NEW n \in Nat, n > 0
  PROVE  /\ Head(Count(f, n)) = f + 1
         /\ Tail(Count(f, n)) = Count(f + 1, n - 1)
<1> DEFINE a == Count(f, n)
           b == Count(f + 1, n - 1)
<1>1. f + 1 \in Nat /\ n - 1 \in Nat
  OBVIOUS
<1>2. /\ a \in Seq(Int) /\ Len(a) = n
      /\ b \in Seq(Int) /\ Len(b) = n - 1
  BY <1>1, RowTypes
<1>3. /\ \A i \in 1 .. n : a[i] = f + i
      /\ \A i \in 1 .. n - 1 : b[i] = f + 1 + i
  BY <1>1 DEF Count
<1>4. Head(a) = f + 1
  <2>1. Head(a) = a[1] /\ 1 \in 1 .. n
    BY <1>2
  <2> QED
    BY <2>1, <1>3
<1>5. Tail(a) = b
  <2>1. Tail(a) \in Seq(Int) /\ Len(Tail(a)) = n - 1
    BY <1>2
  <2>2. ASSUME NEW i \in 1 .. n - 1
        PROVE  Tail(a)[i] = b[i]
    <3>1. Tail(a)[i] = a[i + 1]
      BY <1>2
    <3>2. i + 1 \in 1 .. n /\ f + (i + 1) = f + 1 + i
      OBVIOUS
    <3> QED
      BY <3>1, <3>2, <1>3
  <2> HIDE DEF a, b
  <2> QED
    BY <1>1, <1>2, <2>1, <2>2, SameElements
<1> QED
  BY <1>4, <1>5

LEMMA AnswersTail ==
  ASSUME NEW f \in Nat, NEW n \in Nat, n > 0
  PROVE  /\ Head(Answers(f, n)) = -(f + 1)
         /\ Tail(Answers(f, n)) = Answers(f + 1, n - 1)
<1> DEFINE a == Answers(f, n)
           b == Answers(f + 1, n - 1)
<1>1. f + 1 \in Nat /\ n - 1 \in Nat
  OBVIOUS
<1>2. /\ a \in Seq(Int) /\ Len(a) = n
      /\ b \in Seq(Int) /\ Len(b) = n - 1
  BY <1>1, RowTypes
<1>3. /\ \A i \in 1 .. n : a[i] = -(f + i)
      /\ \A i \in 1 .. n - 1 : b[i] = -(f + 1 + i)
  BY <1>1 DEF Answers
<1>4. Head(a) = -(f + 1)
  <2>1. Head(a) = a[1] /\ 1 \in 1 .. n
    BY <1>2
  <2> QED
    BY <2>1, <1>3
<1>5. Tail(a) = b
  <2>1. Tail(a) \in Seq(Int) /\ Len(Tail(a)) = n - 1
    BY <1>2
  <2>2. ASSUME NEW i \in 1 .. n - 1
        PROVE  Tail(a)[i] = b[i]
    <3>1. Tail(a)[i] = a[i + 1]
      BY <1>2
    <3>2. i + 1 \in 1 .. n /\ -(f + (i + 1)) = -(f + 1 + i)
      OBVIOUS
    <3> QED
      BY <3>1, <3>2, <1>3
  <2> HIDE DEF a, b
  <2> QED
    BY <1>1, <1>2, <2>1, <2>2, SameElements
<1> QED
  BY <1>4, <1>5

-----------------------------------------------------------------------------
(* The invariant *)

\* Numbers the invariant talks of.
LEMMA Numbers ==
  ASSUME TypeOK
  PROVE  /\ op.len \in Nat \ {0} /\ op.read \in BOOLEAN
         /\ Cmd \in Nat \ {0} /\ FifoLen \in Nat \ {0}
         /\ Inline \in {0, op.len}
         /\ Base \in {0, Cmd}
         /\ TransferLen \in Nat \ {0}
         /\ Len(frame) \in Nat /\ Len(txFifo) \in Nat /\ Len(rxFifo) \in Nat
         /\ Handed \in Nat
         /\ dataLen \in Nat /\ rxPos \in Nat /\ txPos \in Nat /\ written \in Nat
<1>1. op.len \in Nat \ {0} /\ op.read \in BOOLEAN
  BY SizesAssumption DEF TypeOK, Ops
<1>2. Cmd \in Nat \ {0} /\ FifoLen \in Nat \ {0}
  BY SizesAssumption
<1>3. Inline \in {0, op.len} /\ Base \in {0, Cmd}
  BY DEF Inline, Base
<1>4. TransferLen \in Nat \ {0}
  BY <1>1, <1>2, <1>3 DEF TransferLen
<1>5. Len(frame) \in Nat /\ Len(txFifo) \in Nat /\ Len(rxFifo) \in Nat
  BY DEF TypeOK
<1>6. dataLen \in Nat /\ rxPos \in Nat /\ txPos \in Nat
  <2>1. Len(buf) \in Nat
    BY DEF TypeOK
  <2> QED
    BY <2>1 DEF TypeOK
<1>7. written \in Nat
  BY <1>1 DEF TypeOK
<1> QED
  BY <1>1, <1>2, <1>3, <1>4, <1>5, <1>6, <1>7 DEF Handed

\* Initially.
LEMMA InvInit == Init => Inv
<1> SUFFICES ASSUME Init
             PROVE  Inv
  OBVIOUS
<1>1. TypeOK
  <2>1. op.len \in Nat
    BY SizesAssumption DEF Init, Ops
  <2> QED
    <3>1. /\ written \in 0 .. op.len /\ dataLen \in 0 .. Len(buf)
          /\ rxPos \in 0 .. txPos /\ txPos \in 0 .. dataLen
      BY <2>1, Empty DEF Init
    <3>2. /\ txFifo \in Seq(Int) /\ Len(txFifo) <= FifoLen
          /\ rxFifo \in Seq(Int) /\ Len(rxFifo) <= FifoLen
          /\ buf \in Seq(Int) /\ frame \in Seq(Int)
      BY Empty DEF Init
    <3> QED
      BY <3>1, <3>2 DEF Init, TypeOK
<1>2. InOrder
  BY RowTypes DEF Init, InOrder
<1> QED
  BY <1>1, <1>2 DEF Inv, Quiet, Progress, Init

\* The caller at rest: no transfer is under way and nothing is left of one.
LEMMA Rest ==
  ASSUME Inv, ~IsBusy, at # "set"
  PROVE  dataLen = 0 /\ txFifo = <<>> /\ rxPos = 0 /\ txPos = 0
<1>1. dataLen = 0
  BY Numbers DEF Inv, UnderWay, IsBusy
<1> QED
  BY <1>1 DEF Inv, Quiet, IsBusy

\* ... and the caller runs: the interrupts are off as well.
LEMMA RestRuns ==
  ASSUME Inv, dataLen = 0, ~Pending
  PROVE  ier = {}
<1>1. Len(<<>>) < FifoLen
  BY SizesAssumption
<1> QED
  BY <1>1 DEF Inv, Quiet, Pending, TXP

-----------------------------------------------------------------------------
(* Each action keeps the invariant *)

LEMMA OuterKeeps == Inv /\ Outer => Inv'
<1> SUFFICES ASSUME Inv, Outer
             PROVE  Inv'
  OBVIOUS
<1> USE DEF Outer, From, caller, master, fifos
<1>1. dataLen = 0 /\ txFifo = <<>> /\ frame = <<>>
  BY Rest DEF Inv, Progress
<1>2. ier = {} /\ handler = "none"
  BY <1>1, RestRuns
<1>3. UNCHANGED txFifo /\ frame' = frame
  BY <1>1 DEF Select, Deselect
<1>4. TypeOK'
  <2>1. TypeOK /\ cs' \in BOOLEAN /\ rxFifo' \in {<<>>, rxFifo} /\ frame' = <<>>
    BY <1>1, <1>3 DEF Inv, Select, Deselect
  <2> QED
    BY <1>3, <2>1, Empty DEF TypeOK
<1>5. InOrder'
  BY <1>3 DEF Inv, InOrder
<1>6. Quiet'
  BY <1>1, <1>2 DEF Inv, Quiet
<1>7. Progress'
  BY <1>1, <1>3 DEF Inv, Progress
<1> QED
  BY <1>1, <1>4, <1>5, <1>6, <1>7 DEF Inv

LEMMA BeginKeeps ==
  ASSUME NEW o \in Ops
  PROVE  Inv /\ Begin(o) => Inv'
<1> SUFFICES ASSUME Inv, Begin(o)
             PROVE  Inv'
  OBVIOUS
<1> USE DEF Begin, From, master, fifos, Select
<1>1. dataLen = 0 /\ txFifo = <<>> /\ frame = <<>>
  BY Rest DEF Inv, Progress
<1>2. ier = {} /\ handler = "none"
  BY <1>1, RestRuns
<1>3. o.len \in Nat
  BY SizesAssumption DEF Ops
<1>4. TypeOK'
  BY <1>3 DEF Inv, TypeOK
<1>5. InOrder'
  BY DEF Inv, InOrder
<1>6. Quiet'
  BY <1>1, <1>2 DEF Inv, Quiet
<1>7. Progress'
  BY <1>1 DEF Inv, Progress
<1> QED
  BY <1>1, <1>4, <1>5, <1>6, <1>7 DEF Inv

LEMMA EndKeeps == Inv /\ End => Inv'
<1> SUFFICES ASSUME Inv, End
             PROVE  Inv'
  OBVIOUS
<1> USE DEF End, From, master, Deselect
<1>1. dataLen = 0 /\ txFifo = <<>>
  BY Rest
<1>2. ier = {} /\ handler = "none"
  BY <1>1, RestRuns
<1>3. TypeOK'
  <2>1. TypeOK /\ cs' \in BOOLEAN /\ rxFifo' \in {<<>>, rxFifo} /\ frame' = <<>>
    BY DEF Inv
  <2> QED
    BY <2>1, Empty DEF TypeOK
<1>4. InOrder'
  BY <1>1, RowTypes DEF Inv, InOrder
<1>5. Quiet'
  BY <1>1, <1>2 DEF Inv, Quiet
<1>6. Progress'
  BY <1>1 DEF Inv, Progress
<1> QED
  BY <1>1, <1>3, <1>4, <1>5, <1>6 DEF Inv

LEMMA ShiftKeeps == Inv /\ Shift => Inv'
<1> SUFFICES ASSUME Inv, Shift
             PROVE  Inv'
  OBVIOUS
<1> USE DEF Shift, From
<1>1. dataLen = 0 /\ txFifo = <<>> /\ rxPos = 0 /\ txPos = 0 /\ ~busy
  BY Rest DEF IsBusy
<1>2. ier = {} /\ handler = "none"
  BY <1>1, RestRuns
<1>3. TypeOK /\ InOrder /\ Progress
  BY DEF Inv
<1>4. Base' = (IF stage = "data" THEN Cmd ELSE 0) /\ Inline' = Inline
  BY DEF Base, Inline
<1>5. TransferLen' = (IF stage = "data" THEN op.len ELSE Cmd + Inline)
  BY <1>3, <1>4, Numbers DEF TransferLen
<1>6. TransferLen' \in Nat \ {0}
  BY <1>3, <1>5, Numbers
<1>7. buf' = Count(Base', TransferLen') /\ dataLen' = TransferLen'
  <2>1. Len(Count(Base', TransferLen')) = TransferLen'
    BY <1>3, <1>4, <1>6, Numbers, RowTypes
  <2> QED
    BY <1>3, <1>4, <1>5, <2>1 DEF ToShift, TypeOK
<1>8. /\ buf' \in Seq(Int) /\ Len(buf') = dataLen'
      /\ \A j \in 1 .. dataLen' : buf'[j] = Base' + j
  <2>1. Base' \in Nat
    BY <1>3, <1>4, Numbers
  <2>2. \A j \in 1 .. TransferLen' : Count(Base', TransferLen')[j] = Base' + j
    BY DEF Count
  <2>3. /\ Count(Base', TransferLen') \in Seq(Int)
        /\ Len(Count(Base', TransferLen')) = TransferLen'
    BY <1>6, <2>1, RowTypes
  <2> QED
    BY <1>7, <2>2, <2>3
<1>9. TypeOK'
  BY <1>1, <1>3, <1>6, <1>7, <1>8 DEF TypeOK
<1>10. InOrder'
  BY <1>3 DEF InOrder
<1>11. Handed' = Base'
  BY <1>1, <1>3, <1>4 DEF Handed, Progress, TypeOK
<1>12. UnderWay'
  <2>1. rxFifo' = Answers(Base' + rxPos', Len(rxFifo'))
    <3>1. Base' + rxPos' \in Nat /\ Len(rxFifo') = 0 /\ rxFifo' = <<>>
      BY <1>1, <1>3, <1>4, Numbers
    <3> QED
      BY <3>1, RowTypes
  <2>2. Base' \in Nat
    BY <1>3, <1>4, Numbers
  <2>3. \A j \in 1 .. dataLen' :
           buf'[j] = IF j <= rxPos' THEN -(Base' + j) ELSE Base' + j
    BY <1>1, <1>8
  <2>4. /\ Handed' = Base' + txPos'
        /\ rxPos' + Len(rxFifo') + Len(txFifo') = txPos'
        /\ rxPos' < dataLen'
    <3>1. rxPos' = 0 /\ txPos' = 0 /\ Len(rxFifo') = 0 /\ Len(txFifo') = 0
      BY <1>1, Empty
    <3>2. dataLen' \in Nat \ {0}
      BY <1>6, <1>7
    <3>3. Handed' = Base' + txPos'
      <4>1. \A b \in Nat : b = b + 0
        OBVIOUS
      <4> HIDE DEF Shift
      <4> QED
        BY <1>11, <2>2, <3>1, <4>1
    <3>4. rxPos' + Len(rxFifo') + Len(txFifo') = txPos'
      BY <3>1
    <3> QED
      BY <3>1, <3>2, <3>3, <3>4
  <2> QED
    BY <1>1, <1>2, <1>7, <1>8, <2>1, <2>3, <2>4 DEF UnderWay
<1>13. Progress'
  BY <1>3, <1>6, <1>7 DEF Progress
<1> QED
  BY <1>6, <1>7, <1>9, <1>10, <1>12, <1>13 DEF Inv

LEMMA ShiftBusyKeeps == Inv /\ ShiftBusy => Inv'
<1> SUFFICES ASSUME Inv, ShiftBusy
             PROVE  Inv'
  OBVIOUS
<1> USE DEF ShiftBusy, From, fifos
<1>1. TypeOK /\ InOrder /\ Progress /\ UnderWay /\ dataLen > 0
  BY DEF Inv, Progress
<1>2. /\ Base' = Base /\ Inline' = Inline /\ Handed' = Handed
      /\ TransferLen' = TransferLen
  BY DEF Base, Inline, Handed, TransferLen
<1>3. TypeOK'
  BY <1>1 DEF TypeOK
<1>4. InOrder'
  BY <1>1 DEF InOrder
<1>5. UnderWay'
  BY <1>1, <1>2 DEF UnderWay
<1>6. Progress'
  BY <1>1, <1>2 DEF Progress
<1> QED
  BY <1>1, <1>3, <1>4, <1>5, <1>6 DEF Inv

LEMMA ShiftEnableKeeps == Inv /\ ShiftEnable => Inv'
<1> SUFFICES ASSUME Inv, ShiftEnable
             PROVE  Inv'
  OBVIOUS
<1> USE DEF ShiftEnable, From, fifos, master
<1>1. TypeOK /\ InOrder /\ Progress /\ UnderWay /\ dataLen > 0
  BY DEF Inv, Progress
<1>2. Inline' = Inline /\ Handed' = Handed
  BY DEF Inline, Handed
<1>3. Base' = Base
  BY <1>1 DEF Base, Progress, TypeOK
<1>4. TransferLen' = TransferLen
  BY <1>2, <1>3 DEF TransferLen
<1>5. TypeOK'
  BY <1>1 DEF TypeOK
<1>6. InOrder'
  BY <1>1 DEF InOrder
<1>7. UnderWay'
  <2>1. at' \in {"shift", "bytes", "end"} /\ written' = 0 /\ busy'
    BY <1>1 DEF UnderWay, Progress
  <2> QED
    BY <1>1, <1>2, <1>3, <1>4, <2>1 DEF UnderWay
<1>8. Progress'
  <2>1. op.len > 0 /\ op.read \in BOOLEAN /\ Inline \in {0, op.len} /\ op.len \in Nat
    BY <1>1, Numbers
  <2>2. written' = 0 /\ dataLen' > 0
    BY <1>1 DEF Progress
  <2>3. op.read => Inline = 0
    BY DEF Inline
  <2>4. CASE stage = "data" \/ Inline > 0
    BY <1>1, <1>2, <2>1, <2>2, <2>3, <2>4 DEF Progress, TypeOK
  <2>5. CASE ~(stage = "data" \/ Inline > 0) /\ op.read
    <3>1. at' = "shift" /\ stage' = "data" /\ op' = op
      BY <1>1, <2>5 DEF TypeOK
    <3> QED
      BY <2>2, <2>5, <3>1 DEF Progress
  <2>6. CASE ~(stage = "data" \/ Inline > 0) /\ ~op.read
    <3>1. at' = "bytes" /\ stage' = "cmd" /\ op' = op /\ Inline' = 0
      BY <1>1, <1>2, <2>1, <2>6 DEF TypeOK
    <3> QED
      BY <2>1, <2>2, <2>6, <3>1 DEF Progress
  <2> QED
    BY <2>4, <2>5, <2>6
<1> QED
  BY <1>1, <1>5, <1>6, <1>7, <1>8 DEF Inv

LEMMA WriteByteKeeps == Inv /\ WriteByte => Inv'
<1> SUFFICES ASSUME Inv, WriteByte
             PROVE  Inv'
  OBVIOUS
<1> USE DEF WriteByte, From, master
<1>1. dataLen = 0 /\ txFifo = <<>>
  BY Rest
<1>2. ier = {} /\ handler = "none"
  BY <1>1, RestRuns
<1>3. TypeOK /\ InOrder /\ Progress
  BY DEF Inv
<1>4. /\ stage = "cmd" /\ ~op.read /\ Inline = 0 /\ written < op.len
      /\ Handed = Cmd + written
  BY <1>1, <1>3 DEF Progress
<1>count. /\ op.len \in Nat /\ written' \in Nat
       /\ written' <= op.len /\ (written' # op.len => written' < op.len)
  <2>1. op.len \in Nat /\ written \in Nat /\ written < op.len
    BY <1>3, <1>4, Numbers
  <2>2. written' = written + 1
    OBVIOUS
  <2> HIDE DEF WriteByte
  <2> QED
    BY <2>1, <2>2
<1>5. Len(frame) = Cmd + written
  BY <1>1, <1>3, <1>4, Numbers, Empty DEF Handed
<1>6. txFifo' = Append(<<>>, Len(frame) + 1) /\ Len(frame) \in Nat
  BY <1>1, <1>3, <1>5, Numbers
<1>7. txFifo' = Count(Len(frame), 1)
  <2>1. ASSUME NEW f \in Nat
        PROVE  Append(<<>>, f + 1) = Count(f, 1)
    <3>1. Append(Count(f, 0), f + 0 + 1) = Count(f, 0 + 1)
      BY CountAppend
    <3>2. Count(f, 0) = <<>> /\ f + 0 + 1 = f + 1 /\ 0 + 1 = 1
      BY RowTypes
    <3> QED
      BY <3>1, <3>2
  <2> QED
    BY <1>6, <2>1
<1>8. txFifo' \in Seq(Int) /\ Len(txFifo') = 1
  BY <1>6, <1>7, RowTypes
<1>9. Inline' = Inline /\ Handed' = Cmd + written'
  <2>1. Handed' = Len(frame) + 1
    BY <1>8 DEF Handed
  <2> QED
    BY <1>3, <1>5, <2>1, Numbers DEF Inline
<1>10. TypeOK'
  <2>1. written' \in 0 .. op.len
    BY <1>count
  <2>2. 1 <= FifoLen
    BY SizesAssumption
  <2> QED
    BY <1>3, <1>8, <2>1, <2>2 DEF TypeOK
<1>11. InOrder'
  BY <1>3, <1>7, <1>8 DEF InOrder
<1>12. Quiet'
  BY <1>1, <1>2 DEF Inv, Quiet
<1>13. Progress'
  <2>1. CASE written' = op.len
    BY <1>1, <1>3, <1>4, <1>9, <2>1 DEF Progress
  <2>2. CASE written' # op.len
    <3>1. at' = "bytes" /\ written' < op.len
      BY <1>count, <2>2
    <3> QED
      BY <1>1, <1>3, <1>4, <1>9, <3>1 DEF Progress
  <2> QED
    BY <2>1, <2>2
<1> QED
  BY <1>1, <1>10, <1>11, <1>12, <1>13 DEF Inv

LEMMA HandlerTxKeeps == Inv /\ HandlerTx => Inv'
<1> SUFFICES ASSUME Inv, HandlerTx
             PROVE  Inv'
  OBVIOUS
<1> USE DEF HandlerTx, caller
<1>1. TypeOK /\ InOrder /\ Progress
  BY DEF Inv
<1>2. Inline' = Inline /\ Base' = Base /\ TransferLen' = TransferLen
  BY DEF Inline, Base, TransferLen
<1>3. CASE TXP /\ txPos < dataLen
  <2>1. UnderWay /\ dataLen > 0
    BY <1>1, <1>3, Numbers DEF Inv
  <2>2. /\ txFifo' = Append(txFifo, buf[txPos + 1]) /\ txPos' = txPos + 1
        /\ UNCHANGED <<caller, buf, dataLen, rxPos, busy, cs, rxFifo, frame, ier>>
    BY <1>3
  <2>3. at \notin {"set", "enable"} /\ at # "idle"
    BY <1>1, <2>1 DEF UnderWay, Pending, Progress
  <2>4. Handed = Base + txPos
    BY <2>1 DEF UnderWay
  <2>5. buf[txPos + 1] = Len(frame) + Len(txFifo) + 1
    <3>1. txPos + 1 \in 1 .. dataLen /\ ~(txPos + 1 <= rxPos)
      BY <1>1, <1>3, Numbers DEF TypeOK
    <3>2. buf[txPos + 1] = Base + (txPos + 1)
      BY <2>1, <3>1 DEF UnderWay
    <3> QED
      BY <1>1, <2>4, <3>2, Numbers DEF Handed
  <2>6. txFifo' = Count(Len(frame), Len(txFifo) + 1)
    BY <1>1, <2>2, <2>5, Numbers, CountAppend DEF InOrder
  <2>7. txFifo' \in Seq(Int) /\ Len(txFifo') = Len(txFifo) + 1
    <3>1. Len(frame) \in Nat /\ Len(txFifo) + 1 \in Nat
      BY <1>1, Numbers
    <3> QED
      BY <2>6, <3>1, RowTypes
  <2>8. Handed' = Base + txPos'
    BY <1>1, <2>2, <2>4, <2>7, Numbers DEF Handed
  <2>9. TypeOK'
    <3>1. txPos' \in 0 .. dataLen /\ rxPos \in 0 .. txPos' /\ Len(txFifo') <= FifoLen
      BY <1>1, <1>3, <2>2, <2>7, Numbers DEF TypeOK, TXP
    <3> QED
      BY <1>1, <2>2, <2>7, <3>1 DEF TypeOK
  <2>10. InOrder'
    BY <1>1, <2>2, <2>6, <2>7 DEF InOrder
  <2>11. UnderWay'
    <3>1. rxPos' + Len(rxFifo') + Len(txFifo') = txPos'
      <4>1. /\ rxPos \in Nat /\ Len(rxFifo) \in Nat /\ Len(txFifo) \in Nat
            /\ txPos \in Nat /\ rxPos + Len(rxFifo) + Len(txFifo) = txPos
        BY <1>1, <2>1, Numbers DEF UnderWay
      <4>2. /\ rxPos' = rxPos /\ Len(rxFifo') = Len(rxFifo)
            /\ Len(txFifo') = Len(txFifo) + 1 /\ txPos' = txPos + 1
        BY <2>2, <2>7
      <4> HIDE DEF HandlerTx
      <4> QED
        BY <4>1, <4>2
    <3> QED
      BY <1>2, <2>1, <2>2, <2>3, <2>8, <3>1 DEF UnderWay
  <2>12. Progress'
    BY <1>1, <1>2, <2>1, <2>2, <2>3 DEF Progress
  <2> QED
    BY <2>1, <2>2, <2>9, <2>10, <2>11, <2>12 DEF Inv
<1>4. CASE ~(TXP /\ txPos < dataLen)
  <2>1. /\ ier' \subseteq ier
        /\ UNCHANGED <<caller, buf, dataLen, rxPos, txPos, busy, cs, fifos, frame>>
    BY <1>4 DEF fifos
  <2>2. Handed' = Handed
    BY <2>1 DEF Handed, fifos
  <2>3. TypeOK'
    BY <1>1, <2>1 DEF TypeOK, fifos
  <2>4. InOrder'
    BY <1>1, <2>1 DEF InOrder, fifos
  <2>5. dataLen' > 0 => UnderWay'
    BY <1>2, <2>1, <2>2 DEF Inv, UnderWay, Pending, fifos
  <2>6. dataLen' = 0 => Quiet'
    BY <2>1 DEF Inv, Quiet, Pending, fifos
  <2>7. Progress'
    BY <1>1, <1>2, <2>1, <2>2 DEF Progress, fifos
  <2> QED
    BY <2>3, <2>4, <2>5, <2>6, <2>7 DEF Inv
<1> QED
  BY <1>3, <1>4

LEMMA ClockKeeps == Inv /\ Clock => Inv'
<1> SUFFICES ASSUME Inv, Clock
             PROVE  Inv'
  OBVIOUS
<1> USE DEF Clock, caller, master
<1>1. TypeOK /\ InOrder /\ Progress
  BY DEF Inv
<1>2. Inline' = Inline /\ Base' = Base /\ TransferLen' = TransferLen
  BY DEF Inline, Base, TransferLen
<1> DEFINE f == Len(frame)
           n == Len(txFifo)
<1>3. f \in Nat /\ n \in Nat /\ n > 0
  BY <1>1, Numbers DEF TypeOK
<1>4. Head(txFifo) = f + 1 /\ txFifo' = Count(f + 1, n - 1)
  BY <1>1, <1>3, CountTail DEF InOrder
<1>5. frame' = Count(0, f + 1)
  <2>1. frame' = Append(Count(0, f), 0 + f + 1)
    BY <1>1, <1>3, <1>4 DEF InOrder
  <2> QED
    BY <1>3, <2>1, CountAppend
<1>6. /\ frame' \in Seq(Int) /\ Len(frame') = f + 1
      /\ txFifo' \in Seq(Int) /\ Len(txFifo') = n - 1
  <2>1. f + 1 \in Nat /\ n - 1 \in Nat
    BY <1>3
  <2> QED
    BY <1>4, <1>5, <2>1, RowTypes
<1>7. Handed' = Handed
  BY <1>3, <1>6 DEF Handed
<1>8. /\ rxFifo' \in Seq(Int) /\ Len(rxFifo') <= FifoLen
      /\ Len(rxFifo) < FifoLen => Len(rxFifo') = Len(rxFifo) + 1
  <2>1. rxFifo \in Seq(Int) /\ Len(rxFifo) <= FifoLen /\ FifoLen \in Nat
    BY <1>1, SizesAssumption DEF TypeOK
  <2>2. rxFifo' = IF Len(rxFifo) < FifoLen THEN Append(rxFifo, -(f + 1)) ELSE rxFifo
    BY <1>4
  <2>3. -(f + 1) \in Int
    BY <1>3
  <2> HIDE DEF Clock
  <2> QED
    BY <2>1, <2>2, <2>3
<1>9. TypeOK'
  <2>1. Len(txFifo') <= FifoLen
    BY <1>1, <1>3, <1>6, Numbers DEF TypeOK
  <2> QED
    BY <1>1, <1>6, <1>8, <2>1 DEF TypeOK
<1>10. InOrder'
  BY <1>4, <1>5, <1>6 DEF InOrder
<1>11. ASSUME dataLen > 0
       PROVE  UnderWay'
  <2>1. UnderWay
    BY <1>11 DEF Inv
  <2>2. at # "set" /\ busy
    <3>1. CASE at = "set"
      <4>1. rxPos + Len(rxFifo) + n = 0
        BY <2>1, <3>1 DEF UnderWay
      <4> QED
        BY <1>1, <1>3, <4>1, Numbers
    <3> QED
      BY <2>1, <3>1 DEF UnderWay
  <2>3. at # "enable"
    <3>1. CASE at = "enable"
      <4>1. rxPos + Len(rxFifo) + n = 0
        BY <2>1, <3>1 DEF UnderWay
      <4> QED
        BY <1>1, <1>3, <4>1, Numbers
    <3> QED
      BY <3>1
  <2>4. /\ rxFifo' = Append(rxFifo, -(f + 1))
        /\ Len(rxFifo') = Len(rxFifo) + 1
    BY <1>4, <1>8, <2>2
  <2>5. rxPos + Len(rxFifo') + Len(txFifo') = txPos
    <3>1. /\ rxPos \in Nat /\ Len(rxFifo) \in Nat /\ txPos \in Nat
          /\ rxPos + Len(rxFifo) + n = txPos
      BY <1>1, <2>1, Numbers DEF UnderWay
    <3>2. Len(rxFifo') = Len(rxFifo) + 1 /\ Len(txFifo') = n - 1
      BY <1>6, <2>4
    <3> HIDE DEF Clock, n
    <3> QED
      BY <1>3, <3>1, <3>2
  <2>6. rxFifo' = Answers(Base + rxPos, Len(rxFifo) + 1)
    <3>1. f + 1 = Base + rxPos + Len(rxFifo) + 1
      <4>1. /\ Base \in Nat /\ rxPos \in Nat /\ Len(rxFifo) \in Nat /\ txPos \in Nat
            /\ rxPos + Len(rxFifo) + n = txPos /\ f + n = Base + txPos
        BY <1>1, <2>1, Numbers DEF UnderWay, Handed
      <4> HIDE DEF Clock, f, n
      <4> QED
        BY <1>3, <4>1
    <3>2. Base + rxPos \in Nat /\ Len(rxFifo) \in Nat
      BY <1>1, Numbers
    <3>3. rxFifo = Answers(Base + rxPos, Len(rxFifo))
      BY <2>1 DEF UnderWay
    <3> QED
      BY <2>4, <3>1, <3>2, <3>3, AnswersAppend
  <2> QED
    BY <1>2, <1>7, <2>1, <2>2, <2>3, <2>4, <2>5, <2>6 DEF UnderWay
<1>12. dataLen = 0 => Quiet'
  BY <1>3, Empty DEF Inv, Quiet
<1>13. Progress'
  BY <1>1, <1>2, <1>7 DEF Progress
<1> QED
  BY <1>9, <1>10, <1>11, <1>12, <1>13 DEF Inv

LEMMA HandlerRxKeeps == Inv /\ HandlerRx => Inv'
<1> SUFFICES ASSUME Inv, HandlerRx
             PROVE  Inv'
  OBVIOUS
<1>1. TypeOK /\ InOrder /\ Progress
  BY DEF Inv
<1>2. /\ handler = "rx" /\ handler' = "none"
      /\ UNCHANGED <<at, op, stage, written, cs, txFifo, frame>>
  BY DEF HandlerRx, caller
<1>3. /\ Inline' = Inline /\ Base' = Base /\ TransferLen' = TransferLen
      /\ Handed' = Handed
  BY <1>2 DEF Inline, Base, TransferLen, Handed
<1>4. InOrder'
  BY <1>1, <1>2 DEF InOrder
<1>5. CASE ~RXP
  <2>1. UNCHANGED <<buf, dataLen, rxPos, txPos, busy, ier, rxFifo>>
    BY <1>5 DEF HandlerRx, master
  <2>2. TypeOK'
    BY <1>1, <1>2, <2>1 DEF TypeOK
  <2>3. dataLen' > 0 => UnderWay'
    BY <1>2, <1>3, <2>1 DEF Inv, UnderWay
  <2>4. dataLen' = 0 => Quiet'
    BY <1>2, <2>1 DEF Inv, Quiet
  <2>5. Progress'
    BY <1>1, <1>2, <1>3, <2>1 DEF Progress
  <2> QED
    BY <1>4, <2>2, <2>3, <2>4, <2>5 DEF Inv
<1>6. CASE RXP
  <2>1. dataLen > 0 /\ UnderWay
    <3>1. dataLen # 0
      BY <1>2, <1>6 DEF Inv, Quiet, RXP
    <3> QED
      BY <1>1, <3>1, Numbers DEF Inv
  <2>2. at \in {"shift", "bytes", "end"}
    BY <1>1, <1>2, <2>1 DEF UnderWay, Progress, TypeOK
  <2> DEFINE r == rxPos
             n == Len(rxFifo)
             t == Len(txFifo)
  <2>3. /\ r \in Nat /\ n \in Nat /\ n > 0 /\ t \in Nat /\ txPos \in Nat /\ dataLen \in Nat
        /\ Base \in Nat /\ Base + r \in Nat
    <3>1. /\ r \in Nat /\ n \in Nat /\ t \in Nat /\ txPos \in Nat /\ dataLen \in Nat
          /\ Base \in Nat
      BY <1>1, Numbers
    <3>2. n # 0
      BY <1>1, <1>6 DEF RXP, TypeOK
    <3> QED
      BY <3>1, <3>2
  <2>4. r + n + t = txPos /\ txPos <= dataLen /\ r < dataLen
    BY <1>1, <2>1, Numbers DEF UnderWay, TypeOK
  <2>5. /\ Head(rxFifo) = -(Base + r + 1)
        /\ Tail(rxFifo) = Answers(Base + r + 1, n - 1)
    <3>1. rxFifo = Answers(Base + r, n)
      BY <2>1 DEF UnderWay
    <3> QED
      BY <2>3, <3>1, AnswersTail
  <2>6. /\ buf' = [buf EXCEPT ![r + 1] = -(Base + r + 1)]
        /\ rxFifo' = Answers(Base + r + 1, n - 1)
    BY <1>6, <2>5 DEF HandlerRx, TakeAnswer
  <2>7. /\ rxFifo' \in Seq(Int) /\ Len(rxFifo') = n - 1
    <3>1. Base + r + 1 \in Nat /\ n - 1 \in Nat
      BY <2>3
    <3> QED
      BY <2>6, <3>1, RowTypes
  <2>8. /\ buf' \in Seq(Int) /\ Len(buf') = dataLen
        /\ \A j \in 1 .. dataLen : buf'[j] = IF j <= r + 1 THEN -(Base + j) ELSE Base + j
    <3>1. /\ buf \in Seq(Int) /\ Len(buf) = dataLen
          /\ \A j \in 1 .. dataLen : buf[j] = IF j <= r THEN -(Base + j) ELSE Base + j
      BY <1>1, <2>1 DEF UnderWay, TypeOK
    <3>2. buf' \in Seq(Int) /\ Len(buf') = dataLen
      <4>1. -(Base + r + 1) \in Int /\ r + 1 \in 1 .. Len(buf)
        BY <2>3, <2>4, <3>1
      <4>2. ASSUME NEW x \in Int
            PROVE  LET b == [buf EXCEPT ![r + 1] = x]
                   IN  b \in Seq(Int) /\ Len(b) = Len(buf)
        BY <3>1, <4>1
      <4> QED
        BY <2>6, <3>1, <4>1, <4>2
    <3>3. ASSUME NEW j \in 1 .. dataLen
          PROVE  buf'[j] = IF j <= r + 1 THEN -(Base + j) ELSE Base + j
      <4>1. CASE j = r + 1
        BY <2>3, <2>6, <3>1, <4>1
      <4>2. CASE j # r + 1
        <5>1. buf'[j] = buf[j] /\ (j <= r <=> j <= r + 1)
          BY <2>3, <2>6, <3>1, <4>2
        <5> QED
          BY <3>1, <5>1
      <4> QED
        BY <4>1, <4>2
    <3> QED
      BY <3>2, <3>3
  <2>9. Len(rxFifo') <= FifoLen
    <3>1. n <= FifoLen /\ FifoLen \in Nat
      BY <1>1, Numbers DEF TypeOK
    <3> QED
      BY <2>3, <2>7, <3>1
  <2>10. CASE r + 1 = dataLen
    <3>1. /\ ier' = ier \ {"RXPIE"}
          /\ rxPos' = 0 /\ txPos' = 0 /\ dataLen' = 0 /\ busy' = FALSE
      BY <1>6, <2>10 DEF HandlerRx, TakeAnswer, CloseTransfer
    <3>2. n = 1 /\ t = 0 /\ txPos = dataLen
      <4> HIDE DEF r, n, t
      <4> QED
        BY <2>3, <2>4, <2>10
    <3>3. txFifo = <<>> /\ rxFifo' = <<>>
      BY <1>1, <2>7, <3>2 DEF TypeOK
    <3>4. TypeOK'
      <4>1. dataLen' \in 0 .. Len(buf')
        BY <2>3, <2>8, <3>1
      <4>2. rxPos' \in 0 .. txPos' /\ txPos' \in 0 .. dataLen'
        BY <3>1
      <4>3. ier' \subseteq {"TXPIE", "RXPIE"} /\ busy' \in BOOLEAN
        BY <1>1, <3>1 DEF TypeOK
      <4> QED
        BY <1>1, <1>2, <2>7, <2>8, <2>9, <4>1, <4>2, <4>3 DEF TypeOK
    <3>5. Quiet'
      <4>1. ier' \subseteq {"TXPIE"}
        BY <1>1, <3>1 DEF TypeOK
      <4> QED
        BY <1>2, <3>1, <3>3, <4>1 DEF Quiet
    <3>6. Handed = Base + TransferLen /\ dataLen = TransferLen
      BY <2>1, <3>2 DEF UnderWay
    <3>7. Progress'
      <4>1. /\ op.len \in Nat \ {0} /\ op.read \in BOOLEAN
            /\ Inline \in {0, op.len} /\ Cmd \in Nat \ {0} /\ stage \in {"cmd", "data"}
            /\ (op.read => Inline = 0)
        BY <1>1, Numbers DEF TypeOK, Inline
      <4>2. CASE at = "shift"
        <5>1. stage = "data" /\ op.read /\ written = 0
          BY <1>1, <2>1, <4>2, <4>1 DEF Progress
        <5>2. Base = 0 /\ TransferLen = Cmd
          BY <4>1, <4>2, <5>1 DEF Base, TransferLen
        <5>3. Handed' = Cmd
          BY <1>3, <3>6, <4>1, <5>2
        <5> QED
          BY <1>2, <4>2, <5>1, <5>3 DEF Progress
      <4>3. CASE at = "bytes"
        <5>1. stage = "cmd" /\ ~op.read /\ Inline = 0 /\ written < op.len /\ written = 0
          BY <1>1, <2>1, <4>3 DEF Progress, UnderWay
        <5>2. Base = 0 /\ TransferLen = Cmd
          BY <4>1, <5>1 DEF Base, TransferLen
        <5>3. Handed' = Cmd + written'
          BY <1>2, <1>3, <3>6, <4>1, <5>1, <5>2
        <5> QED
          BY <1>2, <1>3, <4>3, <5>1, <5>3 DEF Progress
      <4>4. CASE at = "end"
        <5>1. (op.read => stage = "data") /\ (stage = "data" => op.read)
              /\ (~op.read => Inline > 0)
          BY <1>1, <2>1, <4>4 DEF Progress
        <5>2. CASE op.read
          <6>1. Base = Cmd /\ TransferLen = op.len
            BY <4>1, <4>4, <5>1, <5>2 DEF Base, TransferLen
          <6>2. Handed' = Cmd + op.len
            BY <1>3, <3>6, <6>1
          <6>3. buf' = Answers(Cmd, op.len)
            <7>1. /\ buf' \in Seq(Int) /\ Len(buf') = op.len
                  /\ \A j \in 1 .. op.len : buf'[j] = -(Cmd + j)
              BY <2>3, <2>8, <2>10, <3>6, <6>1
            <7>2. buf' = [j \in 1 .. op.len |-> buf'[j]]
              BY <7>1
            <7> QED
              BY <7>1, <7>2 DEF Answers
          <6> QED
            BY <1>2, <1>3, <3>1, <4>4, <5>1, <5>2, <6>2, <6>3 DEF Progress
        <5>3. CASE ~op.read
          <6>1. Inline = op.len /\ Base = 0 /\ TransferLen = Cmd + op.len
            BY <4>1, <4>4, <5>1, <5>3 DEF Base, TransferLen
          <6>2. Handed' = Cmd + op.len
            BY <1>3, <3>6, <4>1, <6>1
          <6> QED
            BY <1>2, <1>3, <3>1, <4>4, <5>1, <5>3, <6>2 DEF Progress
        <5> QED
          BY <5>2, <5>3
      <4> QED
        BY <2>2, <4>2, <4>3, <4>4
    <3> QED
      BY <1>4, <3>1, <3>4, <3>5, <3>7 DEF Inv
  <2>11. CASE r + 1 # dataLen
    <3>1. rxPos' = r + 1 /\ UNCHANGED <<ier, dataLen, txPos, busy>>
      BY <1>6, <2>11 DEF HandlerRx, TakeAnswer
    <3>2. r + 1 \in 0 .. txPos /\ r + 1 < dataLen
      BY <2>3, <2>4, <2>11
    <3>3. TypeOK'
      BY <1>1, <1>2, <2>7, <2>8, <2>9, <3>1, <3>2 DEF TypeOK
    <3>4. UnderWay'
      <4>1. rxPos' + Len(rxFifo') + Len(txFifo') = txPos'
        <5>1. Len(txFifo') = t /\ txPos' = txPos
          BY <1>2, <3>1
        <5> QED
          BY <2>3, <2>4, <2>7, <3>1, <5>1
      <4>2. rxFifo' = Answers(Base' + rxPos', Len(rxFifo'))
        <5>1. Base + r + 1 = Base + (r + 1)
          BY <2>3
        <5> QED
          BY <1>3, <2>6, <2>7, <3>1, <5>1
      <4>3. \A j \in 1 .. dataLen' :
               buf'[j] = IF j <= rxPos' THEN -(Base' + j) ELSE Base' + j
        BY <1>3, <2>8, <3>1
      <4>4. at' = at /\ written' = written /\ rxPos' < dataLen' /\ Len(buf') = dataLen'
        BY <1>2, <2>8, <3>1, <3>2
      <4> QED
        BY <1>3, <2>1, <2>2, <3>1, <4>1, <4>2, <4>3, <4>4 DEF UnderWay
    <3>5. Progress'
      BY <1>1, <1>2, <1>3, <2>1, <2>2, <3>1 DEF Progress
    <3> QED
      BY <1>4, <2>1, <3>1, <3>3, <3>4, <3>5 DEF Inv
  <2> QED
    BY <2>10, <2>11
<1> QED
  BY <1>5, <1>6

\* The invariant is inductive.
LEMMA InvNext == Inv /\ [Next]_vars => Inv'
<1> SUFFICES ASSUME Inv, [Next]_vars
             PROVE  Inv'
  OBVIOUS
<1>1. CASE Outer
  BY <1>1, OuterKeeps
<1>2. ASSUME NEW o \in Ops, Begin(o)
      PROVE  Inv'
  BY <1>2, BeginKeeps
<1>3. CASE Access
  BY <1>3, ShiftKeeps, ShiftBusyKeeps, ShiftEnableKeeps, WriteByteKeeps, EndKeeps
     DEF Access
<1>4. CASE Handler
  BY <1>4, HandlerTxKeeps, HandlerRxKeeps DEF Handler
<1>5. CASE Clock
  BY <1>5, ClockKeeps
<1>6. CASE UNCHANGED vars
  BY <1>6 DEF vars, caller, master, fifos, Inv, TypeOK, InOrder, UnderWay, Quiet, Progress,
              Base, Handed, TransferLen, Inline
<1> QED
  BY <1>1, <1>2, <1>3, <1>4, <1>5, <1>6 DEF Next

\* It holds throughout.
LEMMA InvAlways == Spec => []Inv
  BY InvInit, InvNext, PTL DEF Spec

-----------------------------------------------------------------------------
(* The theorems                                                              *)

\* Every variable stays in its range: the positions never pass the length of
\* the transfer, no FIFO holds more than its depth (SPI_Master.cpp:212-257).
THEOREM TypeCorrect == Spec => []TypeOK
  BY InvAlways, PTL DEF Inv

\* Each selection of the chip carries one whole access or nothing.
THEOREM FramesCorrect == Spec => []FramesWhole
<1>1. Inv => FramesWhole
  <2> SUFFICES ASSUME Inv
               PROVE  FramesWhole
    OBVIOUS
  <2>1. at \in {"idle", "shift"} /\ stage = "cmd" => frame = <<>>
    BY DEF Inv, Progress
  <2>2. ASSUME at = "end", ~IsBusy
        PROVE  frame = Count(0, Cmd + op.len)
    <3>1. dataLen = 0 /\ txFifo = <<>>
      BY <2>2, Rest
    <3>2. Handed = Cmd + op.len
      BY <2>2, <3>1 DEF Inv, Progress
    <3>3. Len(frame) = Cmd + op.len
      BY <3>1, <3>2, Empty, Numbers DEF Inv, Handed
    <3> QED
      BY <3>3 DEF Inv, InOrder
  <2> QED
    BY <2>1, <2>2 DEF FramesWhole
<1> QED
  BY <1>1, InvAlways, PTL

\* What a read returns are the answers to its own bytes, each in its place.
THEOREM AnswersCorrect == Spec => []AnswersInPlace
<1>1. Inv => AnswersInPlace
  BY Rest DEF Inv, Progress, AnswersInPlace
<1> QED
  BY <1>1, InvAlways, PTL

\* No interrupt is enabled while the caller sets up a transfer.
THEOREM SetUpCorrect == Spec => []SetUpUndisturbed
<1>1. Inv => SetUpUndisturbed
  <2> SUFFICES ASSUME Inv, ~busy, handler = "none", ~Pending
               PROVE  ier = {}
    BY DEF SetUpUndisturbed
  <2>1. CASE dataLen = 0
    BY <2>1, RestRuns
  <2>2. CASE dataLen # 0
    BY <2>2, Numbers DEF Inv, UnderWay
  <2> QED
    BY <2>1, <2>2
<1> QED
  BY <1>1, InvAlways, PTL

\* The handler writes answers into the caller's buffer only, and only during a
\* transfer.
THEOREM InBoundsCorrect == Spec => []TakenInBounds
<1>1. Inv => TakenInBounds
  <2> SUFFICES ASSUME Inv, handler = "rx", RXP
               PROVE  busy /\ rxPos < dataLen
    BY DEF TakenInBounds
  <2>1. dataLen > 0
    BY Numbers DEF Inv, Quiet, RXP
  <2> QED
    BY <2>1 DEF Inv, UnderWay
<1> QED
  BY <1>1, InvAlways, PTL
=============================================================================
