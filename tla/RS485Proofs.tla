---------------------------- MODULE RS485Proofs ----------------------------
(***************************************************************************)
(* The driver of the serial line, for frames and FIFOs of every length:    *)
(* types whatever the line carries; and, when slaves answer in time, that  *)
(* a frame goes out whole, that what is received is announced, and that    *)
(* the driver is the half-duplex port of module SerialPort.                *)
(***************************************************************************)
EXTENDS RS485, SequenceTheorems, TLAPS

\* A byte that is being received is one of those left of its frame.
TypeInv == TypeOK /\ (rxLine = "byte" => left > 0)

Numbers(n) == [i \in 1 .. n |-> i]

\* Bytes the UART was given.
Given == Len(out) + Len(shifting) + Len(txFifo)

InOrder == out \o shifting \o txFifo = Numbers(Given)

Starting == {"size", "count", "enable"}

\* How far txBuf was fed to the UART, between the statements of send, while
\* the interrupt is enabled, and when it is not.
Fed ==
  /\ at \in Starting => Given = 0 /\ ~txftie /\ len \in Lens
  /\ at = "size" => txBufSize = 0
  /\ at \in {"count", "enable"} => txBufSize = len
  /\ at = "enable" => txBufCnt = 0
  /\ txftie => at = "loop" /\ txBufSize = len /\ txBufCnt = Given /\ Given < len
  /\ ~txftie /\ at \notin Starting => txBufSize = 0 /\ txBufCnt = len /\ Given = len

\* An answer, from the time it is owed until its buffer is freed.
Answering == owed \/ rxLine # "quiet" \/ idle \/ rxDone

Answered ==
  /\ Answering => Complete /\ ~txftie /\ at \notin Starting
  /\ owed => rxLine = "quiet" /\ ~idle /\ ~rxDone
  /\ idle \/ rxDone => rxLine = "quiet"
  /\ at \in {"clear", "done"} => rxDone /\ ~idle
  /\ at = "done" => rxBufCnt = 0
  /\ rxLine = "quiet" /\ ~idle => rxFifo = 0
  /\ rxLine = "quiet" /\ ~idle /\ rxBufCnt > 0 => rxDone

Inv == TypeInv /\ InOrder /\ Fed /\ Answered

-----------------------------------------------------------------------------
(* Numbers and sequences                                                     *)

\* The lesser of two numbers.
LEMMA MinOfTwo ==
  ASSUME NEW a \in Int, NEW b \in Int
  PROVE  Min({a, b}) = IF a <= b THEN a ELSE b
<1> DEFINE m == IF a <= b THEN a ELSE b
<1>1. m \in {a, b} /\ \A y \in {a, b} : m <= y
  OBVIOUS
<1>2. \A x \in {a, b} : (\A y \in {a, b} : x <= y) => x = m
  OBVIOUS
<1> HIDE DEF m
<1>3. Min({a, b}) \in {a, b} /\ \A y \in {a, b} : Min({a, b}) <= y
  BY <1>1 DEF Min
<1>4. Min({a, b}) = m
  BY <1>2, <1>3
<1> QED
  BY <1>4 DEF m

\* Lengths are numbers.
LEMMA Lengths ==
  ASSUME TypeOK
  PROVE  /\ Len(out) \in Nat /\ Len(shifting) \in Nat /\ Len(txFifo) \in Nat
         /\ Given \in Nat /\ len \in Nat /\ txBufSize \in Nat /\ txBufCnt \in Nat
         /\ FifoLen \in Nat \ {0} /\ RxBufSize \in Nat \ {0}
<1>1. Len(out) \in Nat /\ Len(shifting) \in Nat /\ Len(txFifo) \in Nat
  BY DEF TypeOK
<1>2. len \in Nat /\ txBufSize \in Nat /\ txBufCnt \in Nat
  BY SizesAssumption DEF TypeOK
<1> QED
  BY <1>1, <1>2, SizesAssumption DEF Given

\* The bytes after the first c, n of them.
LEMMA Slice ==
  ASSUME NEW c \in Nat, NEW n \in Nat
  PROVE  /\ [i \in 1 .. n |-> c + i] \in Seq(Nat)
         /\ Len([i \in 1 .. n |-> c + i]) = n
  OBVIOUS

\* They continue the first c.
LEMMA SliceContinues ==
  ASSUME NEW c \in Nat, NEW n \in Nat
  PROVE  Numbers(c) \o [i \in 1 .. n |-> c + i] = Numbers(c + n)
<1> DEFINE a == Numbers(c)
           b == [i \in 1 .. n |-> c + i]
           d == Numbers(c + n)
<1>1. /\ a \in Seq(Nat) /\ Len(a) = c
      /\ \A i \in 1 .. c : a[i] = i
  BY DEF Numbers
<1>2. /\ b \in Seq(Nat) /\ Len(b) = n
      /\ \A i \in 1 .. n : b[i] = c + i
  OBVIOUS
<1>3. c + n \in Nat
  OBVIOUS
<1>4. /\ d \in Seq(Nat) /\ Len(d) = c + n
      /\ \A i \in 1 .. c + n : d[i] = i
  BY <1>3 DEF Numbers
<1> HIDE DEF a, b, d
<1>5. /\ a \o b \in Seq(Nat)
      /\ Len(a \o b) = c + n
      /\ \A i \in 1 .. c + n : (a \o b)[i] = IF i <= c THEN a[i] ELSE b[i - c]
  <2>1. a \in Seq(Nat) /\ b \in Seq(Nat)
    BY <1>1, <1>2
  <2>2. /\ a \o b \in Seq(Nat)
        /\ Len(a \o b) = Len(a) + Len(b)
        /\ \A i \in 1 .. Len(a) + Len(b) :
             (a \o b)[i] = IF i <= Len(a) THEN a[i] ELSE b[i - Len(a)]
    BY <2>1, ConcatProperties
  <2> QED
    BY <1>1, <1>2, <2>2
<1>6. ASSUME NEW i \in 1 .. c + n
      PROVE  (a \o b)[i] = d[i]
  <2>1. CASE i <= c
    <3>1. i \in 1 .. c
      BY <2>1
    <3> QED
      BY <2>1, <3>1, <1>1, <1>4, <1>5
  <2>2. CASE ~(i <= c)
    <3>1. i - c \in 1 .. n /\ c + (i - c) = i
      BY <2>2
    <3> QED
      BY <2>2, <3>1, <1>2, <1>4, <1>5
  <2> QED
    BY <2>1, <2>2
<1>7. a \o b = d
  BY <1>4, <1>5, <1>6, SeqEqual
<1> QED
  BY <1>7 DEF a, b, d

LEMMA Associative ==
  ASSUME NEW s \in Seq(Nat), NEW t \in Seq(Nat), NEW u \in Seq(Nat)
  PROVE  (s \o t) \o u = s \o (t \o u)
  BY ConcatAssociative, SMTT(60)

\* The first byte of a queue and the others make up the queue.
LEMMA HeadAndTail ==
  ASSUME NEW s \in Seq(Nat), s # <<>>
  PROVE  /\ Head(s) \in Nat /\ Tail(s) \in Seq(Nat)
         /\ Len(Tail(s)) = Len(s) - 1
         /\ <<Head(s)>> \o Tail(s) = s
<1> DEFINE h == <<Head(s)>>
           t == Tail(s)
<1>1. /\ Head(s) \in Nat /\ t \in Seq(Nat) /\ Len(t) = Len(s) - 1
      /\ \A i \in 1 .. Len(t) : t[i] = s[i + 1]
  BY HeadTailProperties
<1>2. h \in Seq(Nat) /\ Len(h) = 1 /\ h[1] = s[1]
  BY <1>1
<1>3. Len(s) \in Nat
  OBVIOUS
<1> HIDE DEF h, t
<1>4. /\ h \o t \in Seq(Nat)
      /\ Len(h \o t) = 1 + Len(t)
      /\ \A i \in 1 .. 1 + Len(t) : (h \o t)[i] = IF i <= 1 THEN h[i] ELSE t[i - 1]
  <2>1. h \in Seq(Nat) /\ t \in Seq(Nat)
    BY <1>1, <1>2
  <2>2. /\ h \o t \in Seq(Nat)
        /\ Len(h \o t) = Len(h) + Len(t)
        /\ \A i \in 1 .. Len(h) + Len(t) :
             (h \o t)[i] = IF i <= Len(h) THEN h[i] ELSE t[i - Len(h)]
    BY <2>1, ConcatProperties
  <2>3. Len(h) = 1
    BY <1>2
  <2> QED
    BY <2>2, <2>3
<1>5. Len(h \o t) = Len(s)
  BY <1>1, <1>3, <1>4
<1>6. ASSUME NEW i \in 1 .. Len(s)
      PROVE  (h \o t)[i] = s[i]
  <2>1. CASE i = 1
    BY <2>1, <1>1, <1>2, <1>3, <1>4
  <2>2. CASE i # 1
    <3>1. i - 1 \in 1 .. Len(t) /\ ~(i <= 1) /\ (i - 1) + 1 = i /\ i \in 1 .. 1 + Len(t)
      BY <2>2, <1>1, <1>3
    <3> QED
      BY <3>1, <1>1, <1>4
  <2> QED
    BY <2>1, <2>2
<1>7. h \o t = s
  BY <1>4, <1>5, <1>6, SeqEqual
<1> QED
  BY <1>1, <1>7 DEF h, t

\* What the handler does to the transmission: nothing, or a number of bytes go
\* to the FIFO, and with the last one the interrupt is switched off.
LEMMA Feeding ==
  ASSUME TypeOK, FillTx
  PROVE  \/ UNCHANGED <<txFifo, txBufCnt, txBufSize, txftie>>
         \/ \E n \in Nat \ {0} :
              /\ n <= txBufSize - txBufCnt
              /\ n <= FifoLen - Len(txFifo)
              /\ txFifo' = txFifo \o [i \in 1 .. n |-> txBufCnt + i]
              /\ txBufCnt' = txBufCnt + n
              /\ \/ txBufCnt' = txBufSize /\ txftie' = FALSE /\ txBufSize' = 0
                 \/ txBufCnt' # txBufSize /\ UNCHANGED <<txftie, txBufSize>>
<1> DEFINE a == txBufSize - txBufCnt
           b == FifoLen - Len(txFifo)
           n == Min({a, b})
<1>1. a \in Int /\ b \in Int
  BY Lengths
<1>2. n \in Int /\ n <= a /\ n <= b
  <2> HIDE DEF a, b
  <2>1. n = IF a <= b THEN a ELSE b
    BY <1>1, MinOfTwo
  <2> QED
    BY <1>1, <2>1
<1>3. CASE ~(n > 0)
  BY <1>3 DEF FillTx
<1>4. CASE n > 0
  <2>1. n \in Nat \ {0}
    <3> HIDE DEF n
    <3> QED
      BY <1>2, <1>4
  <2>2. /\ txFifo' = txFifo \o [i \in 1 .. n |-> txBufCnt + i]
        /\ txBufCnt' = txBufCnt + n
        /\ \/ txBufCnt' = txBufSize /\ txftie' = FALSE /\ txBufSize' = 0
           \/ txBufCnt' # txBufSize /\ UNCHANGED <<txftie, txBufSize>>
    BY <1>4 DEF FillTx
  <2> HIDE DEF n
  <2> QED
    BY <1>2, <2>1, <2>2
<1> QED
  BY <1>3, <1>4

-----------------------------------------------------------------------------
(* Types                                                                     *)

\* What the handler does to the reception.
LEMMA Draining ==
  ASSUME TypeOK, DrainRx
  PROVE  /\ rxBufCnt' \in 0 .. RxBufSize
         /\ rxFifo' = 0 /\ rxFifo' \in 0 .. FifoLen
         /\ rxDone' = (rxDone \/ idle) /\ rxDone' \in BOOLEAN
         /\ ~idle' /\ idle' \in BOOLEAN
<1> DEFINE a == rxBufCnt + rxFifo
<1>1. rxBufCnt \in Nat /\ rxFifo \in Nat
  BY Lengths DEF TypeOK
<1>2. a \in Nat /\ RxBufSize \in Nat
  BY <1>1, Lengths
<1>3. rxBufCnt' = Min({a, RxBufSize})
  BY DEF DrainRx
<1>4. rxBufCnt' \in 0 .. RxBufSize
  <2> HIDE DEF a
  <2>1. Min({a, RxBufSize}) = IF a <= RxBufSize THEN a ELSE RxBufSize
    BY <1>2, MinOfTwo
  <2> QED
    BY <1>2, <1>3, <2>1
<1>5. rxFifo' = 0 /\ rxDone' = (rxDone \/ idle) /\ idle' = FALSE
  BY DEF DrainRx
<1>6. rxFifo' \in 0 .. FifoLen
  BY <1>5, Lengths
<1> QED
  BY <1>4, <1>5, <1>6

LEMMA TypeInit == Init => TypeInv
<1> SUFFICES ASSUME Init PROVE TypeInv
  OBVIOUS
<1>1. <<>> \in Seq(Nat) /\ Len(<<>>) <= FifoLen /\ Len(<<>>) <= 1
  BY SizesAssumption
<1>2. 0 \in 0 .. RxBufSize /\ 0 \in 0 .. FifoLen /\ 0 \in Nat
  BY SizesAssumption
<1>3. /\ at \in Statements /\ len \in Lens \cup {0} /\ txBufSize \in Lens \cup {0}
      /\ txftie \in BOOLEAN /\ rxDone \in BOOLEAN /\ idle \in BOOLEAN /\ owed \in BOOLEAN
      /\ rxLine = "quiet"
  BY DEF Init, Statements
<1>4. /\ txBufCnt = 0 /\ rxBufCnt = 0 /\ left = 0 /\ rxFifo = 0
      /\ txFifo = <<>> /\ shifting = <<>> /\ out = <<>>
  BY DEF Init
<1> QED
  BY <1>1, <1>2, <1>3, <1>4 DEF TypeInv, TypeOK

\* Every step keeps the types.
LEMMA TypeStep == TypeInv /\ [Next]_vars => TypeInv'
<1> SUFFICES ASSUME TypeInv, [Next]_vars PROVE TypeInv'
  OBVIOUS
<1> USE DEF TypeInv
<1>l. FifoLen \in Nat \ {0} /\ Lens \subseteq Nat /\ ReplyLens \subseteq Nat \ {0}
  BY SizesAssumption
<1>1. CASE Handler
  <2>1. TypeOK /\ DrainRx /\ FillTx
    BY <1>1 DEF Handler
  <2>2. /\ rxBufCnt' \in 0 .. RxBufSize /\ rxFifo' \in 0 .. FifoLen
        /\ rxDone' \in BOOLEAN /\ idle' \in BOOLEAN
    BY <2>1, Draining
  <2>3. /\ txFifo' \in Seq(Nat) /\ Len(txFifo') <= FifoLen
        /\ txBufCnt' \in Nat /\ txBufSize' \in Lens \cup {0} /\ txftie' \in BOOLEAN
    <3>1. CASE UNCHANGED <<txFifo, txBufCnt, txBufSize, txftie>>
      BY <3>1 DEF TypeOK
    <3>2. ASSUME NEW n \in Nat \ {0}, n <= FifoLen - Len(txFifo),
                 txFifo' = txFifo \o [i \in 1 .. n |-> txBufCnt + i],
                 txBufCnt' = txBufCnt + n,
                 \/ txBufCnt' = txBufSize /\ txftie' = FALSE /\ txBufSize' = 0
                 \/ txBufCnt' # txBufSize /\ UNCHANGED <<txftie, txBufSize>>
          PROVE  /\ txFifo' \in Seq(Nat) /\ Len(txFifo') <= FifoLen
                 /\ txBufCnt' \in Nat /\ txBufSize' \in Lens \cup {0}
      <4> DEFINE more == [i \in 1 .. n |-> txBufCnt + i]
      <4>1. txBufCnt \in Nat /\ n \in Nat /\ txFifo \in Seq(Nat) /\ Len(txFifo) \in Nat
        BY <2>1, Lengths DEF TypeOK
      <4>2. more \in Seq(Nat) /\ Len(more) = n
        BY <4>1, Slice
      <4>3. txFifo' = txFifo \o more
        BY <3>2
      <4> HIDE DEF more
      <4>4. txFifo' \in Seq(Nat) /\ Len(txFifo') = Len(txFifo) + n
        BY <4>1, <4>2, <4>3, ConcatProperties
      <4>5. Len(txFifo') <= FifoLen
        BY <1>l, <3>2, <4>1, <4>4
      <4>6. txBufCnt' \in Nat
        BY <3>2, <4>1
      <4>7. txBufSize' \in Lens \cup {0}
        BY <3>2 DEF TypeOK
      <4> QED
        BY <4>4, <4>5, <4>6, <4>7
    <3>3. txftie' \in BOOLEAN
      BY <2>1, Feeding DEF TypeOK
    <3> QED
      BY <2>1, <3>1, <3>2, <3>3, Feeding
  <2> QED
    BY <1>1, <2>2, <2>3 DEF Handler, TypeOK, Statements
<1>2. ASSUME NEW n \in Lens, Send(n)
      PROVE  TypeInv'
  <2>1. <<>> \in Seq(Nat)
    OBVIOUS
  <2> QED
    BY <1>2, <2>1 DEF Send, GoTo, TypeOK, Statements, rx
<1>3. CASE Free
  BY <1>3 DEF Free, GoTo, TypeOK, Statements, tx, rx, uart
<1>4. CASE SendSize
  BY <1>4 DEF SendSize, GoTo, TypeOK, Statements, rx, uart
<1>5. CASE SendCount
  BY <1>5 DEF SendCount, GoTo, TypeOK, Statements, rx, uart
<1>6. CASE SendEnable
  BY <1>6 DEF SendEnable, GoTo, TypeOK, Statements, rx, uart
<1>7. CASE FreeClear
  <2>1. 0 \in 0 .. RxBufSize
    BY SizesAssumption
  <2> QED
    BY <1>7, <2>1 DEF FreeClear, GoTo, TypeOK, Statements, tx, uart
<1>8. CASE FreeDone
  BY <1>8 DEF FreeDone, GoTo, TypeOK, Statements, tx, uart
<1>9. CASE ShiftIn
  <2>1. txFifo \in Seq(Nat) /\ txFifo # <<>> /\ Len(txFifo) \in Nat /\ Len(txFifo) <= FifoLen
    BY <1>9, Lengths DEF ShiftIn, TypeOK
  <2>2. Head(txFifo) \in Nat /\ Tail(txFifo) \in Seq(Nat) /\ Len(Tail(txFifo)) = Len(txFifo) - 1
    BY <2>1, HeadAndTail
  <2>3. Len(Tail(txFifo)) <= FifoLen
    BY <1>l, <2>1, <2>2
  <2>4. <<Head(txFifo)>> \in Seq(Nat) /\ Len(<<Head(txFifo)>>) <= 1
    BY <2>2
  <2> QED
    BY <1>9, <2>2, <2>3, <2>4 DEF ShiftIn, TypeOK, tx, rx
<1>10. CASE ShiftOut
  <2>1. out \o shifting \in Seq(Nat) /\ <<>> \in Seq(Nat) /\ Len(<<>>) <= 1
    BY DEF TypeOK
  <2> QED
    BY <1>10, <2>1 DEF ShiftOut, TypeOK, tx, rx
<1>11. ASSUME NEW n \in ReplyLens, RxFrame(n)
       PROVE  TypeInv'
  <2>1. n \in Nat /\ n > 0
    BY <1>l
  <2> QED
    BY <1>11, <2>1 DEF RxFrame, TypeOK, tx, rx
<1>12. CASE RxByte
  <2>1. left \in Nat /\ left > 0 /\ rxFifo \in 0 .. FifoLen /\ rxFifo # FifoLen
    BY <1>12 DEF RxByte, Pending, TypeOK
  <2>2. left' = left - 1 /\ rxFifo' = rxFifo + 1
    BY <1>12 DEF RxByte
  <2>3. left' \in Nat /\ rxFifo' \in 0 .. FifoLen
    BY <1>l, <2>1, <2>2
  <2> QED
    BY <1>12, <2>3 DEF RxByte, TypeOK, tx, rx
<1>13. CASE RxNext
  BY <1>13 DEF RxNext, TypeOK, tx, rx
<1>14. CASE RxIdle
  BY <1>14 DEF RxIdle, TypeOK, tx, rx
<1>15. CASE UNCHANGED vars
  BY <1>15 DEF vars, tx, rx, uart, TypeOK
<1> QED
  BY <1>1, <1>2, <1>3, <1>4, <1>5, <1>6, <1>7, <1>8, <1>9, <1>10, <1>11, <1>12, <1>13,
     <1>14, <1>15 DEF Next, Call, Rest, Line

\* Whatever the line carries and whenever: no index leaves its buffer, no
\* FIFO holds more than it is deep (TypeOK, RS485.hpp:135-171).
THEOREM TypeCorrect == Spec => []TypeOK
<1>1. TypeInv => TypeOK
  BY DEF TypeInv
<1> QED
  BY <1>1, TypeInit, TypeStep, PTL DEF Spec

-----------------------------------------------------------------------------
(* What goes out                                                             *)

\* Outside the loop's own statement no interrupt is pending.
LEMMA Undisturbed ==
  ASSUME Inv, Pending
  PROVE  at = "loop" /\ (txftie => ~Answering)
<1>1. FifoLen # 0 /\ at \in Statements
  BY SizesAssumption DEF Inv, TypeInv, TypeOK
<1>2. at \notin Starting
  BY <1>1 DEF Inv, Fed, Answered, Answering, Pending
<1>3. at \notin {"clear", "done"}
  BY <1>1 DEF Inv, Fed, Answered, Answering, Pending
<1>4. txftie => ~Answering
  BY DEF Inv, Answered
<1> QED
  BY <1>1, <1>2, <1>3, <1>4 DEF Statements, Starting

\* The handler appends to what the UART was given, and only what send enabled.
LEMMA HandlerFeeds ==
  ASSUME Inv, Handler
  PROVE  InOrder' /\ Fed'
<1>1. TypeOK /\ Pending /\ DrainRx /\ FillTx /\ UNCHANGED <<at, len, shifting, out>>
  BY DEF Inv, TypeInv, Handler
<1>2. at = "loop" /\ at' = "loop"
  BY <1>1, Undisturbed
<1>3. CASE UNCHANGED <<txFifo, txBufCnt, txBufSize, txftie>>
  <2>1. UNCHANGED <<at, len, txBufSize, txBufCnt, txftie, txFifo, shifting, out>>
    BY <1>1, <1>3
  <2> QED
    BY <2>1 DEF Inv, InOrder, Fed, Given
<1>4. ASSUME NEW n \in Nat \ {0}, n <= txBufSize - txBufCnt,
             txFifo' = txFifo \o [i \in 1 .. n |-> txBufCnt + i],
             txBufCnt' = txBufCnt + n,
             \/ txBufCnt' = txBufSize /\ txftie' = FALSE /\ txBufSize' = 0
             \/ txBufCnt' # txBufSize /\ UNCHANGED <<txftie, txBufSize>>
      PROVE  InOrder' /\ Fed'
  <2> DEFINE more == [i \in 1 .. n |-> txBufCnt + i]
             before == out \o shifting
  <2>1. /\ Given \in Nat /\ len \in Nat /\ txBufSize \in Nat /\ txBufCnt \in Nat /\ n \in Nat
        /\ Len(out) \in Nat /\ Len(shifting) \in Nat /\ Len(txFifo) \in Nat
    BY <1>1, Lengths
  <2>2. txftie
    <3>1. ~txftie => txBufSize = 0
      BY <1>2 DEF Inv, Fed, Starting
    <3>2. txBufSize # 0
      BY <1>4, <2>1
    <3> QED
      BY <3>1, <3>2
  <2>3. txBufSize = len /\ txBufCnt = Given /\ Given < len
    BY <2>2 DEF Inv, Fed
  <2>4. /\ out \in Seq(Nat) /\ shifting \in Seq(Nat) /\ txFifo \in Seq(Nat)
        /\ more \in Seq(Nat) /\ Len(more) = n
    BY <1>1, <2>1, Slice DEF TypeOK
  <2>5. txFifo' = txFifo \o more
    BY <1>4
  <2>6. Numbers(Given) \o more = Numbers(Given + n)
    BY <2>1, <2>3, SliceContinues
  <2> HIDE DEF more
  <2>7. before \in Seq(Nat)
    BY <2>4
  <2>8. before \o txFifo = Numbers(Given)
    BY DEF Inv, InOrder
  <2> HIDE DEF before
  <2>9. Len(txFifo') = Len(txFifo) + n
    BY <2>4, <2>5, ConcatProperties
  <2>10. Given' = Given + n
    <3>1. Given' = Len(out) + Len(shifting) + Len(txFifo')
      BY <1>1 DEF Given
    <3> QED
      BY <2>1, <2>9, <3>1 DEF Given
  <2>11. InOrder'
    <3>1. before \o txFifo' = (before \o txFifo) \o more
      <4>1. txFifo \in Seq(Nat) /\ more \in Seq(Nat)
        BY <2>4
      <4>2. (before \o txFifo) \o more = before \o (txFifo \o more)
        BY <2>7, <4>1, Associative
      <4> QED
        BY <2>5, <4>2
    <3>2. (out \o shifting \o txFifo)' = before \o txFifo'
      BY <1>1 DEF before
    <3>3. Numbers(Given)' = Numbers(Given + n)
      BY <2>10 DEF Numbers
    <3> QED
      BY <2>6, <2>8, <3>1, <3>2, <3>3 DEF InOrder
  <2>12. txBufCnt' = Given' /\ len' = len /\ Given' <= len
    BY <1>1, <1>4, <2>1, <2>3, <2>10
  <2>13. CASE txBufCnt' = txBufSize /\ txftie' = FALSE /\ txBufSize' = 0
    <3>1. at' = "loop" /\ txftie' = FALSE /\ txBufSize' = 0
      BY <1>2, <2>13
    <3>2. txBufCnt' = len' /\ Given' = len'
      BY <2>3, <2>12, <2>13
    <3>3. Fed'
      BY <3>1, <3>2 DEF Fed, Starting
    <3> QED
      BY <2>11, <3>3
  <2>14. CASE txBufCnt' # txBufSize /\ UNCHANGED <<txftie, txBufSize>>
    <3>1. Given' < len
      BY <2>1, <2>3, <2>10, <2>12, <2>14
    <3>2. at' = "loop" /\ txftie' /\ txBufSize' = len' /\ Given' < len'
      BY <1>2, <2>2, <2>3, <2>12, <2>14, <3>1
    <3>3. Fed'
      BY <2>12, <3>2 DEF Fed, Starting
    <3> QED
      BY <2>11, <3>3
  <2> QED
    BY <1>4, <2>11, <2>13, <2>14
<1> QED
  BY <1>1, <1>3, <1>4, Feeding

\* With nothing given, nothing is out of order.
LEMMA NothingGiven ==
  ASSUME out = <<>>, shifting = <<>>, txFifo = <<>>
  PROVE  Given = 0 /\ InOrder
<1>1. Given = 0
  BY DEF Given
<1>2. <<>> \o <<>> \o <<>> = [i \in 1 .. 0 |-> i]
  <2>1. <<>> \in Seq(Nat)
    OBVIOUS
  <2>2. <<>> \o <<>> \o <<>> = <<>>
    BY <2>1, ConcatEmptySeq
  <2>3. [i \in 1 .. 0 |-> i] = <<>>
    OBVIOUS
  <2> QED
    BY <2>2, <2>3
<1> QED
  BY <1>1, <1>2 DEF InOrder, Numbers

\* Every step keeps the order, and the account of what was fed.
LEMMA SendingStep ==
  ASSUME Inv, [Next]_vars
  PROVE  InOrder' /\ Fed'
<1>t. /\ out \in Seq(Nat) /\ shifting \in Seq(Nat) /\ txFifo \in Seq(Nat)
      /\ Len(out) \in Nat /\ Len(shifting) \in Nat /\ Len(txFifo) \in Nat
      /\ len \in Nat /\ Given \in Nat
  <2>1. TypeOK
    BY DEF Inv, TypeInv
  <2> QED
    BY <2>1, Lengths DEF TypeOK
<1>1. CASE Handler
  BY <1>1, HandlerFeeds
<1>2. ASSUME NEW n \in Lens, Send(n)
      PROVE  InOrder' /\ Fed'
  <2>1. /\ at = "loop" /\ ~Pending /\ Complete /\ at' = "size"
        /\ UNCHANGED <<txBufSize, txBufCnt, txftie, txFifo, shifting>>
        /\ len' = n /\ out' = <<>>
    BY <1>2 DEF Send, From, GoTo, IsBusy
  <2>2. ~txftie
    BY <2>1 DEF Pending, Complete
  <2>3. txBufSize = 0
    BY <2>1, <2>2 DEF Inv, Fed, Starting
  <2>4. out' = <<>> /\ shifting' = <<>> /\ txFifo' = <<>>
    BY <2>1 DEF Complete
  <2>5. Given' = 0 /\ InOrder'
    <3>1. Len(<<>>) = 0 /\ <<>> \o <<>> \o <<>> = Numbers(0)
      <4>1. <<>> \in Seq(Nat)
        OBVIOUS
      <4>2. <<>> \o <<>> \o <<>> = <<>>
        BY <4>1, ConcatEmptySeq
      <4>3. Numbers(0) = <<>>
        BY DEF Numbers
      <4> QED
        BY <4>2, <4>3
    <3>2. Given' = 0
      BY <2>4, <3>1 DEF Given
    <3>3. Numbers(Given)' = Numbers(0)
      BY <3>2 DEF Numbers
    <3>4. (out \o shifting \o txFifo)' = <<>> \o <<>> \o <<>>
      BY <2>4
    <3> QED
      BY <3>1, <3>2, <3>3, <3>4 DEF InOrder
  <2>6. Fed'
    BY <2>1, <2>2, <2>3, <2>5 DEF Fed, Starting
  <2> QED
    BY <2>5, <2>6
<1>k. ASSUME UNCHANGED <<out, shifting, txFifo>>
      PROVE  InOrder' /\ Given' = Given
  BY <1>k DEF Inv, InOrder, Given, Numbers
<1>3. CASE Free
  <2>1. /\ at = "loop" /\ at' = "clear" /\ rxDone
        /\ UNCHANGED <<len, txBufSize, txBufCnt, txftie, out, shifting, txFifo>>
    BY <1>3 DEF Free, From, GoTo, Available, tx, uart
  <2>2. ~txftie
    BY <2>1 DEF Inv, Answered, Answering
  <2>3. txBufSize = 0 /\ txBufCnt = len /\ Given = len
    BY <2>1, <2>2 DEF Inv, Fed, Starting
  <2> QED
    BY <1>k, <2>1, <2>2, <2>3 DEF Fed, Starting
<1>4. CASE SendSize
  <2>1. /\ at = "size" /\ at' = "count" /\ txBufSize' = len
        /\ UNCHANGED <<len, txBufCnt, txftie, out, shifting, txFifo>>
    BY <1>4 DEF SendSize, From, GoTo, uart
  <2> QED
    BY <1>k, <2>1 DEF Inv, Fed, Starting
<1>5. CASE SendCount
  <2>1. /\ at = "count" /\ at' = "enable" /\ txBufCnt' = 0
        /\ UNCHANGED <<len, txBufSize, txftie, out, shifting, txFifo>>
    BY <1>5 DEF SendCount, From, GoTo, uart
  <2> QED
    BY <1>k, <2>1 DEF Inv, Fed, Starting
<1>6. CASE SendEnable
  <2>1. /\ at = "enable" /\ at' = "loop" /\ txftie' = TRUE
        /\ UNCHANGED <<len, txBufSize, txBufCnt, out, shifting, txFifo>>
    BY <1>6 DEF SendEnable, From, GoTo, uart
  <2>2. txBufSize = len /\ txBufCnt = 0 /\ Given = 0 /\ len \in Lens
    BY <2>1 DEF Inv, Fed, Starting
  <2>3. len > 0
    BY <2>2, SizesAssumption
  <2> QED
    BY <1>k, <2>1, <2>2, <2>3 DEF Fed, Starting
<1>7. CASE FreeClear \/ FreeDone
  <2>1. /\ at \in {"clear", "done"} /\ at' \in {"done", "loop"}
        /\ UNCHANGED <<len, txBufSize, txBufCnt, txftie, out, shifting, txFifo>>
    BY <1>7 DEF FreeClear, FreeDone, From, GoTo, tx, uart
  <2>2. ~txftie
    BY <2>1 DEF Inv, Fed
  <2> QED
    BY <1>k, <2>1, <2>2 DEF Inv, Fed, Starting
<1>8. CASE ShiftIn
  <2>1. /\ shifting = <<>> /\ txFifo # <<>> /\ out' = out
        /\ shifting' = <<Head(txFifo)>> /\ txFifo' = Tail(txFifo)
        /\ UNCHANGED <<at, len, txBufSize, txBufCnt, txftie>>
    BY <1>8 DEF ShiftIn, tx
  <2> DEFINE h == <<Head(txFifo)>>
             t == Tail(txFifo)
  <2>2. /\ h \in Seq(Nat) /\ Len(h) = 1 /\ t \in Seq(Nat)
        /\ Len(t) = Len(txFifo) - 1 /\ h \o t = txFifo
    BY <1>t, <2>1, HeadAndTail
  <2>3. shifting' = h /\ txFifo' = t
    BY <2>1
  <2> HIDE DEF h, t
  <2>4. Given' = Given
    <3>1. Len(shifting) = 0
      BY <2>1
    <3>2. Given' = Len(out) + 1 + (Len(txFifo) - 1)
      BY <2>1, <2>2, <2>3 DEF Given
    <3> QED
      BY <1>t, <3>1, <3>2 DEF Given
  <2>5. (out \o h) \o t = out \o txFifo
    <3>1. out \in Seq(Nat) /\ h \in Seq(Nat) /\ t \in Seq(Nat)
      BY <1>t, <2>2
    <3>2. (out \o h) \o t = out \o (h \o t)
      BY <3>1, Associative
    <3> QED
      BY <2>2, <3>2
  <2>6. out \o shifting = out
    BY <1>t, <2>1, ConcatEmptySeq
  <2>7. InOrder'
    <3>1. (out \o shifting \o txFifo)' = (out \o h) \o t
      BY <2>1, <2>3
    <3>2. Numbers(Given)' = Numbers(Given)
      BY <2>4 DEF Numbers
    <3> QED
      BY <2>5, <2>6, <3>1, <3>2 DEF Inv, InOrder
  <2>8. Fed'
    BY <2>1, <2>4 DEF Inv, Fed
  <2> QED
    BY <2>7, <2>8
<1>9. CASE ShiftOut
  <2>1. /\ shifting' = <<>> /\ out' = out \o shifting /\ txFifo' = txFifo
        /\ UNCHANGED <<at, len, txBufSize, txBufCnt, txftie>>
    BY <1>9 DEF ShiftOut, tx
  <2> DEFINE o == out \o shifting
  <2>2. o \in Seq(Nat) /\ Len(o) = Len(out) + Len(shifting) /\ o \o <<>> = o
    BY <1>t, ConcatProperties, ConcatEmptySeq
  <2>3. out' = o
    BY <2>1
  <2>4. o \o txFifo = Numbers(Given)
    BY DEF Inv, InOrder
  <2> HIDE DEF o
  <2>5. Given' = Given
    <3>1. Len(<<>>) = 0
      OBVIOUS
    <3>2. Given' = Len(out) + Len(shifting) + 0 + Len(txFifo)
      BY <2>1, <2>2, <2>3, <3>1 DEF Given
    <3> QED
      BY <1>t, <3>2 DEF Given
  <2>6. InOrder'
    <3>1. (out \o shifting \o txFifo)' = o \o txFifo
      BY <2>1, <2>2, <2>3
    <3>2. Numbers(Given)' = Numbers(Given)
      BY <2>5 DEF Numbers
    <3> QED
      BY <2>4, <3>1, <3>2 DEF InOrder
  <2>7. Fed'
    BY <2>1, <2>5 DEF Inv, Fed
  <2> QED
    BY <2>6, <2>7
<1>10. CASE (\E n \in ReplyLens : RxFrame(n)) \/ RxByte \/ RxNext \/ RxIdle \/ UNCHANGED vars
  <2>1. UNCHANGED <<at, len, txBufSize, txBufCnt, txftie, out, shifting, txFifo>>
    BY <1>10 DEF RxFrame, RxByte, RxNext, RxIdle, vars, tx, uart
  <2> QED
    BY <1>k, <2>1 DEF Inv, Fed
<1> QED
  BY <1>1, <1>2, <1>3, <1>4, <1>5, <1>6, <1>7, <1>8, <1>9, <1>10 DEF Next, Call, Rest, Line

-----------------------------------------------------------------------------
(* What comes in                                                             *)

\* Every step keeps the account of an answer, when slaves answer in time.
LEMMA AnsweringStep ==
  ASSUME Unsolicited = FALSE, Inv, [Next]_vars
  PROVE  Answered'
<1>1. CASE Handler
  <2>1. /\ TypeOK /\ Pending /\ DrainRx /\ FillTx
        /\ UNCHANGED <<at, len, shifting, out, rxLine, left, owed>>
    BY <1>1 DEF Inv, TypeInv, Handler
  <2>2. at = "loop" /\ at' = "loop"
    BY <2>1, Undisturbed
  <2>3. rxFifo' = 0 /\ rxDone' = (rxDone \/ idle) /\ ~idle'
    BY <2>1, Draining
  <2>4. CASE Answering
    <3>1. ~txftie /\ txBufSize = 0 /\ txBufCnt \in Nat /\ Complete
      <4>1. ~txftie /\ Complete
        BY <2>4 DEF Inv, Answered
      <4> QED
        BY <2>1, <2>2, <4>1, Lengths DEF Inv, Fed, Starting
    <3>2. UNCHANGED <<txFifo, txftie>>
      <4>1. ASSUME NEW n \in Nat \ {0}
            PROVE  ~(n <= txBufSize - txBufCnt)
        BY <3>1
      <4> QED
        BY <2>1, <4>1, Feeding
    <3>3. Complete' /\ ~txftie'
      BY <2>1, <3>1, <3>2 DEF Complete
    <3>4. owed' => rxLine' = "quiet" /\ ~idle' /\ ~rxDone'
      BY <2>1, <2>3 DEF Inv, Answered
    <3>5. idle' \/ rxDone' => rxLine' = "quiet"
      BY <2>1, <2>3 DEF Inv, Answered
    <3>6. rxLine' = "quiet" /\ rxBufCnt' > 0 => rxDone'
      <4>1. CASE idle \/ rxDone
        BY <2>3, <4>1
      <4>2. CASE ~idle /\ ~rxDone /\ rxLine = "quiet"
        <5>1. rxFifo = 0 /\ FifoLen # 0
          BY <4>2, SizesAssumption DEF Inv, Answered
        <5> QED
          BY <2>1, <3>1, <4>2, <5>1 DEF Pending
      <4> QED
        BY <2>1, <4>1, <4>2
    <3> QED
      BY <2>2, <2>3, <3>3, <3>4, <3>5, <3>6 DEF Answered, Starting
  <2>5. CASE ~Answering
    <3>1. ~owed' /\ rxLine' = "quiet" /\ ~rxDone' /\ ~idle'
      BY <2>1, <2>3, <2>5 DEF Answering
    <3>2. rxBufCnt' = 0
      <4>1. rxFifo = 0 /\ rxBufCnt \in Nat /\ ~(rxBufCnt > 0)
        BY <2>1, <2>5 DEF Inv, Answered, Answering, TypeOK
      <4>2. rxBufCnt + rxFifo = 0
        BY <4>1
      <4>3. RxBufSize \in Nat
        BY SizesAssumption
      <4>4. Min({0, RxBufSize}) = 0
        BY <4>3, MinOfTwo
      <4> QED
        BY <2>1, <4>2, <4>4 DEF DrainRx
    <3>3. ~Answering'
      BY <3>1 DEF Answering
    <3>4. ~(rxBufCnt' > 0)
      BY <3>2
    <3> QED
      BY <2>2, <2>3, <3>1, <3>3, <3>4 DEF Answered
  <2> QED
    BY <2>4, <2>5
<1>2. ASSUME NEW n \in Lens, Send(n)
      PROVE  Answered'
  <2>1. /\ at' = "size" /\ ~Pending /\ rxLine = "quiet" /\ ~rxDone /\ ~owed'
        /\ UNCHANGED <<rxBufCnt, rxDone, rxLine, rxFifo, idle>>
    BY <1>2 DEF Send, From, GoTo, rx
  <2>2. ~idle
    BY <2>1 DEF Pending
  <2>3. ~Answering'
    BY <2>1, <2>2 DEF Answering
  <2> QED
    BY <2>1, <2>2, <2>3 DEF Inv, Answered
<1>3. CASE Free
  <2>1. /\ at = "loop" /\ at' = "clear" /\ rxDone /\ ~Pending
        /\ UNCHANGED <<txftie, rxBufCnt, rxDone, txFifo, shifting, rxLine, rxFifo, idle, owed>>
    BY <1>3 DEF Free, From, GoTo, Available, tx, rx, uart
  <2>2. ~idle
    BY <2>1 DEF Pending
  <2> QED
    BY <2>1, <2>2 DEF Inv, Answered, Answering, Complete, Starting
<1>4. CASE SendSize \/ SendCount \/ SendEnable
  <2>1. /\ at \in Starting /\ at' \in {"count", "enable", "loop"}
        /\ UNCHANGED <<rxBufCnt, rxDone, rxLine, rxFifo, idle, owed>>
    BY <1>4 DEF SendSize, SendCount, SendEnable, From, GoTo, Starting, rx, uart
  <2>2. ~Answering /\ ~Answering'
    BY <2>1 DEF Inv, Answered, Answering
  <2> QED
    BY <2>1, <2>2 DEF Inv, Answered, Answering
<1>5. CASE FreeClear
  <2>1. /\ at = "clear" /\ at' = "done" /\ rxBufCnt' = 0
        /\ UNCHANGED <<txftie, rxDone, txFifo, shifting, rxLine, rxFifo, idle, owed>>
    BY <1>5 DEF FreeClear, From, GoTo, tx, uart
  <2> QED
    BY <2>1 DEF Inv, Answered, Answering, Complete, Starting
<1>6. CASE FreeDone
  <2>1. /\ at = "done" /\ at' = "loop" /\ rxDone' = FALSE
        /\ UNCHANGED <<txftie, rxBufCnt, txFifo, shifting, rxLine, rxFifo, idle, owed>>
    BY <1>6 DEF FreeDone, From, GoTo, tx, uart
  <2>2. rxBufCnt = 0 /\ rxDone /\ ~idle
    BY <2>1 DEF Inv, Answered
  <2>3. rxLine = "quiet" /\ ~owed /\ rxFifo = 0
    BY <2>2 DEF Inv, Answered
  <2>4. ~Answering' /\ ~(rxBufCnt' > 0)
    BY <2>1, <2>2, <2>3 DEF Answering
  <2> QED
    BY <2>1, <2>2, <2>3, <2>4 DEF Answered
<1>7. CASE ShiftIn \/ ShiftOut
  <2>1. UNCHANGED <<at, txftie, rxBufCnt, rxDone, rxLine, rxFifo, idle>> /\ ~Complete
    BY <1>7 DEF ShiftIn, ShiftOut, tx, rx, Complete
  <2>2. ~owed /\ rxLine = "quiet" /\ ~idle /\ ~rxDone
    BY <2>1 DEF Inv, Answered, Answering
  <2>3. owed' => Complete' /\ ~txftie /\ at \notin Starting
    <3>1. CASE ShiftIn
      BY <2>2, <3>1 DEF ShiftIn
    <3>2. CASE ShiftOut
      <4>1. owed' = (txFifo = <<>>) /\ ~Pending /\ shifting' = <<>> /\ txFifo' = txFifo
        BY <3>2 DEF ShiftOut
      <4>2. at \notin Starting
        <5>1. Len(shifting) # 0
          <6>1. shifting \in Seq(Nat) /\ shifting # <<>>
            BY <3>2 DEF ShiftOut, Inv, TypeInv, TypeOK
          <6> QED
            BY <6>1
        <5>2. Given # 0
          <6>1. /\ Len(out) \in Nat /\ Len(shifting) \in Nat /\ Len(txFifo) \in Nat
            BY Lengths DEF Inv, TypeInv
          <6> QED
            BY <5>1, <6>1 DEF Given
        <5> QED
          BY <5>2 DEF Inv, Fed
      <4>3. owed' => Complete' /\ ~txftie
        BY <4>1 DEF Pending, Complete
      <4> QED
        BY <4>2, <4>3
    <3> QED
      BY <1>7, <3>1, <3>2
  <2>4. Answering' => owed'
    BY <2>1, <2>2 DEF Answering
  <2> QED
    BY <2>1, <2>2, <2>3, <2>4 DEF Inv, Answered
<1>8. ASSUME NEW n \in ReplyLens, RxFrame(n)
      PROVE  Answered'
  <2>1. /\ at = "loop" /\ owed /\ ~owed' /\ rxLine' = "byte"
        /\ UNCHANGED <<at, txftie, rxBufCnt, rxDone, txFifo, shifting, idle>>
    BY <1>8 DEF RxFrame, tx, rx
  <2>2. ~idle /\ ~rxDone /\ Complete /\ ~txftie
    BY <2>1 DEF Inv, Answered, Answering
  <2> QED
    BY <2>1, <2>2 DEF Answered, Answering, Complete, Starting
<1>9. CASE RxByte \/ RxNext
  <2>1. /\ rxLine # "quiet" /\ rxLine' # "quiet"
        /\ UNCHANGED <<at, txftie, rxBufCnt, rxDone, txFifo, shifting, idle, owed>>
    BY <1>9 DEF RxByte, RxNext, tx, rx
  <2> QED
    BY <2>1 DEF Inv, Answered, Answering, Complete
<1>10. CASE RxIdle
  <2>1. /\ rxLine # "quiet" /\ rxLine' = "quiet" /\ idle'
        /\ UNCHANGED <<at, txftie, rxBufCnt, rxDone, txFifo, shifting, owed>>
    BY <1>10 DEF RxIdle, tx, rx
  <2>2. ~owed /\ ~rxDone /\ Complete /\ ~txftie /\ at \notin Starting
    BY <2>1 DEF Inv, Answered, Answering
  <2>3. at \notin {"clear", "done"}
    BY <2>2 DEF Inv, Answered
  <2> QED
    BY <2>1, <2>2, <2>3 DEF Answered, Complete
<1>11. CASE UNCHANGED vars
  BY <1>11 DEF vars, tx, rx, uart, Inv, Answered, Answering, Complete
<1> QED
  BY <1>1, <1>2, <1>3, <1>4, <1>5, <1>6, <1>7, <1>8, <1>9, <1>10, <1>11
     DEF Next, Call, Rest, Line

-----------------------------------------------------------------------------
(* The theorems                                                              *)

LEMMA InvInit == Init => Inv
<1> SUFFICES ASSUME Init PROVE Inv
  OBVIOUS
<1>1. TypeInv
  BY TypeInit
<1>2. Given = 0 /\ InOrder
  BY NothingGiven DEF Init
<1>3. Fed /\ Answered
  BY <1>2 DEF Init, Fed, Answered, Answering, Complete, Starting
<1> QED
  BY <1>1, <1>2, <1>3 DEF Inv

LEMMA InvStep ==
  ASSUME Unsolicited = FALSE
  PROVE  Inv /\ [Next]_vars => Inv'
<1> SUFFICES ASSUME Inv, [Next]_vars PROVE Inv'
  OBVIOUS
<1>1. TypeInv'
  BY TypeStep DEF Inv
<1> QED
  BY <1>1, SendingStep, AnsweringStep DEF Inv

\* When slaves answer a frame in time and in one piece, a frame handed to send
\* goes out whole, in order, each byte once (RS485.hpp:91-102, 177-191).
THEOREM SentCorrect ==
  ASSUME Unsolicited = FALSE
  PROVE  Spec => []SentWhole
<1>1. Inv => SentWhole
  <2> SUFFICES ASSUME Inv PROVE SentWhole
    OBVIOUS
  <2>1. ASSUME at = "loop", Complete, ~Pending
        PROVE  Len(out) = len
    <3>1. ~txftie
      BY <2>1 DEF Pending, Complete
    <3>2. Given = len
      BY <2>1, <3>1 DEF Inv, Fed, Starting
    <3>3. Len(out) \in Nat
      BY DEF Inv, TypeInv, TypeOK
    <3>4. Given = Len(out) + 0 + 0
      <4>1. Len(shifting) = 0 /\ Len(txFifo) = 0
        BY <2>1 DEF Complete
      <4> QED
        BY <4>1 DEF Given
    <3> QED
      BY <3>2, <3>3, <3>4
  <2>2. Len(out \o shifting \o txFifo) = Given
    <3>1. out \in Seq(Nat) /\ shifting \in Seq(Nat) /\ txFifo \in Seq(Nat)
      BY DEF Inv, TypeInv, TypeOK
    <3>2. out \o shifting \in Seq(Nat) /\ Len(out \o shifting) = Len(out) + Len(shifting)
      BY <3>1, ConcatProperties
    <3> QED
      BY <3>1, <3>2, ConcatProperties DEF Given
  <2>3. out \o shifting \o txFifo = [i \in 1 .. Len(out \o shifting \o txFifo) |-> i]
    BY <2>2 DEF Inv, InOrder, Numbers
  <2> QED
    BY <2>1, <2>3 DEF SentWhole
<1> QED
  BY <1>1, InvInit, InvStep, PTL DEF Spec

\* Under the same assumption: what is in the receive buffer when the line is
\* quiet is announced by rxDone (RS485.hpp:152-172).
THEOREM ReceivedCorrect ==
  ASSUME Unsolicited = FALSE
  PROVE  Spec => []ReceivedAnnounced
<1>1. Inv => ReceivedAnnounced
  BY DEF Inv, Answered, ReceivedAnnounced
<1> QED
  BY <1>1, InvInit, InvStep, PTL DEF Spec
-----------------------------------------------------------------------------
(* The driver is a serial port                                               *)

OnLine   == IF Transmitting THEN len ELSE 0
Heard    == IF Transmitting THEN <<>> ELSE out
HandedUp == IF rxDone THEN rxBufCnt ELSE 0
PortView == <<OnLine, Heard, Expected, HandedUp>>

PortStep == [Port!Next]_(Port!vars)

\* A frame under way has bytes that will be handed up; a quiet line has none left.
Receiving == rxLine # "quiet" \/ idle
PortOK == /\ Receiving => Expected # 0
          /\ rxLine = "quiet" => left = 0

Cut(n) == IF n <= RxBufSize THEN n ELSE RxBufSize

\* A step the main loop does not see.
LEMMA Unseen ==
  ASSUME PortOK, UNCHANGED PortView, Receiving' => Receiving, rxLine' = "quiet" => left' = 0
  PROVE  PortStep /\ PortOK'
BY DEF PortStep, PortOK, PortView, OnLine, Heard, HandedUp, Port!vars

\* What is expected, without the minimum of a set.
LEMMA ExpectedIs ==
  ASSUME TypeOK
  PROVE  /\ Expected = IF rxLine # "quiet" \/ idle THEN Cut(rxBufCnt + rxFifo + left) ELSE 0
         /\ rxBufCnt \in Nat /\ rxFifo \in Nat /\ left \in Nat /\ RxBufSize \in Nat \ {0}
<1>1. rxBufCnt \in Nat /\ rxFifo \in Nat /\ left \in Nat /\ RxBufSize \in Nat \ {0}
  BY SizesAssumption DEF TypeOK
<1>2. Min({rxBufCnt + rxFifo + left, RxBufSize}) = Cut(rxBufCnt + rxFifo + left)
  BY <1>1, MinOfTwo DEF Cut
<1> QED
  BY <1>1, <1>2 DEF Expected

LEMMA ExpectedNext ==
  ASSUME TypeOK'
  PROVE  /\ Expected' = IF rxLine' # "quiet" \/ idle'
                        THEN Cut(rxBufCnt' + rxFifo' + left') ELSE 0
         /\ rxBufCnt' \in Nat /\ rxFifo' \in Nat /\ left' \in Nat
<1>1. rxBufCnt' \in Nat /\ rxFifo' \in Nat /\ left' \in Nat /\ RxBufSize \in Nat \ {0}
  BY SizesAssumption DEF TypeOK
<1>2. PICK n \in Nat : n = rxBufCnt' + rxFifo' + left'
  <2>1. \A a, b, c \in Nat : \E n \in Nat : n = a + b + c
    OBVIOUS
  <2> QED
    BY <1>1, <2>1
<1>3. Min({n, RxBufSize}) = Cut(n)
  BY <1>1, MinOfTwo DEF Cut
<1>4. Expected' = IF rxLine' # "quiet" \/ idle'
                  THEN Min({rxBufCnt' + rxFifo' + left', RxBufSize}) ELSE 0
  BY DEF Expected
<1> QED
  BY <1>1, <1>2, <1>3, <1>4

\* While the line is quiet and was found so, and nothing is announced, the
\* receiver is empty.
LEMMA NothingReceived ==
  ASSUME Inv, rxLine = "quiet", ~idle, ~rxDone
  PROVE  rxBufCnt = 0 /\ rxFifo = 0 /\ Expected = 0 /\ HandedUp = 0
<1>1. rxBufCnt \in Nat /\ Expected = 0
  BY ExpectedIs DEF Inv, TypeInv
<1>2. ~(rxBufCnt > 0) /\ rxFifo = 0
  BY DEF Inv, Answered
<1> QED
  BY <1>1, <1>2 DEF HandedUp

\* Draining the FIFO early changes nothing: what did not fit then would not fit
\* later.
LEMMA CutTwice ==
  ASSUME NEW a \in Nat, NEW b \in Nat
  PROVE  /\ Cut(Cut(a) + 0 + b) = Cut(a + b)
         /\ Cut(a) = Cut(a + 0)
BY SizesAssumption DEF Cut

\* An enabled interrupt is switched off only with bytes in the FIFO.
LEMMA FedOrEnabled ==
  ASSUME TypeOK, FillTx, txftie
  PROVE  txftie' \/ txFifo' # <<>>
<1>1. CASE UNCHANGED <<txFifo, txBufCnt, txBufSize, txftie>>
  BY <1>1
<1>2. ASSUME NEW n \in Nat \ {0}, txFifo' = txFifo \o [i \in 1 .. n |-> txBufCnt + i]
      PROVE  txFifo' # <<>>
  <2> DEFINE more == [i \in 1 .. n |-> txBufCnt + i]
  <2>1. txBufCnt \in Nat /\ txFifo \in Seq(Nat) /\ Len(txFifo) \in Nat
    BY Lengths DEF TypeOK
  <2>2. more \in Seq(Nat) /\ Len(more) = n
    BY <2>1, Slice
  <2>3. txFifo' = txFifo \o more
    BY <1>2
  <2> HIDE DEF more
  <2>4. Len(txFifo') = Len(txFifo) + n
    BY <2>1, <2>2, <2>3, ConcatProperties
  <2>5. Len(txFifo') # 0
    BY <2>1, <2>4
  <2> QED
    BY <2>5
<1> QED
  BY <1>1, <1>2, Feeding

LEMMA HandlerPort ==
  ASSUME Unsolicited = FALSE, Inv, Inv', PortOK, Handler
  PROVE  PortStep /\ PortOK'
<1>1. /\ TypeOK /\ TypeOK' /\ Pending /\ DrainRx /\ FillTx
      /\ UNCHANGED <<at, len, shifting, out, rxLine, left, owed>>
  BY DEF Inv, TypeInv, Handler
<1>2. at = "loop" /\ at' = "loop"
  BY <1>1, Undisturbed
<1>3. rxFifo' = 0 /\ rxDone' = (rxDone \/ idle) /\ ~idle'
  BY <1>1, Draining
<1>4. /\ rxBufCnt \in Nat /\ rxFifo \in Nat /\ left \in Nat /\ RxBufSize \in Nat \ {0}
      /\ rxBufCnt' = Cut(rxBufCnt + rxFifo)
  BY <1>1, ExpectedIs, MinOfTwo DEF DrainRx, Cut
<1>5. CASE Answering
  <2>1. ~txftie /\ Complete /\ ~txftie' /\ Complete'
    <3>1. ~txftie /\ Complete
      BY <1>5 DEF Inv, Answered
    <3>2. txBufSize = 0 /\ txBufCnt \in Nat
      BY <1>1, <1>2, <3>1, Lengths DEF Inv, Fed, Starting
    <3>3. UNCHANGED <<txFifo, txftie>>
      <4>1. ASSUME NEW n \in Nat \ {0}
            PROVE  ~(n <= txBufSize - txBufCnt)
        BY <3>2
      <4> QED
        BY <1>1, <4>1, Feeding
    <3> QED
      BY <1>1, <3>1, <3>3 DEF Complete
  <2>2. ~Transmitting /\ ~Transmitting'
    BY <1>2, <2>1 DEF Transmitting
  <2>3. OnLine = 0 /\ OnLine' = 0 /\ Heard' = Heard
    BY <1>1, <2>2 DEF OnLine, Heard
  <2>4. CASE idle
    <3>1. rxLine = "quiet" /\ left = 0 /\ Expected # 0
      BY <2>4 DEF Inv, Answered, PortOK, Receiving
    <3>2. Expected = rxBufCnt'
      BY <1>1, <1>4, <2>4, <3>1, ExpectedIs, CutTwice
    <3>3. Expected' = 0 /\ ~Receiving' /\ left' = 0
      BY <1>1, <1>3, <3>1, ExpectedNext DEF Receiving
    <3>4. HandedUp' = Expected
      BY <1>3, <2>4, <3>2 DEF HandedUp
    <3>5. Port!Answered
      BY <2>3, <3>1, <3>3, <3>4 DEF Port!Answered, OnLine, Heard, HandedUp
    <3> QED
      BY <3>3, <3>5 DEF PortStep, PortOK, Port!Next
  <2>5. CASE ~idle /\ rxLine # "quiet"
    <3>1. ~rxDone /\ ~rxDone'
      BY <1>3, <2>5 DEF Inv, Answered
    <3>2. Expected' = Cut(Cut(rxBufCnt + rxFifo) + 0 + left)
      BY <1>1, <1>3, <1>4, <2>5, ExpectedNext
    <3>3. Expected = Cut(rxBufCnt + rxFifo + left)
      BY <1>1, <2>5, ExpectedIs
    <3>4. Cut(Cut(rxBufCnt + rxFifo) + 0 + left) = Cut(rxBufCnt + rxFifo + left)
      BY <1>4, CutTwice
    <3>5. UNCHANGED PortView
      BY <2>3, <3>1, <3>2, <3>3, <3>4 DEF PortView, HandedUp
    <3> QED
      BY <1>1, <2>5, <3>5, Unseen DEF Receiving
  <2>6. CASE ~idle /\ rxLine = "quiet"
    <3>1. rxFifo = 0 /\ ~(txftie /\ txFifo = <<>>)
      BY <2>1, <2>6 DEF Inv, Answered
    <3> QED
      BY <1>1, <2>6, <3>1, SizesAssumption DEF Pending
  <2> QED
    BY <2>4, <2>5, <2>6
<1>6. CASE ~Answering
  <2>1. rxLine = "quiet" /\ ~idle /\ ~rxDone
    BY <1>6 DEF Answering
  <2>2. ~rxDone' /\ rxLine' = "quiet" /\ ~idle'
    BY <1>1, <1>3, <2>1
  <2>3. Expected' = 0 /\ HandedUp' = 0
    BY <1>1, <2>2, ExpectedNext DEF HandedUp
  <2>4. Expected = 0 /\ HandedUp = 0 /\ txftie
    BY <1>1, <2>1, NothingReceived, SizesAssumption DEF Pending
  <2>5. txftie' \/ txFifo' # <<>>
    BY <1>1, <2>4, FedOrEnabled
  <2>6. Transmitting /\ Transmitting'
    BY <2>4, <2>5 DEF Transmitting, Complete
  <2>7. UNCHANGED PortView
    BY <1>1, <2>3, <2>4, <2>6 DEF PortView, OnLine, Heard
  <2> QED
    BY <1>1, <2>1, <2>2, <2>7, Unseen DEF Receiving, PortOK
<1> QED
  BY <1>5, <1>6

LEMMA SendPort ==
  ASSUME Unsolicited = FALSE, Inv, Inv', PortOK, NEW n \in Lens, Send(n)
  PROVE  PortStep /\ PortOK'
<1>1. /\ at = "loop" /\ at' = "size" /\ ~Pending /\ ~IsBusy /\ rxLine = "quiet" /\ ~rxDone
      /\ len' = n /\ out' = <<>>
      /\ UNCHANGED <<txftie, rxBufCnt, rxDone, txFifo, shifting, rxLine, left, rxFifo, idle>>
  BY DEF Send, From, GoTo, rx
<1>2. ~idle /\ Complete /\ ~txftie
  BY <1>1 DEF Pending, IsBusy, Complete
<1>3. ~Transmitting /\ Transmitting'
  BY <1>1, <1>2 DEF Transmitting
<1>4. Expected = 0 /\ Expected' = 0
  BY <1>1, <1>2, ExpectedIs, ExpectedNext DEF Inv, TypeInv
<1>5. Port!Send(n)
  BY <1>1, <1>3, <1>4 DEF Port!Send, Port!Busy
<1>6. ~Receiving' /\ left' = 0
  BY <1>1, <1>2 DEF Receiving, PortOK
<1> QED
  BY <1>5, <1>6 DEF PortStep, PortOK, Port!Next

\* Between the statements of send, and when its interrupt is enabled, the frame
\* stays on its way.
LEMMA StartingPort ==
  ASSUME Inv, Inv', PortOK, SendSize \/ SendCount \/ SendEnable
  PROVE  PortStep /\ PortOK'
<1>1. /\ at \in Starting /\ (at' \in {"count", "enable"} \/ txftie')
      /\ UNCHANGED <<len, out, rxBufCnt, rxDone, rxLine, left, rxFifo, idle>>
  BY DEF SendSize, SendCount, SendEnable, From, GoTo, Starting, rx, uart
<1>2. Transmitting /\ Transmitting'
  BY <1>1 DEF Transmitting, Starting
<1>3. UNCHANGED PortView
  BY <1>1, <1>2 DEF PortView, OnLine, Heard, HandedUp, Expected
<1> QED
  BY <1>1, <1>3, Unseen DEF Receiving, PortOK

LEMMA FreePort ==
  ASSUME Unsolicited = FALSE, Inv, Inv', PortOK, Free \/ FreeClear \/ FreeDone
  PROVE  PortStep /\ PortOK'
<1>1. /\ at \in {"loop", "clear", "done"} /\ at' \in {"loop", "clear", "done"} /\ ~Pending
      /\ UNCHANGED <<len, txftie, txFifo, shifting, out, rxLine, left, rxFifo, idle, owed>>
  BY DEF Free, FreeClear, FreeDone, From, GoTo, tx, uart
<1>2. Transmitting' <=> Transmitting
  BY <1>1 DEF Transmitting, Complete
<1>3. rxDone /\ ~idle /\ rxLine = "quiet"
  BY <1>1 DEF Free, FreeClear, FreeDone, From, Available, Pending, Inv, Answered
<1>4. Expected = 0 /\ Expected' = 0
  BY <1>1, <1>3, ExpectedIs, ExpectedNext DEF Inv, TypeInv
<1>5. OnLine' = OnLine /\ Heard' = Heard
  BY <1>1, <1>2 DEF OnLine, Heard
<1>6. CASE HandedUp' = HandedUp
  <2>1. UNCHANGED PortView
    BY <1>4, <1>5, <1>6 DEF PortView
  <2> QED
    BY <1>1, <2>1, Unseen DEF Receiving, PortOK
<1>7. CASE HandedUp' # HandedUp
  <2>1. FreeClear
    <3>1. ~Free
      BY <1>7 DEF Free, rx, HandedUp
    <3>2. ASSUME FreeDone PROVE FALSE
      BY <1>7, <3>2 DEF FreeDone, From, HandedUp, Inv, Answered
    <3> QED
      BY <3>1, <3>2
  <2>2. rxBufCnt' = 0 /\ HandedUp' = 0
    BY <2>1 DEF FreeClear, HandedUp
  <2>3. ~Transmitting
    BY <1>1, <1>3 DEF Inv, Answered, Answering, Transmitting, Starting
  <2>4. Port!Free
    BY <1>4, <1>5, <1>7, <2>2, <2>3 DEF Port!Free, Port!Busy, OnLine, Heard, HandedUp
  <2>5. ~Receiving' /\ left' = 0
    BY <1>1, <1>3 DEF Receiving, PortOK
  <2> QED
    BY <2>4, <2>5 DEF PortStep, PortOK, Port!Next
<1> QED
  BY <1>6, <1>7

LEMMA ShiftPort ==
  ASSUME Inv, Inv', PortOK, ShiftIn \/ ShiftOut
  PROVE  PortStep /\ PortOK'
<1>1. UNCHANGED <<at, len, txftie, rxBufCnt, rxDone, rxLine, left, rxFifo, idle>> /\ ~Complete
  BY DEF ShiftIn, ShiftOut, tx, rx, Complete
<1>2. Expected' = Expected /\ HandedUp' = HandedUp /\ Transmitting
  BY <1>1 DEF Expected, HandedUp, Transmitting
<1>3. CASE Transmitting'
  <2>1. UNCHANGED PortView
    BY <1>1, <1>2, <1>3 DEF PortView, OnLine, Heard
  <2> QED
    BY <1>1, <2>1, Unseen DEF Receiving, PortOK
<1>4. CASE ~Transmitting'
  <2>1. ~txftie' /\ at' \notin Starting /\ txFifo' = <<>> /\ shifting' = <<>>
    BY <1>4 DEF Transmitting, Complete, Starting
  <2>2. Given' = len'
    BY <2>1 DEF Inv, Fed
  <2>3. out' = Numbers(len')
    <3>1. out' \in Seq(Nat)
      BY DEF Inv, TypeInv, TypeOK
    <3>2. out' \o <<>> \o <<>> = out'
      BY <3>1
    <3> QED
      BY <2>1, <2>2, <3>2 DEF Inv, InOrder
  <2>4. len # 0
    <3>1. Given = len
      BY <1>1, <2>1 DEF Inv, Fed, Starting
    <3>2. /\ Len(out) \in Nat /\ Len(shifting) \in Nat /\ Len(txFifo) \in Nat
          /\ txFifo \in Seq(Nat) /\ shifting \in Seq(Nat)
      BY Lengths DEF Inv, TypeInv, TypeOK
    <3>3. Len(shifting) # 0 \/ Len(txFifo) # 0
      BY <1>1, <3>2, EmptySeq DEF Complete
    <3> QED
      BY <3>1, <3>2, <3>3 DEF Given
  <2>5. Port!Sent
    BY <1>1, <1>2, <1>4, <2>3, <2>4 DEF Port!Sent, HandedUp, Numbers
  <2> QED
    BY <1>1, <1>2, <2>5 DEF PortStep, PortOK, Receiving, Port!Next
<1> QED
  BY <1>3, <1>4

LEMMA AnswerPort ==
  ASSUME Unsolicited = FALSE, Inv, Inv', PortOK, NEW n \in ReplyLens, RxFrame(n)
  PROVE  PortStep /\ PortOK'
<1>1. /\ at = "loop" /\ owed /\ rxLine = "quiet" /\ rxLine' = "byte" /\ left' = n
      /\ Complete /\ ~txftie
      /\ UNCHANGED <<at, len, txftie, out, rxBufCnt, rxDone, txFifo, shifting, rxFifo, idle>>
  BY DEF RxFrame, tx, rx
<1>2. ~idle /\ ~rxDone
  BY <1>1 DEF Inv, Answered
<1>3. rxBufCnt = 0 /\ rxFifo = 0 /\ Expected = 0 /\ HandedUp = 0
  BY <1>1, <1>2, NothingReceived
<1>4. ~Transmitting /\ ~Transmitting'
  BY <1>1 DEF Transmitting, Complete
<1>5. n \in Nat \ {0}
  BY SizesAssumption
<1>6. Expected' = Cut(n) /\ Cut(n) # 0
  <2>1. Expected' = Cut(0 + 0 + n)
    BY <1>1, <1>3, ExpectedNext DEF Inv, TypeInv
  <2> QED
    BY <1>5, <2>1, SizesAssumption DEF Cut
<1>7. Port!Answer(n)
  BY <1>1, <1>2, <1>3, <1>4, <1>6 DEF Port!Answer, Port!Busy, Cut
<1> QED
  BY <1>1, <1>6, <1>7 DEF PortStep, PortOK, Port!Next

\* The bytes of a frame that are still to come, in the FIFO and in the buffer.
LEMMA ReceivingPort ==
  ASSUME Unsolicited = FALSE, Inv, Inv', PortOK, RxByte \/ RxNext \/ RxIdle
  PROVE  PortStep /\ PortOK'
<1>1. /\ rxLine # "quiet" /\ (rxLine' # "quiet" \/ idle')
      /\ UNCHANGED <<at, len, txftie, txFifo, shifting, out, rxBufCnt, rxDone>>
  BY DEF RxByte, RxNext, RxIdle, tx, rx
<1>2. rxFifo' + left' = rxFifo + left /\ (rxLine' = "quiet" => left' = 0)
  <2>1. rxFifo \in Nat /\ left \in Nat
    BY ExpectedIs DEF Inv, TypeInv
  <2> QED
    BY <2>1 DEF RxByte, RxNext, RxIdle
<1>3. Expected' = Expected
  <2>1. /\ Expected = Cut(rxBufCnt + rxFifo + left)
        /\ Expected' = Cut(rxBufCnt' + rxFifo' + left')
        /\ rxBufCnt \in Nat /\ rxFifo \in Nat /\ left \in Nat
        /\ rxFifo' \in Nat /\ left' \in Nat
    BY <1>1, ExpectedIs, ExpectedNext DEF Inv, TypeInv
  <2>2. rxBufCnt' + rxFifo' + left' = rxBufCnt + rxFifo + left
    <3>1. PICK d \in Nat, e \in Nat : rxFifo' = d /\ left' = e
      BY <2>1
    <3>2. PICK a \in Nat, b \in Nat, c \in Nat : rxBufCnt = a /\ rxFifo = b /\ left = c
      BY <2>1
    <3>3. d + e = b + c
      BY <1>2, <3>1, <3>2
    <3>4. a + d + e = a + b + c
      BY <3>3
    <3>5. rxBufCnt' = a
      BY <1>1, <3>2
    <3> QED
      BY <3>1, <3>2, <3>4, <3>5
  <2> QED
    BY <2>1, <2>2
<1>4. UNCHANGED PortView
  BY <1>1, <1>3 DEF PortView, OnLine, Heard, HandedUp, Transmitting, Complete
<1> QED
  BY <1>1, <1>2, <1>4, Unseen DEF Receiving

LEMMA PortNext ==
  ASSUME Unsolicited = FALSE, Inv, Inv', PortOK, [Next]_vars
  PROVE  PortStep /\ PortOK'
<1>1. CASE UNCHANGED vars
  <2>1. UNCHANGED PortView /\ UNCHANGED <<rxLine, idle, left>>
    BY <1>1 DEF vars, tx, rx, uart, PortView, OnLine, Heard, HandedUp, Expected, Transmitting, Complete
  <2> QED
    BY <2>1, Unseen DEF Receiving, PortOK
<1> QED
  BY <1>1, HandlerPort, SendPort, StartingPort, FreePort, ShiftPort, AnswerPort, ReceivingPort
     DEF Next, Call, Rest, Line

LEMMA PortInit ==
  ASSUME Init
  PROVE  Port!Init /\ PortOK
<1>1. ~Transmitting /\ Expected = 0 /\ ~rxDone /\ out = <<>>
  BY DEF Init, Transmitting, Complete, Expected
<1> QED
  BY <1>1 DEF Init, Port!Init, PortOK, Receiving

\* When slaves speak only if asked, the driver is a half-duplex port: the
\* statements of send and freeRxBuffer and the interrupts between them
\* (RS485.hpp:91-191) never show the main loop a frame cut, merged or lost.
THEOREM PortImplemented ==
  ASSUME Unsolicited = FALSE
  PROVE  Spec => ImplementsPort
<1>1. Inv /\ Inv' /\ PortOK /\ [Next]_vars => PortOK' /\ [Port!Next]_(Port!vars)
  BY PortNext DEF PortStep
<1> QED
  BY <1>1, PortInit, InvInit, InvStep, PTL DEF Spec, ImplementsPort, Port!Spec
=============================================================================
