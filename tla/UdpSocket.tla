----------------------------- MODULE UdpSocket -----------------------------
(***************************************************************************)
(* How recvUdp gets a datagram out of the chip: EthernetUDP's parsePacket, *)
(* read and available on top of socketRecv and socketRecvAvailable, which  *)
(* keep a copy of the chip's receive registers and tell the chip of bytes  *)
(* read only now and then.  Datagrams arrive at any time.                  *)
(*                                                                         *)
(* The chip keeps a datagram behind a header with its length.  A byte is   *)
(* the datagram it is of and its position in it.  The register is read at  *)
(* the start of a call; what arrives during the rest of it changes nothing *)
(* for the call.  An operator named X_Something is X with a fault seeded   *)
(* into it.                                                                *)
(***************************************************************************)
EXTENDS Integers, Sequences, FiniteSetsExt

CONSTANTS
  Lens,    \* of datagrams
  Header,  \* length of the header: 8
  InBuf,   \* length of recvUdp's buffer
  Size,    \* of the chip's receive buffer
  Wrap,    \* 16-bit registers wrap here
  Batch,   \* Sock_RECV at so many bytes: 250
  IncWrap, \* an 8-bit count wraps here
  Tags     \* 0 .. Tags - 1 tell datagrams in the buffer apart

ASSUME SizesAssumption ==
  /\ Lens \subseteq Nat
  /\ {Header, InBuf, Size, Wrap, Batch, IncWrap, Tags} \subseteq Nat \ {0}
  /\ Size < Wrap
  /\ Batch <= IncWrap

VARIABLES
  buf, chipRd,           \* the chip's buffer from its read pointer on
  RX_RSR, RX_RD, RX_inc, \* the copy in state[s]
  remaining,             \* _remaining
  at,                    \* in recvUdp: "parse", "header", "read", "drain", "done"
  msgLength, inBuffer,
  pending, tag           \* datagrams not handled yet; the tag of the next one

chip  == <<buf, chipRd>>
copy  == <<RX_RSR, RX_RD, RX_inc>>
local == <<msgLength, inBuffer>>
sent  == <<pending, tag>>
vars  == <<chip, copy, remaining, at, local, sent>>

Datagrams == [tag : 0 .. Tags - 1, len : Lens]

BytesOf(d) == [i \in 1 .. Header + d.len |-> [of |-> d, pos |-> i]]
Data(d) == SubSeq(BytesOf(d), Header + 1, Header + Min({d.len, InBuf}))

TypeOK ==
  /\ Len(buf) <= Size
  /\ chipRd \in 0 .. Wrap - 1
  /\ RX_RSR \in 0 .. Size
  /\ RX_RD \in 0 .. Wrap - 1
  /\ RX_inc \in 0 .. IncWrap - 1
  /\ remaining \in 0 .. Size
  /\ at \in {"parse", "header", "read", "drain", "done"}
  /\ msgLength \in 0 .. Size
  /\ Len(inBuffer) <= InBuf
  /\ pending \in Seq(Datagrams)
  /\ tag \in 0 .. Tags - 1

-----------------------------------------------------------------------------
(* The chip *)

\* A datagram that does not fit is dropped.
Arrive(n) ==
  LET d == [tag |-> tag, len |-> n] IN
  /\ Len(buf) + Header + n <= Size
  /\ Len(pending) < Tags
  /\ buf' = buf \o BytesOf(d)
  /\ pending' = Append(pending, d)
  /\ tag' = (tag + 1) % Tags
  /\ UNCHANGED <<chipRd, copy, remaining, at, local>>

\* The command Sock_RECV after a write to Sn_RX_RD.
SockRecv(rd) ==
  /\ chipRd' = rd
  /\ buf' = SubSeq(buf, ((rd - chipRd) % Wrap) + 1, Len(buf))

\* What is past the received bytes is whatever was there before.
Stale == [of |-> [tag |-> 0, len |-> 0], pos |-> 0]

ReadData(ptr, n) ==
  [i \in 1 .. n |-> LET k == (ptr - chipRd + i) % Wrap IN
                    IF k \in 1 .. Len(buf) THEN buf[k] ELSE Stale]

-----------------------------------------------------------------------------
(* socket.cpp *)

\* What the chip has received and was not read yet.
Fresh == Len(buf) - RX_inc

Known(len) == IF RX_RSR < len THEN Fresh ELSE RX_RSR

Advance_NoWrap(ptr, n) == ptr + n

Advance(ptr, n) == (ptr + n) % Wrap

Taken(len) == Min({Known(len), len})

Tells_BatchOnly(inc, rest) == inc >= Batch

Tells_Late(inc, rest) == inc > IncWrap \/ rest = 0

Tells(inc, rest) == inc >= Batch \/ rest = 0

SocketRecv(len) ==
  LET n   == Taken(len)
      inc == RX_inc + n
  IN
  /\ RX_RSR' = Known(len) - n
  /\ RX_RD' = Advance(RX_RD, n)
  /\ IF n > 0 /\ Tells(inc, RX_RSR')
     THEN RX_inc' = 0 /\ SockRecv(RX_RD')
     ELSE RX_inc' = inc % IncWrap /\ UNCHANGED chip

-----------------------------------------------------------------------------
(* recvUdp *)

\* parsePacket begins: socketRecvAvailable.
ParsePacket ==
  /\ at = "parse"
  /\ RX_RSR' = (IF RX_RSR = 0 THEN Fresh ELSE RX_RSR)
  /\ at' = (IF RX_RSR' > 0 THEN "header" ELSE "parse")
  /\ UNCHANGED <<chip, RX_RD, RX_inc, remaining, local, sent>>

\* A datagram without data is not handed on.
ParseHeader ==
  LET length == ReadData(RX_RD, Header)[Header].of.len IN
  /\ at = "header"
  /\ SocketRecv(Header)
  /\ remaining' = length
  /\ msgLength' = length
  /\ IF length > 0
     THEN at' = "read" /\ UNCHANGED pending
     ELSE at' = "parse" /\ pending' = Tail(pending)
  /\ UNCHANGED <<inBuffer, tag>>

Read_PastDatagram ==
  /\ at = "read"
  /\ SocketRecv(InBuf)
  /\ inBuffer' = ReadData(RX_RD, Taken(InBuf))
  /\ remaining' = Max({0, remaining - Taken(InBuf)})
  /\ at' = "drain"
  /\ UNCHANGED <<msgLength, sent>>

Read ==
  LET len == Min({remaining, InBuf}) IN
  /\ at = "read"
  /\ SocketRecv(len)
  /\ inBuffer' = ReadData(RX_RD, Taken(len))
  /\ remaining' = remaining - Taken(len)
  /\ at' = "drain"
  /\ UNCHANGED <<msgLength, sent>>

Drain_Uncounted ==
  /\ at = "drain" /\ remaining > 0
  /\ SocketRecv(1)
  /\ UNCHANGED <<remaining, at, local, sent>>

\* while (Udp.available()) Udp.read();
Drain ==
  /\ at = "drain" /\ remaining > 0
  /\ SocketRecv(1)
  /\ remaining' = remaining - Taken(1)
  /\ UNCHANGED <<at, local, sent>>

Drained ==
  /\ at = "drain" /\ remaining = 0
  /\ at' = "done"
  /\ UNCHANGED <<chip, copy, remaining, local, sent>>

\* checkRequest has had the message.
Handled ==
  /\ at = "done"
  /\ at' = "parse"
  /\ msgLength' = 0 /\ inBuffer' = <<>>
  /\ pending' = Tail(pending)
  /\ UNCHANGED <<chip, copy, remaining, tag>>

RecvUdp == ParsePacket \/ ParseHeader \/ Read \/ Drain \/ Drained \/ Handled

-----------------------------------------------------------------------------

\* socketBegin
Init ==
  /\ buf = <<>>
  /\ chipRd \in 0 .. Wrap - 1
  /\ RX_RSR = 0 /\ RX_RD = chipRd /\ RX_inc = 0
  /\ remaining = 0
  /\ at = "parse"
  /\ msgLength = 0 /\ inBuffer = <<>>
  /\ pending = <<>> /\ tag = 0

Next == RecvUdp \/ \E n \in Lens : Arrive(n)

\* The main loop calls recvUdp again and again; nobody owes a datagram.
Fairness == WF_vars(RecvUdp)

Spec == Init /\ [][Next]_vars /\ Fairness

-----------------------------------------------------------------------------

\* "Receives Modbus UDP [...] messages, calls checkRequest()"
\* (ModbusTCP.cpp:118): checkRequest gets the datagrams one by one, in the
\* order they came in, each with its own length and its own bytes, however
\* many are in the chip's buffer and whenever they came.
DatagramsIntact ==
  at = "done" =>
    /\ pending # <<>>
    /\ msgLength = Head(pending).len
    /\ inBuffer = Data(Head(pending))

\* socketRecv (socket.cpp:304): the copy of the registers is behind the chip's
\* by the bytes the chip was not told of, and never counts bytes that have not
\* come.
CopyAgrees ==
  /\ RX_RD = (chipRd + RX_inc) % Wrap
  /\ RX_RSR + RX_inc <= Len(buf)

\* When all that came in was read the chip's whole buffer is free again.
SpaceReturned == at = "parse" /\ pending = <<>> => buf = <<>>

\* "could this fail (loop endlessly) if _remaining > 0 and recv in read fails?",
\* (EthernetUdp.cpp:102) asks a comment.  recvUdp has such a loop, too: it ends,
\* the bytes a header announces are there.
DrainEnds == at = "drain" ~> at = "parse"
=============================================================================
