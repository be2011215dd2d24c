------------------------- MODULE GatewayBookProofs -------------------------
(***************************************************************************)
(* What the gateway keeps beside its request queue agrees with the queue:  *)
(* the counters of priority requests and of requests per socket, the order *)
(* of service, the flags of slaves that failed, and whose a request is.     *)
(* For any number of clients, sockets and slaves, any frames and queues.   *)
(***************************************************************************)
EXTENDS GatewayProofs, FiniteSetTheorems, FunctionTheorems

-----------------------------------------------------------------------------
(* How many headers of a queue are in a set of headers                       *)

Places(hs, H) == {i \in 1 .. Len(hs) : hs[i] \in H}
Number(hs, H) == Cardinality(Places(hs, H))
One(h, H)     == IF h \in H THEN 1 ELSE 0

LEMMA NumberNat ==
  ASSUME NEW hs \in Seq(Headers), NEW H
  PROVE  IsFiniteSet(Places(hs, H)) /\ Number(hs, H) \in Nat
<1>1. Len(hs) \in Nat
  BY LenProperties
<1>2. IsFiniteSet(1 .. Len(hs)) /\ Places(hs, H) \in SUBSET (1 .. Len(hs))
  BY <1>1, FS_Interval DEF Places
<1>3. IsFiniteSet(Places(hs, H))
  BY <1>2, FS_Subset
<1> QED BY <1>3, FS_CardinalityType DEF Number

\* One more header counts if it is in the set.
LEMMA NumberAppend ==
  ASSUME NEW hs \in Seq(Headers), NEW h \in Headers, NEW H
  PROVE  Number(Append(hs, h), H) = Number(hs, H) + One(h, H)
<1>1. PICK n \in Nat : n = Len(hs)
  BY LenProperties
<1>2. PICK t : /\ t = Append(hs, h) /\ Len(t) = n + 1 /\ t[n + 1] = h
               /\ \A i \in 1 .. n : t[i] = hs[i]
  <2>1. /\ Len(Append(hs, h)) = Len(hs) + 1 /\ Append(hs, h)[Len(hs) + 1] = h
        /\ \A i \in 1 .. Len(hs) : Append(hs, h)[i] = hs[i]
    BY AppendProperties
  <2>2. /\ Len(Append(hs, h)) = n + 1 /\ Append(hs, h)[n + 1] = h
        /\ \A i \in 1 .. n : Append(hs, h)[i] = hs[i]
    BY <1>1, <2>1
  <2> QED BY <2>2
<1>3. IsFiniteSet(Places(hs, H)) /\ n + 1 \notin Places(hs, H)
  <2>1. n + 1 \notin 1 .. n
    BY <1>1
  <2> QED BY <1>1, <2>1, NumberNat DEF Places
<1>4. CASE h \in H
  <2>1. Places(t, H) = Places(hs, H) \cup {n + 1}
    BY <1>1, <1>2, <1>4 DEF Places
  <2>2. Cardinality(Places(t, H)) = Cardinality(Places(hs, H)) + 1
    BY <2>1, <1>3, FS_AddElement
  <2> QED BY <2>2, <1>2, <1>4 DEF Number, One
<1>5. CASE h \notin H
  <2>1. Places(t, H) = Places(hs, H)
    BY <1>1, <1>2, <1>5 DEF Places
  <2>2. Number(t, H) = Number(hs, H)
    BY <2>1 DEF Number
  <2>3. Number(hs, H) \in Nat
    BY NumberNat
  <2> QED BY <2>2, <2>3, <1>2, <1>5 DEF One
<1> QED BY <1>4, <1>5

\* So does the first header.
LEMMA NumberTail ==
  ASSUME NEW hs \in Seq(Headers), hs # <<>>, NEW H
  PROVE  Number(Tail(hs), H) = Number(hs, H) - One(hs[1], H)
<1>1. PICK n \in Nat : Len(hs) = n + 1
  <2>1. Len(hs) \in Nat \ {0}
    BY EmptySeq
  <2>2. Len(hs) - 1 \in Nat /\ Len(hs) = (Len(hs) - 1) + 1
    BY <2>1
  <2> QED BY <2>2
<1>2. PICK t \in Seq(Headers) :
        /\ t = Tail(hs) /\ Len(t) = n
        /\ \A i \in 1 .. n : t[i] = hs[i + 1]
  <2>1. /\ Tail(hs) \in Seq(Headers) /\ Len(Tail(hs)) = Len(hs) - 1
        /\ \A i \in 1 .. Len(Tail(hs)) : Tail(hs)[i] = hs[i + 1]
    BY HeadTailProperties
  <2>2. Len(hs) - 1 = n
    BY <1>1
  <2>3. Len(Tail(hs)) = n
    BY <2>1, <2>2
  <2> QED BY <2>1, <2>3
<1> DEFINE P == Places(hs, H)
           Q == Places(t, H)
           R == P \ {1}
<1>3. IsFiniteSet(P) /\ IsFiniteSet(Q)
  BY NumberNat
<1>4. Cardinality(R) = Cardinality(Q)
  <2> DEFINE f == [i \in Q |-> i + 1]
  <2>1. \A i \in Q : i \in 1 .. n /\ t[i] \in H
    BY <1>2 DEF Places
  <2>2. \A i \in Q : i + 1 \in R
    <3>1. ASSUME NEW i \in Q PROVE i + 1 \in 1 .. n + 1 /\ i + 1 # 1 /\ hs[i + 1] \in H
      BY <2>1, <1>2
    <3> QED BY <3>1, <1>1 DEF Places
  <2>3. ASSUME NEW j \in R PROVE j - 1 \in Q /\ (j - 1) + 1 = j
    <3>1. j \in 1 .. n + 1 /\ j # 1 /\ hs[j] \in H
      BY <1>1 DEF Places
    <3>2. j - 1 \in 1 .. n /\ (j - 1) + 1 = j
      BY <3>1
    <3>3. t[j - 1] = hs[j]
      BY <3>2, <1>2
    <3> QED BY <3>1, <3>2, <3>3, <1>2 DEF Places
  <2>4. f \in [Q -> R]
    BY <2>2
  <2>5. \A i, j \in Q : f[i] = f[j] => i = j
    BY <2>1
  <2>6. \A j \in R : \E i \in Q : f[i] = j
    BY <2>3
  <2> HIDE DEF f, P, Q, R
  <2>7. f \in Bijection(Q, R)
    BY <2>4, <2>5, <2>6, Fun_IsBij
  <2>8. ExistsBijection(Q, R)
    BY <2>7 DEF ExistsBijection
  <2> QED BY <2>8, <1>3, FS_Bijection
<1>5. Cardinality(P) \in Nat /\ Cardinality(Q) \in Nat
  BY <1>3, FS_CardinalityType
<1>6. 1 \in P <=> hs[1] \in H
  BY <1>1 DEF Places
<1>7. Cardinality(R) = IF hs[1] \in H THEN Cardinality(P) - 1 ELSE Cardinality(P)
  BY <1>3, <1>6, FS_RemoveElement
<1> HIDE DEF P, Q, R
<1>8. Cardinality(Q) = Cardinality(P) - One(hs[1], H)
  BY <1>4, <1>5, <1>7 DEF One
<1> QED BY <1>8, <1>2 DEF Number, P, Q

\* Counting an attempt changes no set that attempts do not decide.
LEMMA NumberCount ==
  ASSUME NEW hs \in Seq(Headers), NEW hs2 \in Seq(Headers), NEW H, Len(hs2) = Len(hs),
         \A i \in 1 .. Len(hs) : hs2[i] \in H <=> hs[i] \in H
  PROVE  Number(hs2, H) = Number(hs, H)
<1>1. Places(hs2, H) = Places(hs, H)
  BY DEF Places
<1> QED BY <1>1 DEF Number

-----------------------------------------------------------------------------
(* What a step can do to the queue and the counters                          *)

\* The bounds under which checkRequest stores a request.
Stored(c, s, f, prio) ==
  /\ s \in 0 .. MaxSockNum
  /\ s \in Sockets => c \in TcpClients /\ socketInQueue[s] = 0
  /\ ~QueueFull(f.len)
  /\ Store(c, s, f, prio)

Left == UNCHANGED <<queueHeaders, queueData, priorityReqInQueue, socketInQueue>>

Counted ==
  /\ queueHeaders # <<>>
  /\ queueHeaders' = [queueHeaders EXCEPT ![1].atts = @ + 1]
  /\ UNCHANGED <<queueData, priorityReqInQueue, socketInQueue>>

Deleted == queueHeaders # <<>> /\ DeleteRequest

Rotated ==
  /\ queueHeaders # <<>> /\ ~queueHeaders[1].prio
  /\ queueHeaders' = Append(Tail(queueHeaders), queueHeaders[1])
  /\ UNCHANGED <<priorityReqInQueue, socketInQueue>>

StoredSome ==
  \E c \in Clients, s \in 0 .. MaxSockNum, f \in Frames, prio \in BOOLEAN :
    Stored(c, s, f, prio)

\* checkRequest stores or leaves the queue alone.
LEMMA CheckMoves ==
  ASSUME NEW c \in Clients, NEW s \in 0 .. MaxSockNum, NEW f \in Frames, CheckRequest(c, s, f),
         s \in Sockets => c \in TcpClients /\ socketInQueue[s] = 0
  PROVE  Left \/ StoredSome
<1>1. CASE Reject(c, "0A") \/ Reject(c, "0B")
  BY <1>1 DEF Reject, Left, queue
<1>2. CASE ~QueueFull(f.len) /\ StatusOf(f.slave) = "0B" /\ Store(c, s, f, FALSE)
  <2>1. Stored(c, s, f, FALSE)
    BY <1>2 DEF Stored
  <2> QED BY <2>1 DEF StoredSome
<1>3. CASE ~QueueFull(f.len) /\ StatusOf(f.slave) = "OTHER" /\ Store(c, s, f, TRUE)
  <2>1. Stored(c, s, f, TRUE)
    BY <1>3 DEF Stored
  <2> QED BY <2>1 DEF StoredSome
<1> QED BY <1>1, <1>2, <1>3 DEF CheckRequest

\* A request read from a socket comes from a connected client that has none
\* queued.
LEMMA SocketMoves ==
  ASSUME Inv, ManageSockets
  PROVE  Left \/ StoredSome
<1>1. PICK data \in SUBSET (In("ESTABLISHED") \cup In("CLOSE_WAIT")) :
        NoRequest \/ \E s \in data, f \in Frames : CheckRequest(peer[s], s, f)
  BY DEF ManageSockets
<1>2. CASE NoRequest
  BY <1>2 DEF NoRequest, Left, queue, books
<1>3. ASSUME NEW s \in data, NEW f \in Frames, CheckRequest(peer[s], s, f)
      PROVE  Left \/ StoredSome
  <2>1. s \in Sockets /\ snSR[s] \in {"ESTABLISHED", "CLOSE_WAIT"} /\ socketInQueue[s] = 0
    BY <1>1 DEF In, Seen
  <2>2. peer[s] \in TcpClients
    BY <2>1 DEF Inv, TcpOK
  <2>3. s \in 0 .. MaxSockNum /\ peer[s] \in Clients
    BY <2>1, <2>2, SizesAssumption DEF Sockets, Clients
  <2> QED BY <1>3, <2>1, <2>2, <2>3, CheckMoves
<1> QED BY <1>1, <1>2, <1>3

\* Every step of the gateway does one of five things to its queue.
LEMMA Moves ==
  ASSUME Inv, [Next]_vars
  PROVE  Left \/ Counted \/ Deleted \/ Rotated \/ StoredSome
<1>1. CASE SendSerial
  <2>1. CASE Delay
    BY <2>1 DEF Delay, SendSerialReady, Counted, books
  <2>2. CASE Rotate
    <3>1. queueHeaders # <<>>
      BY <2>2 DEF Inv, RestOK, Rotate
    <3>2. Current = queueHeaders[1]
      BY <3>1, HeadHeader DEF Inv, QueueOK, Current
    <3> QED BY <2>2, <3>1, <3>2 DEF Rotate, MustRotate, Rotated, books
  <2>3. CASE TimeoutScan \/ TimeoutLast
    BY <2>3 DEF TimeoutScan, TimeoutLast, WaitingOver, SendSerialReady, SendResponse, Deleted
  <2>4. CASE SendSerialSkip \/ Idle \/ RotateDone \/ Sending \/ TimeoutRetry
    BY <2>4 DEF SendSerialSkip, Idle, RotateDone, Sending, TimeoutRetry, Left, queue, books
  <2> QED BY <1>1, <2>1, <2>2, <2>3, <2>4 DEF SendSerial
<1>2. CASE RecvUdp
  <2>1. CASE NoRequest
    BY <2>1 DEF NoRequest, Left, queue, books
  <2>2. ASSUME NEW c \in UdpClients, NEW f \in Frames, CheckRequest(c, MaxSockNum, f)
        PROVE  Left \/ StoredSome
    <3>1. c \in Clients /\ MaxSockNum \in 0 .. MaxSockNum /\ MaxSockNum \notin Sockets
      BY SizesAssumption DEF Clients, Sockets
    <3> QED BY <2>2, <3>1, CheckMoves
  <2> QED BY <1>2, <2>1, <2>2 DEF RecvUdp
<1>3. CASE RecvSerial
  <2>1. CASE RecvSerialReply
    <3>1. queueHeaders # <<>>
      BY <2>1 DEF RecvSerialReply, Inv, AttemptsOK
    <3> QED BY <2>1, <3>1 DEF RecvSerialReply, SendResponse, Deleted
  <2>2. CASE RecvSerialNone \/ RecvSerialDiscard \/ FreeRxBuffer
    BY <2>2 DEF RecvSerialNone, RecvSerialDiscard, FreeRxBuffer, Left, queue, books
  <2> QED BY <1>3, <2>1, <2>2 DEF RecvSerial
<1>4. CASE ManageSockets
  BY <1>4, SocketMoves
<1>5. CASE World
  BY <1>5 DEF World, TimerExpires, Fetch, TxDone, LineStarts, LineIdle, Network, Left, queue, books
<1>6. CASE UNCHANGED vars
  BY <1>6 DEF vars, Left, queue, books
<1> QED BY <1>1, <1>2, <1>3, <1>4, <1>5, <1>6 DEF Next, MainLoop

-----------------------------------------------------------------------------
(* The counters                                                              *)

Urgent   == {h \in Headers : h.prio}
FromSock(s) == {h \in Headers : h.sock = s}

CountersOK ==
  /\ priorityReqInQueue = Number(queueHeaders, Urgent)
  /\ \A s \in Sockets : /\ socketInQueue[s] = Number(queueHeaders, FromSock(s))
                        /\ socketInQueue[s] <= 1

\* The header of a request that is stored.
NewHeader(c, s, f, prio) ==
  [client |-> c, sock |-> s, msgLen |-> f.len, prio |-> prio,
   scan |-> f.slave = 0, atts |-> 0]

LEMMA NewHeaderType ==
  ASSUME Inv, NEW c \in Clients, NEW s \in 0 .. MaxSockNum, NEW f \in Frames,
         NEW prio \in BOOLEAN, ~QueueFull(f.len)
  PROVE  NewHeader(c, s, f, prio) \in Headers
<1>1. PICK m \in Nat, l \in Nat : m = Len(queueData) /\ l = f.len
  BY LenProperties, FramesAssumption DEF Inv, QueueOK
<1>2. l \in 0 .. DCap
  <2>1. ~(DCap - m < l)
    BY <1>1 DEF QueueFull
  <2>2. m \in Nat /\ l \in Nat
    BY <1>1
  <2> QED BY <2>1, <2>2, SizesAssumption
<1>3. 0 \in 0 .. SerialAttempts /\ (f.slave = 0) \in BOOLEAN /\ f.len \in 0 .. DCap
  BY <1>1, <1>2, SizesAssumption
<1> QED BY <1>3 DEF NewHeader, Headers

\* What counting an attempt leaves of the header at the head.
LEMMA CountedHeader ==
  ASSUME Inv, Counted
  PROVE  /\ Len(queueHeaders') = Len(queueHeaders)
         /\ \A i \in 1 .. Len(queueHeaders) :
              /\ queueHeaders[i] \in Headers
              /\ queueHeaders'[i] \in {queueHeaders[i], [queueHeaders[i] EXCEPT !.atts = @ + 1]}
<1>1. queueHeaders \in Seq(Headers)
  BY DEF Inv, QueueOK
<1>2. PICK e : e = [queueHeaders[1] EXCEPT !.atts = @ + 1]
  OBVIOUS
<1>3. queueHeaders' = [queueHeaders EXCEPT ![1] = e]
  BY <1>2 DEF Counted
<1>4. \A i \in 1 .. Len(queueHeaders) : queueHeaders[i] \in Headers
  BY <1>1, ElementOfSeq
<1>5. Len(queueHeaders') = Len(queueHeaders)
  BY <1>1, <1>3
<1>6. \A i \in 1 .. Len(queueHeaders) : queueHeaders'[i] = IF i = 1 THEN e ELSE queueHeaders[i]
  BY <1>1, <1>3
<1> QED BY <1>2, <1>4, <1>5, <1>6

\* A header set decided by what attempts do not touch counts the same.
LEMMA CountedNumber ==
  ASSUME Inv, Inv', Counted, NEW H,
         \A h, g \in Headers : Identity(h) = Identity(g) => (h \in H <=> g \in H)
  PROVE  Number(queueHeaders', H) = Number(queueHeaders, H)
<1>1. queueHeaders \in Seq(Headers) /\ queueHeaders' \in Seq(Headers)
  BY DEF Inv, QueueOK
<1>2. ASSUME NEW i \in 1 .. Len(queueHeaders)
      PROVE  queueHeaders'[i] \in H <=> queueHeaders[i] \in H
  <2>1. /\ queueHeaders[i] \in Headers
        /\ queueHeaders'[i] \in {queueHeaders[i], [queueHeaders[i] EXCEPT !.atts = @ + 1]}
        /\ Len(queueHeaders') = Len(queueHeaders)
    BY CountedHeader
  <2>2. queueHeaders'[i] \in Headers
    BY <1>1, <2>1, ElementOfSeq
  <2>3. Identity(queueHeaders'[i]) = Identity(queueHeaders[i])
    BY <2>1 DEF Identity, Headers
  <2> QED BY <2>1, <2>2, <2>3
<1> QED BY <1>1, <1>2, CountedHeader, NumberCount

LEMMA CountersNext ==
  ASSUME Inv, Inv', CountersOK, Left \/ Counted \/ Deleted \/ Rotated \/ StoredSome
  PROVE  CountersOK'
<1>1. /\ queueHeaders \in Seq(Headers) /\ priorityReqInQueue \in Int
      /\ socketInQueue \in [Sockets -> Int]
      /\ queueHeaders # <<>> => queueHeaders[1] \in Headers /\ Current = queueHeaders[1]
      /\ queueHeaders # <<>> => Tail(queueHeaders) \in Seq(Headers)
  BY HeadHeader, HeadTailProperties DEF Inv, QueueOK, BooksOK, Current
<1>2. CASE Left
  BY <1>2 DEF Left, CountersOK
<1>3. CASE Counted
  <2>1. Number(queueHeaders', Urgent) = Number(queueHeaders, Urgent)
    <3>1. \A h, g \in Headers : Identity(h) = Identity(g) => (h \in Urgent <=> g \in Urgent)
      BY DEF Identity, Urgent, Headers
    <3> QED BY <1>3, <3>1, CountedNumber
  <2>2. ASSUME NEW s \in Sockets
        PROVE  Number(queueHeaders', FromSock(s)) = Number(queueHeaders, FromSock(s))
    <3>1. \A h, g \in Headers :
            Identity(h) = Identity(g) => (h \in FromSock(s) <=> g \in FromSock(s))
      BY DEF Identity, FromSock, Headers
    <3> QED BY <1>3, <3>1, CountedNumber
  <2> QED BY <1>3, <2>1, <2>2 DEF Counted, CountersOK
<1>4. CASE Deleted
  <2> DEFINE h == queueHeaders[1]
  <2>1. h \in Headers /\ Current = h /\ queueHeaders # <<>> /\ queueHeaders' = Tail(queueHeaders)
    BY <1>1, <1>4 DEF Deleted, DeleteRequest
  <2>2. ASSUME NEW H
        PROVE  /\ Number(queueHeaders', H) = Number(queueHeaders, H) - One(h, H)
               /\ Number(queueHeaders, H) \in Nat /\ Number(queueHeaders', H) \in Nat
    <3>1. queueHeaders' \in Seq(Headers)
      BY <1>1, <2>1
    <3> QED BY <1>1, <2>1, <3>1, NumberTail, NumberNat
  <2>3. priorityReqInQueue' = Number(queueHeaders', Urgent)
    <3>1. priorityReqInQueue' = priorityReqInQueue - (IF h.prio THEN 1 ELSE 0)
      BY <1>4, <2>1 DEF Deleted, DeleteRequest
    <3>2. One(h, Urgent) = IF h.prio THEN 1 ELSE 0
      BY <2>1 DEF One, Urgent
    <3> QED BY <2>2, <3>1, <3>2 DEF CountersOK
  <2>4. ASSUME NEW s \in Sockets
        PROVE  /\ socketInQueue'[s] = Number(queueHeaders', FromSock(s))
               /\ socketInQueue'[s] <= 1
    <3>1. socketInQueue'[s] = socketInQueue[s] - (IF h.sock = s THEN 1 ELSE 0)
      BY <1>1, <1>4, <2>1 DEF Deleted, DeleteRequest, IsTcp
    <3>2. One(h, FromSock(s)) = IF h.sock = s THEN 1 ELSE 0
      BY <2>1 DEF One, FromSock
    <3>3. socketInQueue[s] = Number(queueHeaders, FromSock(s)) /\ socketInQueue[s] <= 1
      BY DEF CountersOK
    <3>4. socketInQueue'[s] = Number(queueHeaders', FromSock(s))
      BY <2>2, <3>1, <3>2, <3>3
    <3>5. socketInQueue'[s] <= 1
      <4>1. socketInQueue[s] \in Int
        BY <1>1
      <4> QED BY <3>1, <3>3, <4>1
    <3> QED BY <3>4, <3>5
  <2> QED BY <2>3, <2>4 DEF CountersOK
<1>5. CASE Rotated
  <2>1. ASSUME NEW H
        PROVE  Number(queueHeaders', H) = Number(queueHeaders, H)
    <3>1. /\ Tail(queueHeaders) \in Seq(Headers) /\ queueHeaders[1] \in Headers
          /\ queueHeaders # <<>>
      BY <1>1, <1>5 DEF Rotated
    <3>2. Number(Tail(queueHeaders), H) = Number(queueHeaders, H) - One(queueHeaders[1], H)
      BY <1>1, <3>1, NumberTail
    <3>3. Number(queueHeaders', H) = Number(Tail(queueHeaders), H) + One(queueHeaders[1], H)
      BY <1>5, <3>1, NumberAppend DEF Rotated
    <3>4. Number(queueHeaders, H) \in Nat /\ One(queueHeaders[1], H) \in Nat
      BY <1>1, NumberNat DEF One
    <3> QED BY <3>2, <3>3, <3>4
  <2> QED BY <1>5, <2>1 DEF Rotated, CountersOK
<1>6. CASE StoredSome
  <2>1. PICK c \in Clients, s \in 0 .. MaxSockNum, f \in Frames, prio \in BOOLEAN :
          Stored(c, s, f, prio)
    BY <1>6 DEF StoredSome
  <2> DEFINE h == NewHeader(c, s, f, prio)
  <2>2. h \in Headers /\ h.prio = prio /\ h.sock = s
    BY <2>1, NewHeaderType DEF Stored, NewHeader
  <2>3. queueHeaders' = Append(queueHeaders, h)
    BY <2>1 DEF Stored, Store, NewHeader
  <2> HIDE DEF h
  <2>4. ASSUME NEW H
        PROVE  /\ Number(queueHeaders', H) = Number(queueHeaders, H) + One(h, H)
               /\ Number(queueHeaders, H) \in Nat
    BY <1>1, <2>2, <2>3, NumberAppend, NumberNat
  <2>5. priorityReqInQueue' = Number(queueHeaders', Urgent)
    <3>1. One(h, Urgent) = IF prio THEN 1 ELSE 0
      BY <2>2 DEF One, Urgent
    <3>2. priorityReqInQueue' = priorityReqInQueue + (IF prio THEN 1 ELSE 0)
      BY <2>1 DEF Stored, Store
    <3> QED BY <2>4, <3>1, <3>2 DEF CountersOK
  <2>6. ASSUME NEW r \in Sockets
        PROVE  /\ socketInQueue'[r] = Number(queueHeaders', FromSock(r))
               /\ socketInQueue'[r] <= 1
    <3>1. One(h, FromSock(r)) = IF r = s THEN 1 ELSE 0
      BY <2>2 DEF One, FromSock
    <3>2. socketInQueue'[r] = socketInQueue[r] + (IF r = s THEN 1 ELSE 0)
      BY <1>1, <2>1 DEF Stored, Store
    <3>3. socketInQueue[r] = Number(queueHeaders, FromSock(r)) /\ socketInQueue[r] <= 1
      BY DEF CountersOK
    <3>4. r = s => socketInQueue[r] = 0
      BY <2>1 DEF Stored
    <3> QED BY <1>1, <2>4, <3>1, <3>2, <3>3, <3>4
  <2> QED BY <2>5, <2>6 DEF CountersOK
<1> QED BY <1>2, <1>3, <1>4, <1>5, <1>6

LEMMA CountersInit ==
  ASSUME Init
  PROVE  CountersOK
<1>1. \A H : Places(<<>>, H) = {}
  BY DEF Places
<1>2. \A H : Number(<<>>, H) = 0
  BY <1>1, FS_EmptySet DEF Number
<1> QED BY <1>2 DEF Init, CountersOK

\* The counters beside the queue always agree with it, and a socket never has
\* more than one request in it: rotation always ends (ModbusRTU.cpp:48), and no
\* socket is left exempt from idle and close handling (ModbusTCP.cpp:299).
THEOREM CountersCorrect == Spec => []CountersMatchQueue
<1>1. Inv /\ Inv' /\ CountersOK /\ [Next]_vars => CountersOK'
  BY Moves, CountersNext
<1>2. Inv /\ CountersOK => CountersMatchQueue
  <2> SUFFICES ASSUME Inv, CountersOK
               PROVE  CountersMatchQueue
    OBVIOUS
  <2>1. \A i \in 1 .. Len(queueHeaders) : queueHeaders[i] \in Headers
    BY ElementOfSeq DEF Inv, QueueOK
  <2>2. Places(queueHeaders, Urgent) = {i \in 1 .. Len(queueHeaders) : queueHeaders[i].prio}
    BY <2>1 DEF Places, Urgent
  <2>3. ASSUME NEW s \in Sockets
        PROVE  Places(queueHeaders, FromSock(s))
                 = {i \in 1 .. Len(queueHeaders) : queueHeaders[i].sock = s}
    BY <2>1 DEF Places, FromSock
  <2> QED BY <2>2, <2>3 DEF CountersOK, CountersMatchQueue, Count, Number
<1> QED BY <1>1, <1>2, CountersInit, Invariance, PTL DEF Spec

-----------------------------------------------------------------------------
(* The rotation loop                                                         *)

\* Rotation turns a queue in which an urgent header waits behind the head, and
\* moves every header behind the head one place up.
RotationAdvances ==
  [][Rotate => /\ \E i \in 2 .. Len(queueHeaders) : queueHeaders[i].prio
               /\ Len(queueHeaders') = Len(queueHeaders)
               /\ \A i \in 2 .. Len(queueHeaders) : queueHeaders'[i - 1] = queueHeaders[i]]_vars

\* What a turn does to the places of the queue.
LEMMA TurnedOnce ==
  ASSUME NEW hs \in Seq(Headers), hs # <<>>
  PROVE  /\ Len(Append(Tail(hs), hs[1])) = Len(hs)
         /\ \A i \in 2 .. Len(hs) : Append(Tail(hs), hs[1])[i - 1] = hs[i]
<1>1. PICK n \in Nat : Len(hs) = n + 1
  <2>1. Len(hs) \in Nat \ {0}
    BY EmptySeq
  <2>2. Len(hs) - 1 \in Nat /\ Len(hs) = (Len(hs) - 1) + 1
    BY <2>1
  <2> QED BY <2>2
<1>2. PICK t \in Seq(Headers) :
        /\ t = Tail(hs) /\ Len(t) = n
        /\ \A i \in 1 .. n : t[i] = hs[i + 1]
  <2>1. /\ Tail(hs) \in Seq(Headers) /\ Len(Tail(hs)) = Len(hs) - 1
        /\ \A i \in 1 .. Len(Tail(hs)) : Tail(hs)[i] = hs[i + 1]
    BY HeadTailProperties
  <2>2. Len(Tail(hs)) = n
    BY <1>1, <2>1
  <2> QED BY <2>1, <2>2
<1>3. PICK h \in Headers : h = hs[1]
  BY HeadHeader
<1>4. /\ Len(Append(t, h)) = n + 1
      /\ \A i \in 1 .. n : Append(t, h)[i] = t[i]
  BY <1>2, AppendProperties
<1>5. ASSUME NEW i \in 2 .. n + 1
      PROVE  Append(t, h)[i - 1] = hs[i]
  <2>1. i - 1 \in 1 .. n /\ (i - 1) + 1 = i
    OBVIOUS
  <2> QED BY <1>2, <1>4, <2>1
<1> QED BY <1>1, <1>2, <1>3, <1>4, <1>5

\* The loop that looks for a request with priority (ModbusRTU.cpp:48) has one to
\* find whenever it turns the queue, and each turn brings it one place nearer to
\* the head: it ends after fewer turns than there are requests.
THEOREM RotationEnds == Spec => RotationAdvances
<1>1. ASSUME Inv, CountersOK, Rotate
      PROVE  /\ \E i \in 2 .. Len(queueHeaders) : queueHeaders[i].prio
             /\ Len(queueHeaders') = Len(queueHeaders)
             /\ \A i \in 2 .. Len(queueHeaders) : queueHeaders'[i - 1] = queueHeaders[i]
  <2>1. /\ queueHeaders \in Seq(Headers) /\ queueHeaders # <<>>
        /\ Current = queueHeaders[1]
    BY <1>1, HeadHeader DEF Inv, QueueOK, RestOK, Rotate, Current
  <2>2. /\ Number(queueHeaders, Urgent) # 0 /\ ~queueHeaders[1].prio
        /\ queueHeaders' = Append(Tail(queueHeaders), queueHeaders[1])
    BY <1>1, <2>1 DEF Rotate, MustRotate, CountersOK
  <2>3. PICK i \in Places(queueHeaders, Urgent) : TRUE
    BY <2>2, FS_EmptySet DEF Number
  <2>4. i \in 1 .. Len(queueHeaders) /\ queueHeaders[i].prio
    BY DEF Places, Urgent
  <2>5. i \in 2 .. Len(queueHeaders)
    BY <2>1, <2>2, <2>4, LenProperties
  <2> QED BY <2>1, <2>2, <2>4, <2>5, TurnedOnce
<1>2. Inv /\ Inv' /\ CountersOK /\ [Next]_vars => CountersOK'
  BY Moves, CountersNext
<1> QED BY <1>1, <1>2, CountersInit, Invariance, PTL DEF Spec, RotationAdvances

-----------------------------------------------------------------------------
(* The order of the requests for responding slaves                           *)

UrgentTo(hs, i) == {j \in 1 .. i : hs[j].prio}
RankIn(hs, i)   == Cardinality(UrgentTo(hs, i))
RankedIn(hs)    == {[rank |-> RankIn(hs, i), request |-> Identity(hs[i])] :
                      i \in {j \in 1 .. Len(hs) : hs[j].prio}}

\* What is left of ranked requests when the first has been served.
Advanced(R) == {[r EXCEPT !.rank = @ - 1] : r \in {q \in R : q.rank > 1}}

LEMMA PriorityIsRanked ==
  /\ PriorityRequests = RankedIn(queueHeaders)
  /\ PriorityRequests' = RankedIn(queueHeaders')
BY DEF PriorityRequests, Rank, RankedIn, RankIn, UrgentTo

\* The rank of a header is the number of urgent ones in the queue cut after it.
LEMMA RankIsNumber ==
  ASSUME NEW hs \in Seq(Headers), NEW i \in 1 .. Len(hs),
         NEW p \in Seq(Headers), Len(p) = i, \A j \in 1 .. i : p[j] = hs[j]
  PROVE  RankIn(hs, i) = Number(p, Urgent)
<1>1. \A j \in 1 .. i : p[j] \in Headers
  BY ElementOfSeq
<1>2. Places(p, Urgent) = UrgentTo(hs, i)
  BY <1>1 DEF Places, UrgentTo, Urgent
<1> QED BY <1>2 DEF RankIn, Number

LEMMA Prefix ==
  ASSUME NEW hs \in Seq(Headers), NEW i \in 1 .. Len(hs)
  PROVE  \E p \in Seq(Headers) : Len(p) = i /\ \A j \in 1 .. i : p[j] = hs[j]
<1>1. i \in Nat /\ i <= Len(hs)
  BY LenProperties
<1>2. /\ SubSeq(hs, 1, i) \in Seq(Headers) /\ Len(SubSeq(hs, 1, i)) = i
      /\ \A j \in 1 .. i : SubSeq(hs, 1, i)[j] = hs[j]
  BY <1>1, TakeProperties
<1> QED BY <1>2

\* An urgent header has a rank, and the head's is 1.
LEMMA RankPositive ==
  ASSUME NEW hs \in Seq(Headers), NEW i \in 1 .. Len(hs)
  PROVE  /\ RankIn(hs, i) \in Nat
         /\ hs[i].prio => RankIn(hs, i) > 0
         /\ i = 1 => RankIn(hs, i) <= 1
<1>1. PICK p \in Seq(Headers) : Len(p) = i /\ \A j \in 1 .. i : p[j] = hs[j]
  BY Prefix
<1>2. RankIn(hs, i) = Number(p, Urgent)
  BY <1>1, RankIsNumber
<1>3. RankIn(hs, i) \in Nat /\ IsFiniteSet(Places(p, Urgent))
  BY <1>2, NumberNat
<1>4. ASSUME hs[i].prio PROVE RankIn(hs, i) > 0
  <2>1. i \in Places(p, Urgent)
    <3>1. i \in Nat /\ i \in 1 .. i
      BY LenProperties
    <3>2. p[i] \in Headers /\ p[i] = hs[i]
      BY <1>1, <3>1, ElementOfSeq
    <3> QED BY <1>1, <1>4, <3>1, <3>2 DEF Places, Urgent
  <2>2. Number(p, Urgent) # 0
    BY <1>3, <2>1, FS_EmptySet DEF Number
  <2> QED BY <1>2, <1>3, <2>2
<1>5. ASSUME i = 1 PROVE RankIn(hs, i) <= 1
  <2>1. UrgentTo(hs, 1) = {} \/ UrgentTo(hs, 1) = {1}
    BY DEF UrgentTo
  <2>2. Cardinality({}) = 0 /\ Cardinality({1}) = 1
    BY FS_EmptySet, FS_Singleton
  <2>3. RankIn(hs, 1) \in {0, 1}
    BY <2>1, <2>2 DEF RankIn
  <2> QED BY <1>5, <2>3
<1> QED BY <1>3, <1>4, <1>5

\* A header appended leaves the ranks of the others.
LEMMA RankAppend ==
  ASSUME NEW hs \in Seq(Headers), NEW h \in Headers, NEW i \in 1 .. Len(hs)
  PROVE  RankIn(Append(hs, h), i) = RankIn(hs, i)
<1>1. \A j \in 1 .. i : Append(hs, h)[j] = hs[j]
  BY AppendProperties, LenProperties
<1>2. UrgentTo(Append(hs, h), i) = UrgentTo(hs, i)
  BY <1>1 DEF UrgentTo
<1> QED BY <1>2 DEF RankIn

\* The first header dropped moves the others up, if it was urgent.
LEMMA RankTail ==
  ASSUME NEW hs \in Seq(Headers), hs # <<>>, NEW i \in 1 .. Len(Tail(hs))
  PROVE  RankIn(hs, i + 1) = RankIn(Tail(hs), i) + One(hs[1], Urgent)
<1>1. /\ Tail(hs) \in Seq(Headers) /\ Len(Tail(hs)) = Len(hs) - 1
      /\ \A j \in 1 .. Len(Tail(hs)) : Tail(hs)[j] = hs[j + 1]
  BY HeadTailProperties
<1>2. i + 1 \in 1 .. Len(hs) /\ i \in Nat /\ Len(hs) \in Nat
  BY <1>1, LenProperties
<1>3. PICK p \in Seq(Headers) : Len(p) = i + 1 /\ \A j \in 1 .. i + 1 : p[j] = hs[j]
  BY <1>2, Prefix
<1>4. p # <<>> /\ p[1] = hs[1]
  BY <1>2, <1>3, EmptySeq
<1>5. /\ Tail(p) \in Seq(Headers) /\ Len(Tail(p)) = i
      /\ \A j \in 1 .. i : Tail(p)[j] = p[j + 1]
  BY <1>2, <1>3, <1>4, HeadTailProperties
<1>6. \A j \in 1 .. i : Tail(p)[j] = Tail(hs)[j]
  BY <1>1, <1>2, <1>3, <1>5
<1>7. RankIn(Tail(hs), i) = Number(Tail(p), Urgent)
  BY <1>1, <1>5, <1>6, RankIsNumber
<1>8. RankIn(hs, i + 1) = Number(p, Urgent)
  BY <1>2, <1>3, RankIsNumber
<1>9. Number(Tail(p), Urgent) = Number(p, Urgent) - One(hs[1], Urgent)
  BY <1>4, NumberTail
<1>10. Number(p, Urgent) \in Nat /\ One(hs[1], Urgent) \in Nat
  BY NumberNat DEF One
<1> QED BY <1>7, <1>8, <1>9, <1>10

\* What each move does to the ranked requests.
LEMMA RankedAppend ==
  ASSUME NEW hs \in Seq(Headers), NEW h \in Headers
  PROVE  RankedIn(Append(hs, h)) =
           IF h.prio
           THEN RankedIn(hs) \cup {[rank |-> Number(hs, Urgent) + 1, request |-> Identity(h)]}
           ELSE RankedIn(hs)
<1>1. PICK n \in Nat : n = Len(hs)
  BY LenProperties
<1>2. PICK t \in Seq(Headers) :
        /\ t = Append(hs, h) /\ Len(t) = n + 1 /\ t[n + 1] = h
        /\ \A i \in 1 .. n : t[i] = hs[i]
  <2>1. /\ Append(hs, h) \in Seq(Headers)
        /\ Len(Append(hs, h)) = Len(hs) + 1 /\ Append(hs, h)[Len(hs) + 1] = h
        /\ \A i \in 1 .. Len(hs) : Append(hs, h)[i] = hs[i]
    BY AppendProperties
  <2>2. /\ Append(hs, h) \in Seq(Headers)
        /\ Len(Append(hs, h)) = n + 1 /\ Append(hs, h)[n + 1] = h
        /\ \A i \in 1 .. n : Append(hs, h)[i] = hs[i]
    BY <1>1, <2>1
  <2> QED BY <2>2
<1>3. \A i \in 1 .. n : RankIn(t, i) = RankIn(hs, i)
  BY <1>1, <1>2, RankAppend
<1>4. h.prio => RankIn(t, n + 1) = Number(hs, Urgent) + 1
  <2>1. n + 1 \in 1 .. Len(t)
    BY <1>2
  <2>2. RankIn(t, n + 1) = Number(t, Urgent)
    BY <1>2, <2>1, RankIsNumber
  <2>3. Number(t, Urgent) = Number(hs, Urgent) + One(h, Urgent)
    BY <1>2, NumberAppend
  <2> QED BY <2>2, <2>3 DEF One, Urgent
<1>5. 1 .. n + 1 = (1 .. n) \cup {n + 1}
  BY <1>1
<1>6. CASE h.prio
  <2>1. {j \in 1 .. Len(t) : t[j].prio} = {j \in 1 .. Len(hs) : hs[j].prio} \cup {n + 1}
    BY <1>1, <1>2, <1>5, <1>6
  <2> QED BY <1>1, <1>2, <1>3, <1>4, <1>6, <2>1 DEF RankedIn
<1>7. CASE ~h.prio
  <2>1. {j \in 1 .. Len(t) : t[j].prio} = {j \in 1 .. Len(hs) : hs[j].prio}
    BY <1>1, <1>2, <1>5, <1>7
  <2> QED BY <1>1, <1>2, <1>3, <1>7, <2>1 DEF RankedIn
<1> QED BY <1>6, <1>7

LEMMA RankedTail ==
  ASSUME NEW hs \in Seq(Headers), hs # <<>>
  PROVE  RankedIn(Tail(hs)) =
           IF hs[1].prio THEN Advanced(RankedIn(hs)) ELSE RankedIn(hs)
<1>1. PICK n \in Nat : Len(hs) = n + 1
  <2>1. Len(hs) \in Nat \ {0}
    BY EmptySeq
  <2>2. Len(hs) - 1 \in Nat /\ Len(hs) = (Len(hs) - 1) + 1
    BY <2>1
  <2> QED BY <2>2
<1>2. PICK t \in Seq(Headers) :
        t = Tail(hs) /\ Len(t) = n /\ \A i \in 1 .. n : t[i] = hs[i + 1]
  <2>1. /\ Tail(hs) \in Seq(Headers) /\ Len(Tail(hs)) = Len(hs) - 1
        /\ \A i \in 1 .. Len(Tail(hs)) : Tail(hs)[i] = hs[i + 1]
    BY HeadTailProperties
  <2>2. Len(hs) - 1 = n
    BY <1>1
  <2>3. Len(Tail(hs)) = n
    BY <2>1, <2>2
  <2> QED BY <2>1, <2>3
<1>3. /\ \A i \in 1 .. n : /\ RankIn(hs, i + 1) = RankIn(t, i) + One(hs[1], Urgent)
                           /\ RankIn(t, i) \in Nat
                           /\ t[i].prio => RankIn(t, i) > 0
      /\ RankIn(hs, 1) \in Nat /\ RankIn(hs, 1) <= 1
  <2>1. 1 \in 1 .. Len(hs)
    BY <1>1
  <2>2. RankIn(hs, 1) \in Nat /\ RankIn(hs, 1) <= 1
    BY <2>1, RankPositive
  <2>3. ASSUME NEW i \in 1 .. n
        PROVE  /\ RankIn(hs, i + 1) = RankIn(t, i) + One(hs[1], Urgent)
               /\ RankIn(t, i) \in Nat
               /\ t[i].prio => RankIn(t, i) > 0
    <3>1. i \in 1 .. Len(t) /\ i \in 1 .. Len(Tail(hs))
      BY <1>2
    <3>2. RankIn(hs, i + 1) = RankIn(Tail(hs), i) + One(hs[1], Urgent)
      BY <3>1, RankTail
    <3>3. RankIn(t, i) \in Nat /\ (t[i].prio => RankIn(t, i) > 0)
      BY <3>1, RankPositive
    <3> QED BY <1>2, <3>2, <3>3
  <2> QED BY <2>2, <2>3
<1>4. One(hs[1], Urgent) = IF hs[1].prio THEN 1 ELSE 0
  <2>1. hs[1] \in Headers
    BY <1>1, ElementOfSeq
  <2> QED BY <2>1 DEF One, Urgent
<1>5. \A j \in 1 .. n + 1 : j = 1 \/ (j - 1 \in 1 .. n /\ (j - 1) + 1 = j)
  BY <1>1
<1>6. \A i \in 1 .. n : i + 1 \in 1 .. n + 1 /\ i + 1 # 1
  BY <1>1
<1>7. CASE hs[1].prio
  <2>1. ASSUME NEW r \in RankedIn(t) PROVE r \in Advanced(RankedIn(hs))
    <3>1. PICK i \in 1 .. n : t[i].prio /\ r = [rank |-> RankIn(t, i), request |-> Identity(t[i])]
      BY <1>2 DEF RankedIn
    <3>2. PICK q : q = [rank |-> RankIn(hs, i + 1), request |-> Identity(hs[i + 1])]
      OBVIOUS
    <3>3. q \in RankedIn(hs)
      BY <1>1, <1>2, <1>6, <3>1, <3>2 DEF RankedIn
    <3>4. q.rank > 1 /\ r = [q EXCEPT !.rank = @ - 1]
      BY <1>2, <1>3, <1>4, <1>7, <3>1, <3>2
    <3> QED BY <3>3, <3>4 DEF Advanced
  <2>2. ASSUME NEW r \in Advanced(RankedIn(hs)) PROVE r \in RankedIn(t)
    <3>1. PICK q \in RankedIn(hs) : q.rank > 1 /\ r = [q EXCEPT !.rank = @ - 1]
      BY DEF Advanced
    <3>2. PICK j \in 1 .. n + 1 :
            hs[j].prio /\ q = [rank |-> RankIn(hs, j), request |-> Identity(hs[j])]
      BY <1>1 DEF RankedIn
    <3>3. j # 1
      BY <1>3, <3>1, <3>2
    <3>4. PICK i \in 1 .. n : i + 1 = j
      BY <1>5, <3>3
    <3>5. t[i] = hs[j] /\ RankIn(hs, j) - 1 = RankIn(t, i)
      BY <1>2, <1>3, <1>4, <1>7, <3>4
    <3>6. r = [rank |-> RankIn(hs, j) - 1, request |-> Identity(hs[j])]
      BY <3>1, <3>2
    <3>7. r = [rank |-> RankIn(t, i), request |-> Identity(t[i])] /\ t[i].prio
      BY <3>2, <3>5, <3>6
    <3> QED BY <1>2, <3>7 DEF RankedIn
  <2>3. RankedIn(t) = Advanced(RankedIn(hs))
    BY <2>1, <2>2
  <2> QED BY <1>2, <1>7, <2>3
<1>8. CASE ~hs[1].prio
  <2>1. ASSUME NEW r \in RankedIn(t) PROVE r \in RankedIn(hs)
    <3>1. PICK i \in 1 .. n : t[i].prio /\ r = [rank |-> RankIn(t, i), request |-> Identity(t[i])]
      BY <1>2 DEF RankedIn
    <3>2. r = [rank |-> RankIn(hs, i + 1), request |-> Identity(hs[i + 1])] /\ hs[i + 1].prio
      BY <1>2, <1>3, <1>4, <1>8, <3>1
    <3> QED BY <1>1, <1>6, <3>2 DEF RankedIn
  <2>2. ASSUME NEW r \in RankedIn(hs) PROVE r \in RankedIn(t)
    <3>1. PICK j \in 1 .. n + 1 :
            hs[j].prio /\ r = [rank |-> RankIn(hs, j), request |-> Identity(hs[j])]
      BY <1>1 DEF RankedIn
    <3>2. PICK i \in 1 .. n : i + 1 = j
      BY <1>5, <1>8, <3>1
    <3>3. r = [rank |-> RankIn(t, i), request |-> Identity(t[i])] /\ t[i].prio
      BY <1>2, <1>3, <1>4, <1>8, <3>1, <3>2
    <3> QED BY <1>2, <3>3 DEF RankedIn
  <2> QED BY <1>2, <1>8, <2>1, <2>2
<1> QED BY <1>7, <1>8

\* Counting an attempt changes neither rank nor identity.
LEMMA RankedCounted ==
  ASSUME Inv, Inv', Counted
  PROVE  RankedIn(queueHeaders') = RankedIn(queueHeaders)
<1>1. \A i \in 1 .. Len(queueHeaders) :
        /\ queueHeaders'[i].prio = queueHeaders[i].prio
        /\ Identity(queueHeaders'[i]) = Identity(queueHeaders[i])
  <2>1. ASSUME NEW h \in Headers, NEW g \in {h, [h EXCEPT !.atts = @ + 1]}
        PROVE  g.prio = h.prio /\ Identity(g) = Identity(h)
    BY DEF Headers, Identity
  <2> QED BY <2>1, CountedHeader
<1>2. Len(queueHeaders') = Len(queueHeaders) /\ Len(queueHeaders) \in Nat
  BY CountedHeader, LenProperties DEF Inv, QueueOK
<1>3. \A i \in 1 .. Len(queueHeaders) : UrgentTo(queueHeaders', i) = UrgentTo(queueHeaders, i)
  BY <1>1, <1>2 DEF UrgentTo
<1>4. {j \in 1 .. Len(queueHeaders') : queueHeaders'[j].prio}
        = {j \in 1 .. Len(queueHeaders) : queueHeaders[j].prio}
  BY <1>1, <1>2
<1> QED BY <1>1, <1>3, <1>4 DEF RankedIn, RankIn

\* One step, seen from the ranked requests.
LEMMA RankedNext ==
  ASSUME Inv, Inv', Left \/ Counted \/ Deleted \/ Rotated \/ StoredSome
  PROVE  \/ RankedIn(queueHeaders') = RankedIn(queueHeaders)
         \/ RankedIn(queueHeaders') = Advanced(RankedIn(queueHeaders))
         \/ \E r : /\ r.rank = Number(queueHeaders, Urgent) + 1
                   /\ RankedIn(queueHeaders') = RankedIn(queueHeaders) \cup {r}
<1>1. /\ queueHeaders \in Seq(Headers)
      /\ queueHeaders # <<>> => queueHeaders[1] \in Headers
      /\ queueHeaders # <<>> => Tail(queueHeaders) \in Seq(Headers)
  BY HeadHeader, HeadTailProperties DEF Inv, QueueOK
<1>2. CASE Left
  BY <1>2 DEF Left
<1>3. CASE Counted
  BY <1>3, RankedCounted
<1>4. CASE Deleted
  BY <1>1, <1>4, RankedTail DEF Deleted, DeleteRequest
<1>5. CASE Rotated
  <2>1. queueHeaders # <<>> /\ ~queueHeaders[1].prio
        /\ queueHeaders' = Append(Tail(queueHeaders), queueHeaders[1])
    BY <1>5 DEF Rotated
  <2>2. RankedIn(queueHeaders') = RankedIn(Tail(queueHeaders))
    BY <1>1, <2>1, RankedAppend
  <2>3. RankedIn(Tail(queueHeaders)) = RankedIn(queueHeaders)
    BY <1>1, <2>1, RankedTail
  <2> QED BY <2>2, <2>3
<1>6. CASE StoredSome
  <2>1. PICK c \in Clients, s \in 0 .. MaxSockNum, f \in Frames, prio \in BOOLEAN :
          Stored(c, s, f, prio)
    BY <1>6 DEF StoredSome
  <2>2. PICK h \in Headers : h = NewHeader(c, s, f, prio)
    BY <2>1, NewHeaderType DEF Stored
  <2>3. queueHeaders' = Append(queueHeaders, h)
    BY <2>1, <2>2 DEF Stored, Store, NewHeader
  <2>4. PICK r : r = [rank |-> Number(queueHeaders, Urgent) + 1, request |-> Identity(h)]
    OBVIOUS
  <2>5. r.rank = Number(queueHeaders, Urgent) + 1
    BY <2>4
  <2> QED BY <1>1, <2>3, <2>4, <2>5, RankedAppend
<1> QED BY <1>2, <1>3, <1>4, <1>5, <1>6

\* Requests for responding slaves are served first come, first served
\* (ModbusRTU.cpp:45): rotation turns the others past them and never past each
\* other, however many there are.
THEOREM FifoCorrect == Spec => PriorityFifo
<1>1. ASSUME Inv, Inv', [Next]_vars
      PROVE  \/ PriorityRequests' = PriorityRequests
             \/ PriorityRequests' = {[r EXCEPT !.rank = @ - 1] :
                                       r \in {q \in PriorityRequests : q.rank > 1}}
             \/ \E r \in PriorityRequests' :
                  /\ r.rank = Count(LAMBDA h : h.prio) + 1
                  /\ PriorityRequests' = PriorityRequests \cup {r}
  <2>1. \A i \in 1 .. Len(queueHeaders) : queueHeaders[i] \in Headers
    BY <1>1, ElementOfSeq DEF Inv, QueueOK
  <2>2. Places(queueHeaders, Urgent) = {i \in 1 .. Len(queueHeaders) : queueHeaders[i].prio}
    BY <2>1 DEF Places, Urgent
  <2>3. Number(queueHeaders, Urgent) = Count(LAMBDA h : h.prio)
    BY <2>2 DEF Number, Count
  <2> QED BY <1>1, <2>3, Moves, RankedNext, PriorityIsRanked DEF Advanced
<1> QED BY <1>1, Invariance, PTL DEF Spec, PriorityFifo

-----------------------------------------------------------------------------
(* Whose request a header is                                                 *)

\* A request from a socket is a TCP client's; one without bytes is a broadcast.
Owned == {h \in Headers : /\ h.sock \in Sockets => h.client \in TcpClients
                          /\ h.msgLen = 0 => h.scan}

AllOwned == queueHeaders \in Seq(Owned)

LEMMA OwnedNext ==
  ASSUME Inv, Inv', AllOwned, Left \/ Counted \/ Deleted \/ Rotated \/ StoredSome
  PROVE  AllOwned'
<1>1. queueHeaders # <<>> => Tail(queueHeaders) \in Seq(Owned) /\ queueHeaders[1] \in Owned
  BY HeadTailProperties, HeadHeader DEF AllOwned, Owned
<1>2. CASE Left
  BY <1>2 DEF Left, AllOwned
<1>3. CASE Counted
  <2>1. queueHeaders' \in Seq(Headers) /\ queueHeaders \in Seq(Owned)
    BY DEF Inv, QueueOK, AllOwned
  <2>2. ASSUME NEW i \in 1 .. Len(queueHeaders')
        PROVE  queueHeaders'[i] \in Owned
    <3>1. /\ queueHeaders[i] \in Headers /\ i \in 1 .. Len(queueHeaders)
          /\ queueHeaders'[i] \in {queueHeaders[i], [queueHeaders[i] EXCEPT !.atts = @ + 1]}
      BY <1>3, CountedHeader
    <3>2. queueHeaders'[i] \in Headers /\ queueHeaders[i] \in Owned
      BY <2>1, <3>1, ElementOfSeq
    <3> QED BY <3>1, <3>2 DEF Owned, Headers
  <2> QED BY <2>1, <2>2 DEF AllOwned
<1>4. CASE Deleted
  BY <1>1, <1>4 DEF Deleted, DeleteRequest, AllOwned
<1>5. CASE Rotated
  BY <1>1, <1>5, AppendProperties DEF Rotated, AllOwned
<1>6. CASE StoredSome
  <2>1. PICK c \in Clients, s \in 0 .. MaxSockNum, f \in Frames, prio \in BOOLEAN :
          Stored(c, s, f, prio)
    BY <1>6 DEF StoredSome
  <2>2. NewHeader(c, s, f, prio) \in Owned
    <3>1. NewHeader(c, s, f, prio) \in Headers
      BY <2>1, NewHeaderType DEF Stored
    <3>2. f.len = 0 => f.slave = 0
      BY FramesAssumption
    <3> QED BY <2>1, <3>1, <3>2 DEF Owned, Stored, NewHeader
  <2>3. queueHeaders' = Append(queueHeaders, NewHeader(c, s, f, prio))
    BY <2>1 DEF Stored, Store, NewHeader
  <2> QED BY <2>2, <2>3, AppendProperties DEF AllOwned
<1> QED BY <1>2, <1>3, <1>4, <1>5, <1>6

LEMMA OwnedAlways == Spec => []AllOwned
<1>1. Init => AllOwned
  BY EmptySeq DEF Init, AllOwned
<1>2. Inv /\ Inv' /\ AllOwned /\ [Next]_vars => AllOwned'
  BY Moves, OwnedNext
<1> QED BY <1>1, <1>2, Invariance, PTL DEF Spec

-----------------------------------------------------------------------------
(* The flags of slaves that failed                                           *)

SlavesIn(d) == {d[k].slave : k \in 1 .. Len(d)}

\* Only real addresses are marked, and "failed and in queue" has its request.
FlagsOK ==
  \A s \in Tracked : /\ slaveStatus[s] # "OTHER" => s # 0
                     /\ slaveStatus[s] = "0B_QUEUE" => s \in SlavesIn(queueData)

\* The request at the head, as the byte ring has it.
LEMMA HeadRequest ==
  ASSUME Inv, queueHeaders # <<>>
  PROVE  /\ Current = queueHeaders[1] /\ Current.msgLen \in Nat
         /\ Current.msgLen <= Len(queueData) /\ queueData \in Seq(Bytes)
         /\ \E slave \in Slaves :
              /\ Current.scan <=> slave = 0
              /\ \A k \in 1 .. Current.msgLen : queueData[k].slave = slave
<1>1. /\ queueHeaders \in Seq(Headers) /\ queueData \in Seq(Bytes)
      /\ Fits(queueHeaders, queueData)
  BY DEF Inv, QueueOK
<1>2. Current = queueHeaders[1] /\ Current.msgLen \in Nat
  BY <1>1, HeadHeader DEF Current
<1>3. Current.msgLen <= Len(queueData) /\ Whole(Current, queueData, 0)
  BY <1>1, <1>2, FitsTail
<1>4. PICK slave \in Slaves :
        /\ Current.scan <=> slave = 0
        /\ \A k \in 1 .. Current.msgLen :
             queueData[0 + k] = [slave |-> slave, client |-> Current.client, pos |-> k]
  BY <1>3 DEF Whole
<1>5. \A k \in 1 .. Current.msgLen : 0 + k = k
  BY <1>2
<1>6. \A k \in 1 .. Current.msgLen : queueData[k].slave = slave
  <2>1. ASSUME NEW k \in 1 .. Current.msgLen
        PROVE  queueData[k].slave = slave
    <3>1. queueData[0 + k] = [slave |-> slave, client |-> Current.client, pos |-> k]
      BY <1>4
    <3>2. 0 + k = k
      BY <1>5
    <3>3. queueData[0 + k].slave = slave
      BY <3>1
    <3> QED BY <3>2, <3>3
  <2> QED BY <2>1
<1> QED BY <1>1, <1>2, <1>3, <1>4, <1>6

\* With the head request go the bytes of one slave, the one they address, or
\* none.
LEMMA DeletedBytes ==
  ASSUME Inv, queueHeaders # <<>>, NEW slave \in HeadAddresses
  PROVE  SlavesIn(queueData) \ {slave} \subseteq SlavesIn(DropBytes(Current.msgLen))
<1> DEFINE m == Current.msgLen
           n == Len(queueData)
           r == DropBytes(m)
<1>1. m \in Nat /\ m <= n /\ n \in Nat /\ queueData \in Seq(Bytes)
  BY HeadRequest, LenProperties
<1>2. Len(r) = n - m /\ \A k \in 1 .. n - m : r[k] = queueData[m + k]
  BY <1>1, DropProperties DEF DropBytes
<1>3. ASSUME NEW k \in 1 .. n, queueData[k].slave # slave
      PROVE  queueData[k].slave \in SlavesIn(r)
  <2>1. k \notin 1 .. m
    <3>1. ASSUME k \in 1 .. m
          PROVE  FALSE
      <4>1. 1 \in 1 .. m /\ queueData # <<>>
        BY <1>1, <3>1
      <4>2. queueData[k].slave = queueData[1].slave
        BY <3>1, <4>1, HeadRequest
      <4> QED BY <1>3, <4>1, <4>2 DEF HeadAddresses
    <3> QED BY <3>1
  <2>2. k - m \in 1 .. n - m /\ m + (k - m) = k
    BY <1>1, <2>1
  <2>3. r[k - m] = queueData[k]
    BY <1>2, <2>2
  <2> QED BY <1>2, <2>2, <2>3 DEF SlavesIn
<1> QED BY <1>3 DEF SlavesIn

\* A broadcast takes no slave's bytes with it.
LEMMA DeletedBroadcast ==
  ASSUME Inv, queueHeaders # <<>>, Current.scan
  PROVE  SlavesIn(queueData) \ {0} \subseteq SlavesIn(DropBytes(Current.msgLen))
<1> DEFINE m == Current.msgLen
           n == Len(queueData)
           r == DropBytes(m)
<1>1. m \in Nat /\ m <= n /\ n \in Nat /\ queueData \in Seq(Bytes)
  BY HeadRequest, LenProperties
<1>2. Len(r) = n - m /\ \A k \in 1 .. n - m : r[k] = queueData[m + k]
  BY <1>1, DropProperties DEF DropBytes
<1>3. ASSUME NEW k \in 1 .. n, queueData[k].slave # 0
      PROVE  queueData[k].slave \in SlavesIn(r)
  <2>1. k \notin 1 .. m
    BY <1>3, HeadRequest
  <2>2. k - m \in 1 .. n - m /\ m + (k - m) = k
    BY <1>1, <2>1
  <2>3. r[k - m] = queueData[k]
    BY <1>2, <2>2
  <2> QED BY <1>2, <2>2, <2>3 DEF SlavesIn
<1> QED BY <1>3 DEF SlavesIn

\* A request that is no broadcast has bytes, and they address a real slave.
LEMMA HeadSlave ==
  ASSUME Inv, AllOwned, queueHeaders # <<>>, ~Current.scan, NEW slave \in HeadAddresses
  PROVE  slave # 0 /\ slave \in SlavesIn(queueData)
<1>1. Current.msgLen # 0
  <2>1. Current = queueHeaders[1] /\ queueHeaders \in Seq(Owned) /\ 1 \in 1 .. Len(queueHeaders)
    BY HeadHeader DEF Inv, QueueOK, AllOwned, Current
  <2>2. Current \in Owned
    BY <2>1, ElementOfSeq
  <2> QED BY <2>2 DEF Owned
<1>2. 1 \in 1 .. Current.msgLen /\ 1 \in 1 .. Len(queueData) /\ queueData # <<>>
  <2>1. Len(queueData) \in Nat
    BY HeadRequest, LenProperties
  <2> QED BY <1>1, <2>1, HeadRequest
<1>3. slave = queueData[1].slave
  BY <1>2 DEF HeadAddresses
<1> QED BY <1>2, <1>3, HeadRequest DEF SlavesIn

\* Rotation loses no byte.
LEMMA RotatedBytes ==
  ASSUME Inv, queueHeaders # <<>>
  PROVE  SlavesIn(queueData)
           \subseteq SlavesIn(DropBytes(Current.msgLen) \o SubSeq(queueData, 1, Current.msgLen))
<1> DEFINE m == Current.msgLen
           n == Len(queueData)
           r == DropBytes(m)
           t == SubSeq(queueData, 1, m)
<1>1. m \in Nat /\ m <= n /\ n \in Nat /\ queueData \in Seq(Bytes)
  BY HeadRequest, LenProperties
<1>2. /\ r \in Seq(Bytes) /\ Len(r) = n - m
      /\ \A k \in 1 .. n - m : r[k] = queueData[m + k]
  BY <1>1, DropProperties DEF DropBytes
<1>3. t \in Seq(Bytes) /\ Len(t) = m /\ \A k \in 1 .. m : t[k] = queueData[k]
  BY <1>1, TakeProperties
<1> HIDE DEF r, t
<1>4. /\ Len(r \o t) = (n - m) + m
      /\ \A k \in 1 .. (n - m) + m :
           (r \o t)[k] = IF k <= n - m THEN r[k] ELSE t[k - (n - m)]
  <2>1. /\ Len(r \o t) = Len(r) + Len(t)
        /\ \A k \in 1 .. Len(r) + Len(t) :
             (r \o t)[k] = IF k <= Len(r) THEN r[k] ELSE t[k - Len(r)]
    BY <1>2, <1>3, ConcatProperties
  <2> QED BY <2>1, <1>2, <1>3
<1> HIDE DEF m, n
<1>5. ASSUME NEW k \in 1 .. n
      PROVE  \E j \in 1 .. Len(r \o t) : (r \o t)[j] = queueData[k]
  <2>1. CASE k <= m
    <3>1. (n - m) + k \in 1 .. (n - m) + m /\ ~((n - m) + k <= n - m) /\ k \in 1 .. m
          /\ ((n - m) + k) - (n - m) = k
      BY <1>1, <2>1
    <3>2. (r \o t)[(n - m) + k] = queueData[k]
      BY <1>3, <1>4, <3>1
    <3> QED BY <1>4, <3>1, <3>2
  <2>2. CASE ~(k <= m)
    <3>1. k - m \in 1 .. (n - m) + m /\ k - m <= n - m /\ k - m \in 1 .. n - m
          /\ m + (k - m) = k
      BY <1>1, <2>2
    <3>2. (r \o t)[k - m] = queueData[k]
      BY <1>2, <1>4, <3>1
    <3> QED BY <1>4, <3>1, <3>2
  <2> QED BY <2>1, <2>2
<1> QED BY <1>5 DEF SlavesIn, n, r, t, m

\* A request appended adds the slave it addresses, if it has an address.
LEMMA StoredBytes ==
  ASSUME Inv, NEW c \in Clients, NEW f \in Frames, ~QueueFull(f.len),
         queueData' = queueData \o RequestBytes(f.slave, c, f.len)
  PROVE  /\ SlavesIn(queueData) \subseteq SlavesIn(queueData')
         /\ f.slave # 0 => f.slave \in SlavesIn(queueData')
<1> DEFINE e == RequestBytes(f.slave, c, f.len)
<1>1. PICK n \in Nat, l \in Nat : n = Len(queueData) /\ l = f.len /\ (l = 0 => f.slave = 0)
  BY LenProperties, FramesAssumption DEF Inv, QueueOK
<1>2. /\ e \in Seq(Bytes) /\ Len(e) = l
      /\ \A k \in 1 .. l : e[k].slave = f.slave
  <2>1. l <= DCap
    <3>1. ~(DCap - n < l) /\ n \in Nat /\ l \in Nat
      BY <1>1 DEF QueueFull
    <3> QED BY <3>1, SizesAssumption
  <2>2. f.slave \in Slaves
    BY DEF Slaves
  <2>3. ASSUME NEW k \in 1 .. l
        PROVE  [slave |-> f.slave, client |-> c, pos |-> k] \in Bytes
    <3>1. k \in 1 .. DCap
      BY <1>1, <2>1, SizesAssumption
    <3> QED BY <2>2, <3>1 DEF Bytes
  <2>4. e = [k \in 1 .. l |-> [slave |-> f.slave, client |-> c, pos |-> k]]
    BY <1>1 DEF RequestBytes
  <2>5. e \in [1 .. l -> Bytes]
    BY <2>3, <2>4
  <2>6. e \in Seq(Bytes) /\ Len(e) = l
    <3>1. ASSUME NEW g \in [1 .. l -> Bytes]
          PROVE  g \in Seq(Bytes) /\ Len(g) = l
      BY <1>1
    <3> QED BY <2>5, <3>1
  <2> QED BY <2>4, <2>6
<1> HIDE DEF e
<1>3. /\ Len(queueData') = n + l
      /\ \A k \in 1 .. n + l : queueData'[k] = IF k <= n THEN queueData[k] ELSE e[k - n]
  <2>1. queueData' = queueData \o e
    BY DEF e
  <2>2. queueData \in Seq(Bytes)
    BY DEF Inv, QueueOK
  <2>3. /\ Len(queueData \o e) = Len(queueData) + Len(e)
        /\ \A k \in 1 .. Len(queueData) + Len(e) :
             (queueData \o e)[k]
               = IF k <= Len(queueData) THEN queueData[k] ELSE e[k - Len(queueData)]
    BY <1>2, <2>2, ConcatProperties
  <2> QED BY <1>1, <1>2, <2>1, <2>3
<1>4. ASSUME NEW k \in 1 .. n
      PROVE  k \in 1 .. n + l /\ queueData'[k] = queueData[k]
  BY <1>1, <1>3
<1>5. ASSUME f.slave # 0
      PROVE  n + 1 \in 1 .. n + l /\ queueData'[n + 1].slave = f.slave
  <2>1. 1 \in 1 .. l /\ n + 1 \in 1 .. n + l /\ ~(n + 1 <= n) /\ (n + 1) - n = 1
    BY <1>1, <1>5
  <2> QED BY <1>2, <1>3, <2>1
<1> QED BY <1>1, <1>3, <1>4, <1>5 DEF SlavesIn

\* Marking a slave that has its request in the queue, or clearing it.
LEMMA FlagSet ==
  ASSUME Inv, FlagsOK, NEW slave, NEW status \in Statuses, SetSlaveStatus(slave, status),
         status # "OTHER" => slave # 0,
         status = "0B_QUEUE" => slave \in SlavesIn(queueData'),
         SlavesIn(queueData) \ {slave} \subseteq SlavesIn(queueData')
  PROVE  FlagsOK'
<1>1. slaveStatus \in [Tracked -> Statuses]
  BY DEF Inv, BooksOK
<1>2. \A s \in Tracked : slaveStatus'[s] = IF s = slave THEN status ELSE slaveStatus[s]
  BY <1>1 DEF SetSlaveStatus
<1> QED BY <1>2 DEF FlagsOK

\* checkRequest marks a slave as "failed and in queue" together with storing the
\* request that will clear the mark.
LEMMA CheckFlags ==
  ASSUME Inv, FlagsOK, NEW c \in Clients, NEW s \in 0 .. MaxSockNum, NEW f \in Frames,
         CheckRequest(c, s, f)
  PROVE  FlagsOK'
<1>1. CASE SetSlaveStatus(f.slave, "OTHER") /\ Reject(c, "0A")
  BY <1>1, FlagSet DEF Reject, queue, Statuses
<1>2. CASE Reject(c, "0B") /\ UNCHANGED slaveStatus
  BY <1>2 DEF Reject, queue, FlagsOK
<1>3. ASSUME NEW prio \in BOOLEAN, ~QueueFull(f.len), Store(c, s, f, prio)
      PROVE  /\ SlavesIn(queueData) \subseteq SlavesIn(queueData')
             /\ f.slave # 0 => f.slave \in SlavesIn(queueData')
  BY <1>3, StoredBytes DEF Store
<1>4. CASE /\ ~QueueFull(f.len) /\ StatusOf(f.slave) = "0B"
           /\ SetSlaveStatus(f.slave, "0B_QUEUE") /\ Store(c, s, f, FALSE)
  <2>1. f.slave # 0
    BY <1>4 DEF StatusOf, FlagsOK
  <2> QED BY <1>3, <1>4, <2>1, FlagSet DEF Statuses
<1>5. CASE ~QueueFull(f.len) /\ Store(c, s, f, TRUE) /\ UNCHANGED slaveStatus
  BY <1>3, <1>5 DEF FlagsOK
<1> QED BY <1>1, <1>2, <1>4, <1>5 DEF CheckRequest

LEMMA FlagsNext ==
  ASSUME Inv, AllOwned, FlagsOK, [Next]_vars
  PROVE  FlagsOK'
<1>1. ASSUME UNCHANGED <<queueData, slaveStatus>>
      PROVE  FlagsOK'
  BY <1>1 DEF FlagsOK
<1>2. ASSUME DeleteRequest
      PROVE  queueData' = DropBytes(Current.msgLen)
  BY <1>2 DEF DeleteRequest
<1>3. CASE SendSerial
  <2>1. CASE TimeoutScan
    <3>1. queueHeaders # <<>> /\ Current.scan /\ DeleteRequest /\ UNCHANGED slaveStatus
      BY <2>1 DEF TimeoutScan, WaitingOver, SendSerialReady
    <3>2. SlavesIn(queueData) \ {0} \subseteq SlavesIn(queueData')
      BY <1>2, <3>1, DeletedBroadcast
    <3> QED BY <3>1, <3>2 DEF FlagsOK
  <2>2. CASE TimeoutLast
    <3>1. /\ queueHeaders # <<>> /\ ~Current.scan /\ DeleteRequest
          /\ \E slave \in HeadAddresses : SetSlaveStatus(slave, "0B")
      BY <2>2 DEF TimeoutLast, WaitingOver, SendSerialReady, SendResponse
    <3>2. PICK slave \in HeadAddresses : SetSlaveStatus(slave, "0B")
      BY <3>1
    <3>3. slave # 0 /\ SlavesIn(queueData) \ {slave} \subseteq SlavesIn(queueData')
      BY <1>2, <3>1, HeadSlave, DeletedBytes
    <3> QED BY <3>2, <3>3, FlagSet DEF Statuses
  <2>3. CASE TimeoutRetry
    <3>1. /\ queueHeaders # <<>> /\ ~Current.scan /\ queueData' = queueData
          /\ \E slave \in HeadAddresses : SetSlaveStatus(slave, "0B_QUEUE")
      BY <2>3 DEF TimeoutRetry, WaitingOver, SendSerialReady, queue
    <3>2. PICK slave \in HeadAddresses : SetSlaveStatus(slave, "0B_QUEUE")
      BY <3>1
    <3>3. slave # 0 /\ slave \in SlavesIn(queueData')
      BY <3>1, HeadSlave
    <3> QED BY <3>1, <3>2, <3>3, FlagSet DEF Statuses
  <2>4. CASE Rotate
    <3>1. queueHeaders # <<>> /\ UNCHANGED slaveStatus
      BY <2>4 DEF Inv, RestOK, Rotate, books
    <3>2. SlavesIn(queueData) \subseteq SlavesIn(queueData')
      BY <2>4, <3>1, RotatedBytes DEF Rotate
    <3> QED BY <3>1, <3>2 DEF FlagsOK
  <2>5. CASE SendSerialSkip \/ Idle \/ RotateDone \/ Sending \/ Delay
    BY <1>1, <2>5 DEF SendSerialSkip, Idle, RotateDone, Sending, Delay, queue, books
  <2> QED BY <1>3, <2>1, <2>2, <2>3, <2>4, <2>5 DEF SendSerial
<1>4. CASE RecvUdp
  <2>1. CASE NoRequest
    BY <1>1, <2>1 DEF NoRequest, queue, books
  <2>2. ASSUME NEW c \in UdpClients, NEW f \in Frames, CheckRequest(c, MaxSockNum, f)
        PROVE  FlagsOK'
    <3>1. c \in Clients /\ MaxSockNum \in 0 .. MaxSockNum
      BY SizesAssumption DEF Clients
    <3> QED BY <2>2, <3>1, CheckFlags
  <2> QED BY <1>4, <2>1, <2>2 DEF RecvUdp
<1>5. CASE RecvSerial
  <2>1. CASE RecvSerialReply
    <3> DEFINE slave == Head(rxBuf).slave
    <3>1. /\ queueHeaders # <<>> /\ DeleteRequest /\ slave \in HeadAddresses
          /\ SetSlaveStatus(slave, "OTHER")
      BY <2>1 DEF RecvSerialReply, SendResponse, Inv, AttemptsOK
    <3>2. SlavesIn(queueData) \ {slave} \subseteq SlavesIn(queueData')
      BY <1>2, <3>1, DeletedBytes
    <3> QED BY <3>1, <3>2, FlagSet DEF Statuses
  <2>2. CASE RecvSerialNone \/ RecvSerialDiscard \/ FreeRxBuffer
    BY <1>1, <2>2 DEF RecvSerialNone, RecvSerialDiscard, FreeRxBuffer, queue, books
  <2> QED BY <1>5, <2>1, <2>2 DEF RecvSerial
<1>6. CASE ManageSockets
  <2>1. CASE NoRequest
    BY <1>1, <2>1 DEF NoRequest, queue, books
  <2>2. ASSUME NEW s \in Sockets, NEW f \in Frames,
               snSR[s] \in {"ESTABLISHED", "CLOSE_WAIT"}, CheckRequest(peer[s], s, f)
        PROVE  FlagsOK'
    <3>1. peer[s] \in Clients /\ s \in 0 .. MaxSockNum
      BY <2>2, SizesAssumption DEF Inv, TcpOK, Clients, Sockets
    <3> QED BY <2>2, <3>1, CheckFlags
  <2> QED BY <1>6, <2>1, <2>2, SocketRequests
<1>7. CASE World
  BY <1>1, <1>7 DEF World, TimerExpires, Fetch, TxDone, LineStarts, LineIdle, Network, queue, books
<1>8. CASE UNCHANGED vars
  BY <1>1, <1>8 DEF vars, queue, books
<1> QED BY <1>3, <1>4, <1>5, <1>6, <1>7, <1>8 DEF Next, MainLoop

\* A slave is marked as "failed and in queue" only while a request for it waits,
\* which will clear the mark: no slave is locked out for good.
THEOREM FlagCorrect == Spec => []QueueFlagBacked
<1>1. Init => FlagsOK
  BY DEF Init, FlagsOK
<1>2. Inv /\ AllOwned /\ FlagsOK /\ [Next]_vars => FlagsOK'
  BY FlagsNext
<1>3. FlagsOK => QueueFlagBacked
  BY DEF FlagsOK, QueueFlagBacked, SlavesIn
<1> QED BY <1>1, <1>2, <1>3, Invariance, OwnedAlways, PTL DEF Spec
=============================================================================
