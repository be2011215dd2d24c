------------------------ MODULE GatewayServiceProofs ------------------------
(***************************************************************************)
(* The gateway implements the service its clients see: every request that  *)
(* is taken is answered once.  For any number of clients, sockets and      *)
(* slaves, any frames and any queue sizes.                                 *)
(***************************************************************************)
EXTENDS GatewayBookProofs

\* Headers of requests that are the same to their clients.
Same(r) == {h \in Headers : Asked(h) = r}

\* What waits in a queue, counted the way the queue's proofs count.
Numbers(hs) == [r \in Requests |-> Number(hs, Same(r))]

LEMMA WaitingInQueue ==
  ASSUME NEW hs \in Seq(Headers)
  PROVE  /\ [r \in Requests |-> Cardinality({i \in 1 .. Len(hs) : Asked(hs[i]) = r})] = Numbers(hs)
         /\ \A r \in Requests : Number(hs, Same(r)) \in Nat
<1>1. \A i \in 1 .. Len(hs) : hs[i] \in Headers
  BY ElementOfSeq
<1>2. ASSUME NEW r \in Requests
      PROVE  /\ Places(hs, Same(r)) = {i \in 1 .. Len(hs) : Asked(hs[i]) = r}
             /\ Number(hs, Same(r)) \in Nat
  BY <1>1, NumberNat DEF Places, Same
<1> QED BY <1>2 DEF Number, Numbers

LEMMA WaitingIsNumbers ==
  ASSUME Inv, Inv'
  PROVE  Waiting = Numbers(queueHeaders) /\ Waiting' = Numbers(queueHeaders')
<1>1. queueHeaders \in Seq(Headers) /\ queueHeaders' \in Seq(Headers)
  BY DEF Inv, QueueOK
<1>2. Waiting = Numbers(queueHeaders)
  BY <1>1, WaitingInQueue DEF Waiting
<1>3. Waiting' = Numbers(queueHeaders')
  BY <1>1, WaitingInQueue DEF Waiting
<1> QED BY <1>2, <1>3

LEMMA AskedType ==
  ASSUME NEW h \in Headers
  PROVE  Asked(h) \in Requests /\ \A r : h \in Same(r) <=> r = Asked(h)
<1>1. h.sock \in Sockets \cup {MaxSockNum}
  BY SizesAssumption DEF Headers, Sockets
<1> QED BY <1>1 DEF Asked, Requests, Same, Headers

\* One header more or less is one request more or less.
LEMMA OneLess ==
  ASSUME Inv, Inv', queueHeaders # <<>>, queueHeaders' = Tail(queueHeaders)
  PROVE  /\ Asked(Current) \in Requests
         /\ Waiting[Asked(Current)] > 0
         /\ Waiting' = [Waiting EXCEPT ![Asked(Current)] = @ - 1]
<1> DEFINE h == queueHeaders[1]
           q == Asked(h)
<1>1. /\ queueHeaders \in Seq(Headers) /\ queueHeaders' \in Seq(Headers)
      /\ h \in Headers /\ Current = h
  BY HeadHeader DEF Inv, QueueOK, Current
<1>2. q \in Requests /\ \A r : h \in Same(r) <=> r = q
  BY <1>1, AskedType
<1> HIDE DEF h, q
<1>3. ASSUME NEW r \in Requests
      PROVE  /\ Number(queueHeaders', Same(r)) = Number(queueHeaders, Same(r)) - One(h, Same(r))
             /\ Number(queueHeaders, Same(r)) \in Nat
             /\ Number(queueHeaders', Same(r)) \in Nat
             /\ One(h, Same(r)) = IF r = q THEN 1 ELSE 0
  BY <1>1, <1>2, NumberTail, NumberNat DEF One, h
<1>4. /\ Waiting = [r \in Requests |-> Number(queueHeaders, Same(r))]
      /\ Waiting' = [r \in Requests |-> Number(queueHeaders', Same(r))]
  BY WaitingIsNumbers DEF Numbers
<1>5. Waiting[q] > 0
  BY <1>2, <1>3, <1>4
<1>6. Waiting' = [Waiting EXCEPT ![q] = @ - 1]
  BY <1>2, <1>3, <1>4
<1> QED BY <1>1, <1>2, <1>5, <1>6 DEF q

LEMMA OneMore ==
  ASSUME Inv, Inv', StoredSome
  PROVE  \E r \in Requests : Waiting' = [Waiting EXCEPT ![r] = @ + 1]
<1>1. PICK c \in Clients, s \in 0 .. MaxSockNum, f \in Frames, prio \in BOOLEAN :
        Stored(c, s, f, prio)
  BY DEF StoredSome
<1> DEFINE h == NewHeader(c, s, f, prio)
           q == Asked(h)
<1>2. /\ h \in Headers
      /\ queueHeaders' = Append(queueHeaders, h)
      /\ queueHeaders \in Seq(Headers)
  BY <1>1, NewHeaderType DEF Stored, Store, NewHeader, Inv, QueueOK
<1>3. q \in Requests /\ \A r : h \in Same(r) <=> r = q
  BY <1>2, AskedType
<1> HIDE DEF h, q
<1>4. ASSUME NEW r \in Requests
      PROVE  /\ Number(queueHeaders', Same(r)) = Number(queueHeaders, Same(r)) + One(h, Same(r))
             /\ Number(queueHeaders, Same(r)) \in Nat
             /\ One(h, Same(r)) = IF r = q THEN 1 ELSE 0
  BY <1>2, <1>3, NumberAppend, NumberNat DEF One
<1>5. /\ Waiting = [r \in Requests |-> Number(queueHeaders, Same(r))]
      /\ Waiting' = [r \in Requests |-> Number(queueHeaders', Same(r))]
  BY WaitingIsNumbers DEF Numbers
<1>6. Waiting' = [Waiting EXCEPT ![q] = @ + 1]
  BY <1>3, <1>4, <1>5
<1> QED BY <1>3, <1>6

\* Rotation and counting an attempt leave what waits as it is.
LEMMA NoneMoreOrLess ==
  ASSUME Inv, Inv', Left \/ Counted \/ Rotated
  PROVE  Waiting' = Waiting
<1>1. CASE Left
  BY <1>1 DEF Left, Waiting
<1>2. CASE Counted
  <2>1. ASSUME NEW r \in Requests
        PROVE  Number(queueHeaders', Same(r)) = Number(queueHeaders, Same(r))
    <3>1. \A h, g \in Headers :
            Identity(h) = Identity(g) => (h \in Same(r) <=> g \in Same(r))
      BY DEF Identity, Same, Asked, Headers
    <3> QED BY <1>2, <3>1, CountedNumber
  <2> QED BY <2>1, WaitingIsNumbers DEF Numbers
<1>3. CASE Rotated
  <2>1. /\ queueHeaders \in Seq(Headers) /\ queueHeaders # <<>>
        /\ Tail(queueHeaders) \in Seq(Headers) /\ queueHeaders[1] \in Headers
    BY <1>3, HeadHeader, HeadTailProperties DEF Inv, QueueOK, Rotated
  <2>2. ASSUME NEW r \in Requests
        PROVE  Number(queueHeaders', Same(r)) = Number(queueHeaders, Same(r))
    <3>1. Number(Tail(queueHeaders), Same(r))
            = Number(queueHeaders, Same(r)) - One(queueHeaders[1], Same(r))
      BY <2>1, NumberTail
    <3>2. Number(queueHeaders', Same(r))
            = Number(Tail(queueHeaders), Same(r)) + One(queueHeaders[1], Same(r))
      BY <1>3, <2>1, NumberAppend DEF Rotated
    <3>3. Number(queueHeaders, Same(r)) \in Nat /\ One(queueHeaders[1], Same(r)) \in Nat
      BY <2>1, NumberNat DEF One
    <3> QED BY <3>1, <3>2, <3>3
  <2> QED BY <2>2, WaitingIsNumbers DEF Numbers
<1> QED BY <1>1, <1>2, <1>3

-----------------------------------------------------------------------------
(* Every step of the gateway is a step of the service                        *)

\* What leaves the queue alone or only turns it around, in silence.
LEMMA SilentStep ==
  ASSUME Inv, Inv', Left \/ Counted \/ Rotated, sent' = {}
  PROVE  Service!Nothing
  BY NoneMoreOrLess DEF Service!Nothing

\* checkRequest takes a request or refuses it.
LEMMA CheckStep ==
  ASSUME Inv, Inv', NEW c \in Clients, NEW s \in 0 .. MaxSockNum, NEW f \in Frames,
         CheckRequest(c, s, f), s \in Sockets => c \in TcpClients /\ socketInQueue[s] = 0
  PROVE  \/ \E r \in Service!Requests : Service!Take(r)
         \/ \E d \in Clients : Service!Refuse(d)
<1>1. CASE \E kind \in {"0A", "0B"} : Reject(c, kind)
  <2>1. Left
    BY <1>1 DEF Reject, Left, queue
  <2>2. \E kind \in {"0A", "0B"} : sent' = {[to |-> c, about |-> c, kind |-> kind]}
    BY <1>1 DEF Reject
  <2>3. Waiting' = Waiting
    BY <2>1, NoneMoreOrLess
  <2> QED BY <2>2, <2>3 DEF Service!Refuse, Service!Message
<1>2. ASSUME NEW prio \in BOOLEAN, ~QueueFull(f.len), Store(c, s, f, prio)
      PROVE  \E r \in Service!Requests : Service!Take(r)
  <2>1. StoredSome
    BY <1>2 DEF Stored, StoredSome
  <2>2. sent' = {}
    BY <1>2 DEF Store
  <2>3. PICK r \in Requests : Waiting' = [Waiting EXCEPT ![r] = @ + 1]
    BY <2>1, OneMore
  <2> QED BY <2>2, <2>3 DEF Requests, Service!Requests, Service!Take
<1> QED BY <1>1, <1>2 DEF CheckRequest

\* The request at the head is the client's whom it says.
LEMMA HeadOwned ==
  ASSUME Inv, AllOwned, queueHeaders # <<>>
  PROVE  Current \in Owned /\ Current \in Headers
<1>1. Current = queueHeaders[1] /\ queueHeaders \in Seq(Owned) /\ 1 \in 1 .. Len(queueHeaders)
  BY HeadHeader DEF Inv, QueueOK, AllOwned, Current
<1>2. Current \in Owned
  BY <1>1, ElementOfSeq
<1> QED BY <1>2 DEF Owned

\* sendResponse answers the request at the head, if its client can be reached.
LEMMA ResponseStep ==
  ASSUME Inv, Inv', AllOwned, queueHeaders # <<>>,
         NEW kind \in {"reply", "0B"}, SendResponse(kind),
         \A c, d \in TcpClients : Port[c] = Port[d] => c = d
  PROVE  \E r \in Service!Requests : Service!Answer(r)
<1> DEFINE h == Current
           r == Asked(h)
<1>1. h \in Owned /\ h \in Headers
  BY HeadOwned
<1>2. /\ r \in Requests /\ Waiting[r] > 0
      /\ Waiting' = [Waiting EXCEPT ![r] = @ - 1]
  <2>1. queueHeaders' = Tail(queueHeaders)
    BY DEF SendResponse, DeleteRequest
  <2> QED BY <2>1, OneLess
<1>3. r.client = h.client /\ r.sock = h.sock
  BY DEF Asked
<1>4. sent' = {[to |-> c, about |-> h.client, kind |-> kind] : c \in Recipients(h)}
  BY DEF SendResponse
<1> HIDE DEF h, r
<1>5. Recipients(h) = IF Service!Reaches(r) THEN {h.client} ELSE {}
  <2>1. CASE h.sock \in Sockets
    <3>1. h.client \in TcpClients /\ h.client # NoClient /\ h.sock # MaxSockNum
      BY <1>1, <2>1, ClientsAssumption, SizesAssumption DEF Owned, Clients, Sockets
    <3>2. Connected[h.sock] = IF snSR[h.sock] = "ESTABLISHED" THEN peer[h.sock] ELSE NoClient
      BY <2>1 DEF Connected
    <3>3. snSR[h.sock] = "ESTABLISHED" => peer[h.sock] \in TcpClients
      BY <2>1 DEF Inv, TcpOK
    <3>4. Service!Reaches(r) <=> Connected[h.sock] = h.client
      BY <1>3, <3>1 DEF Service!Reaches
    <3> QED BY <2>1, <3>1, <3>2, <3>3, <3>4 DEF Recipients, IsTcp
  <2>2. CASE h.sock \notin Sockets
    <3>1. h.sock = MaxSockNum
      BY <1>1, <2>2, SizesAssumption DEF Headers, Sockets
    <3>2. Service!Reaches(r)
      BY <1>3, <3>1 DEF Service!Reaches
    <3> QED BY <2>2, <3>2 DEF Recipients, IsTcp
  <2> QED BY <2>1, <2>2
<1>6. sent' = IF Service!Reaches(r)
              THEN {[to |-> h.client, about |-> h.client, kind |-> kind]} ELSE {}
  BY <1>4, <1>5
<1>7. Service!Answer(r)
  BY <1>2, <1>3, <1>6 DEF Service!Answer, Service!Done, Service!Message
<1>8. r \in Service!Requests
  BY <1>2 DEF Requests, Service!Requests
<1> QED BY <1>7, <1>8

LEMMA ServiceStep ==
  ASSUME Inv, Inv', AllOwned, [Next]_vars,
         \A c, d \in TcpClients : Port[c] = Port[d] => c = d
  PROVE  Service!Next \/ UNCHANGED Service!vars
<1> DEFINE Step == \/ Service!Nothing
                   \/ \E c \in Clients : Service!Refuse(c)
                   \/ \E r \in Service!Requests :
                        Service!Take(r) \/ Service!Answer(r) \/ Service!Finish(r)
<1>1. Step => Service!Next
  <2>1. Connected' \in [Sockets -> Clients \cup {NoClient}]
    BY DEF Inv, TcpOK, Connected, Clients
  <2> QED BY <2>1 DEF Service!Next
<1> HIDE DEF Step
<1>2. CASE SendSerial
  <2>1. CASE SendSerialSkip \/ Idle \/ RotateDone \/ Sending \/ TimeoutRetry
    <3>1. Left /\ sent' = {}
      BY <2>1 DEF SendSerialSkip, Idle, RotateDone, Sending, TimeoutRetry, Left, queue, books
    <3> QED BY <3>1, <1>1, SilentStep DEF Step
  <2>2. CASE Delay
    <3>1. Counted /\ sent' = {}
      BY <2>2 DEF Delay, SendSerialReady, Counted, books
    <3> QED BY <3>1, <1>1, SilentStep DEF Step
  <2>3. CASE Rotate
    <3>1. queueHeaders # <<>>
      BY <2>3 DEF Inv, RestOK, Rotate
    <3>2. Current = queueHeaders[1]
      BY <3>1, HeadHeader DEF Inv, QueueOK, Current
    <3>3. Rotated /\ sent' = {}
      BY <2>3, <3>1, <3>2 DEF Rotate, MustRotate, Rotated, books
    <3> QED BY <3>3, <1>1, SilentStep DEF Step
  <2>4. CASE TimeoutScan
    <3>1. queueHeaders # <<>> /\ queueHeaders' = Tail(queueHeaders) /\ Current.scan /\ sent' = {}
      BY <2>4 DEF TimeoutScan, WaitingOver, SendSerialReady, DeleteRequest
    <3>2. /\ Asked(Current) \in Requests /\ Waiting[Asked(Current)] > 0
          /\ Waiting' = [Waiting EXCEPT ![Asked(Current)] = @ - 1]
      BY <3>1, OneLess
    <3>3. Service!Finish(Asked(Current))
      BY <3>1, <3>2 DEF Service!Finish, Service!Done, Asked
    <3> QED BY <3>2, <3>3, <1>1 DEF Step, Requests, Service!Requests
  <2>5. CASE TimeoutLast
    <3>1. queueHeaders # <<>> /\ SendResponse("0B")
      BY <2>5 DEF TimeoutLast, WaitingOver, SendSerialReady
    <3> QED BY <3>1, <1>1, ResponseStep DEF Step
  <2> QED BY <1>2, <2>1, <2>2, <2>3, <2>4, <2>5 DEF SendSerial
<1>3. ASSUME NoRequest
      PROVE  Service!Nothing
  <2>1. Left /\ sent' = {}
    BY <1>3 DEF NoRequest, Left, queue, books
  <2> QED BY <2>1, SilentStep
<1>4. CASE RecvUdp
  <2>1. ASSUME NEW c \in UdpClients, NEW f \in Frames, CheckRequest(c, MaxSockNum, f)
        PROVE  Step
    <3>1. c \in Clients /\ MaxSockNum \in 0 .. MaxSockNum /\ MaxSockNum \notin Sockets
      BY SizesAssumption DEF Clients, Sockets
    <3> QED BY <2>1, <3>1, CheckStep DEF Step
  <2> QED BY <1>1, <1>3, <1>4, <2>1 DEF RecvUdp, Step
<1>5. CASE RecvSerial
  <2>1. CASE RecvSerialReply
    <3>1. queueHeaders # <<>> /\ SendResponse("reply")
      BY <2>1 DEF RecvSerialReply, Inv, AttemptsOK
    <3> QED BY <3>1, <1>1, ResponseStep DEF Step
  <2>2. CASE RecvSerialNone \/ RecvSerialDiscard \/ FreeRxBuffer
    <3>1. Left /\ sent' = {}
      BY <2>2 DEF RecvSerialNone, RecvSerialDiscard, FreeRxBuffer, Left, queue, books
    <3> QED BY <3>1, <1>1, SilentStep DEF Step
  <2> QED BY <1>5, <2>1, <2>2 DEF RecvSerial
<1>6. CASE ManageSockets
  <2>1. PICK data \in SUBSET (In("ESTABLISHED") \cup In("CLOSE_WAIT")) :
          NoRequest \/ \E s \in data, f \in Frames : CheckRequest(peer[s], s, f)
    BY <1>6 DEF ManageSockets
  <2>2. ASSUME NEW s \in data, NEW f \in Frames, CheckRequest(peer[s], s, f)
        PROVE  Step
    <3>1. s \in Sockets /\ snSR[s] \in {"ESTABLISHED", "CLOSE_WAIT"} /\ socketInQueue[s] = 0
      BY <2>1 DEF In, Seen
    <3>2. peer[s] \in TcpClients
      BY <3>1 DEF Inv, TcpOK
    <3>3. s \in 0 .. MaxSockNum /\ peer[s] \in Clients
      BY <3>1, <3>2, SizesAssumption DEF Sockets, Clients
    <3> QED BY <2>2, <3>1, <3>2, <3>3, CheckStep DEF Step
  <2> QED BY <1>1, <1>3, <2>1, <2>2 DEF Step
<1>7. CASE World
  <2>1. Left /\ sent' = {}
    BY <1>7 DEF World, TimerExpires, Fetch, TxDone, LineStarts, LineIdle, Network, Left, queue, books
  <2> QED BY <2>1, <1>1, SilentStep DEF Step
<1>8. CASE UNCHANGED vars
  <2>1. UNCHANGED <<queueHeaders, snSR, peer, sent>>
    BY <1>8 DEF vars, queue, tcp
  <2> QED BY <2>1 DEF Service!vars, Waiting, Connected
<1> QED BY <1>2, <1>4, <1>5, <1>6, <1>7, <1>8 DEF Next, MainLoop

LEMMA ServiceInit == Init => Service!Init
<1> SUFFICES ASSUME Init PROVE Service!Init
  OBVIOUS
<1>1. queueHeaders = <<>> /\ sent = {}
  BY DEF Init
<1>2. Waiting = [r \in Service!Requests |-> 0]
  <2>1. ASSUME NEW r \in Requests
        PROVE  Cardinality({i \in 1 .. Len(queueHeaders) : Asked(queueHeaders[i]) = r}) = 0
    <3>1. {i \in 1 .. Len(queueHeaders) : Asked(queueHeaders[i]) = r} = {}
      BY <1>1
    <3> QED BY <3>1, FS_EmptySet
  <2> QED BY <2>1 DEF Waiting, Requests, Service!Requests
<1>3. Connected = [s \in Sockets |-> NoClient]
  BY DEF Init, Connected
<1> QED BY <1>1, <1>2, <1>3 DEF Service!Init

\* When no two clients connect from the same port, every request the gateway
\* takes is answered exactly once, to its client if that can be reached, and
\* nothing else is sent (sendResponse and deleteRequest, ModbusTCP.cpp:363, 394).
THEOREM ServiceImplemented ==
  ASSUME \A c, d \in TcpClients : Port[c] = Port[d] => c = d
  PROVE  Spec => ImplementsService
<1>1. Inv /\ Inv' /\ AllOwned /\ [Next]_vars => [Service!Next]_(Service!vars)
  BY ServiceStep
<1> QED BY <1>1, ServiceInit, Invariance, OwnedAlways, PTL DEF Spec, ImplementsService, Service!Spec
=============================================================================
