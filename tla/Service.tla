------------------------------ MODULE Service ------------------------------
(***************************************************************************)
(* What the gateway promises its clients, whatever its queue, its slaves   *)
(* and its connections do: a request it takes is done with once, and then  *)
(* its client, nobody else, gets one message about it.  There are two      *)
(* exceptions.  A broadcast need not be answered.  A request that came     *)
(* over TCP is answered only while its client is connected.  A request it  *)
(* does not take is refused at once.  Nothing else is ever said.           *)
(***************************************************************************)
EXTENDS Integers

CONSTANTS
  Clients, NoClient,
  Sockets,  \* for TCP
  Udp       \* stands for UDP in the place of a socket

VARIABLES
  waiting,    \* how many requests of each kind were taken and not done with
  connected,  \* the client on each socket
  said        \* what the last step sent: at most one message

vars == <<waiting, connected, said>>

Requests == [client : Clients, sock : Sockets \cup {Udp}, broadcast : BOOLEAN]

Message(c, kind) == [to |-> c, about |-> c, kind |-> kind]

Reaches(r) == r.sock = Udp \/ connected[r.sock] = r.client

Nothing == said' = {} /\ UNCHANGED waiting

Refuse(c) ==
  /\ \E kind \in {"0A", "0B"} : said' = {Message(c, kind)}
  /\ UNCHANGED waiting

Take(r) ==
  /\ said' = {}
  /\ waiting' = [waiting EXCEPT ![r] = @ + 1]

Done(r) ==
  /\ waiting[r] > 0
  /\ waiting' = [waiting EXCEPT ![r] = @ - 1]

Answer(r) ==
  /\ \E kind \in {"reply", "0B"} : said' = IF Reaches(r) THEN {Message(r.client, kind)} ELSE {}
  /\ Done(r)

Finish(r) ==
  /\ r.broadcast
  /\ said' = {}
  /\ Done(r)

Init ==
  /\ waiting = [r \in Requests |-> 0]
  /\ connected = [s \in Sockets |-> NoClient]
  /\ said = {}

\* Connections come and go in any step.
Next ==
  /\ \/ Nothing
     \/ \E c \in Clients : Refuse(c)
     \/ \E r \in Requests : Take(r) \/ Answer(r) \/ Finish(r)
  /\ connected' \in [Sockets -> Clients \cup {NoClient}]

Spec == Init /\ [][Next]_vars
=============================================================================
