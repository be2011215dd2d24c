------------------------------- MODULE Dhcp -------------------------------
(***************************************************************************)
(* The DHCP client of the Ethernet library as the gateway uses it: setup   *)
(* repeats startEthernet until a lease is obtained, then the last thing in *)
(* every pass of the main loop is Ethernet.maintain, which renews or       *)
(* rebinds the lease and blocks the loop for as long as that takes.        *)
(*                                                                         *)
(* A transaction id is abstracted to whether a packet is accepted.  Time   *)
(* in the loop is counted in ticks, time inside a call in response         *)
(* timeouts.  An operator named X_Something is X with a fault seeded into  *)
(* it.                                                                     *)
(***************************************************************************)
EXTENDS Integers

CONSTANTS
  Addresses,     \* that servers lease
  Servers,
  Owner,         \* the server an address belongs to
  Options,       \* lease, T1 and T2 in a packet; 0: not in it
  DefaultLease,  \* DEFAULT_LEASE
  Second,        \* ticks in a second
  Wrap,          \* the count of ticks wraps here
  MaxPass,       \* longest pass of the main loop, in ticks
  Timeout,       \* _timeout, in units of _responseTimeout
  Calm,          \* TRUE: a socket is always free and packets arrive at once
  None           \* 0.0.0.0

ASSUME OwnerAssumption == Owner \in [Addresses -> Servers]

ASSUME OptionsAssumption == Options \subseteq [lease : Nat, t1 : Nat, t2 : Nat]

ASSUME TimesAssumption ==
  /\ DefaultLease \in Nat \ {0}
  /\ Second \in Nat \ {0}
  /\ MaxPass \in Nat \ {0}
  /\ Wrap \in Nat /\ Wrap > MaxPass + Second
  /\ Timeout \in Nat

ASSUME CalmAssumption == Calm \in BOOLEAN

ASSUME NoneAssumption == None \notin Addresses \cup Servers

VARIABLES
  at,           \* "setup", "request" (in request_DHCP_lease) or "loop"
  caller,       \* of request_DHCP_lease: "begin", "renew" or "rebind"
  state,        \* _dhcp_state
  lease, t1, t2,
  renewInSec, rebindInSec,
  localIp, serverIp,
  asked,        \* server and address in the last REQUEST of this call
  spent,        \* time since the call began
  now, lastCheck,
  ip,           \* the address the chip has
  granted, age  \* the address acknowledged last, and ticks since

times    == <<lease, t1, t2>>
counters == <<renewInSec, rebindInSec>>
reply    == <<localIp, serverIp>>
clock    == <<now, lastCheck>>
history  == <<granted, age>>
vars == <<at, caller, state, times, counters, reply, asked, spent, clock, ip, history>>

States == {"START", "DISCOVER", "REQUEST", "LEASED", "REREQUEST"}

TypeOK ==
  /\ at \in {"setup", "request", "loop"}
  /\ caller \in {"begin", "renew", "rebind"}
  /\ state \in States
  /\ {lease, t1, t2, renewInSec, rebindInSec, age} \subseteq Nat
  /\ localIp \in Addresses \cup {None} /\ serverIp \in Servers \cup {None}
  /\ asked \in [server : Servers \cup {None}, ip : Addresses \cup {None}]
  /\ spent \in 0 .. Timeout + 1
  /\ {now, lastCheck} \subseteq 0 .. Wrap - 1
  /\ ip \in Addresses \cup {None, "static"}
  /\ granted \in Addresses \cup {None}

-----------------------------------------------------------------------------
(* Entering request_DHCP_lease                                              *)

Nobody == [server |-> None, ip |-> None]

\* After a reset of the chip there is always a socket.
Enter(who) ==
  /\ at' = "request"
  /\ caller' = who
  /\ spent' = 0
  /\ asked' = Nobody

\* No socket: the call returns 0 at once.
EnterOrFail(who) ==
  \/ Enter(who)
  \/ ~Calm /\ at' = "loop" /\ UNCHANGED <<caller, spent, asked>>

StartEthernet ==
  /\ at = "setup"
  /\ lease' = 0 /\ t1' = 0 /\ t2' = 0
  /\ localIp' = None /\ serverIp' = None
  /\ state' = "START"
  /\ ip' = None
  /\ Enter("begin")
  /\ UNCHANGED <<counters, clock, history>>

-----------------------------------------------------------------------------
(* The loop of request_DHCP_lease                                           *)

Running == at = "request" /\ state # "LEASED" /\ spent <= Timeout

Goes(s) == state' = s

SendDiscover ==
  /\ Running /\ state = "START"
  /\ Goes("DISCOVER")
  /\ UNCHANGED <<at, caller, times, counters, reply, asked, spent, clock, ip, history>>

SendRerequest ==
  /\ Running /\ state = "REREQUEST"
  /\ Goes("REQUEST")
  /\ asked' = [server |-> serverIp, ip |-> localIp]
  /\ UNCHANGED <<at, caller, times, counters, reply, spent, clock, ip, history>>

Listening == Running /\ state \in {"DISCOVER", "REQUEST"}

Silence ==
  /\ Listening
  /\ Goes("START")
  /\ spent' = spent + 1
  /\ UNCHANGED <<at, caller, times, counters, reply, asked, clock, ip, history>>

\* A packet comes at once or only just before the response timeout.
Received == spent' \in (IF Calm THEN {spent} ELSE {spent, spent + 1})

\* A reply to another client or to an older call.
NotForUs ==
  /\ Listening
  /\ Received
  /\ UNCHANGED <<at, caller, state, times, counters, reply, asked, clock, ip, history>>

Kept(new, old) == IF new = 0 THEN old ELSE new

\* What parseDHCPResponse takes from any packet for us, whatever its type.
ParseReply(s, a) ==
  /\ localIp' = a
  /\ serverIp' = (IF serverIp = None THEN s ELSE serverIp)

ParseTimes(o) ==
  /\ lease' = Kept(o.lease, lease)
  /\ t1' = Kept(o.t1, t1)
  /\ t2' = Kept(o.t2, t2)
  /\ renewInSec' = Kept(o.lease, renewInSec)
  /\ UNCHANGED rebindInSec

\* Any server may answer a DISCOVER, also too late.
Offer(a, o) ==
  /\ Listening
  /\ Received
  /\ ParseReply(Owner[a], a)
  /\ ParseTimes(o)
  /\ IF state = "DISCOVER"
     THEN Goes("REQUEST") /\ asked' = [server |-> serverIp', ip |-> localIp']
     ELSE UNCHANGED <<state, asked>>
  /\ UNCHANGED <<at, caller, clock, ip, history>>

\* Only the server a REQUEST names answers it, and acknowledges only an
\* address of its own.
Acknowledged == asked.ip \in Addresses /\ Owner[asked.ip] = asked.server

Lease_RenewKept(o) ==
  /\ lease' = (IF Kept(o.lease, lease) = 0 THEN DefaultLease ELSE Kept(o.lease, lease))
  /\ t1' = Kept(Kept(o.t1, t1), lease' \div 2)
  /\ t2' = Kept(Kept(o.t2, t2), lease' - (lease' \div 8))
  /\ renewInSec' = Kept(o.lease, renewInSec)
  /\ rebindInSec' = t2'

\* The defaults are for what no packet has ever said since startEthernet and no
\* default has been computed for since.
Lease(o) ==
  /\ lease' = (IF Kept(o.lease, lease) = 0 THEN DefaultLease ELSE Kept(o.lease, lease))
  /\ t1' = Kept(Kept(o.t1, t1), lease' \div 2)
  /\ t2' = Kept(Kept(o.t2, t2), lease' - (lease' \div 8))
  /\ renewInSec' = t1'
  /\ rebindInSec' = t2'

Ack(o) ==
  /\ Listening
  /\ Received
  /\ Acknowledged
  /\ ParseReply(asked.server, asked.ip)
  /\ IF state = "REQUEST"
     THEN Goes("LEASED") /\ Lease(o) /\ granted' = asked.ip /\ age' = 0
     ELSE ParseTimes(o) /\ UNCHANGED <<state, history>>
  /\ UNCHANGED <<at, caller, asked, clock, ip>>

Nak ==
  /\ Listening
  /\ Received
  /\ asked.server # None
  /\ ParseReply(asked.server, None)
  /\ Goes(IF state = "REQUEST" THEN "START" ELSE state)
  /\ UNCHANGED <<at, caller, times, counters, asked, clock, ip, history>>

Loop ==
  \/ SendDiscover \/ SendRerequest \/ Silence \/ NotForUs \/ Nak
  \/ \E a \in Addresses, o \in Options : Offer(a, o)
  \/ \E o \in Options : Ack(o)

-----------------------------------------------------------------------------
(* The end of request_DHCP_lease, and its callers                           *)

Return ==
  /\ at = "request" /\ ~Running
  /\ now' = (now + spent) % Wrap
  /\ lastCheck' = now'

Applies_Rebound(who) == state = "LEASED" /\ who # "renew"

\* maintain, on RENEW_OK and REBIND_OK
Applies(who) == state = "LEASED"

Begun ==
  /\ Return
  /\ caller = "begin"
  /\ at' = (IF state = "LEASED" THEN "loop" ELSE "setup")
  /\ ip' = (IF state = "LEASED" THEN localIp ELSE "static")
  /\ UNCHANGED <<caller, state, times, counters, reply, asked, spent, history>>

MayRebind_Leased(s) == s = "LEASED"

MayRebind(s) == s \in {"LEASED", "START"}

\* this should basically restart completely
Rebind ==
  /\ state' = "START"
  /\ localIp' = None /\ serverIp' = None
  /\ EnterOrFail("rebind")

\* The renewal failed and the time for rebinding has come meanwhile.
RenewedTooLate ==
  /\ Return
  /\ caller = "renew"
  /\ rebindInSec = 0 /\ MayRebind(state)
  /\ Rebind
  /\ UNCHANGED <<times, counters, ip, history>>

Maintained ==
  /\ Return
  /\ \/ caller = "rebind"
     \/ caller = "renew" /\ ~(rebindInSec = 0 /\ MayRebind(state))
  /\ at' = "loop"
  /\ ip' = (IF Applies(caller) THEN localIp ELSE ip)
  /\ UNCHANGED <<caller, state, times, counters, reply, asked, spent, history>>

Countdown_NoGuard(left, secs) == left - secs

\* If the remainder is less than cycle time * 2 do it early.
Countdown(left, secs) == IF left < secs * 2 THEN 0 ELSE left - secs

Elapsed == (now' - lastCheck) % Wrap

CountSeconds_NoRemainder ==
  LET secs == Elapsed \div Second IN
  IF secs = 0
  THEN UNCHANGED <<lastCheck, counters>>
  ELSE /\ lastCheck' = now'
       /\ renewInSec' = Countdown(renewInSec, secs)
       /\ rebindInSec' = Countdown(rebindInSec, secs)

CountSeconds ==
  LET secs == Elapsed \div Second IN
  IF secs = 0
  THEN UNCHANGED <<lastCheck, counters>>
  ELSE /\ lastCheck' = (now' - (Elapsed % Second)) % Wrap
       /\ renewInSec' = Countdown(renewInSec, secs)
       /\ rebindInSec' = Countdown(rebindInSec, secs)

\* A pass of the main loop that took e ticks, and then checkLease.
CheckLease(e) ==
  /\ at = "loop"
  /\ now' = (now + e) % Wrap
  /\ CountSeconds
  /\ age' = (IF state = "LEASED" THEN age + e ELSE age)
  /\ \/ /\ renewInSec' = 0 /\ state = "LEASED"
        /\ state' = "REREQUEST"
        /\ EnterOrFail("renew")
        /\ UNCHANGED reply
     \/ /\ ~(renewInSec' = 0 /\ state = "LEASED")
        /\ rebindInSec' = 0 /\ MayRebind(state)
        /\ Rebind
     \/ /\ ~(renewInSec' = 0 /\ state = "LEASED")
        /\ ~(rebindInSec' = 0 /\ MayRebind(state))
        /\ UNCHANGED <<at, caller, state, reply, asked, spent>>
  /\ UNCHANGED <<times, ip, granted>>

Pass == \E e \in 1 .. MaxPass : CheckLease(e)

-----------------------------------------------------------------------------

Init ==
  /\ at = "setup"
  /\ caller = "begin"
  /\ state = "START"
  /\ lease = 0 /\ t1 = 0 /\ t2 = 0
  /\ renewInSec = 0 /\ rebindInSec = 0
  /\ localIp = None /\ serverIp = None
  /\ asked = Nobody
  /\ spent = 0
  /\ now \in 0 .. Wrap - 1 /\ lastCheck = 0
  /\ ip = None
  /\ granted = None /\ age = 0

Next == StartEthernet \/ Loop \/ Begun \/ RenewedTooLate \/ Maintained \/ Pass

\* The main loop runs for ever; no packet is owed to the client.
Fairness == WF_vars(Pass)

Spec == Init /\ [][Next]_vars /\ Fairness

-----------------------------------------------------------------------------

\* checkLease and maintain (Dhcp.cpp:353, Ethernet.cpp:119): the chip always
\* has the address acknowledged last, never one that was only offered, refused
\* or reset, though all of these write the client's own copy of it.
AddressGranted == at = "loop" => ip = granted /\ ip # None

\* "do it early instead of late" (Dhcp.cpp:371): a countdown that still runs is
\* less than a second behind the time since the acknowledgement, whatever the
\* lengths of the passes and wherever the millisecond count wraps.
CountdownsKeepTime ==
  at = "loop" /\ state = "LEASED" =>
    /\ renewInSec > 0 => age < Second * (t1 - renewInSec + 1)
    /\ rebindInSec > 0 => age < Second * (t2 - rebindInSec + 1)

\* The T1 and T2 of an acknowledgement are counted from it, though the parser
\* has put the lease time into the countdown (Dhcp.cpp:92, 326): no lease gets as
\* old as its T1 or T2 without an attempt to renew or rebind it.
RenewedInTime ==
  at = "loop" /\ state = "LEASED" /\ age > 0 =>
    age < Second * t1 /\ age < Second * t2

\* "Calculate T1 & T2 if we didn't get it [...] T1 should be 50% of
\* _dhcpLeaseTime [...] T2 should be 87.5%" (Dhcp.cpp:83-90): a lease is renewed
\* and rebound within its time.
RenewsWithinLease == at = "loop" /\ state = "LEASED" => t1 <= lease /\ t2 <= lease

\* "this is actually an error, it will retry though" (Ethernet.cpp:141): after
\* a renewal or rebinding that failed there is another attempt.
RetriesAfterFailure == (at = "loop" /\ state # "LEASED") ~> at = "request"
=============================================================================
