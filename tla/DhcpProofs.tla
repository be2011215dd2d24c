----------------------------- MODULE DhcpProofs -----------------------------
(***************************************************************************)
(* Theorems about the DHCP client, for any servers and packets, any lengths *)
(* of passes and any clock: the chip has the address that was granted, the *)
(* countdowns keep the time of the lease, and no lease gets as old as its  *)
(* T1 or T2 without an attempt to renew or rebind it.                      *)
(***************************************************************************)
EXTENDS Dhcp, TLAPS

LEMMA Constants ==
  /\ DefaultLease \in Nat \ {0} /\ Second \in Nat \ {0} /\ MaxPass \in Nat \ {0}
  /\ Wrap \in Nat \ {0} /\ Wrap > MaxPass + Second /\ Timeout \in Nat
  /\ None \notin Addresses /\ None \notin Servers
  /\ \A a \in Addresses : Owner[a] \in Servers
  /\ \A o \in Options : o.lease \in Nat /\ o.t1 \in Nat /\ o.t2 \in Nat
BY OwnerAssumption, OptionsAssumption, TimesAssumption, NoneAssumption

-----------------------------------------------------------------------------
(* The inductive invariant                                                   *)

\* Whose address the chip has: in the loop, and in a renewal until its end.
\* What a renewal ends with is what was acknowledged.
Address ==
  /\ at = "loop" => ip = granted /\ granted \in Addresses
  /\ at = "request" /\ caller # "begin" /\ state # "LEASED" =>
       ip = granted /\ granted \in Addresses
  /\ at = "request" /\ state = "LEASED" => localIp = granted /\ granted \in Addresses

\* Ticks that checkLease has seen and not counted.
Rest == (now - lastCheck) % Wrap

\* A countdown from a time that still runs is exact, but for the ticks not
\* counted.
Exact(countdown, time) == countdown > 0 => age = Second * (time - countdown) + Rest

Countdowns ==
  /\ at = "loop" => Rest < Second
  /\ at = "loop" /\ state = "LEASED" => Exact(renewInSec, t1) /\ Exact(rebindInSec, t2)
  /\ at = "request" /\ state = "LEASED" =>
       age = 0 /\ renewInSec = t1 /\ rebindInSec = t2 /\ t2 > 0

Inv == TypeOK /\ Address /\ Countdowns

-----------------------------------------------------------------------------
(* The clock                                                                 *)

\* x brought back into 0 .. w - 1 from less than w away.
Wrapped(x, w) == IF x < 0 THEN x + w ELSE IF x < w THEN x ELSE x - w

LEMMA Remainder ==
  ASSUME NEW w \in Nat \ {0}, NEW x \in Int, -w <= x, x < 2 * w
  PROVE  x % w = Wrapped(x, w)
BY DEF Wrapped

\* What is left of e ticks when the full seconds of s ticks are counted.
LEMMA FullSeconds ==
  ASSUME NEW s \in Nat \ {0}, NEW e \in Nat
  PROVE  \E q \in Nat, r \in 0 .. s - 1 : e \div s = q /\ e % s = r /\ e = s * q + r
<1>1. e \div s \in Int /\ e % s \in 0 .. s - 1 /\ e = s * (e \div s) + (e % s)
  OBVIOUS
<1>2. PICK q \in Int, r \in 0 .. s - 1 : q = e \div s /\ r = e % s /\ e = s * q + r
  BY <1>1
<1>3. q >= 0
  <2>1. ASSUME q < 0 PROVE s * q + r < 0
    <3>1. s * q <= 0 - s
      BY <2>1
    <3> QED BY <3>1
  <2> QED BY <1>2, <2>1
<1> QED BY <1>2, <1>3

\* A clock of w ticks that is r ticks after its last reading reads r + e when e
\* ticks passed, wherever it wraps.
LEMMA ClockReads ==
  ASSUME NEW w \in Nat \ {0}, NEW n \in 0 .. w - 1, NEW l \in 0 .. w - 1,
         NEW r \in Nat, r = (n - l) % w, NEW e \in Nat, r + e < w
  PROVE  (n + e) % w \in 0 .. w - 1 /\ (((n + e) % w) - l) % w = r + e
<1>1. r = Wrapped(n - l, w)
  <2>1. n - l \in Int /\ -w <= n - l /\ n - l < 2 * w
    OBVIOUS
  <2> QED BY <2>1, Remainder
<1>2. e < w
  OBVIOUS
<1>3. PICK m \in 0 .. w - 1 : m = (n + e) % w /\ m = Wrapped(n + e, w)
  <2>1. n + e \in Int /\ -w <= n + e /\ n + e < 2 * w
    BY <1>2
  <2>2. (n + e) % w = Wrapped(n + e, w)
    BY <2>1, Remainder
  <2>3. Wrapped(n + e, w) \in 0 .. w - 1
    BY <1>2 DEF Wrapped
  <2> QED BY <2>2, <2>3
<1>4. (m - l) % w = Wrapped(m - l, w)
  <2>1. m - l \in Int /\ -w <= m - l /\ m - l < 2 * w
    OBVIOUS
  <2> QED BY <2>1, Remainder
<1>5. Wrapped(m - l, w) = r + e
  BY <1>1, <1>2, <1>3 DEF Wrapped
<1> QED BY <1>3, <1>4, <1>5

\* The reading set back by r ticks is r ticks ago.
LEMMA ClockSetBack ==
  ASSUME NEW w \in Nat \ {0}, NEW n \in 0 .. w - 1, NEW r \in Nat, r < w
  PROVE  (n - r) % w \in 0 .. w - 1 /\ (n - ((n - r) % w)) % w = r
<1>1. PICK l \in 0 .. w - 1 : l = (n - r) % w /\ l = Wrapped(n - r, w)
  <2>1. n - r \in Int /\ -w <= n - r /\ n - r < 2 * w
    OBVIOUS
  <2>2. (n - r) % w = Wrapped(n - r, w)
    BY <2>1, Remainder
  <2>3. Wrapped(n - r, w) \in 0 .. w - 1
    BY DEF Wrapped
  <2> QED BY <2>2, <2>3
<1>2. (n - l) % w = Wrapped(n - l, w)
  <2>1. n - l \in Int /\ -w <= n - l /\ n - l < 2 * w
    OBVIOUS
  <2> QED BY <2>1, Remainder
<1>3. Wrapped(n - l, w) = r
  BY <1>1 DEF Wrapped
<1> QED BY <1>1, <1>2, <1>3

-----------------------------------------------------------------------------
(* Types                                                                     *)

LEMMA StartTypes == Init => TypeOK
BY Constants DEF Init, TypeOK, States, Nobody

LEMMA KeptNat ==
  ASSUME NEW n \in Nat, NEW o \in Nat
  PROVE  Kept(n, o) \in Nat
BY DEF Kept

\* What a packet can say of the times.
LEMMA PacketTimes ==
  ASSUME TypeOK, NEW o \in Options, ParseTimes(o)
  PROVE  lease' \in Nat /\ t1' \in Nat /\ t2' \in Nat /\ renewInSec' \in Nat
         /\ rebindInSec' = rebindInSec
BY Constants, KeptNat DEF ParseTimes, TypeOK

\* What an acknowledgement makes of them.
LEMMA LeaseTimes ==
  ASSUME TypeOK, NEW o \in Options, Lease(o)
  PROVE  /\ lease' \in Nat /\ t1' \in Nat /\ t2' \in Nat
         /\ renewInSec' = t1' /\ rebindInSec' = t2' /\ t2' > 0
<1>1. Kept(o.lease, lease) \in Nat /\ Kept(o.t1, t1) \in Nat /\ Kept(o.t2, t2) \in Nat
  BY Constants, KeptNat DEF TypeOK
<1>2. lease' \in Nat \ {0}
  BY <1>1, Constants DEF Lease
<1>3. lease' \div 2 \in Nat /\ lease' - (lease' \div 8) \in Nat \ {0}
  <2>1. PICK l \in Nat \ {0} : l = lease'
    BY <1>2
  <2>2. l \div 2 \in Nat /\ l - (l \div 8) \in Nat \ {0}
    OBVIOUS
  <2> QED BY <2>1, <2>2
<1>4. t1' \in Nat
  BY <1>1, <1>3, KeptNat DEF Lease
<1>5. t2' \in Nat /\ t2' > 0
  BY <1>1, <1>3 DEF Lease, Kept
<1> QED BY <1>2, <1>4, <1>5 DEF Lease

LEMMA AskedTypes ==
  ASSUME TypeOK
  PROVE  /\ Acknowledged => asked.ip \in Addresses /\ asked.server \in Servers
         /\ asked.server # None => asked.server \in Servers
         /\ [server |-> serverIp, ip |-> localIp] \in
              [server : Servers \cup {None}, ip : Addresses \cup {None}]
BY Constants DEF TypeOK, Acknowledged

LEMMA SpentType ==
  ASSUME TypeOK, Running, Received \/ spent' = spent + 1
  PROVE  spent' \in 0 .. Timeout + 1
BY Constants DEF TypeOK, Running, Received

LEMMA LoopTypes ==
  ASSUME TypeOK, Loop
  PROVE  TypeOK'
<1>1. CASE SendDiscover
  BY <1>1 DEF SendDiscover, Goes, TypeOK, States, times, counters, reply, clock, history
<1>2. CASE SendRerequest
  BY <1>2, AskedTypes DEF SendRerequest, Goes, TypeOK, States, times, counters, reply, clock, history
<1>3. CASE Silence
  <2>1. spent' \in 0 .. Timeout + 1
    BY <1>3, SpentType DEF Silence, Listening
  <2> QED BY <1>3, <2>1 DEF Silence, Goes, TypeOK, States, times, counters, reply, clock, history
<1>4. CASE NotForUs
  <2>1. spent' \in 0 .. Timeout + 1
    BY <1>4, SpentType DEF NotForUs, Listening
  <2> QED BY <1>4, <2>1 DEF NotForUs, TypeOK, times, counters, reply, clock, history
<1>5. CASE Nak
  <2>1. spent' \in 0 .. Timeout + 1
    BY <1>5, SpentType DEF Nak, Listening
  <2>2. state' \in States
    BY <1>5 DEF Nak, Goes, States, TypeOK
  <2>3. localIp' = None /\ serverIp' \in Servers \cup {None}
    BY <1>5, AskedTypes DEF Nak, ParseReply, TypeOK
  <2> QED BY <1>5, <2>1, <2>2, <2>3 DEF Nak, TypeOK, times, counters, clock, history
<1>6. ASSUME NEW a \in Addresses, NEW o \in Options, Offer(a, o) PROVE TypeOK'
  <2>1. spent' \in 0 .. Timeout + 1
    BY <1>6, SpentType DEF Offer, Listening
  <2>2. localIp' = a /\ serverIp' \in Servers \cup {None}
    BY <1>6, Constants DEF Offer, ParseReply, TypeOK
  <2>3. state' \in States /\ asked' \in [server : Servers \cup {None}, ip : Addresses \cup {None}]
    BY <1>6, <2>2 DEF Offer, Goes, States, TypeOK
  <2>4. /\ lease' \in Nat /\ t1' \in Nat /\ t2' \in Nat /\ renewInSec' \in Nat
        /\ rebindInSec' = rebindInSec
    BY <1>6, PacketTimes DEF Offer
  <2> QED BY <1>6, <2>1, <2>2, <2>3, <2>4 DEF Offer, TypeOK, clock, history
<1>7. ASSUME NEW o \in Options, Ack(o) PROVE TypeOK'
  <2>1. spent' \in 0 .. Timeout + 1
    BY <1>7, SpentType DEF Ack, Listening
  <2>2. asked.ip \in Addresses /\ asked.server \in Servers
    BY <1>7, AskedTypes DEF Ack
  <2>3. localIp' \in Addresses /\ serverIp' \in Servers \cup {None}
    BY <1>7, <2>2 DEF Ack, ParseReply, TypeOK
  <2>4. CASE state = "REQUEST"
    <3>1. /\ lease' \in Nat /\ t1' \in Nat /\ t2' \in Nat
          /\ renewInSec' \in Nat /\ rebindInSec' \in Nat
      BY <1>7, <2>4, LeaseTimes DEF Ack
    <3> QED BY <1>7, <2>1, <2>2, <2>3, <2>4, <3>1 DEF Ack, Goes, States, TypeOK, clock
  <2>5. CASE state # "REQUEST"
    <3>1. /\ lease' \in Nat /\ t1' \in Nat /\ t2' \in Nat /\ renewInSec' \in Nat
          /\ rebindInSec' = rebindInSec
      BY <1>7, <2>5, PacketTimes DEF Ack
    <3> QED BY <1>7, <2>1, <2>3, <2>5, <3>1 DEF Ack, TypeOK, clock, history
  <2> QED BY <2>4, <2>5
<1> QED BY <1>1, <1>2, <1>3, <1>4, <1>5, <1>6, <1>7 DEF Loop

\* Entering request_DHCP_lease, or not.
LEMMA EnteredTypes ==
  ASSUME TypeOK, NEW who \in {"begin", "renew", "rebind"}, EnterOrFail(who)
  PROVE  /\ at' \in {"request", "loop"} /\ caller' \in {"begin", "renew", "rebind"}
         /\ spent' \in 0 .. Timeout + 1
         /\ asked' \in [server : Servers \cup {None}, ip : Addresses \cup {None}]
BY Constants DEF TypeOK, EnterOrFail, Enter, Nobody

LEMMA ReturnTypes ==
  ASSUME TypeOK, Return
  PROVE  now' \in 0 .. Wrap - 1 /\ lastCheck' = now'
<1>1. PICK x \in Nat : x = now + spent
  BY Constants DEF TypeOK
<1>2. x % Wrap \in 0 .. Wrap - 1
  BY Constants
<1> QED BY <1>1, <1>2 DEF Return

LEMMA CountdownNat ==
  ASSUME NEW left \in Nat, NEW secs \in Nat
  PROVE  Countdown(left, secs) \in Nat
BY DEF Countdown

\* Counting seconds on any clock.
LEMMA CountTypes ==
  ASSUME TypeOK, NEW e \in Nat, now' = (now + e) % Wrap, CountSeconds
  PROVE  now' \in 0 .. Wrap - 1 /\ lastCheck' \in 0 .. Wrap - 1
         /\ renewInSec' \in Nat /\ rebindInSec' \in Nat
<1>1. Second \in Nat \ {0} /\ Wrap \in Nat \ {0}
  BY Constants
<1>2. PICK x \in Nat : x = now + e
  BY DEF TypeOK
<1>3. x % Wrap \in 0 .. Wrap - 1
  BY <1>1
<1>4. PICK n \in 0 .. Wrap - 1 : n = now'
  BY <1>2, <1>3
<1>5. PICK y \in Int : y = n - lastCheck
  BY <1>1 DEF TypeOK
<1>6. y % Wrap \in Nat
  BY <1>1
<1>7. PICK el \in Nat : el = Elapsed
  BY <1>4, <1>5, <1>6 DEF Elapsed
<1>8. PICK q \in Nat, r \in 0 .. Second - 1 : el \div Second = q /\ el % Second = r
  BY <1>1, <1>7, FullSeconds, Zenon
<1>9. CASE el \div Second = 0
  BY <1>4, <1>7, <1>9 DEF CountSeconds, counters, TypeOK
<1>10. CASE el \div Second # 0
  <2>1. lastCheck' = (n - r) % Wrap
    BY <1>4, <1>7, <1>8, <1>10 DEF CountSeconds
  <2>2. PICK z \in Int : z = n - r
    BY <1>1, <1>8
  <2>3. z % Wrap \in 0 .. Wrap - 1
    BY <1>1
  <2>4. renewInSec' = Countdown(renewInSec, q) /\ rebindInSec' = Countdown(rebindInSec, q)
    BY <1>7, <1>8, <1>10 DEF CountSeconds
  <2>5. renewInSec' \in Nat /\ rebindInSec' \in Nat
    BY <2>4, <1>8, CountdownNat DEF TypeOK
  <2> QED BY <1>4, <2>1, <2>2, <2>3, <2>5
<1> QED BY <1>9, <1>10

LEMMA StepTypes ==
  ASSUME TypeOK, [Next]_vars
  PROVE  TypeOK'
<1>1. CASE StartEthernet
  BY <1>1, Constants DEF StartEthernet, Enter, Nobody, TypeOK, States, counters, clock, history
<1>2. CASE Loop
  BY <1>2, LoopTypes
<1>3. CASE Begun
  BY <1>3, ReturnTypes DEF Begun, TypeOK, times, counters, reply, history
<1>4. CASE RenewedTooLate
  <2>1. /\ at' \in {"request", "loop"} /\ caller' \in {"begin", "renew", "rebind"}
        /\ spent' \in 0 .. Timeout + 1
        /\ asked' \in [server : Servers \cup {None}, ip : Addresses \cup {None}]
    BY <1>4, EnteredTypes DEF RenewedTooLate, Rebind
  <2> QED BY <1>4, <2>1, ReturnTypes
          DEF RenewedTooLate, Rebind, TypeOK, States, times, counters, history
<1>5. CASE Maintained
  BY <1>5, ReturnTypes DEF Maintained, TypeOK, times, counters, reply, history
<1>6. ASSUME NEW e \in 1 .. MaxPass, CheckLease(e) PROVE TypeOK'
  <2>0. e \in Nat
    BY Constants
  <2>1. now' \in 0 .. Wrap - 1 /\ lastCheck' \in 0 .. Wrap - 1
        /\ renewInSec' \in Nat /\ rebindInSec' \in Nat
    BY <1>6, <2>0, CountTypes DEF CheckLease
  <2>2. age' \in Nat
    BY <1>6, <2>0 DEF CheckLease, TypeOK
  <2>3. UNCHANGED <<lease, t1, t2, ip, granted>>
    BY <1>6 DEF CheckLease, times
  <2>4. CASE state' = "REREQUEST" /\ EnterOrFail("renew") /\ UNCHANGED reply
    BY <2>1, <2>2, <2>3, <2>4, EnteredTypes DEF TypeOK, States, reply
  <2>5. CASE Rebind
    BY <2>1, <2>2, <2>3, <2>5, EnteredTypes DEF Rebind, TypeOK, States
  <2>6. CASE UNCHANGED <<at, caller, state, reply, asked, spent>>
    BY <2>1, <2>2, <2>3, <2>6 DEF TypeOK, reply
  <2> QED BY <1>6, <2>4, <2>5, <2>6 DEF CheckLease
<1>7. CASE UNCHANGED vars
  BY <1>7 DEF vars, TypeOK, times, counters, reply, clock, history
<1> QED BY <1>1, <1>2, <1>3, <1>4, <1>5, <1>6, <1>7 DEF Next, Pass

-----------------------------------------------------------------------------
(* The address and the countdowns                                            *)

LEMMA Starts == Init => Inv
<1> SUFFICES ASSUME Init PROVE Inv
  OBVIOUS
<1>1. at = "setup"
  BY DEF Init
<1> QED BY <1>1, StartTypes DEF Inv, Address, Countdowns

\* A call of request_DHCP_lease that has no lease yet.
StillAsking ==
  /\ at = "request" /\ state # "LEASED" /\ state' # "LEASED"
  /\ UNCHANGED <<at, caller, ip, granted>>

LEMMA Asks ==
  ASSUME Inv, TypeOK', StillAsking
  PROVE  Inv'
BY DEF Inv, StillAsking, Address, Countdowns

LEMMA Acknowledging ==
  ASSUME Inv, TypeOK', NEW o \in Options, Ack(o), state = "REQUEST"
  PROVE  Inv'
<1>1. at = "request" /\ at' = "request" /\ state' = "LEASED" /\ caller' = caller
  BY DEF Ack, Listening, Running, Goes
<1>2. localIp' = granted' /\ granted' \in Addresses
  BY AskedTypes DEF Ack, ParseReply, Inv
<1>3. age' = 0 /\ renewInSec' = t1' /\ rebindInSec' = t2' /\ t2' > 0
  BY LeaseTimes DEF Ack, Inv
<1> QED BY <1>1, <1>2, <1>3 DEF Inv, Address, Countdowns

LEMMA Looping ==
  ASSUME Inv, TypeOK', Loop
  PROVE  Inv'
<1>1. CASE SendDiscover \/ SendRerequest \/ Silence \/ NotForUs \/ Nak
  <2>1. StillAsking
    BY <1>1 DEF StillAsking, SendDiscover, SendRerequest, Silence, NotForUs, Nak,
                Listening, Running, Goes, history
  <2> QED BY <2>1, Asks
<1>2. ASSUME NEW a \in Addresses, NEW o \in Options, Offer(a, o) PROVE Inv'
  <2>1. StillAsking
    BY <1>2 DEF StillAsking, Offer, Listening, Running, Goes, history
  <2> QED BY <2>1, Asks
<1>3. ASSUME NEW o \in Options, Ack(o) PROVE Inv'
  <2>1. CASE state = "REQUEST"
    BY <1>3, <2>1, Acknowledging
  <2>2. CASE state # "REQUEST"
    <3>1. StillAsking
      BY <1>3, <2>2 DEF StillAsking, Ack, Listening, Running, history
    <3> QED BY <3>1, Asks
  <2> QED BY <2>1, <2>2
<1> QED BY <1>1, <1>2, <1>3 DEF Loop

\* The end of a call reads the clock.
LEMMA Returned ==
  ASSUME TypeOK, Return
  PROVE  at = "request" /\ Rest' = 0
<1>1. PICK n \in 0 .. Wrap - 1 : n = now' /\ lastCheck' = n
  BY ReturnTypes
<1>2. n - n = 0 /\ 0 % Wrap = 0
  <2>1. PICK w \in Nat \ {0} : w = Wrap
    BY Constants
  <2>2. 0 % w = 0
    OBVIOUS
  <2>3. n - n = 0
    OBVIOUS
  <2> QED BY <2>1, <2>2, <2>3
<1> QED BY <1>1, <1>2 DEF Return, Rest

\* In the loop, a lease just granted counts down from its full times.
LEMMA FullTimes ==
  ASSUME Inv, TypeOK', Return, at' = "loop", UNCHANGED <<state, times, counters, age>>
  PROVE  Countdowns'
<1>1. at = "request" /\ Rest' = 0 /\ Second \in Nat \ {0}
  BY Returned, Constants DEF Inv
<1>2. ASSUME state = "LEASED" PROVE Exact(renewInSec, t1)' /\ Exact(rebindInSec, t2)'
  <2>1. age = 0 /\ renewInSec = t1 /\ rebindInSec = t2 /\ t1 \in Nat /\ t2 \in Nat
    BY <1>1, <1>2 DEF Inv, Countdowns, TypeOK
  <2>2. Second * (t1 - t1) + 0 = 0 /\ Second * (t2 - t2) + 0 = 0
    BY <1>1, <2>1
  <2> QED BY <1>1, <2>1, <2>2 DEF Exact, times, counters
<1> QED BY <1>1, <1>2 DEF Countdowns

LEMMA Ending ==
  ASSUME Inv, TypeOK', Begun \/ RenewedTooLate \/ Maintained
  PROVE  Inv'
<1>1. CASE Begun
  <2>1. CASE state = "LEASED"
    <3>1. Countdowns'
      BY <1>1, <2>1, FullTimes DEF Begun, history
    <3>2. Address'
      BY <1>1, <2>1 DEF Begun, Return, Inv, Address, history
    <3> QED BY <3>1, <3>2 DEF Inv
  <2>2. CASE state # "LEASED"
    <3>1. at' = "setup"
      BY <1>1, <2>2 DEF Begun
    <3> QED BY <3>1 DEF Inv, Address, Countdowns
  <2> QED BY <2>1, <2>2
<1>2. CASE RenewedTooLate
  <2>1. at = "request" /\ Rest' = 0 /\ 0 < Second
    BY <1>2, Returned, Constants DEF RenewedTooLate, Inv
  <2>2. state # "LEASED"
    BY <1>2, <2>1 DEF RenewedTooLate, Inv, Countdowns
  <2>3. state' = "START" /\ UNCHANGED <<ip, granted>> /\ ip = granted /\ granted \in Addresses
    BY <1>2, <2>1, <2>2 DEF RenewedTooLate, Rebind, Inv, Address, history
  <2>4. at' \in {"request", "loop"}
    BY <1>2 DEF RenewedTooLate, Rebind, EnterOrFail, Enter
  <2> QED BY <2>1, <2>3, <2>4 DEF Inv, Address, Countdowns
<1>3. CASE Maintained
  <2>1. Countdowns'
    BY <1>3, FullTimes DEF Maintained, history
  <2>2. at = "request" /\ caller # "begin" /\ at' = "loop"
    BY <1>3 DEF Maintained, Return
  <2>3. ip' = granted' /\ granted' \in Addresses
    BY <1>3, <2>2 DEF Maintained, Applies, Inv, Address, history
  <2> QED BY <2>1, <2>2, <2>3 DEF Inv, Address
<1> QED BY <1>1, <1>2, <1>3

LEMMA Distributes ==
  ASSUME NEW s \in Nat, NEW k \in Int, NEW q \in Int
  PROVE  s * (k + q) = s * k + s * q
OBVIOUS

\* A pass of the main loop: seconds are counted, and what is not a full second
\* is kept for the next pass.
LEMMA Passing ==
  ASSUME Inv, TypeOK', NEW e \in 1 .. MaxPass, at = "loop",
         now' = (now + e) % Wrap, CountSeconds
  PROVE  /\ Rest' < Second
         /\ state = "LEASED" /\ age' = age + e /\ t1' = t1 /\ t2' = t2 =>
              Exact(renewInSec, t1)' /\ Exact(rebindInSec, t2)'
<1>1. /\ Second \in Nat \ {0} /\ Wrap \in Nat \ {0} /\ Wrap > MaxPass + Second
      /\ MaxPass \in Nat /\ e \in Nat /\ e <= MaxPass
      /\ now \in 0 .. Wrap - 1 /\ lastCheck \in 0 .. Wrap - 1
      /\ {t1, t2, renewInSec, rebindInSec, age} \subseteq Nat
  BY Constants DEF Inv, TypeOK
<1>2. PICK rest \in Nat : rest = Rest /\ rest = (now - lastCheck) % Wrap /\ rest < Second
  <2>1. PICK x \in Int : x = now - lastCheck
    BY <1>1
  <2>2. x % Wrap \in Nat
    BY <1>1
  <2> QED BY <2>1, <2>2 DEF Inv, Countdowns, Rest
<1>3. now' \in 0 .. Wrap - 1 /\ Elapsed = rest + e
  <2>1. rest + e < Wrap
    BY <1>1, <1>2
  <2>2. (now + e) % Wrap \in 0 .. Wrap - 1 /\ (((now + e) % Wrap) - lastCheck) % Wrap = rest + e
    BY <1>1, <1>2, <2>1, ClockReads
  <2> QED BY <2>2 DEF Elapsed
<1>4. PICK el \in Nat : el = rest + e /\ el = Elapsed /\ el < Wrap
  BY <1>1, <1>2, <1>3
<1>5. PICK q \in Nat, r \in 0 .. Second - 1 :
        el \div Second = q /\ el % Second = r /\ el = Second * q + r
  BY <1>1, <1>4, FullSeconds, Zenon
<1>6. CASE q = 0
  <2>1. UNCHANGED <<lastCheck, renewInSec, rebindInSec>>
    BY <1>4, <1>5, <1>6 DEF CountSeconds, counters
  <2>2. Rest' = el
    BY <1>4, <2>1 DEF Elapsed, Rest
  <2>3. el < Second
    BY <1>1, <1>5, <1>6
  <2>4. ASSUME NEW time \in Nat, NEW left \in Nat, left > 0,
               age = Second * (time - left) + rest
        PROVE  age + e = Second * (time - left) + el
    <3>1. PICK x \in Int : x = Second * (time - left)
      BY <1>1
    <3> QED BY <1>1, <1>4, <2>4, <3>1
  <2>5. ASSUME NEW time \in Nat, NEW left \in Nat, Exact(left, time), left > 0
        PROVE  age + e = Second * (time - left) + el
    <3>1. age = Second * (time - left) + rest
      BY <1>2, <2>5 DEF Exact
    <3> QED BY <2>4, <2>5, <3>1, Zenon
  <2>6. ASSUME state = "LEASED", age' = age + e, t1' = t1, t2' = t2
        PROVE  Exact(renewInSec, t1)' /\ Exact(rebindInSec, t2)'
    <3>1. Exact(renewInSec, t1) /\ Exact(rebindInSec, t2)
      BY <2>6 DEF Inv, Countdowns
    <3>2. renewInSec > 0 => age + e = Second * (t1 - renewInSec) + el
      BY <1>1, <2>5, <3>1
    <3>3. rebindInSec > 0 => age + e = Second * (t2 - rebindInSec) + el
      BY <1>1, <2>5, <3>1
    <3> QED BY <2>1, <2>2, <2>6, <3>2, <3>3 DEF Exact
  <2> QED BY <1>4, <2>2, <2>3, <2>6
<1>7. CASE q # 0
  <2>1. /\ lastCheck' = (now' - r) % Wrap
        /\ renewInSec' = Countdown(renewInSec, q)
        /\ rebindInSec' = Countdown(rebindInSec, q)
    BY <1>4, <1>5, <1>7 DEF CountSeconds
  <2>2. r \in Nat /\ r < Wrap /\ r < Second
    BY <1>1, <1>5
  <2>3. (now' - ((now' - r) % Wrap)) % Wrap = r
    <3>1. PICK n \in 0 .. Wrap - 1 : n = now'
      BY <1>3
    <3> QED BY <1>1, <2>2, <3>1, ClockSetBack
  <2>4. Rest' = r
    BY <2>1, <2>3 DEF Rest
  <2>5. rest + e = Second * q + r
    BY <1>4, <1>5
  <2>6. ASSUME NEW time \in Nat, NEW left \in Nat, Exact(left, time),
               Countdown(left, q) > 0
        PROVE  age + e = Second * (time - Countdown(left, q)) + r
    <3>1. left > 0 => age = Second * (time - left) + rest
      BY <1>2, <2>6 DEF Exact
    <3>2. Countdown(left, q) = left - q /\ left > 0
      BY <1>5, <2>6 DEF Countdown
    <3>3. PICK k \in Int : k = time - left
      BY <2>6
    <3>4. Second * (k + q) = Second * k + Second * q
      BY <1>1, <1>5, Distributes
    <3>5. PICK x \in Int, y \in Int, a \in Nat :
            x = Second * k /\ y = Second * q /\ a = age
      BY <1>1, <1>5
    <3>6. age + e = Second * (k + q) + r
      BY <1>1, <1>2, <2>2, <2>5, <3>1, <3>2, <3>3, <3>4, <3>5
    <3>7. time - Countdown(left, q) = k + q
      BY <1>5, <2>6, <3>2, <3>3
    <3> QED BY <3>6, <3>7
  <2>7. ASSUME state = "LEASED", age' = age + e, t1' = t1, t2' = t2
        PROVE  Exact(renewInSec, t1)' /\ Exact(rebindInSec, t2)'
    <3>1. Exact(renewInSec, t1) /\ Exact(rebindInSec, t2)
      BY <2>7 DEF Inv, Countdowns
    <3>2. renewInSec' > 0 => age + e = Second * (t1 - renewInSec') + r
      BY <1>1, <2>1, <2>6, <3>1
    <3>3. rebindInSec' > 0 => age + e = Second * (t2 - rebindInSec') + r
      BY <1>1, <2>1, <2>6, <3>1
    <3> QED BY <2>4, <2>7, <3>2, <3>3 DEF Exact
  <2> QED BY <2>2, <2>4, <2>7
<1> QED BY <1>6, <1>7

LEMMA Checking ==
  ASSUME Inv, TypeOK', NEW e \in 1 .. MaxPass, CheckLease(e)
  PROVE  Inv'
<1>1. at = "loop" /\ ip' = ip /\ granted' = granted /\ t1' = t1 /\ t2' = t2
  BY DEF CheckLease, times
<1>2. ip' = granted' /\ granted' \in Addresses
  BY <1>1 DEF Inv, Address
<1>3. /\ Rest' < Second
      /\ state = "LEASED" /\ age' = age + e =>
           Exact(renewInSec, t1)' /\ Exact(rebindInSec, t2)'
  BY <1>1, Passing DEF CheckLease
<1>4. CASE state' = "REREQUEST" /\ EnterOrFail("renew")
  BY <1>2, <1>3, <1>4 DEF Inv, Address, Countdowns, EnterOrFail, Enter
<1>5. CASE Rebind
  BY <1>2, <1>3, <1>5 DEF Inv, Address, Countdowns, Rebind, EnterOrFail, Enter
<1>6. CASE UNCHANGED <<at, caller, state, reply, asked, spent>>
  <2>1. state = "LEASED" => age' = age + e
    BY DEF CheckLease
  <2> QED BY <1>1, <1>2, <1>3, <1>6, <2>1 DEF Inv, Address, Countdowns
<1> QED BY <1>4, <1>5, <1>6 DEF CheckLease

LEMMA Steps ==
  ASSUME Inv, [Next]_vars
  PROVE  Inv'
<1>1. TypeOK'
  BY StepTypes DEF Inv
<1>2. CASE StartEthernet
  <2>1. at' = "request" /\ caller' = "begin" /\ state' = "START"
    BY <1>2 DEF StartEthernet, Enter
  <2> QED BY <1>1, <2>1 DEF Inv, Address, Countdowns
<1>3. CASE Loop
  BY <1>1, <1>3, Looping
<1>4. CASE Begun \/ RenewedTooLate \/ Maintained
  BY <1>1, <1>4, Ending
<1>5. CASE Pass
  BY <1>1, <1>5, Checking DEF Pass
<1>6. CASE UNCHANGED vars
  BY <1>1, <1>6 DEF vars, times, counters, reply, clock, history, Inv, Address, Countdowns,
                    Exact, Rest
<1> QED BY <1>2, <1>3, <1>4, <1>5, <1>6 DEF Next

LEMMA Invariance == Spec => []Inv
BY Starts, Steps, PTL DEF Spec

-----------------------------------------------------------------------------
(* A lease the client relies on has both of its countdowns running, but in   *)
(* the moment it is acknowledged: checkLease leaves LEASED when one is over. *)

CountingDown ==
  at = "loop" /\ state = "LEASED" /\ age > 0 => renewInSec > 0 /\ rebindInSec > 0

LEMMA CountingSteps ==
  ASSUME Inv, Inv', CountingDown, [Next]_vars
  PROVE  CountingDown'
<1>1. CASE StartEthernet
  BY <1>1 DEF StartEthernet, Enter, CountingDown
<1>2. CASE Loop
  <2>1. at' = "request"
    BY <1>2 DEF Loop, SendDiscover, SendRerequest, Silence, NotForUs, Nak, Offer, Ack,
                Running, Listening
  <2> QED BY <2>1 DEF CountingDown
<1>3. CASE Begun \/ Maintained
  <2>1. at = "request" /\ state' = state /\ age' = age
    BY <1>3 DEF Begun, Maintained, Return, history
  <2>2. state = "LEASED" => ~(age > 0)
    BY <2>1 DEF Inv, Countdowns
  <2> QED BY <2>1, <2>2 DEF CountingDown
<1>4. CASE RenewedTooLate
  BY <1>4 DEF RenewedTooLate, Rebind, CountingDown
<1>5. ASSUME NEW e \in 1 .. MaxPass, CheckLease(e)
      PROVE  CountingDown'
  <2>1. renewInSec' \in Nat /\ rebindInSec' \in Nat
    BY DEF Inv, TypeOK
  <2>2. CASE state' = "REREQUEST" \/ Rebind
    BY <2>2 DEF Rebind, CountingDown
  <2>3. CASE /\ ~(renewInSec' = 0 /\ state = "LEASED")
             /\ ~(rebindInSec' = 0 /\ MayRebind(state))
             /\ UNCHANGED <<at, caller, state, reply, asked, spent>>
    BY <2>1, <2>3 DEF MayRebind, CountingDown
  <2> QED BY <1>5, <2>2, <2>3 DEF CheckLease
<1>6. CASE UNCHANGED vars
  BY <1>6 DEF vars, counters, history, CountingDown
<1> QED BY <1>1, <1>2, <1>3, <1>4, <1>5, <1>6 DEF Next, Pass

-----------------------------------------------------------------------------
(* What follows                                                              *)

\* checkLease's unsigned countdowns (Dhcp.cpp:370) never go below zero, and what
\* the client keeps has its types.
THEOREM TypeCorrect == Spec => []TypeOK
<1>1. Inv => TypeOK
  BY DEF Inv
<1> QED BY <1>1, Invariance, PTL

\* The chip always has the address acknowledged last (Dhcp.cpp:353,
\* Ethernet.cpp:119), whatever was offered, refused or lost meanwhile and
\* whether a socket was free.
THEOREM AddressCorrect == Spec => []AddressGranted
<1>1. Inv => AddressGranted
  BY Constants DEF Inv, Address, AddressGranted
<1> QED BY <1>1, Invariance, PTL

\* A countdown that runs is less than a second behind the time since the
\* acknowledgement (Dhcp.cpp:360), for passes and clocks of any length.
THEOREM CountdownsCorrect == Spec => []CountdownsKeepTime
<1>1. ASSUME Inv PROVE CountdownsKeepTime
  <2>1. ASSUME NEW time \in Nat, NEW left \in Nat, left > 0, Exact(left, time), Rest < Second
        PROVE  age < Second * (time - left + 1)
    <3>1. PICK k \in Int : k = time - left
      OBVIOUS
    <3>2. PICK x \in Int : x = Second * k
      BY <3>1, Constants
    <3>3. Second * (k + 1) = x + Second
      BY <3>2, Constants
    <3>4. Rest \in Int /\ age = x + Rest
      <4>1. PICK y \in Int : y = now - lastCheck
        BY <1>1, Constants DEF Inv, TypeOK
      <4>2. y % Wrap \in Int
        BY Constants
      <4> QED BY <2>1, <3>1, <3>2, <4>1, <4>2 DEF Exact, Rest
    <3> QED BY <2>1, <3>1, <3>3, <3>4, Constants
  <2>2. {renewInSec, rebindInSec, t1, t2} \subseteq Nat
    BY <1>1 DEF Inv, TypeOK
  <2> QED BY <1>1, <2>1, <2>2 DEF CountdownsKeepTime, Inv, Countdowns
<1> QED BY <1>1, Invariance, PTL

\* A lease is younger than the T1 and T2 counted for it (Dhcp.cpp:92-93), or an
\* attempt to renew or rebind it has begun: whatever times packets give or leave
\* out, and however stale a T1 or T2 is.
THEOREM RenewalCorrect == Spec => []RenewedInTime
<1>1. Init => CountingDown
  BY DEF Init, CountingDown
<1>2. Inv /\ Inv' /\ CountingDown /\ [Next]_vars => CountingDown'
  BY CountingSteps
<1>3. ASSUME Inv, CountdownsKeepTime, CountingDown
      PROVE  RenewedInTime
  <2>1. ASSUME NEW time \in Nat, NEW left \in Nat, left > 0,
               age < Second * (time - left + 1)
        PROVE  age < Second * time
    <3>1. PICK k \in Nat, d \in Int : k = left - 1 /\ d = time - left + 1 /\ time = d + k
      BY <2>1
    <3>2. PICK x \in Int, y \in Nat : x = Second * d /\ y = Second * k
      BY <3>1, Constants
    <3>3. Second * (d + k) = Second * d + Second * k
      BY <3>1, Constants, Distributes
    <3>4. age \in Nat
      BY <1>3 DEF Inv, TypeOK
    <3>5. age < x /\ Second * time = x + y
      BY <2>1, <3>1, <3>2, <3>3
    <3> QED BY <3>2, <3>4, <3>5
  <2>2. {renewInSec, rebindInSec, t1, t2} \subseteq Nat
    BY <1>3 DEF Inv, TypeOK
  <2> QED BY <1>3, <2>1, <2>2 DEF RenewedInTime, CountdownsKeepTime, CountingDown
<1> QED BY <1>1, <1>2, <1>3, Invariance, CountdownsCorrect, PTL DEF Spec
=============================================================================
