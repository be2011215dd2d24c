----------------------------- MODULE MCGateway -----------------------------
(***************************************************************************)
(* Values of Gateway's constants for TLC.                                  *)
(***************************************************************************)
EXTENDS Gateway

Frame(slave, len) == [slave |-> slave, len |-> len]

\* Two slaves, requests of different lengths so that a wrong cut shows.
QueueFrames == {Frame(1, 1), Frame(2, 2)}

\* A slave, and a broadcast without an address byte.
SocketFrames == {Frame(1, 1), Frame(0, 0)}

\* A slave that may fail, and broadcasts, which never do: both priorities.  With
\* their CRC both are longer than ScanBytes, so a broadcast may outlast its timer
\* and the next request reach the bytes it has not sent.
LiveFrames == {Frame(1, 1), Frame(0, 1)}

\* A request that fills the byte ring.
LongestFrames == {Frame(1, 2)}

\* Every TCP client connects from a port of its own.
OwnPorts == CHOOSE f \in [TcpClients -> 1 .. Cardinality(TcpClients)] :
              \A c, d \in TcpClients : f[c] = f[d] => c = d
=============================================================================
