---------------------------- MODULE MCUdpSocket ----------------------------
(***************************************************************************)
(* Values of UdpSocket's constants for TLC.                                *)
(***************************************************************************)
EXTENDS UdpSocket

\* Without data, as long as recvUdp's buffer, and longer.
SomeLens == {0, 1, 3, 5}
=============================================================================
