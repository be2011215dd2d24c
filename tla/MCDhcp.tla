------------------------------ MODULE MCDhcp ------------------------------
(***************************************************************************)
(* Values of Dhcp's constants for TLC: one server with two addresses and   *)
(* another with one; packets with all times, with a short lease alone, and *)
(* without times.                                                          *)
(***************************************************************************)
EXTENDS Dhcp

CONSTANTS a1, a2, b1, sa, sb

SomeAddresses == {a1, a2, b1}
SomeServers == {sa, sb}
SomeOwner == [x \in SomeAddresses |-> IF x = b1 THEN sb ELSE sa]
SomeOptions == {[lease |-> 0, t1 |-> 0, t2 |-> 0],
                [lease |-> 3, t1 |-> 0, t2 |-> 0],
                [lease |-> 4, t1 |-> 2, t2 |-> 3]}
=============================================================================
