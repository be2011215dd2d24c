------------------------------ MODULE MCRS485 ------------------------------
(***************************************************************************)
(* Values of RS485's constants for TLC.                                    *)
(***************************************************************************)
EXTENDS RS485

\* Shorter than, as long as and longer than what a FIFO of two takes at once.
SomeLens == {1, 2, 3, 5}
=============================================================================
