-------------------------- MODULE MCCircularBuffer --------------------------
(***************************************************************************)
(* Values of CircularBuffer's constants for TLC.                           *)
(***************************************************************************)
EXTENDS CircularBuffer

SomeValues == 0 .. 2
=============================================================================
