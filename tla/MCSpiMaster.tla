---------------------------- MODULE MCSpiMaster ----------------------------
(***************************************************************************)
(* Values of SpiMaster's constants for TLC.                                *)
(***************************************************************************)
EXTENDS SpiMaster

\* As long as goes out with the command, and longer; deeper than a FIFO.
SomeLens == {1, 2, 3, 5, 7}
=============================================================================
