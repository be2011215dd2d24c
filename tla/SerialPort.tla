----------------------------- MODULE SerialPort -----------------------------
(***************************************************************************)
(* What the driver of the serial line promises the main loop when slaves   *)
(* speak only if asked: a frame that was handed over is heard whole before *)
(* anything else happens on the line, and the answer is handed up as one   *)
(* frame, all of its bytes that fit at once, when the line is quiet again. *)
(* Until then nothing of it is seen, and nothing of it is left afterwards. *)
(***************************************************************************)
EXTENDS Integers

CONSTANTS
  Lens,       \* lengths of the frames the main loop hands over
  ReplyLens,  \* lengths of the frames of slaves
  RxBufSize   \* what is handed up of a frame at most

VARIABLES
  sending,   \* length of our frame on the line; 0: none
  heard,     \* what the slaves heard of our last frame, when it is over
  arriving,  \* bytes that will be handed up of a slave's frame; 0: none
  received   \* bytes handed up and not given back yet; 0: none

vars == <<sending, heard, arriving, received>>

Busy == sending # 0 \/ arriving # 0

Send(n) ==
  /\ ~Busy
  /\ sending' = n
  /\ heard' = <<>>
  /\ UNCHANGED <<arriving, received>>

Sent ==
  /\ sending # 0
  /\ sending' = 0
  /\ heard' = [i \in 1 .. sending |-> i]
  /\ UNCHANGED <<arriving, received>>

Answer(n) ==
  /\ ~Busy /\ received = 0
  /\ arriving' = IF n <= RxBufSize THEN n ELSE RxBufSize
  /\ UNCHANGED <<sending, heard, received>>

Answered ==
  /\ arriving # 0
  /\ arriving' = 0
  /\ received' = arriving
  /\ UNCHANGED <<sending, heard>>

Free ==
  /\ ~Busy /\ received # 0
  /\ received' = 0
  /\ UNCHANGED <<sending, heard, arriving>>

Init ==
  /\ sending = 0
  /\ heard = <<>>
  /\ arriving = 0
  /\ received = 0

Next == \/ \E n \in Lens : Send(n)
        \/ \E n \in ReplyLens : Answer(n)
        \/ Sent \/ Answered \/ Free

Spec == Init /\ [][Next]_vars
=============================================================================
