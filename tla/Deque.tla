------------------------------- MODULE Deque -------------------------------
(***************************************************************************)
(* What CircularBuffer promises its users: a double-ended queue of at most *)
(* Capacity elements.  Adding to a full queue gives up the element at the  *)
(* other end and says so.  Reading a position that holds no element yields *)
(* some value; shifting out of an empty queue does, too, and changes       *)
(* nothing.                                                                *)
(***************************************************************************)
EXTENDS Integers, Sequences

CONSTANTS Values, Capacity

VARIABLES
  q,         \* the elements, first one first
  fit,       \* what the last Push or Unshift returned: nothing was given up
  idx, out   \* the position last read and the value it yielded

vars == <<q, fit, idx, out>>

Full == Len(q) = Capacity

Push(v) ==
  /\ q' = Append(IF Full THEN Tail(q) ELSE q, v)
  /\ fit' = ~Full
  /\ UNCHANGED <<idx, out>>

Unshift(v) ==
  /\ q' = <<v>> \o (IF Full THEN SubSeq(q, 1, Capacity - 1) ELSE q)
  /\ fit' = ~Full
  /\ UNCHANGED <<idx, out>>

Reads(i) ==
  /\ idx' = i
  /\ out' \in Values
  /\ i < Len(q) => out' = q[i + 1]

Shift ==
  /\ Reads(0)
  /\ q' = IF q = <<>> THEN q ELSE Tail(q)
  /\ UNCHANGED fit

At(i) == Reads(i) /\ UNCHANGED <<q, fit>>

Clear == q' = <<>> /\ UNCHANGED <<fit, idx, out>>

Init == q = <<>> /\ fit = TRUE /\ idx = 0 /\ out \in Values

Next == \/ \E v \in Values : Push(v) \/ Unshift(v)
        \/ Shift
        \/ \E i \in 0 .. Capacity : At(i)
        \/ Clear

Spec == Init /\ [][Next]_vars
=============================================================================
