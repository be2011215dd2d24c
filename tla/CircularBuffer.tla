--------------------------- MODULE CircularBuffer ---------------------------
(***************************************************************************)
(* Libs/CircularBuffer/CircularBuffer.hpp, the ring behind queueHeaders and *)
(* queueData: an array, two pointers into it (here indices from 0) and a   *)
(* count.  The pointers of an empty ring may stand anywhere.               *)
(*                                                                         *)
(* An operator named X_Something is X with a fault seeded into it: no      *)
(* action refers to it.                                                    *)
(***************************************************************************)
EXTENDS Integers, Sequences

CONSTANTS
  Values,     \* what is stored
  Capacity,   \* template parameter S
  Zero        \* the value the array is initialised with

ASSUME CapacityAssumption == Capacity \in Nat \ {0}
ASSUME ZeroAssumption == Zero \in Values

VARIABLES
  buffer, head, tail, count,
  fit,        \* what the last push or unshift returned
  idx, out    \* the position last read and the value returned for it

ring == <<buffer, head, tail, count>>
vars == <<ring, fit, idx, out>>

Slots == 0 .. (Capacity - 1)

After_NoWrap(i) == i + 1

\* Where a pointer that was moved one past either end of the array lands.
After(i)  == IF i + 1 = Capacity THEN 0 ELSE i + 1
Before(i) == IF i = 0 THEN Capacity - 1 ELSE i - 1

TypeOK ==
  /\ buffer \in [Slots -> Values]
  /\ head \in Slots
  /\ tail \in Slots
  /\ count \in 0 .. Capacity
  /\ fit \in BOOLEAN
  /\ idx \in 0 .. Capacity
  /\ out \in Values

-----------------------------------------------------------------------------

Unshift_TailKept(v) ==
  LET h == Before(head) IN
  /\ head' = h
  /\ buffer' = [buffer EXCEPT ![h] = v]
  /\ tail' = (IF count = 0 THEN h ELSE tail)
  /\ count' = (IF count = Capacity THEN count ELSE count + 1)
  /\ fit' = (count # Capacity)
  /\ UNCHANGED <<idx, out>>

Unshift(v) ==
  LET h == Before(head) IN
  /\ head' = h
  /\ buffer' = [buffer EXCEPT ![h] = v]
  /\ IF count = Capacity
     THEN tail' = Before(tail) /\ count' = count
     ELSE tail' = (IF count = 0 THEN h ELSE tail) /\ count' = count + 1
  /\ fit' = (count # Capacity)
  /\ UNCHANGED <<idx, out>>

Push_HeadKept(v) ==
  LET t == After(tail) IN
  /\ tail' = t
  /\ buffer' = [buffer EXCEPT ![t] = v]
  /\ head' = (IF count = 0 THEN t ELSE head)
  /\ count' = (IF count = Capacity THEN count ELSE count + 1)
  /\ fit' = (count # Capacity)
  /\ UNCHANGED <<idx, out>>

Push(v) ==
  LET t == After(tail) IN
  /\ tail' = t
  /\ buffer' = [buffer EXCEPT ![t] = v]
  /\ IF count = Capacity
     THEN head' = After(head) /\ count' = count
     ELSE head' = (IF count = 0 THEN t ELSE head) /\ count' = count + 1
  /\ fit' = (count # Capacity)
  /\ UNCHANGED <<idx, out>>

\* An empty ring returns *head all the same.
Shift ==
  /\ idx' = 0
  /\ out' = buffer[head]
  /\ IF count = 0
     THEN UNCHANGED <<head, count>>
     ELSE head' = After(head) /\ count' = count - 1
  /\ UNCHANGED <<buffer, tail, fit>>

First ==
  /\ idx' = 0
  /\ out' = buffer[head]
  /\ UNCHANGED <<ring, fit>>

\* operator []: the tail for an index beyond the last element.
At(i) ==
  /\ idx' = i
  /\ out' = buffer[IF i >= count THEN tail ELSE (head + i) % Capacity]
  /\ UNCHANGED <<ring, fit>>

Clear ==
  /\ head' = 0
  /\ tail' = 0
  /\ count' = 0
  /\ UNCHANGED <<buffer, fit, idx, out>>

Init ==
  /\ buffer = [i \in Slots |-> Zero]
  /\ head = 0
  /\ tail = 0
  /\ count = 0
  /\ fit = TRUE
  /\ idx = 0
  /\ out = Zero

Next == \/ \E v \in Values : Push(v) \/ Unshift(v)
        \/ Shift \/ First
        \/ \E i \in 0 .. Capacity : At(i)
        \/ Clear

Spec == Init /\ [][Next]_vars

-----------------------------------------------------------------------------

\* The slot i places after slot h, round the end of the array.
Slot(h, i) == IF h + i < Capacity THEN h + i ELSE h + i - Capacity

\* The two pointers agree with the count: the tail is at the last element
\* whenever there is one, whichever end elements came and went at, so pushes,
\* which go by the tail, and reads, which go by the head, mean the same queue.
EndsAgree == count > 0 => tail = Slot(head, count - 1)

\* The ring implements the double-ended queue: its elements, in order, are
\* those in the count slots from the head, and every operation returns and
\* leaves what the queue's operation does.
Contents == [i \in 1 .. count |-> buffer[Slot(head, i - 1)]]
D == INSTANCE Deque WITH q <- Contents
ImplementsDeque == D!Spec
=============================================================================
