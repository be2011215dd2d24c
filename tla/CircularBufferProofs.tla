------------------------ MODULE CircularBufferProofs ------------------------
(***************************************************************************)
(* The ring keeps its types, its ends agree with its count, and it          *)
(* implements the double-ended queue, for every capacity and value set.    *)
(***************************************************************************)
EXTENDS CircularBuffer, SequenceTheorems, TLAPS

\* The two ways the code goes round the array agree: the remainder taken by
\* operator [] and the comparison with the end of the array.
LEMMA RemainderIsSlot ==
  ASSUME NEW h \in Slots, NEW i \in 0 .. Capacity
  PROVE  (h + i) % Capacity = Slot(h, i) /\ Slot(h, i) \in Slots
  BY CapacityAssumption DEF Slots, Slot

\* Every operation leaves the pointers inside the array and the count in its
\* range, and what it returns is a stored value.
THEOREM TypeCorrect == Spec => []TypeOK
<1>1. Init => TypeOK
  BY CapacityAssumption, ZeroAssumption DEF Init, TypeOK, Slots
<1>2. TypeOK /\ [Next]_vars => TypeOK'
  <2> SUFFICES ASSUME TypeOK, [Next]_vars PROVE TypeOK'
    OBVIOUS
  <2> USE CapacityAssumption DEF TypeOK, Slots, After, Before, ring
  <2>1. ASSUME NEW v \in Values, Push(v) PROVE TypeOK'
    BY <2>1 DEF Push
  <2>2. ASSUME NEW v \in Values, Unshift(v) PROVE TypeOK'
    BY <2>2 DEF Unshift
  <2>3. CASE Shift
    BY <2>3 DEF Shift
  <2>4. CASE First
    BY <2>4 DEF First
  <2>5. ASSUME NEW i \in 0 .. Capacity, At(i) PROVE TypeOK'
    <3>1. CASE i >= count
      BY <2>5, <3>1 DEF At
    <3>2. CASE i < count
      <4>1. (head + i) % Capacity \in Slots
        BY RemainderIsSlot
      <4> QED BY <2>5, <3>2, <4>1 DEF At
    <3> QED BY <3>1, <3>2
  <2>6. CASE Clear
    BY <2>6 DEF Clear
  <2>7. CASE UNCHANGED vars
    BY <2>7 DEF vars
  <2> QED BY <2>1, <2>2, <2>3, <2>4, <2>5, <2>6, <2>7 DEF Next
<1> QED BY <1>1, <1>2, PTL DEF Spec

\* Both ends stay in step with the count, whichever order pushes, unshifts,
\* shifts and overwriting come in.
THEOREM EndsCorrect == Spec => []EndsAgree
<1>1. Init => EndsAgree
  BY DEF Init, EndsAgree
<1>2. TypeOK /\ EndsAgree /\ [Next]_vars => EndsAgree'
  <2> SUFFICES ASSUME TypeOK, EndsAgree, [Next]_vars PROVE EndsAgree'
    OBVIOUS
  <2> USE CapacityAssumption DEF TypeOK, EndsAgree, Slot, Slots, After, Before, ring
  <2>1. ASSUME NEW v \in Values, Push(v) PROVE EndsAgree'
    BY <2>1 DEF Push
  <2>2. ASSUME NEW v \in Values, Unshift(v) PROVE EndsAgree'
    BY <2>2 DEF Unshift
  <2>3. CASE Shift
    BY <2>3 DEF Shift
  <2>4. CASE First
    BY <2>4 DEF First
  <2>5. ASSUME NEW i \in 0 .. Capacity, At(i) PROVE EndsAgree'
    BY <2>5 DEF At
  <2>6. CASE Clear
    BY <2>6 DEF Clear
  <2>7. CASE UNCHANGED vars
    BY <2>7 DEF vars
  <2> QED BY <2>1, <2>2, <2>3, <2>4, <2>5, <2>6, <2>7 DEF Next
<1> QED BY <1>1, <1>2, TypeCorrect, PTL DEF Spec

\* The elements the ring stands for form a sequence of count values.
LEMMA ContentsSound ==
  TypeOK => /\ Contents \in Seq(Values)
            /\ Len(Contents) = count
            /\ \A i \in 1 .. count : Contents[i] = buffer[Slot(head, i - 1)]
<1> SUFFICES ASSUME TypeOK
             PROVE  /\ Contents \in Seq(Values)
                    /\ Len(Contents) = count
                    /\ \A i \in 1 .. count : Contents[i] = buffer[Slot(head, i - 1)]
  OBVIOUS
<1>1. ASSUME NEW i \in 1 .. count PROVE Slot(head, i - 1) \in Slots
  <2>1. i - 1 \in 0 .. Capacity
    BY CapacityAssumption DEF TypeOK
  <2> QED BY <2>1, RemainderIsSlot DEF TypeOK
<1>2. Contents \in [1 .. count -> Values]
  BY <1>1 DEF Contents, TypeOK
<1>3. count \in Nat
  BY DEF TypeOK
<1> QED BY <1>2, <1>3 DEF Contents

\* The state before and after an operation, as the refinement proof uses it.
Facts(b, h, t, n, seq) ==
  /\ b \in [0 .. (Capacity - 1) -> Values]
  /\ h \in 0 .. (Capacity - 1)
  /\ t \in 0 .. (Capacity - 1)
  /\ n \in 0 .. Capacity
  /\ seq \in Seq(Values)
  /\ Len(seq) = n
  /\ \A i \in 1 .. n : seq[i] = b[Slot(h, i - 1)]

\* The ring as its operations see it: what they need of it holds.
LEMMA FactsHold == TypeOK => Facts(buffer, head, tail, count, Contents)
BY ContentsSound DEF Facts, TypeOK, Slots

\* A sequence is Append(s, v) if it is s and, after it, v.
LEMMA AppendIs ==
  ASSUME NEW S, NEW s \in Seq(S), NEW t \in Seq(S), NEW v \in S,
         Len(t) = Len(s) + 1, t[Len(t)] = v, \A i \in 1 .. Len(s) : t[i] = s[i]
  PROVE  t = Append(s, v)
<1>1. /\ Append(s, v) \in Seq(S)
      /\ Len(Append(s, v)) = Len(s) + 1
      /\ \A i \in 1 .. Len(s) : Append(s, v)[i] = s[i]
      /\ Append(s, v)[Len(s) + 1] = v
  BY AppendProperties
<1>2. Len(s) \in Nat
  BY LenProperties
<1>3. ASSUME NEW i \in 1 .. Len(t) PROVE t[i] = Append(s, v)[i]
  BY <1>1, <1>2
<1> QED BY <1>1, <1>3, SeqEqual

\* A sequence is <<v>> \o s if it is v and, after it, s.
LEMMA ConsIs ==
  ASSUME NEW S, NEW s \in Seq(S), NEW t \in Seq(S), NEW v \in S,
         Len(t) = Len(s) + 1, t[1] = v, \A i \in 1 .. Len(s) : t[i + 1] = s[i]
  PROVE  t = <<v>> \o s
<1> DEFINE one == <<v>>
<1>1. one \in Seq(S) /\ Len(one) = 1 /\ one[1] = v
  OBVIOUS
<1> HIDE DEF one
<1>2. /\ one \o s \in Seq(S)
      /\ Len(one \o s) = Len(one) + Len(s)
      /\ \A i \in 1 .. Len(one) + Len(s) :
           (one \o s)[i] = IF i <= Len(one) THEN one[i] ELSE s[i - Len(one)]
  BY <1>1, ConcatProperties
<1>3. Len(s) \in Nat
  BY LenProperties
<1>4. ASSUME NEW i \in 1 .. Len(t) PROVE t[i] = (one \o s)[i]
  <2>1. CASE i = 1
    BY <1>1, <1>2, <1>3, <2>1
  <2>2. CASE i # 1
    <3>1. i - 1 \in 1 .. Len(s) /\ (i - 1) + 1 = i
      BY <1>3, <2>2
    <3>2. t[i] = s[i - 1]
      BY <3>1
    <3> QED BY <1>1, <1>2, <1>3, <2>2, <3>1, <3>2
  <2> QED BY <2>1, <2>2
<1>5. Len(t) = Len(one \o s)
  BY <1>1, <1>2, <1>3
<1>6. t = one \o s
  BY <1>2, <1>4, <1>5, SeqEqual
<1> QED BY <1>6 DEF one

\* The slots taken by push and by unshift, in terms of elements: neither is
\* one of an element that stays.
LEMMA PushSlots ==
  ASSUME NEW h \in Slots, NEW n \in 1 .. Capacity
  PROVE  LET t == Slot(h, n - 1) IN
         /\ After(t) = IF n = Capacity THEN h ELSE Slot(h, n)
         /\ Slot(After(h), Capacity - 1) = h
         /\ \A i \in 1 .. Capacity - 1 : Slot(After(h), i - 1) = Slot(h, i)
         /\ \A i \in 1 .. n - 1 : Slot(h, i) # h
         /\ n < Capacity => \A i \in 1 .. n : Slot(h, i - 1) # Slot(h, n)
BY CapacityAssumption DEF Slots, Slot, After

\* The same for unshift, whose slot lies before the head.
LEMMA UnshiftSlots ==
  ASSUME NEW h \in Slots
  PROVE  /\ Before(h) \in Slots
         /\ \A i \in 1 .. Capacity - 1 : /\ Slot(Before(h), i) = Slot(h, i - 1)
                                        /\ Slot(h, i - 1) # Before(h)
         /\ Slot(Before(h), 0) = Before(h)
BY CapacityAssumption DEF Slots, Slot, Before

\* What push and unshift do to the pointers and the array, and to the elements,
\* as relations between values.
PushStep(v, b, h, t, n, b2, h2, t2, n2) ==
  /\ n > 0 => t = Slot(h, n - 1)
  /\ t2 = After(t)
  /\ b2 = [b EXCEPT ![t2] = v]
  /\ IF n = Capacity THEN h2 = After(h) /\ n2 = n
                      ELSE h2 = (IF n = 0 THEN t2 ELSE h) /\ n2 = n + 1

UnshiftStep(v, b, h, n, b2, h2, n2) ==
  /\ h2 = Before(h)
  /\ b2 = [b EXCEPT ![h2] = v]
  /\ n2 = IF n = Capacity THEN n ELSE n + 1

Appended(v, n, seq, seq2) ==
  /\ n = Capacity => seq2 = Append(Tail(seq), v)
  /\ n # Capacity => seq2 = Append(seq, v)

Prepended(v, n, seq, seq2) ==
  /\ n = Capacity => seq2 = <<v>> \o SubSeq(seq, 1, Capacity - 1)
  /\ n # Capacity => seq2 = <<v>> \o seq

\* Push appends its value, to all elements but the first when the ring is
\* full.  The primed state is named by constants.
LEMMA PushAppends ==
  ASSUME NEW b, NEW h, NEW t, NEW n, NEW seq, Facts(b, h, t, n, seq),
         NEW b2, NEW h2, NEW t2, NEW n2, NEW seq2, Facts(b2, h2, t2, n2, seq2),
         NEW v \in Values, PushStep(v, b, h, t, n, b2, h2, t2, n2)
  PROVE  Appended(v, n, seq, seq2)
<1> USE CapacityAssumption
<1>a. n > 0 => t = Slot(h, n - 1)
  BY DEF PushStep
<1>b. t2 = After(t) /\ b2 = [b EXCEPT ![t2] = v]
  BY DEF PushStep
<1>c. IF n = Capacity THEN h2 = After(h) /\ n2 = n
                      ELSE h2 = (IF n = 0 THEN t2 ELSE h) /\ n2 = n + 1
  BY DEF PushStep
<1>1. CASE n = Capacity
  <2>1. /\ seq # <<>> /\ n2 = Capacity /\ h2 = After(h) /\ h \in Slots
        /\ t2 = h /\ n \in 1 .. Capacity
    BY <1>a, <1>b, <1>c, <1>1, PushSlots DEF Facts, Slots
  <2>2. /\ Tail(seq) \in Seq(Values) /\ Len(Tail(seq)) = Capacity - 1
        /\ \A i \in 1 .. Capacity - 1 : Tail(seq)[i] = seq[i + 1]
    BY <1>1, <2>1, HeadTailProperties DEF Facts
  <2>3. ASSUME NEW i \in 1 .. Capacity - 1 PROVE seq2[i] = Tail(seq)[i]
    <3>1. seq2[i] = b2[Slot(h, i)]
      BY <2>1, PushSlots DEF Facts
    <3>2. Slot(h, i) # t2 /\ Slot(h, i) \in Slots
      BY <1>1, <2>1, PushSlots, RemainderIsSlot
    <3>3. b2[Slot(h, i)] = b[Slot(h, i)]
      BY <1>b, <3>2 DEF Facts, Slots
    <3>4. i + 1 \in 1 .. n /\ (i + 1) - 1 = i
      BY <1>1
    <3>5. seq[i + 1] = b[Slot(h, i)]
      BY <3>4 DEF Facts
    <3> QED BY <2>2, <3>1, <3>3, <3>5
  <2>4. seq2[Capacity] = v
    <3>1. Slot(h2, Capacity - 1) = t2
      BY <2>1, PushSlots
    <3>2. seq2[Capacity] = b2[Slot(h2, Capacity - 1)]
      BY <2>1 DEF Facts
    <3> QED BY <1>b, <2>1, <3>1, <3>2 DEF Facts, Slots
  <2>5. seq2 \in Seq(Values) /\ Len(seq2) = Capacity
    BY <2>1 DEF Facts
  <2>6. seq2 = Append(Tail(seq), v)
    BY <2>2, <2>3, <2>4, <2>5, AppendIs
  <2> QED BY <1>1, <2>6 DEF Appended
<1>2. CASE n # Capacity
  <2>1. /\ seq \in Seq(Values) /\ Len(seq) = n /\ h \in Slots /\ n2 = n + 1
        /\ seq2 \in Seq(Values) /\ Len(seq2) = n2
        /\ n \in 0 .. Capacity /\ t2 \in Slots
    BY <1>b, <1>c, <1>2 DEF Facts, Slots, After
  <2>2. Slot(h2, n) = t2
    <3>1. CASE n = 0
      BY <1>b, <1>c, <2>1, <1>2, <3>1 DEF Slot, Slots
    <3>2. CASE n # 0
      BY <1>a, <1>b, <1>c, <2>1, <1>2, <3>2, PushSlots
    <3> QED BY <3>1, <3>2
  <2>3. seq2[n + 1] = v
    <3>1. n + 1 \in 1 .. n2 /\ (n + 1) - 1 = n
      BY <2>1
    <3>2. seq2[n + 1] = b2[Slot(h2, n)]
      BY <3>1 DEF Facts
    <3> QED BY <1>b, <2>1, <2>2, <3>2 DEF Facts, Slots
  <2>4. ASSUME NEW i \in 1 .. n PROVE seq2[i] = seq[i]
    <3>1. n \in 1 .. Capacity /\ h2 = h /\ i \in 1 .. n2
      BY <1>c, <1>2, <2>1
    <3>2. Slot(h, i - 1) # t2 /\ Slot(h, i - 1) \in Slots
      <4>1. t2 = Slot(h, n) /\ n < Capacity
        BY <1>2, <2>1, <2>2, <3>1
      <4>2. Slot(h, i - 1) # Slot(h, n)
        BY <2>1, <3>1, <4>1, PushSlots
      <4>3. i - 1 \in 0 .. Capacity
        BY <2>1
      <4> QED BY <2>1, <4>1, <4>2, <4>3, RemainderIsSlot
    <3>3. b2[Slot(h, i - 1)] = b[Slot(h, i - 1)]
      BY <1>b, <3>2 DEF Facts, Slots
    <3>4. seq2[i] = b2[Slot(h, i - 1)] /\ seq[i] = b[Slot(h, i - 1)]
      BY <3>1 DEF Facts
    <3> QED BY <3>3, <3>4
  <2>5. seq2 = Append(seq, v)
    BY <1>2, <2>1, <2>3, <2>4, AppendIs
  <2> QED BY <1>2, <2>5 DEF Appended
<1> QED BY <1>1, <1>2

\* Unshift puts its value first, before all elements but the last when the
\* ring is full.
LEMMA UnshiftPrepends ==
  ASSUME NEW b, NEW h, NEW t, NEW n, NEW seq, Facts(b, h, t, n, seq),
         NEW b2, NEW h2, NEW t2, NEW n2, NEW seq2, Facts(b2, h2, t2, n2, seq2),
         NEW v \in Values, UnshiftStep(v, b, h, n, b2, h2, n2)
  PROVE  Prepended(v, n, seq, seq2)
<1> USE CapacityAssumption
<1>1. /\ h \in Slots /\ n \in 0 .. Capacity /\ n2 \in 1 .. Capacity
      /\ n2 = IF n = Capacity THEN n ELSE n + 1
      /\ seq \in Seq(Values) /\ seq2 \in Seq(Values) /\ Len(seq) = n /\ Len(seq2) = n2
  BY DEF UnshiftStep, Facts, Slots
<1>2. seq2[1] = v
  <2>1. seq2[1] = b2[Slot(h2, 0)]
    BY <1>1 DEF Facts
  <2> QED BY <1>1, <2>1, UnshiftSlots DEF UnshiftStep, Facts, Slots
<1>3. ASSUME NEW i \in 1 .. n2 - 1 PROVE seq2[i + 1] = seq[i]
  <2>1. i + 1 \in 1 .. n2 /\ (i + 1) - 1 = i /\ i \in 1 .. n /\ i \in 1 .. Capacity - 1
        /\ i - 1 \in 0 .. Capacity
    BY <1>1
  <2>2. seq2[i + 1] = b2[Slot(h2, i)] /\ seq[i] = b[Slot(h, i - 1)]
    BY <2>1 DEF Facts
  <2>3. /\ Slot(h2, i) = Slot(h, i - 1)
        /\ Slot(h, i - 1) # h2
        /\ Slot(h, i - 1) \in Slots
    BY <1>1, <2>1, UnshiftSlots, RemainderIsSlot DEF UnshiftStep
  <2>4. b2[Slot(h, i - 1)] = b[Slot(h, i - 1)]
    BY <2>3 DEF UnshiftStep, Facts, Slots
  <2> QED BY <2>2, <2>3, <2>4
<1>4. CASE n = Capacity
  <2>1. \A i \in 1 .. Capacity - 1 : seq[i] \in Values
    BY <1>1, <1>4, ElementOfSeq
  <2>2. /\ SubSeq(seq, 1, Capacity - 1) \in Seq(Values)
        /\ Len(SubSeq(seq, 1, Capacity - 1)) = Capacity - 1
        /\ \A i \in 1 .. Capacity - 1 : SubSeq(seq, 1, Capacity - 1)[i] = seq[i]
    BY <2>1, SubSeqProperties
  <2>3. ASSUME NEW s, s = SubSeq(seq, 1, Capacity - 1) PROVE seq2 = <<v>> \o s
    <3>1. /\ seq2 \in Seq(Values) /\ s \in Seq(Values)
          /\ Len(seq2) = Len(s) + 1 /\ seq2[1] = v
          /\ \A i \in 1 .. Len(s) : seq2[i + 1] = s[i]
      BY <1>1, <1>2, <1>3, <1>4, <2>2, <2>3
    <3> QED BY <3>1, ConsIs
  <2> QED BY <1>4, <2>3 DEF Prepended
<1>5. CASE n # Capacity
  <2>1. seq2 = <<v>> \o seq
    BY <1>1, <1>2, <1>3, <1>5, ConsIs
  <2> QED BY <1>5, <2>1 DEF Prepended
<1> QED BY <1>4, <1>5

\* Shift takes the first element away.
LEMMA ShiftDrops ==
  ASSUME NEW b, NEW h, NEW t, NEW n, NEW seq, Facts(b, h, t, n, seq),
         NEW h2, NEW n2, NEW seq2, Facts(b, h2, t, n2, seq2),
         n # 0, h2 = After(h), n2 = n - 1
  PROVE  seq2 = Tail(seq)
<1> USE CapacityAssumption
<1>1. /\ seq \in Seq(Values) /\ seq # <<>> /\ Len(seq) = n /\ n \in 1 .. Capacity
      /\ seq2 \in Seq(Values) /\ Len(seq2) = n - 1 /\ h \in Slots
  BY DEF Facts, Slots
<1>2. /\ Tail(seq) \in Seq(Values) /\ Len(Tail(seq)) = n - 1
      /\ \A i \in 1 .. n - 1 : Tail(seq)[i] = seq[i + 1]
  BY <1>1, HeadTailProperties
<1>3. ASSUME NEW i \in 1 .. n - 1 PROVE seq2[i] = Tail(seq)[i]
  <2>1. i + 1 \in 1 .. n /\ (i + 1) - 1 = i /\ i \in 1 .. n2 /\ i \in 1 .. Capacity - 1
    BY <1>1
  <2>2. seq2[i] = b[Slot(h2, i - 1)] /\ seq[i + 1] = b[Slot(h, i)]
    BY <2>1 DEF Facts
  <2>3. Slot(h2, i - 1) = Slot(h, i)
    BY <1>1, <2>1, PushSlots
  <2> QED BY <1>2, <2>2, <2>3
<1> QED BY <1>1, <1>2, <1>3, SeqEqual

\* The ring implements the double-ended queue: every operation changes the
\* elements, and answers, as the queue's operation does.
THEOREM Refinement == Spec => ImplementsDeque
<1> USE CapacityAssumption
<1>1. Init => D!Init
  <2> SUFFICES ASSUME Init PROVE D!Init
    OBVIOUS
  <2>1. Contents = <<>>
    BY DEF Init, Contents
  <2> QED BY <2>1, ZeroAssumption DEF Init, D!Init
<1>2. TypeOK /\ TypeOK' /\ EndsAgree /\ [Next]_vars => [D!Next]_(D!vars)
  <2> SUFFICES ASSUME TypeOK, TypeOK', EndsAgree, [Next]_vars
               PROVE  [D!Next]_(D!vars)
    OBVIOUS
  <2>a. Facts(buffer, head, tail, count, Contents)
    BY FactsHold
  <2>b. Facts(buffer', head', tail', count', Contents')
    <3>1. (TypeOK => Facts(buffer, head, tail, count, Contents))'
      BY FactsHold, PTL
    <3> QED BY <3>1
  <2>c. /\ Contents \in Seq(Values) /\ Len(Contents) = count
        /\ count \in 0 .. Capacity /\ head \in Slots /\ buffer \in [Slots -> Values]
        /\ count = 0 <=> Contents = <<>>
    BY <2>a DEF Facts, Slots
  <2>d. UNCHANGED <<buffer, head, count>> => Contents' = Contents
    BY DEF Contents
  <2>e. count > 0 => Contents[1] = buffer[head]
    BY <2>a, <2>c DEF Facts, Slot, Slots
  <2>1. ASSUME NEW v \in Values, Push(v) PROVE D!Push(v)
    <3>1. PushStep(v, buffer, head, tail, count, buffer', head', tail', count')
      BY <2>1 DEF Push, EndsAgree, PushStep
    <3>2. Appended(v, count, Contents, Contents')
      BY <3>1, <2>a, <2>b, PushAppends
    <3> QED BY <3>2, <2>1, <2>c DEF D!Push, D!Full, Push, Appended
  <2>2. ASSUME NEW v \in Values, Unshift(v) PROVE D!Unshift(v)
    <3>1. UnshiftStep(v, buffer, head, count, buffer', head', count')
      BY <2>2 DEF Unshift, UnshiftStep
    <3>2. Prepended(v, count, Contents, Contents')
      BY <3>1, <2>a, <2>b, UnshiftPrepends
    <3> QED BY <3>2, <2>2, <2>c DEF D!Unshift, D!Full, Unshift, Prepended
  <2>3. ASSUME out' = buffer[head], idx' = 0 PROVE D!Reads(0)
    <3>1. out' \in Values
      BY <2>3, <2>c
    <3> QED BY <3>1, <2>3, <2>c, <2>e DEF D!Reads
  <2>4. ASSUME Shift PROVE D!Shift
    <3>1. CASE count = 0
      BY <3>1, <2>3, <2>4, <2>c, <2>d DEF D!Shift, Shift
    <3>2. CASE count # 0
      <4>1. Contents' = Tail(Contents)
        BY <3>2, <2>4, <2>a, <2>b, ShiftDrops DEF Shift
      <4> QED BY <3>2, <4>1, <2>3, <2>4, <2>c DEF D!Shift, Shift
    <3> QED BY <3>1, <3>2
  <2>5. ASSUME First PROVE D!At(0)
    BY <2>3, <2>5, <2>d DEF First, ring, D!At
  <2>6. ASSUME NEW i \in 0 .. Capacity, At(i) PROVE D!At(i)
    <3>1. Contents' = Contents /\ UNCHANGED fit /\ idx' = i
      BY <2>6, <2>d DEF At, ring
    <3>2. CASE i >= count
      <4>1. out' \in Values
        BY <3>2, <2>6, <2>a DEF At, Facts
      <4>2. ~(i < Len(Contents))
        BY <3>2, <2>c
      <4> QED BY <3>1, <4>1, <4>2 DEF D!At, D!Reads
    <3>3. CASE i < count
      <4>1. out' = buffer[Slot(head, i)] /\ Slot(head, i) \in Slots
        BY <3>3, <2>6, <2>c, RemainderIsSlot DEF At
      <4>2. Contents[i + 1] = buffer[Slot(head, i)]
        <5>1. i + 1 \in 1 .. count /\ (i + 1) - 1 = i
          BY <3>3, <2>c
        <5> QED BY <5>1, <2>a DEF Facts
      <4>3. out' \in Values
        BY <4>1, <2>c
      <4> QED BY <3>1, <4>1, <4>2, <4>3 DEF D!At, D!Reads
    <3> QED BY <3>2, <3>3, <2>c
  <2>7. ASSUME Clear PROVE D!Clear
    <3>1. Contents' = <<>>
      BY <2>7, <2>b DEF Clear, Facts
    <3> QED BY <3>1, <2>7 DEF Clear, D!Clear
  <2>8. CASE UNCHANGED vars
    BY <2>8, <2>d DEF vars, ring, D!vars
  <2>9. 0 \in 0 .. Capacity
    OBVIOUS
  <2> QED BY <2>1, <2>2, <2>4, <2>5, <2>6, <2>7, <2>8, <2>9 DEF Next, D!Next
<1> QED BY <1>1, <1>2, TypeCorrect, EndsCorrect, PTL DEF Spec, ImplementsDeque, D!Spec
=============================================================================
