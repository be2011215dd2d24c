--------------------------- MODULE GatewayProofs ---------------------------
(***************************************************************************)
(* Theorems about the gateway core, for any number of clients, sockets and *)
(* slaves, any frames and any queue sizes.                                 *)
(***************************************************************************)
EXTENDS Gateway, SequenceTheorems, TLAPS

-----------------------------------------------------------------------------
(* How the two rings fit together, as a relation between values: at[i] bytes *)
(* of d precede those of header i of hs.  Synced says the same of the state  *)
(* but for the monotonicity, which would otherwise need an induction.        *)

Whole(h, d, a) ==
  \E slave \in Slaves :
    /\ h.scan <=> slave = 0
    /\ \A k \in 1 .. h.msgLen :
         d[a + k] = [slave |-> slave, client |-> h.client, pos |-> k]

Cut(at, hs, d) ==
  /\ at \in [1 .. Len(hs) + 1 -> Nat]
  /\ at[1] = 0
  /\ \A i \in 1 .. Len(hs) : at[i + 1] = at[i] + hs[i].msgLen
  /\ \A i, j \in 1 .. Len(hs) + 1 : i <= j => at[i] <= at[j]
  /\ at[Len(hs) + 1] = Len(d)
  /\ \A i \in 1 .. Len(hs) : Whole(hs[i], d, at[i])

Fits(hs, d) == \E at : Cut(at, hs, d)

\* A whole request stays one when its bytes are found at another place.
LEMMA WholeMoves ==
  ASSUME NEW h, NEW d, NEW a, NEW d2, NEW a2, Whole(h, d, a),
         \A k \in 1 .. h.msgLen : d2[a2 + k] = d[a + k]
  PROVE  Whole(h, d2, a2)
BY DEF Whole

\* What is left of a sequence after, and of, its first m elements.
LEMMA DropProperties ==
  ASSUME NEW S, NEW d \in Seq(S), NEW m \in Nat, m <= Len(d)
  PROVE  /\ SubSeq(d, m + 1, Len(d)) \in Seq(S)
         /\ Len(SubSeq(d, m + 1, Len(d))) = Len(d) - m
         /\ \A k \in 1 .. Len(d) - m : SubSeq(d, m + 1, Len(d))[k] = d[m + k]
<1>1. Len(d) \in Nat
  BY LenProperties
<1>2. ASSUME NEW p, p = m + 1, NEW q, q = Len(d)
      PROVE  /\ SubSeq(d, p, q) \in Seq(S)
             /\ Len(SubSeq(d, p, q)) = IF p <= q THEN q - p + 1 ELSE 0
             /\ \A i \in 1 .. q - p + 1 : SubSeq(d, p, q)[i] = d[p + i - 1]
  <2>1. p \in Int /\ q \in Int /\ \A i \in p .. q : i \in 1 .. Len(d)
    BY <1>1, <1>2
  <2>2. \A i \in p .. q : d[i] \in S
    BY <2>1, ElementOfSeq
  <2> QED BY <2>1, <2>2, SubSeqProperties
<1>3. ASSUME NEW k \in 1 .. Len(d) - m
      PROVE  k \in 1 .. Len(d) - (m + 1) + 1 /\ (m + 1) + k - 1 = m + k
  BY <1>1
<1> QED BY <1>1, <1>2, <1>3

\* The same for its first m elements.
LEMMA TakeProperties ==
  ASSUME NEW S, NEW d \in Seq(S), NEW m \in Nat, m <= Len(d)
  PROVE  /\ SubSeq(d, 1, m) \in Seq(S)
         /\ Len(SubSeq(d, 1, m)) = m
         /\ \A k \in 1 .. m : SubSeq(d, 1, m)[k] = d[k]
<1>1. Len(d) \in Nat
  BY LenProperties
<1>2. \A i \in 1 .. m : d[i] \in S
  BY <1>1, ElementOfSeq
<1> QED BY <1>2, SubSeqProperties

\* Writing over the start of a buffer never shortens it.
LEMMA OverwriteProperties ==
  ASSUME NEW S, NEW old \in Seq(S), NEW new \in Seq(S)
  PROVE  /\ Overwrite(old, new) \in Seq(S)
         /\ Len(new) <= Len(Overwrite(old, new)) /\ Len(old) <= Len(Overwrite(old, new))
         /\ \A k \in 1 .. Len(new) : Overwrite(old, new)[k] = new[k]
<1>1. Len(old) \in Nat /\ Len(new) \in Nat
  BY LenProperties
<1>2. ASSUME NEW rest \in Seq(S), Len(old) <= Len(new) + Len(rest),
             rest = SubSeq(old, Len(new) + 1, Len(old))
      PROVE  /\ Overwrite(old, new) \in Seq(S)
             /\ Len(new) <= Len(Overwrite(old, new))
             /\ Len(old) <= Len(Overwrite(old, new))
             /\ \A k \in 1 .. Len(new) : Overwrite(old, new)[k] = new[k]
  <2>1. Overwrite(old, new) = new \o rest
    BY <1>2 DEF Overwrite
  <2>2. Len(rest) \in Nat
    BY <1>2, LenProperties
  <2>3. /\ new \o rest \in Seq(S)
        /\ Len(new \o rest) = Len(new) + Len(rest)
        /\ \A k \in 1 .. Len(new) + Len(rest) :
             (new \o rest)[k] = IF k <= Len(new) THEN new[k] ELSE rest[k - Len(new)]
    BY <1>2, ConcatProperties
  <2>4. \A k \in 1 .. Len(new) : k \in 1 .. Len(new) + Len(rest) /\ k <= Len(new)
    BY <1>1, <2>2
  <2> QED BY <1>1, <1>2, <2>1, <2>2, <2>3, <2>4
<1>3. CASE Len(new) <= Len(old)
  <2>1. /\ SubSeq(old, Len(new) + 1, Len(old)) \in Seq(S)
        /\ Len(SubSeq(old, Len(new) + 1, Len(old))) = Len(old) - Len(new)
    BY <1>1, <1>3, DropProperties
  <2>2. Len(old) <= Len(new) + (Len(old) - Len(new))
    BY <1>1
  <2>3. Len(old) <= Len(new) + Len(SubSeq(old, Len(new) + 1, Len(old)))
    BY <2>1, <2>2, Zenon
  <2> QED BY <1>2, <2>1, <2>3
<1>4. CASE Len(old) < Len(new)
  <2>1. Len(new) + 1 \in Int /\ Len(old) \in Int /\ Len(old) < Len(new) + 1
    BY <1>1, <1>4
  <2>2. SubSeq(old, Len(new) + 1, Len(old)) = <<>>
    BY <2>1, SubSeqEmpty
  <2>3. <<>> \in Seq(S) /\ Len(<<>>) = 0
    BY EmptySeq
  <2>4. Len(old) <= Len(new) + Len(<<>>)
    BY <1>1, <1>4, <2>3
  <2> QED BY <1>2, <2>2, <2>3, <2>4
<1> QED BY <1>1, <1>3, <1>4

\* A frame is its request and two bytes more.
LEMMA FramedProperties ==
  ASSUME NEW d \in Seq(Bytes)
  PROVE  /\ Framed(d) \in Seq(FrameBytes)
         /\ Len(Framed(d)) = Len(d) + 2
         /\ \A k \in 1 .. Len(d) : Framed(d)[k] = d[k]
<1>1. Len(d) \in Nat /\ d \in Seq(FrameBytes)
  <2>1. Bytes \subseteq FrameBytes
    BY DEF FrameBytes
  <2> QED BY <2>1, SeqMonotonic, LenProperties
<1>2. PICK crc \in Seq(FrameBytes) : Len(crc) = 2 /\ Framed(d) = d \o crc
  <2>1. ASSUME NEW lo \in FrameBytes, NEW hi \in FrameBytes
        PROVE  <<lo, hi>> \in Seq(FrameBytes) /\ Len(<<lo, hi>>) = 2
    OBVIOUS
  <2>2. /\ [of |-> d, half |-> "low"] \in FrameBytes
        /\ [of |-> d, half |-> "high"] \in FrameBytes
    BY DEF FrameBytes
  <2> QED BY <2>1, <2>2 DEF Framed
<1>3. /\ d \o crc \in Seq(FrameBytes)
      /\ Len(d \o crc) = Len(d) + 2
      /\ \A k \in 1 .. Len(d) + 2 :
           (d \o crc)[k] = IF k <= Len(d) THEN d[k] ELSE crc[k - Len(d)]
  <2>1. /\ d \o crc \in Seq(FrameBytes)
        /\ Len(d \o crc) = Len(d) + Len(crc)
        /\ \A k \in 1 .. Len(d) + Len(crc) :
             (d \o crc)[k] = IF k <= Len(d) THEN d[k] ELSE crc[k - Len(d)]
    BY <1>1, <1>2, ConcatProperties
  <2>2. Len(d) + Len(crc) = Len(d) + 2
    BY <1>2
  <2> QED BY <2>1, <2>2, Zenon
<1>4. ASSUME NEW n \in Nat
      PROVE  \A k \in 1 .. n : k \in 1 .. n + 2 /\ k <= n
  OBVIOUS
<1> QED BY <1>1, <1>2, <1>3, <1>4

\* Positions counted from another origin.
LEMMA ShiftedOrigin ==
  ASSUME NEW a \in Nat, NEW b \in Nat, NEW m \in Nat
  PROVE  /\ a <= b => a - m <= b - m
         /\ (a + b) - m = (a - m) + b
         /\ a = m + (a - m)
OBVIOUS

\* A header states a length and a count of attempts.
LEMMA HeaderNumbers ==
  ASSUME NEW h \in Headers
  PROVE  /\ h.msgLen \in 0 .. DCap /\ h.msgLen \in Nat
         /\ h.atts \in 0 .. SerialAttempts /\ h.atts \in Nat
<1>1. h.msgLen \in 0 .. DCap /\ h.atts \in 0 .. SerialAttempts
  BY DEF Headers
<1> QED BY <1>1, SizesAssumption

\* A request appended to both rings.
LEMMA FitsAppend ==
  ASSUME NEW hs \in Seq(Headers), NEW d \in Seq(Bytes), Fits(hs, d),
         NEW h \in Headers, NEW e \in Seq(Bytes), Len(e) = h.msgLen, Whole(h, e, 0)
  PROVE  Fits(Append(hs, h), d \o e)
<1>1. PICK at : Cut(at, hs, d)
  BY DEF Fits
<1>2. PICK n \in Nat : n = Len(hs)
  BY LenProperties
<1>3. PICK m \in Nat : m = h.msgLen
  BY HeaderNumbers
<1>4. PICK hs2 \in Seq(Headers) :
        /\ hs2 = Append(hs, h) /\ Len(hs2) = n + 1 /\ hs2[n + 1] = h
        /\ \A i \in 1 .. n : hs2[i] = hs[i]
  <2>1. /\ Append(hs, h) \in Seq(Headers) /\ Len(Append(hs, h)) = Len(hs) + 1
        /\ Append(hs, h)[Len(hs) + 1] = h
        /\ \A i \in 1 .. Len(hs) : Append(hs, h)[i] = hs[i]
    BY AppendProperties
  <2>2. /\ Len(Append(hs, h)) = n + 1 /\ Append(hs, h)[n + 1] = h
        /\ \A i \in 1 .. n : Append(hs, h)[i] = hs[i]
    BY <2>1, <1>2
  <2> QED BY <2>1, <2>2
<1>5. PICK d2 \in Seq(Bytes) :
        /\ d2 = d \o e /\ Len(d2) = Len(d) + m
        /\ \A k \in 1 .. Len(d) : d2[k] = d[k]
        /\ \A k \in 1 .. m : d2[Len(d) + k] = e[k]
  <2>1. Len(d) \in Nat
    BY LenProperties
  <2>2. /\ d \o e \in Seq(Bytes) /\ Len(d \o e) = Len(d) + m
        /\ \A k \in 1 .. Len(d) + m :
             (d \o e)[k] = IF k <= Len(d) THEN d[k] ELSE e[k - Len(d)]
    BY <1>3, ConcatProperties
  <2>3. ASSUME NEW k \in 1 .. m PROVE (d \o e)[Len(d) + k] = e[k]
    <3>1. /\ Len(d) + k \in 1 .. Len(d) + m /\ ~(Len(d) + k <= Len(d))
          /\ (Len(d) + k) - Len(d) = k
      BY <2>1
    <3> QED BY <2>2, <3>1
  <2>4. ASSUME NEW k \in 1 .. Len(d) PROVE (d \o e)[k] = d[k]
    BY <2>1, <2>2
  <2> QED BY <2>2, <2>3, <2>4
<1>6. /\ at \in [1 .. n + 1 -> Nat] /\ at[1] = 0 /\ at[n + 1] = Len(d)
      /\ \A i \in 1 .. n : at[i + 1] = at[i] + hs[i].msgLen
      /\ \A i, j \in 1 .. n + 1 : i <= j => at[i] <= at[j]
      /\ \A i \in 1 .. n : Whole(hs[i], d, at[i])
  BY <1>1, <1>2 DEF Cut
<1>7. PICK at2 \in [1 .. n + 2 -> Nat] :
        /\ \A i \in 1 .. n + 1 : at2[i] = at[i]
        /\ at2[n + 2] = at[n + 1] + m
  <2> DEFINE f == [i \in 1 .. n + 2 |-> IF i = n + 2 THEN at[n + 1] + m ELSE at[i]]
  <2>1. ASSUME NEW i \in 1 .. n + 2
        PROVE  (IF i = n + 2 THEN at[n + 1] + m ELSE at[i]) \in Nat
    <3>1. n + 1 \in 1 .. n + 1 /\ (i # n + 2 => i \in 1 .. n + 1)
      OBVIOUS
    <3> QED BY <3>1, <1>6
  <2>2. f \in [1 .. n + 2 -> Nat]
    BY <2>1
  <2>3. (\A i \in 1 .. n + 1 : f[i] = at[i]) /\ f[n + 2] = at[n + 1] + m
    <3>1. \A i \in 1 .. n + 1 : i \in 1 .. n + 2 /\ i # n + 2
      OBVIOUS
    <3>2. n + 2 \in 1 .. n + 2
      OBVIOUS
    <3> QED BY <3>1, <3>2
  <2> HIDE DEF f
  <2> QED BY <2>2, <2>3
<1>8. at2[1] = 0 /\ at2[n + 2] = Len(d2)
  BY <1>5, <1>6, <1>7
<1>9. ASSUME NEW i \in 1 .. n + 1 PROVE at2[i + 1] = at2[i] + hs2[i].msgLen
  <2>1. CASE i = n + 1
    BY <2>1, <1>3, <1>4, <1>7
  <2>2. CASE i # n + 1
    <3>1. i \in 1 .. n /\ i \in 1 .. n + 1 /\ i + 1 \in 1 .. n + 1
      BY <2>2
    <3> QED BY <3>1, <1>4, <1>6, <1>7
  <2> QED BY <2>1, <2>2
<1>10. ASSUME NEW i \in 1 .. n + 2, NEW j \in 1 .. n + 2, i <= j PROVE at2[i] <= at2[j]
  <2>1. CASE j = n + 2
    <3>1. CASE i = n + 2
      BY <2>1, <3>1
    <3>2. CASE i # n + 2
      <4>1. at2[i] = at[i] /\ at[i] <= at[n + 1] /\ at[i] \in Nat /\ at[n + 1] \in Nat
        BY <3>2, <1>6, <1>7
      <4>2. PICK x \in Nat, y \in Nat : x = at[i] /\ y = at[n + 1] /\ x <= y
        BY <4>1
      <4>3. x <= y + m
        <5>1. x \in Nat /\ y \in Nat /\ m \in Nat /\ x <= y
          BY <4>2, <1>3
        <5> QED BY <5>1
      <4> QED BY <2>1, <4>1, <4>2, <4>3, <1>7
    <3> QED BY <3>1, <3>2
  <2>2. CASE j # n + 2
    <3>1. i \in 1 .. n + 1 /\ j \in 1 .. n + 1
      BY <2>2, <1>10
    <3> QED BY <3>1, <1>10, <1>6, <1>7
  <2> QED BY <2>1, <2>2
<1>11. ASSUME NEW i \in 1 .. n + 1 PROVE Whole(hs2[i], d2, at2[i])
  <2>1. CASE i = n + 1
    <3>1. hs2[i] = h /\ at2[i] = Len(d)
      BY <2>1, <1>4, <1>6, <1>7
    <3>2. ASSUME NEW k \in 1 .. h.msgLen PROVE d2[Len(d) + k] = e[0 + k]
      <4>1. k \in 1 .. m
        BY <1>3
      <4>2. 0 + k = k
        BY <4>1
      <4> QED BY <4>1, <4>2, <1>5
    <3> QED BY <3>1, <3>2, WholeMoves
  <2>2. CASE i # n + 1
    <3>1. i \in 1 .. n /\ i \in 1 .. n + 1 /\ i + 1 \in 1 .. n + 1
      BY <2>2
    <3>2. hs2[i] = hs[i] /\ at2[i] = at[i] /\ Whole(hs[i], d, at[i])
      BY <3>1, <1>4, <1>6, <1>7
    <3>3. PICK l \in Nat : l = hs[i].msgLen
      <4>1. hs[i] \in Headers
        BY <3>1, <1>2, ElementOfSeq
      <4> QED BY <4>1, HeaderNumbers
    <3>4. PICK a \in Nat : a = at[i] /\ a + l <= Len(d)
      <4>1. /\ i + 1 \in 1 .. n + 1 /\ n + 1 \in 1 .. n + 1 /\ i + 1 <= n + 1
        BY <3>1
      <4>2. at[i + 1] <= at[n + 1]
        BY <4>1, <1>6
      <4>3. at[i + 1] = at[i] + l
        BY <3>1, <3>3, <1>6
      <4>4. at[i] \in Nat /\ Len(d) \in Nat
        BY <3>1, <1>6, LenProperties
      <4> QED BY <4>2, <4>3, <4>4, <1>6
    <3>5. ASSUME NEW k \in 1 .. l PROVE d2[at[i] + k] = d[at[i] + k]
      <4>1. Len(d) \in Nat
        BY LenProperties
      <4>2. a + k \in 1 .. Len(d)
        <5>1. a \in Nat /\ l \in Nat /\ a + l <= Len(d)
          BY <3>3, <3>4
        <5> QED BY <5>1, <4>1
      <4> QED BY <4>2, <3>4, <1>5
    <3> QED BY <3>2, <3>3, <3>5, WholeMoves
  <2> QED BY <2>1, <2>2
<1>12. Cut(at2, hs2, d2)
  <2>1. Len(hs2) = n + 1 /\ Len(hs2) + 1 = n + 2
    BY <1>4
  <2> QED BY <2>1, <1>7, <1>8, <1>9, <1>10, <1>11 DEF Cut
<1> QED BY <1>4, <1>5, <1>12 DEF Fits

\* The head request deleted from both rings.
LEMMA FitsTail ==
  ASSUME NEW hs \in Seq(Headers), NEW d \in Seq(Bytes), Fits(hs, d), hs # <<>>
  PROVE  /\ hs[1].msgLen <= Len(d)
         /\ Fits(Tail(hs), SubSeq(d, hs[1].msgLen + 1, Len(d)))
         /\ Whole(hs[1], d, 0)
<1>0. PICK m \in Nat : m = hs[1].msgLen
  <2>1. hs[1] \in Headers
    <3>1. 1 \in 1 .. Len(hs)
      BY EmptySeq
    <3> QED BY <3>1, ElementOfSeq
  <2> QED BY <2>1, HeaderNumbers
<1>m. m \in Nat
  BY <1>0
<1>1. PICK at : Cut(at, hs, d)
  BY DEF Fits
<1>2. PICK n \in Nat : n + 1 = Len(hs)
  <2>1. Len(hs) \in Nat \ {0}
    BY EmptySeq
  <2>2. Len(hs) - 1 \in Nat /\ (Len(hs) - 1) + 1 = Len(hs)
    BY <2>1
  <2> QED BY <2>2
<1>3. /\ at \in [1 .. n + 2 -> Nat] /\ at[1] = 0 /\ at[n + 2] = Len(d)
      /\ \A i \in 1 .. n + 1 : at[i + 1] = at[i] + hs[i].msgLen
      /\ \A i, j \in 1 .. n + 2 : i <= j => at[i] <= at[j]
      /\ \A i \in 1 .. n + 1 : Whole(hs[i], d, at[i])
  <2>1. Len(hs) + 1 = n + 2
    BY <1>2
  <2> QED BY <2>1, <1>1, <1>2 DEF Cut
<1>4. at[2] = m
  <2>1. 1 \in 1 .. n + 1 /\ 1 + 1 = 2
    BY <1>2
  <2>2. at[2] = 0 + hs[1].msgLen
    BY <2>1, <1>3
  <2> QED BY <1>0, <2>2
<1>5. Len(d) \in Nat /\ m <= Len(d)
  <2>1. 2 \in 1 .. n + 2 /\ n + 2 \in 1 .. n + 2 /\ 2 <= n + 2
    BY <1>2
  <2>2. at[2] <= at[n + 2]
    BY <2>1, <1>3
  <2> QED BY <2>2, <1>3, <1>4, LenProperties
<1>6. PICK d2 \in Seq(Bytes) :
        /\ d2 = SubSeq(d, m + 1, Len(d))
        /\ Len(d2) = Len(d) - m
        /\ \A k \in 1 .. Len(d) - m : d2[k] = d[m + k]
  <2>1. /\ SubSeq(d, m + 1, Len(d)) \in Seq(Bytes)
        /\ Len(SubSeq(d, m + 1, Len(d))) = Len(d) - m
        /\ \A k \in 1 .. Len(d) - m : SubSeq(d, m + 1, Len(d))[k] = d[m + k]
    BY <1>m, <1>5, DropProperties
  <2> QED BY <2>1
<1>7. PICK hs2 \in Seq(Headers) :
        /\ hs2 = Tail(hs) /\ Len(hs2) = n
        /\ \A i \in 1 .. n : hs2[i] = hs[i + 1]
  <2>1. /\ Tail(hs) \in Seq(Headers) /\ Len(Tail(hs)) = Len(hs) - 1
        /\ \A i \in 1 .. Len(Tail(hs)) : Tail(hs)[i] = hs[i + 1]
    BY HeadTailProperties
  <2>2. Len(hs) - 1 = n
    BY <1>2
  <2>3. Len(Tail(hs)) = n
    BY <2>1, <2>2
  <2> QED BY <2>1, <2>3
<1>8. ASSUME NEW i \in 1 .. n + 1
      PROVE  /\ i + 1 \in 1 .. n + 2 /\ at[i + 1] - m \in Nat
             /\ at[i + 1] \in Nat
  <2>1. i + 1 \in 1 .. n + 2 /\ 2 \in 1 .. n + 2 /\ 2 <= i + 1
    BY <1>2
  <2>2. at[2] <= at[i + 1] /\ at[i + 1] \in Nat
    BY <2>1, <1>3
  <2> QED BY <2>1, <2>2, <1>4, <1>m
<1>9. PICK at2 \in [1 .. n + 1 -> Nat] : \A i \in 1 .. n + 1 : at2[i] = at[i + 1] - m
  <2> DEFINE f == [i \in 1 .. n + 1 |-> at[i + 1] - m]
  <2>1. f \in [1 .. n + 1 -> Nat] /\ \A i \in 1 .. n + 1 : f[i] = at[i + 1] - m
    BY <1>8
  <2> HIDE DEF f
  <2> QED BY <2>1
<1>10. at2[1] = 0 /\ at2[n + 1] = Len(d2)
  <2>1. 1 \in 1 .. n + 1 /\ n + 1 \in 1 .. n + 1 /\ 1 + 1 = 2 /\ (n + 1) + 1 = n + 2
    BY <1>2
  <2>2. at2[1] = at[2] - m /\ at2[n + 1] = at[n + 2] - m
    BY <2>1, <1>9
  <2> QED BY <2>2, <1>3, <1>4, <1>6
<1>11. ASSUME NEW i \in 1 .. n
       PROVE  /\ i + 1 \in 1 .. n + 1 /\ i \in 1 .. n + 1
              /\ at2[i] = at[i + 1] - m
              /\ hs2[i] = hs[i + 1]
              /\ \E l \in Nat : l = hs2[i].msgLen
  <2>1. i + 1 \in 1 .. n + 1 /\ i \in 1 .. n + 1
    BY <1>2
  <2>2. hs2[i] \in Headers
    BY <1>7, ElementOfSeq
  <2>3. \E l \in Nat : l = hs2[i].msgLen
    BY <2>2, HeaderNumbers
  <2> QED BY <2>1, <2>3, <1>7, <1>9
<1>12. ASSUME NEW i \in 1 .. n PROVE at2[i + 1] = at2[i] + hs2[i].msgLen
  <2>1. PICK l \in Nat : l = hs2[i].msgLen
    BY <1>11
  <2>2. at[(i + 1) + 1] = at[i + 1] + l
    BY <2>1, <1>11, <1>3
  <2>3. at2[i + 1] = at[(i + 1) + 1] - m
    BY <1>11, <1>9
  <2>4. at[i + 1] \in Nat /\ at2[i] = at[i + 1] - m /\ l \in Nat
    BY <2>1, <1>8, <1>11
  <2>5. (at[i + 1] + l) - m = (at[i + 1] - m) + l
    <3>1. PICK b \in Nat : b = at[i + 1]
      BY <2>4
    <3>2. (b + l) - m = (b - m) + l
      <4>1. b \in Nat /\ l \in Nat
        BY <3>1, <2>4
      <4> QED BY <4>1, <1>m
    <3> QED BY <3>1, <3>2
  <2> QED BY <2>1, <2>2, <2>3, <2>4, <2>5
<1>13. ASSUME NEW i \in 1 .. n + 1, NEW j \in 1 .. n + 1, i <= j PROVE at2[i] <= at2[j]
  <2>1. i + 1 \in 1 .. n + 2 /\ j + 1 \in 1 .. n + 2 /\ i + 1 <= j + 1
    BY <1>13, <1>2
  <2>2. at[i + 1] <= at[j + 1] /\ at[i + 1] \in Nat /\ at[j + 1] \in Nat
    BY <2>1, <1>3
  <2>3. at2[i] = at[i + 1] - m /\ at2[j] = at[j + 1] - m
    BY <1>9
  <2>4. at[i + 1] - m <= at[j + 1] - m
    BY <2>2, <1>m, ShiftedOrigin
  <2> QED BY <2>3, <2>4
<1>14. ASSUME NEW i \in 1 .. n PROVE Whole(hs2[i], d2, at2[i])
  <2>1. PICK l \in Nat : l = hs2[i].msgLen
    BY <1>11
  <2>2. PICK a \in Nat : a = at2[i] /\ at[i + 1] = m + a
    <3>1. at2[i] \in Nat
      BY <1>9, <1>11
    <3>2. at2[i] = at[i + 1] - m /\ at[i + 1] \in Nat
      BY <1>8, <1>11
    <3>3. at[i + 1] = m + (at[i + 1] - m)
      BY <3>2, <1>m, ShiftedOrigin
    <3> QED BY <3>1, <3>2, <3>3
  <2>3. a + l <= Len(d) - m
    <3>1. i + 1 \in 1 .. n + 1 /\ n + 1 \in 1 .. n + 1 /\ i + 1 <= n + 1
      BY <1>11, <1>2
    <3>2. at2[i + 1] <= at2[n + 1]
      BY <3>1, <1>13
    <3>3. at2[i + 1] = a + l
      BY <1>12, <2>1, <2>2
    <3> QED BY <3>2, <3>3, <1>10, <1>6
  <2>4. ASSUME NEW k \in 1 .. l PROVE d2[a + k] = d[(m + a) + k]
    <3>1. a \in Nat /\ l \in Nat
      BY <2>1, <2>2
    <3>2. a + k \in 1 .. Len(d) - m /\ m + (a + k) = (m + a) + k
      BY <3>1, <2>3, <1>5, <1>m
    <3> QED BY <3>2, <1>6
  <2>5. Whole(hs2[i], d, m + a)
    BY <1>3, <1>11, <2>2
  <2>6. \A k \in 1 .. hs2[i].msgLen : d2[a + k] = d[(m + a) + k]
    BY <2>4, <2>1
  <2> QED BY <2>2, <2>5, <2>6, WholeMoves
<1>15. Cut(at2, hs2, d2)
  BY <1>7, <1>9, <1>10, <1>12, <1>13, <1>14 DEF Cut
<1>16. Whole(hs[1], d, 0)
  <2>1. 1 \in 1 .. n + 1
    BY <1>2
  <2> QED BY <2>1, <1>3
<1> QED BY <1>0, <1>5, <1>6, <1>7, <1>15, <1>16 DEF Fits

\* Counting an attempt of the head request leaves the layout alone.
LEMMA FitsCount ==
  ASSUME NEW hs \in Seq(Headers), NEW d, Fits(hs, d),
         NEW hs2 \in Seq(Headers), Len(hs2) = Len(hs),
         \A i \in 1 .. Len(hs) : /\ hs2[i].msgLen = hs[i].msgLen
                                 /\ hs2[i].client = hs[i].client
                                 /\ hs2[i].scan = hs[i].scan
  PROVE  Fits(hs2, d)
<1>1. PICK at : Cut(at, hs, d)
  BY DEF Fits
<1>2. ASSUME NEW i \in 1 .. Len(hs) PROVE Whole(hs2[i], d, at[i])
  <2>1. Whole(hs[i], d, at[i])
    BY <1>1 DEF Cut
  <2>2. /\ hs2[i].msgLen = hs[i].msgLen /\ hs2[i].client = hs[i].client
        /\ hs2[i].scan = hs[i].scan
    OBVIOUS
  <2> QED BY <2>1, <2>2 DEF Whole
<1>3. Cut(at, hs2, d)
  BY <1>1, <1>2 DEF Cut
<1> QED BY <1>3 DEF Fits

-----------------------------------------------------------------------------
(* The inductive invariant.  Types alone are not inductive: rotating,        *)
(* transmitting and deleting cut the byte ring at the length the header      *)
(* states, so the rings must fit; deleting and counting need the request     *)
(* they work on, so a busy state machine must have one.                      *)

QueueOK(hs, d) ==
  /\ hs \in Seq(Headers) /\ Len(hs) <= QCap
  /\ d \in Seq(Bytes) /\ Len(d) <= DCap
  /\ Fits(hs, d)

Fresh(h) == h.atts < (IF h.scan THEN 1 ELSE SerialAttempts)

AttemptsOK(hs, state) ==
  /\ state # "IDLE" => hs # <<>>
  /\ state = "WAITING" => hs[1].atts >= 1
  /\ \A i \in 1 .. Len(hs) : (i # 1 \/ state # "WAITING") => Fresh(hs[i])

BooksOK ==
  /\ slaveStatus \in [Tracked -> Statuses]
  /\ priorityReqInQueue \in Int
  /\ socketInQueue \in [Sockets -> Int]

TcpOK ==
  /\ snSR \in [Sockets -> SocketStates]
  /\ peer \in [Sockets -> TcpClients \cup {NoClient}]
  /\ \A s \in Sockets : snSR[s] \in {"ESTABLISHED", "CLOSE_WAIT"} => peer[s] \in TcpClients

LineOK ==
  /\ sending \in BOOLEAN
  /\ wire \in Seq(FrameBytes) /\ fetched \in 0 .. Len(wire)
  /\ txBuffer \in Seq(FrameBytes)
  /\ sending => Len(wire) <= Len(txBuffer)
  /\ txNdx \in 0 .. (ByteMod - 1) /\ txNdx <= Len(txBuffer)
  /\ incoming \in Seq(Replies)
  /\ rxBuf \in Seq(Replies)
  /\ replying \in [Slaves -> Clients \cup {NoClient}]

RestOK ==
  /\ pc \in {"sendSerial", "prioritise", "recvUdp", "recvSerial",
             "freeRxBuffer", "manageSockets"}
  /\ pc = "prioritise" => serialState = "IDLE" /\ queueHeaders # <<>>
  /\ serialState \in States
  /\ sendMicroTimer \in Timers
  /\ sent \subseteq Messages

Inv ==
  /\ QueueOK(queueHeaders, queueData)
  /\ AttemptsOK(queueHeaders, serialState)
  /\ BooksOK
  /\ TcpOK
  /\ LineOK
  /\ RestOK

\* A request that fits, appended, leaves both rings well formed.
LEMMA QueueAppend ==
  ASSUME NEW hs, NEW d, QueueOK(hs, d), Len(hs) < QCap,
         NEW h \in Headers, NEW e \in Seq(Bytes), Len(e) = h.msgLen, Whole(h, e, 0),
         Len(d) + Len(e) <= DCap
  PROVE  QueueOK(Append(hs, h), d \o e)
<1>1. /\ hs \in Seq(Headers) /\ d \in Seq(Bytes) /\ Fits(hs, d)
  BY DEF QueueOK
<1>2. Fits(Append(hs, h), d \o e)
  BY <1>1, FitsAppend
<1>3. Append(hs, h) \in Seq(Headers) /\ Len(Append(hs, h)) = Len(hs) + 1 /\ Len(hs) \in Nat
  BY <1>1, AppendProperties, LenProperties
<1>4. d \o e \in Seq(Bytes) /\ Len(d \o e) = Len(d) + Len(e)
  BY <1>1, ConcatProperties
<1>5. Len(hs) + 1 <= QCap
  BY <1>3, SizesAssumption
<1> QED BY <1>2, <1>3, <1>4, <1>5 DEF QueueOK

\* The first header is a header, and its bytes are in the byte ring.
LEMMA HeadHeader ==
  ASSUME NEW hs \in Seq(Headers), hs # <<>>
  PROVE  /\ hs[1] \in Headers /\ Head(hs) = hs[1] /\ 1 \in 1 .. Len(hs)
         /\ hs[1].msgLen \in Nat
<1>1. Head(hs) = hs[1]
  OBVIOUS
<1>2. 1 \in 1 .. Len(hs)
  BY EmptySeq
<1>3. hs[1] \in Headers
  BY <1>2, ElementOfSeq
<1> QED BY <1>1, <1>2, <1>3, HeaderNumbers

\* Deleting the head request leaves both rings well formed.
LEMMA QueueTail ==
  ASSUME NEW hs, NEW d, QueueOK(hs, d), hs # <<>>
  PROVE  /\ QueueOK(Tail(hs), SubSeq(d, hs[1].msgLen + 1, Len(d)))
         /\ Len(Tail(hs)) < QCap
         /\ Len(SubSeq(d, hs[1].msgLen + 1, Len(d))) = Len(d) - hs[1].msgLen
         /\ hs[1].msgLen <= Len(d)
<1>1. /\ hs \in Seq(Headers) /\ d \in Seq(Bytes) /\ Fits(hs, d) /\ Len(hs) <= QCap
      /\ Len(d) <= DCap /\ hs[1].msgLen \in Nat
  BY HeadHeader DEF QueueOK
<1>2. /\ hs[1].msgLen <= Len(d)
      /\ Fits(Tail(hs), SubSeq(d, hs[1].msgLen + 1, Len(d)))
  BY <1>1, FitsTail
<1>3. /\ SubSeq(d, hs[1].msgLen + 1, Len(d)) \in Seq(Bytes)
      /\ Len(SubSeq(d, hs[1].msgLen + 1, Len(d))) = Len(d) - hs[1].msgLen
  BY <1>1, <1>2, DropProperties
<1>4. Len(d) - hs[1].msgLen <= DCap
  <2>1. Len(d) \in Nat
    BY <1>1, LenProperties
  <2> QED BY <2>1, <1>1, SizesAssumption
<1>5. Tail(hs) \in Seq(Headers) /\ Len(Tail(hs)) = Len(hs) - 1 /\ Len(hs) \in Nat
  BY <1>1, HeadTailProperties, LenProperties
<1>6. Len(hs) - 1 <= QCap /\ Len(hs) - 1 < QCap
  BY <1>1, <1>5, SizesAssumption
<1> QED BY <1>2, <1>3, <1>4, <1>5, <1>6 DEF QueueOK

\* So does moving the head request to the tail: rotation needs no room beyond
\* what the request already takes.
LEMMA QueueRotate ==
  ASSUME NEW hs, NEW d, QueueOK(hs, d), hs # <<>>
  PROVE  QueueOK(Append(Tail(hs), hs[1]),
                 SubSeq(d, hs[1].msgLen + 1, Len(d)) \o SubSeq(d, 1, hs[1].msgLen))
<1>1. /\ hs \in Seq(Headers) /\ d \in Seq(Bytes) /\ Fits(hs, d)
      /\ Len(d) <= DCap /\ hs[1].msgLen \in Nat /\ hs[1] \in Headers
  BY HeadHeader DEF QueueOK
<1>2. /\ QueueOK(Tail(hs), SubSeq(d, hs[1].msgLen + 1, Len(d)))
      /\ Len(Tail(hs)) < QCap
      /\ Len(SubSeq(d, hs[1].msgLen + 1, Len(d))) = Len(d) - hs[1].msgLen
      /\ hs[1].msgLen <= Len(d)
  BY QueueTail
<1>3. /\ SubSeq(d, 1, hs[1].msgLen) \in Seq(Bytes)
      /\ Len(SubSeq(d, 1, hs[1].msgLen)) = hs[1].msgLen
      /\ \A k \in 1 .. hs[1].msgLen : SubSeq(d, 1, hs[1].msgLen)[k] = d[k]
  BY <1>1, <1>2, TakeProperties
<1>4. Whole(hs[1], SubSeq(d, 1, hs[1].msgLen), 0)
  <2>1. Whole(hs[1], d, 0)
    BY <1>1, FitsTail
  <2>2. ASSUME NEW k \in 1 .. hs[1].msgLen
        PROVE  SubSeq(d, 1, hs[1].msgLen)[0 + k] = d[0 + k]
    <3>1. 0 + k = k
      BY <1>1
    <3> QED BY <3>1, <1>3
  <2>3. ASSUME NEW take, take = SubSeq(d, 1, hs[1].msgLen) PROVE Whole(hs[1], take, 0)
    <3>1. \A k \in 1 .. hs[1].msgLen : take[0 + k] = d[0 + k]
      BY <2>2, <2>3
    <3> QED BY <3>1, <2>1, WholeMoves
  <2> QED BY <2>3
<1>5. (Len(d) - hs[1].msgLen) + hs[1].msgLen <= DCap
  <2>1. Len(d) \in Nat
    BY <1>1, LenProperties
  <2> QED BY <2>1, <1>1
<1> QED BY <1>1, <1>2, <1>3, <1>4, <1>5, QueueAppend

\* So does counting an attempt, as long as the count stays in its range.
LEMMA QueueCount ==
  ASSUME NEW hs, NEW d, QueueOK(hs, d), hs # <<>>, hs[1].atts < SerialAttempts
  PROVE  /\ QueueOK([hs EXCEPT ![1].atts = @ + 1], d)
         /\ Len([hs EXCEPT ![1].atts = @ + 1]) = Len(hs)
         /\ [hs EXCEPT ![1].atts = @ + 1] # <<>>
         /\ \A i \in 1 .. Len(hs) : [hs EXCEPT ![1].atts = @ + 1][i]
               = IF i = 1 THEN [hs[1] EXCEPT !.atts = @ + 1] ELSE hs[i]
<1>1. /\ hs \in Seq(Headers) /\ d \in Seq(Bytes) /\ Fits(hs, d)
      /\ Len(hs) <= QCap /\ Len(d) <= DCap
      /\ hs[1] \in Headers /\ 1 \in 1 .. Len(hs)
  BY HeadHeader DEF QueueOK
<1>2. [hs[1] EXCEPT !.atts = @ + 1] \in Headers
  <2>1. PICK a \in 0 .. SerialAttempts : a = hs[1].atts
    BY <1>1 DEF Headers
  <2>2. a < SerialAttempts
    BY <2>1
  <2>3. a + 1 \in 0 .. SerialAttempts
    BY <2>1, <2>2, SizesAssumption
  <2>4. hs[1].atts + 1 \in 0 .. SerialAttempts
    BY <2>1, <2>3
  <2> QED BY <1>1, <2>4 DEF Headers
<1>3. PICK e \in Headers : e = [hs[1] EXCEPT !.atts = @ + 1]
  BY <1>2
<1>4. [hs EXCEPT ![1].atts = @ + 1] = [hs EXCEPT ![1] = e]
  BY <1>1, <1>3
<1>5. PICK hs2 \in Seq(Headers) :
        /\ hs2 = [hs EXCEPT ![1] = e]
        /\ Len(hs2) = Len(hs)
        /\ \A i \in 1 .. Len(hs) : hs2[i] = IF i = 1 THEN e ELSE hs[i]
  <2>1. /\ [hs EXCEPT ![1] = e] \in Seq(Headers)
        /\ Len([hs EXCEPT ![1] = e]) = Len(hs)
        /\ \A i \in 1 .. Len(hs) : [hs EXCEPT ![1] = e][i] = IF i = 1 THEN e ELSE hs[i]
    BY <1>1, <1>3, ExceptSeq
  <2> QED BY <2>1
<1>6. /\ e.msgLen = hs[1].msgLen /\ e.client = hs[1].client /\ e.scan = hs[1].scan
  BY <1>1, <1>3 DEF Headers
<1>7. Fits(hs2, d)
  BY <1>1, <1>5, <1>6, FitsCount
<1>8. QueueOK(hs2, d) /\ hs2 # <<>>
  BY <1>1, <1>5, <1>7, EmptySeq DEF QueueOK
<1> QED BY <1>3, <1>4, <1>5, <1>8

\* A new request, with no attempt counted, joins at the tail.
LEMMA AttemptsAppend ==
  ASSUME NEW hs \in Seq(Headers), NEW state, AttemptsOK(hs, state),
         NEW h \in Headers, Fresh(h)
  PROVE  AttemptsOK(Append(hs, h), state)
<1>1. PICK n \in Nat : n = Len(hs)
  BY LenProperties
<1>2. /\ Append(hs, h) # <<>> /\ Len(Append(hs, h)) = n + 1
      /\ \A i \in 1 .. n : Append(hs, h)[i] = hs[i]
      /\ Append(hs, h)[n + 1] = h
  BY <1>1, AppendProperties
<1>3. ASSUME NEW i \in 1 .. n + 1, i # 1 \/ state # "WAITING"
      PROVE  Fresh(Append(hs, h)[i])
  <2>1. CASE i = n + 1
    BY <2>1, <1>2
  <2>2. CASE i # n + 1
    <3>1. i \in 1 .. n
      BY <2>2, <1>1
    <3> QED BY <3>1, <1>1, <1>2, <1>3 DEF AttemptsOK
  <2> QED BY <2>1, <2>2
<1>4. ASSUME state = "WAITING" PROVE Append(hs, h)[1].atts >= 1
  <2>1. hs # <<>> /\ hs[1].atts >= 1
    BY <1>4 DEF AttemptsOK
  <2>2. 1 \in 1 .. n
    BY <2>1, <1>1, HeadHeader
  <2> QED BY <2>1, <2>2, <1>2
<1> QED BY <1>2, <1>3, <1>4 DEF AttemptsOK

\* A machine that has deleted its request is IDLE and all others are fresh.
LEMMA AttemptsTail ==
  ASSUME NEW hs \in Seq(Headers), hs # <<>>, NEW state, AttemptsOK(hs, state)
  PROVE  AttemptsOK(Tail(hs), "IDLE")
<1>1. PICK n \in Nat : n + 1 = Len(hs)
  <2>1. Len(hs) \in Nat \ {0}
    BY EmptySeq
  <2>2. Len(hs) - 1 \in Nat /\ (Len(hs) - 1) + 1 = Len(hs)
    BY <2>1
  <2> QED BY <2>2
<1>2. Len(Tail(hs)) = n /\ \A i \in 1 .. n : Tail(hs)[i] = hs[i + 1]
  <2>1. /\ Len(Tail(hs)) = Len(hs) - 1
        /\ \A i \in 1 .. Len(Tail(hs)) : Tail(hs)[i] = hs[i + 1]
    BY HeadTailProperties
  <2>2. Len(hs) - 1 = n
    BY <1>1
  <2> QED BY <2>1, <2>2
<1>3. ASSUME NEW i \in 1 .. n PROVE Fresh(Tail(hs)[i])
  <2>1. i + 1 \in 1 .. n + 1 /\ i + 1 # 1
    BY <1>1
  <2>2. Fresh(hs[i + 1])
    BY <2>1, <1>1 DEF AttemptsOK
  <2> QED BY <2>2, <1>2
<1> QED BY <1>2, <1>3 DEF AttemptsOK

\* The machine moves on; a request whose wait is over has attempts left.
LEMMA AttemptsMove ==
  ASSUME NEW hs \in Seq(Headers), NEW state, AttemptsOK(hs, state),
         hs # <<>>, state = "WAITING" => Fresh(hs[1]),
         NEW state2, state2 # "WAITING"
  PROVE  AttemptsOK(hs, state2)
BY DEF AttemptsOK

\* DELAY counts the head's attempt, WAITING then has one to go by.
LEMMA AttemptsCount ==
  ASSUME NEW hs \in Seq(Headers), hs # <<>>, AttemptsOK(hs, "DELAY"),
         NEW hs2, hs2 # <<>>, Len(hs2) = Len(hs),
         \A i \in 1 .. Len(hs) : hs2[i] = IF i = 1 THEN [hs[1] EXCEPT !.atts = @ + 1]
                                                  ELSE hs[i]
  PROVE  AttemptsOK(hs2, "WAITING")
<1>1. hs[1] \in Headers /\ 1 \in 1 .. Len(hs)
  BY HeadHeader
<1>2. hs2[1].atts >= 1
  <2>1. PICK a \in Nat : a = hs[1].atts
    BY <1>1, HeaderNumbers
  <2>2. hs2[1].atts = a + 1
    <3>1. hs2[1] = [hs[1] EXCEPT !.atts = @ + 1]
      BY <1>1
    <3> QED BY <3>1, <1>1, <2>1 DEF Headers
  <2>3. a \in Nat
    BY <2>1
  <2> QED BY <2>2, <2>3
<1>3. ASSUME NEW i \in 1 .. Len(hs), i # 1 PROVE Fresh(hs2[i])
  BY <1>3 DEF AttemptsOK
<1> QED BY <1>2, <1>3 DEF AttemptsOK

-----------------------------------------------------------------------------
(* What the helpers of the handlers keep.                                    *)

\* Status flags are only ever set to a status.
LEMMA StatusKeeps ==
  ASSUME BooksOK, NEW slave, NEW status \in Statuses, SetSlaveStatus(slave, status)
  PROVE  slaveStatus' \in [Tracked -> Statuses]
BY DEF BooksOK, SetSlaveStatus

\* deleteRequest takes the head request out of both rings.
LEMMA DeleteKeeps ==
  ASSUME QueueOK(queueHeaders, queueData), BooksOK, queueHeaders # <<>>, DeleteRequest
  PROVE  /\ QueueOK(queueHeaders', queueData')
         /\ queueHeaders' = Tail(queueHeaders)
         /\ priorityReqInQueue' \in Int
         /\ socketInQueue' \in [Sockets -> Int]
<1>1. Current = queueHeaders[1]
  BY HeadHeader DEF QueueOK, Current
<1>2. /\ queueHeaders' = Tail(queueHeaders)
      /\ queueData' = SubSeq(queueData, queueHeaders[1].msgLen + 1, Len(queueData))
  BY <1>1 DEF DeleteRequest, DropBytes
<1>3. QueueOK(queueHeaders', queueData')
  BY <1>2, QueueTail
<1>4. priorityReqInQueue' \in Int
  BY DEF DeleteRequest, BooksOK
<1>5. socketInQueue' \in [Sockets -> Int]
  <2>1. CASE IsTcp(Current)
    <3>1. Current.sock \in Sockets /\ socketInQueue[Current.sock] - 1 \in Int
      BY <2>1 DEF IsTcp, BooksOK
    <3>2. socketInQueue' = [socketInQueue EXCEPT ![Current.sock] = socketInQueue[Current.sock] - 1]
      BY <2>1 DEF DeleteRequest
    <3> QED BY <3>1, <3>2 DEF BooksOK
  <2>2. CASE ~IsTcp(Current)
    BY <2>2 DEF DeleteRequest, BooksOK
  <2> QED BY <2>1, <2>2
<1> QED BY <1>2, <1>3, <1>4, <1>5

\* sendResponse is deleteRequest, and sends well formed messages only.
LEMMA ResponseKeeps ==
  ASSUME QueueOK(queueHeaders, queueData), TcpOK, queueHeaders # <<>>,
         NEW kind \in {"reply", "0A", "0B"}, SendResponse(kind)
  PROVE  sent' \subseteq Messages
<1>1. Current \in Headers
  BY HeadHeader DEF QueueOK, Current
<1>2. Current.client \in Clients
  BY <1>1 DEF Headers
<1>3. Recipients(Current) \subseteq Clients
  BY <1>2 DEF Recipients, IsTcp, TcpOK, Clients
<1> QED BY <1>2, <1>3 DEF SendResponse, Messages

\* A request is stored whole: its header and its bytes fit each other.
LEMMA StoreKeeps ==
  ASSUME QueueOK(queueHeaders, queueData), AttemptsOK(queueHeaders, serialState), BooksOK,
         NEW c \in Clients, NEW s \in 0 .. MaxSockNum, NEW f \in Frames,
         NEW prio \in BOOLEAN, ~QueueFull(f.len), Store(c, s, f, prio)
  PROVE  /\ QueueOK(queueHeaders', queueData')
         /\ AttemptsOK(queueHeaders', serialState)
         /\ priorityReqInQueue' \in Int
         /\ socketInQueue' \in [Sockets -> Int]
         /\ sent' \subseteq Messages
         /\ \E h : queueHeaders' = Append(queueHeaders, h)
<1>1. PICK n \in Nat, m \in Nat, l \in Nat :
        n = Len(queueHeaders) /\ m = Len(queueData) /\ l = f.len
  BY LenProperties, FramesAssumption DEF QueueOK
<1>2. n < QCap /\ m + l <= DCap /\ l \in 0 .. DCap
  <2>1. ~(n >= QCap) /\ ~(DCap - m < l)
    BY <1>1 DEF QueueFull
  <2>2. n \in Nat /\ m \in Nat /\ l \in Nat
    BY <1>1
  <2> QED BY <2>1, <2>2, SizesAssumption
<1>3. PICK h \in Headers :
        h = [client |-> c, sock |-> s, msgLen |-> f.len, prio |-> prio,
             scan |-> f.slave = 0, atts |-> 0]
  <2>1. 0 \in 0 .. SerialAttempts /\ (f.slave = 0) \in BOOLEAN /\ f.len \in 0 .. DCap
    BY <1>1, <1>2, SizesAssumption
  <2> QED BY <2>1 DEF Headers
<1>4. f.slave \in Slaves
  BY DEF Slaves
<1>5. PICK e \in Seq(Bytes) :
        /\ e = RequestBytes(f.slave, c, f.len) /\ Len(e) = l
        /\ \A k \in 1 .. l : e[k] = [slave |-> f.slave, client |-> c, pos |-> k]
  <2> DEFINE b == [i \in 1 .. l |-> [slave |-> f.slave, client |-> c, pos |-> i]]
  <2>1. ASSUME NEW i \in 1 .. l
        PROVE  [slave |-> f.slave, client |-> c, pos |-> i] \in Bytes
    <3>1. i \in 1 .. DCap
      BY <1>1, <1>2, SizesAssumption
    <3> QED BY <3>1, <1>4 DEF Bytes
  <2>2. b \in [1 .. l -> Bytes]
    BY <2>1
  <2>3. b \in Seq(Bytes) /\ Len(b) = l
    BY <2>2, <1>1
  <2>4. \A k \in 1 .. l : b[k] = [slave |-> f.slave, client |-> c, pos |-> k]
    OBVIOUS
  <2>5. b = RequestBytes(f.slave, c, f.len)
    BY <1>1 DEF RequestBytes
  <2> HIDE DEF b
  <2> QED BY <2>3, <2>4, <2>5
<1>6. Whole(h, e, 0)
  <2>1. ASSUME NEW k \in 1 .. l
        PROVE  e[0 + k] = [slave |-> f.slave, client |-> c, pos |-> k]
    <3>1. 0 + k = k
      BY <1>1
    <3> QED BY <3>1, <1>5
  <2>2. h.msgLen = l /\ h.client = c /\ (h.scan <=> f.slave = 0)
    BY <1>1, <1>3
  <2> QED BY <2>1, <2>2, <1>4 DEF Whole
<1>7. queueHeaders' = Append(queueHeaders, h) /\ queueData' = queueData \o e
  BY <1>3, <1>5 DEF Store
<1>8. QueueOK(queueHeaders', queueData')
  <2>1. Len(e) = h.msgLen /\ Len(queueHeaders) < QCap /\ Len(queueData) + Len(e) <= DCap
    BY <1>1, <1>2, <1>3, <1>5
  <2> QED BY <2>1, <1>6, <1>7, QueueAppend
<1>9. AttemptsOK(queueHeaders', serialState)
  <2>1. Fresh(h)
    BY <1>3, SizesAssumption DEF Fresh
  <2> QED BY <2>1, <1>7, AttemptsAppend DEF QueueOK
<1>10. priorityReqInQueue' \in Int /\ socketInQueue' \in [Sockets -> Int] /\ sent' = {}
  BY DEF Store, BooksOK
<1> QED BY <1>7, <1>8, <1>9, <1>10

\* checkRequest either stores a request that fits or leaves the queue alone.
LEMMA CheckKeeps ==
  ASSUME QueueOK(queueHeaders, queueData), AttemptsOK(queueHeaders, serialState), BooksOK,
         NEW c \in Clients, NEW s \in 0 .. MaxSockNum, NEW f \in Frames,
         CheckRequest(c, s, f)
  PROVE  /\ QueueOK(queueHeaders', queueData')
         /\ AttemptsOK(queueHeaders', serialState)
         /\ BooksOK'
         /\ sent' \subseteq Messages
         /\ \/ queueHeaders' = queueHeaders
            \/ \E h : queueHeaders' = Append(queueHeaders, h)
<1>1. ASSUME NEW kind \in {"0A", "0B"}, Reject(c, kind)
      PROVE  /\ queueHeaders' = queueHeaders /\ queueData' = queueData
             /\ UNCHANGED <<priorityReqInQueue, socketInQueue>>
             /\ sent' \subseteq Messages
  BY <1>1 DEF Reject, queue, Messages
<1>2. CASE QueueFull(f.len) /\ SetSlaveStatus(f.slave, "OTHER") /\ Reject(c, "0A")
  BY <1>1, <1>2, StatusKeeps DEF Statuses, BooksOK
<1>3. CASE Reject(c, "0B") /\ UNCHANGED slaveStatus
  BY <1>1, <1>3 DEF BooksOK
<1>4. CASE ~QueueFull(f.len) /\ SetSlaveStatus(f.slave, "0B_QUEUE") /\ Store(c, s, f, FALSE)
  BY <1>4, StoreKeeps, StatusKeeps DEF Statuses, BooksOK
<1>5. CASE ~QueueFull(f.len) /\ Store(c, s, f, TRUE) /\ UNCHANGED slaveStatus
  BY <1>5, StoreKeeps DEF BooksOK
<1> QED BY <1>2, <1>3, <1>4, <1>5 DEF CheckRequest

\* Opening a socket for listening makes up no connection.
LEMMA BeginKeeps ==
  ASSUME NEW sr \in [Sockets -> SocketStates]
  PROVE  /\ ServerBegin(sr) \in [Sockets -> SocketStates]
         /\ \A s \in Sockets : ServerBegin(sr)[s] \in {sr[s], "LISTEN"}
<1>1. ASSUME NEW x
      PROVE  /\ [sr EXCEPT ![x] = "LISTEN"] \in [Sockets -> SocketStates]
             /\ \A s \in Sockets : [sr EXCEPT ![x] = "LISTEN"][s] \in {sr[s], "LISTEN"}
  BY DEF SocketStates
<1>2. \/ ServerBegin(sr) = sr
      \/ \E x : ServerBegin(sr) = [sr EXCEPT ![x] = "LISTEN"]
  BY DEF ServerBegin
<1> QED BY <1>1, <1>2

\* Looking after the sockets never makes up a connection, and forgets the
\* client of one only together with the connection.
LEMMA SocketsKeep ==
  ASSUME TcpOK, ManageSockets
  PROVE  TcpOK'
<1>1. PICK looked, oldest :
        /\ looked \in [Sockets -> SocketStates]
        /\ \A s \in Sockets : looked[s] \in {snSR[s], "CLOSING", "CLOSED"}
        /\ \E begun \in {ServerBegin(looked), looked} :
             snSR' \in {[begun EXCEPT ![oldest] = "CLOSING"], begun}
  <2>1. PICK left, stale, oldest :
          \E begun \in {ServerBegin(DropOver(left, stale)), DropOver(left, stale)} :
            snSR' \in {[begun EXCEPT ![oldest] = "CLOSING"], begun}
    <3>1. PICK data, stale, oldest : snSR' = AfterPass(data, stale, oldest)
      BY DEF ManageSockets
    <3> QED BY <3>1 DEF AfterPass
  <2>2. PICK looked : looked = DropOver(left, stale)
    OBVIOUS
  <2>3. ASSUME NEW s \in Sockets
        PROVE  looked[s] \in {snSR[s], "CLOSING", "CLOSED"} /\ looked[s] \in SocketStates
    BY <2>2 DEF DropOver, TcpOK, SocketStates
  <2>4. looked \in [Sockets -> SocketStates]
    BY <2>2, <2>3 DEF DropOver
  <2> QED BY <2>1, <2>2, <2>3, <2>4
<1>2. PICK begun \in {ServerBegin(looked), looked} :
        snSR' \in {[begun EXCEPT ![oldest] = "CLOSING"], begun}
  BY <1>1
<1>3. /\ begun \in [Sockets -> SocketStates]
      /\ \A s \in Sockets : begun[s] \in {snSR[s], "CLOSING", "CLOSED", "LISTEN"}
  BY <1>1, <1>2, BeginKeeps
<1>4. /\ snSR' \in [Sockets -> SocketStates]
      /\ \A s \in Sockets : snSR'[s] \in {snSR[s], "CLOSING", "CLOSED", "LISTEN"}
  BY <1>2, <1>3 DEF SocketStates
<1>5. peer' = [s \in Sockets |-> IF snSR'[s] \in {"ESTABLISHED", "CLOSE_WAIT"}
                                 THEN peer[s] ELSE NoClient]
  BY DEF ManageSockets
<1>6. peer' \in [Sockets -> TcpClients \cup {NoClient}]
  BY <1>5 DEF TcpOK
<1>7. ASSUME NEW s \in Sockets, snSR'[s] \in {"ESTABLISHED", "CLOSE_WAIT"}
      PROVE  peer'[s] \in TcpClients
  BY <1>4, <1>5, <1>7 DEF TcpOK
<1> QED BY <1>4, <1>6, <1>7 DEF TcpOK

-----------------------------------------------------------------------------
(* The invariant is inductive: one lemma for each part of Next.              *)

\* The firmware starts in the invariant.
LEMMA InitKeeps == Init => Inv
<1> SUFFICES ASSUME Init PROVE Inv
  OBVIOUS
<1>1. QueueOK(<<>>, <<>>)
  <2>1. Cut([i \in 1 .. 1 |-> 0], <<>>, <<>>)
    BY DEF Cut
  <2> QED BY <2>1, EmptySeq, SizesAssumption DEF QueueOK, Fits
<1>2. AttemptsOK(<<>>, "IDLE")
  BY DEF AttemptsOK
<1>3. BooksOK
  BY DEF Init, BooksOK, Statuses
<1>4. TcpOK
  <2>1. [s \in Sockets |-> "CLOSED"] \in [Sockets -> SocketStates]
    BY DEF SocketStates
  <2>2. /\ snSR \in [Sockets -> SocketStates]
        /\ \A s \in Sockets : snSR[s] \in {"CLOSED", "LISTEN"}
    BY <2>1, BeginKeeps DEF Init
  <2> QED BY <2>2 DEF Init, TcpOK
<1>5. LineOK
  <2>1. 0 \in 0 .. (ByteMod - 1) /\ 0 \in 0 .. 0 /\ 0 <= 0
    BY SizesAssumption
  <2>2. <<>> \in Seq(FrameBytes) /\ <<>> \in Seq(Replies) /\ Len(<<>>) = 0
    BY EmptySeq
  <2> QED BY <2>1, <2>2 DEF Init, LineOK
<1>6. RestOK
  BY DEF Init, RestOK, States, Timers
<1> QED BY <1>1, <1>2, <1>3, <1>4, <1>5, <1>6 DEF Init, Inv

\* What SENDING leaves in the buffer, and hands over if the line is free: the
\* frame built by an earlier call or the one built now, over an older one.
LEMMA BuiltFrame ==
  ASSUME Inv, Sending
  PROVE  /\ txBuffer' \in Seq(FrameBytes) /\ Len(txBuffer) <= Len(txBuffer')
         /\ \E ndx \in 0 .. (ByteMod - 1) :
              /\ ndx <= Len(txBuffer')
              /\ \/ ndx = txNdx /\ txBuffer' = txBuffer
                 \/ /\ ndx > 2 => Current.msgLen > 0
                    /\ Current.msgLen > 0 => txBuffer'[1] = queueData[1]
              /\ \/ /\ sending' = TRUE /\ ~IsBusy /\ serialState' = "DELAY"
                    /\ wire' = SubSeq(txBuffer', 1, ndx) /\ fetched' = 0 /\ txNdx' = 0
                 \/ UNCHANGED <<sending, wire, fetched, serialState>> /\ txNdx' = ndx
<1> DEFINE len == Current.msgLen
           built == txNdx > len
           ndx == IF built THEN txNdx ELSE (len + 2) % ByteMod
           new == Framed(SubSeq(queueData, 1, len))
           buf == IF built THEN txBuffer ELSE Overwrite(txBuffer, new)
<1>1. /\ queueHeaders # <<>> /\ QueueOK(queueHeaders, queueData) /\ LineOK
      /\ queueData \in Seq(Bytes) /\ queueHeaders \in Seq(Headers)
  BY DEF Inv, QueueOK, Sending, SendSerialReady
<1>2. len \in Nat /\ len <= Len(queueData)
  BY <1>1, HeadHeader, QueueTail DEF Current
<1>3. /\ SubSeq(queueData, 1, len) \in Seq(Bytes)
      /\ Len(SubSeq(queueData, 1, len)) = len
      /\ \A k \in 1 .. len : SubSeq(queueData, 1, len)[k] = queueData[k]
  BY <1>1, <1>2, TakeProperties
<1>4. /\ new \in Seq(FrameBytes) /\ Len(new) = len + 2
      /\ \A k \in 1 .. len : new[k] = queueData[k]
  BY <1>3, FramedProperties
<1>5. /\ (len + 2) % ByteMod \in 0 .. (ByteMod - 1)
      /\ (len + 2) % ByteMod <= len + 2
  BY <1>2, SizesAssumption
<1>6. /\ txBuffer \in Seq(FrameBytes) /\ Len(txBuffer) \in Nat
      /\ txNdx \in 0 .. (ByteMod - 1) /\ txNdx <= Len(txBuffer)
  BY <1>1, LenProperties DEF LineOK
<1>7. /\ txBuffer' = buf
      /\ \/ /\ sending' = TRUE /\ ~IsBusy /\ serialState' = "DELAY"
            /\ wire' = SubSeq(buf, 1, ndx) /\ fetched' = 0 /\ txNdx' = 0
         \/ UNCHANGED <<sending, wire, fetched, serialState>> /\ txNdx' = ndx
  BY DEF Sending
<1>8. /\ buf \in Seq(FrameBytes) /\ Len(txBuffer) <= Len(buf)
      /\ ndx \in 0 .. (ByteMod - 1) /\ ndx <= Len(buf)
      /\ \/ ndx = txNdx /\ buf = txBuffer
         \/ /\ ndx > 2 => len > 0
            /\ len > 0 => buf[1] = queueData[1]
  <2>1. CASE built
    BY <2>1, <1>6
  <2>2. CASE ~built
    <3>1. /\ Overwrite(txBuffer, new) \in Seq(FrameBytes)
          /\ Len(new) <= Len(Overwrite(txBuffer, new))
          /\ Len(txBuffer) <= Len(Overwrite(txBuffer, new))
          /\ Len(Overwrite(txBuffer, new)) \in Nat
          /\ \A k \in 1 .. Len(new) : Overwrite(txBuffer, new)[k] = new[k]
      BY <1>4, <1>6, OverwriteProperties, LenProperties
    <3>2. buf = Overwrite(txBuffer, new) /\ ndx = (len + 2) % ByteMod
      BY <2>2
    <3>3. len > 0 => Overwrite(txBuffer, new)[1] = queueData[1]
      BY <1>2, <1>4, <3>1
    <3> HIDE DEF buf, ndx, new, len
    <3> QED BY <1>2, <1>4, <1>5, <3>1, <3>2, <3>3
  <2> QED BY <2>1, <2>2
<1> HIDE DEF buf, ndx, new
<1> QED BY <1>7, <1>8

LEMMA SendingFrame ==
  ASSUME Inv, Sending
  PROVE  /\ sending' \in BOOLEAN
         /\ wire' \in Seq(FrameBytes) /\ fetched' \in 0 .. Len(wire')
         /\ txBuffer' \in Seq(FrameBytes)
         /\ sending' => Len(wire') <= Len(txBuffer')
         /\ txNdx' \in 0 .. (ByteMod - 1) /\ txNdx' <= Len(txBuffer')
<1>1. /\ sending \in BOOLEAN /\ wire \in Seq(FrameBytes) /\ fetched \in 0 .. Len(wire)
      /\ sending => Len(wire) <= Len(txBuffer)
      /\ Len(wire) \in Nat /\ Len(txBuffer) \in Nat
  BY LenProperties DEF Inv, LineOK
<1>2. /\ txBuffer' \in Seq(FrameBytes) /\ Len(txBuffer) <= Len(txBuffer')
      /\ Len(txBuffer') \in Nat
  BY BuiltFrame, LenProperties
<1>3. PICK ndx \in 0 .. (ByteMod - 1) :
        /\ ndx <= Len(txBuffer')
        /\ \/ /\ sending' = TRUE /\ wire' = SubSeq(txBuffer', 1, ndx)
              /\ fetched' = 0 /\ txNdx' = 0
           \/ UNCHANGED <<sending, wire, fetched>> /\ txNdx' = ndx
  BY BuiltFrame
<1>4. SubSeq(txBuffer', 1, ndx) \in Seq(FrameBytes) /\ Len(SubSeq(txBuffer', 1, ndx)) = ndx
  BY <1>2, <1>3, SizesAssumption, TakeProperties
<1>5. CASE /\ sending' = TRUE /\ wire' = SubSeq(txBuffer', 1, ndx)
           /\ fetched' = 0 /\ txNdx' = 0
  <2>1. Len(wire') = ndx /\ 0 \in 0 .. ndx /\ 0 \in 0 .. (ByteMod - 1)
    BY <1>4, <1>5, SizesAssumption
  <2> QED BY <2>1, <1>2, <1>3, <1>4, <1>5
<1>6. CASE UNCHANGED <<sending, wire, fetched>> /\ txNdx' = ndx
  BY <1>1, <1>2, <1>3, <1>6
<1> QED BY <1>3, <1>5, <1>6

\* Every state of the serial machine keeps the invariant.
LEMMA SendSerialKeeps ==
  ASSUME Inv, SendSerial
  PROVE  Inv'
<1>0. /\ QueueOK(queueHeaders, queueData) /\ AttemptsOK(queueHeaders, serialState)
      /\ BooksOK /\ TcpOK /\ LineOK /\ RestOK
  BY DEF Inv
<1>q. /\ queueHeaders \in Seq(Headers) /\ queueData \in Seq(Bytes)
      /\ queueHeaders # <<>> =>
           /\ Current = queueHeaders[1] /\ 1 \in 1 .. Len(queueHeaders)
           /\ queueHeaders[1] \in Headers /\ queueHeaders[1].msgLen \in Nat
  BY <1>0, HeadHeader DEF QueueOK, Current
<1>t. TcpOK' /\ sent' \subseteq Messages
  <2>1. UNCHANGED tcp
    BY DEF SendSerial, SendSerialSkip, Idle, Rotate, RotateDone, Sending, Delay,
           WaitingOver, TimeoutScan, TimeoutLast, TimeoutRetry
  <2>2. CASE TimeoutLast
    <3>1. queueHeaders # <<>> /\ SendResponse("0B")
      BY <2>2 DEF TimeoutLast, WaitingOver, SendSerialReady
    <3> QED BY <3>1, <2>1, <1>0, ResponseKeeps DEF TcpOK, tcp
  <2>3. CASE ~TimeoutLast
    <3>1. sent' = {}
      BY <2>3 DEF SendSerial, SendSerialSkip, Idle, Rotate, RotateDone, Sending, Delay,
                  WaitingOver, TimeoutScan, TimeoutRetry
    <3> QED BY <3>1, <2>1, <1>0 DEF TcpOK, tcp
  <2> QED BY <2>2, <2>3
<1>1. CASE SendSerialSkip
  BY <1>0, <1>1, <1>t DEF SendSerialSkip, Inv, BooksOK, LineOK, RestOK, queue, books, serial, line
<1>2. CASE Idle
  BY <1>0, <1>2, <1>t DEF Idle, SendSerialReady, Inv, BooksOK, LineOK, RestOK,
                          queue, books, serial, line
<1>3. CASE Rotate
  <2>1. serialState = "IDLE" /\ queueHeaders # <<>>
    BY <1>0, <1>3 DEF Rotate, RestOK
  <2>2. /\ queueHeaders' = Append(Tail(queueHeaders), queueHeaders[1])
        /\ queueData' = SubSeq(queueData, queueHeaders[1].msgLen + 1, Len(queueData))
                         \o SubSeq(queueData, 1, queueHeaders[1].msgLen)
    BY <2>1, <1>3, <1>q DEF Rotate, DropBytes
  <2>3. QueueOK(queueHeaders', queueData')
    BY <2>1, <2>2, <1>0, QueueRotate
  <2>4. AttemptsOK(queueHeaders', "IDLE")
    <3>1. Tail(queueHeaders) \in Seq(Headers) /\ AttemptsOK(Tail(queueHeaders), "IDLE")
      BY <2>1, <1>0, <1>q, AttemptsTail, HeadTailProperties
    <3>2. Fresh(queueHeaders[1])
      BY <2>1, <1>0, <1>q DEF AttemptsOK
    <3> QED BY <3>1, <3>2, <2>1, <2>2, <1>q, AttemptsAppend
  <2>5. queueHeaders' # <<>>
    <3>1. Tail(queueHeaders) \in Seq(Headers) /\ queueHeaders[1] \in Headers
      BY <2>1, <1>q, HeadTailProperties
    <3>2. ASSUME NEW t, t = Tail(queueHeaders) PROVE Append(t, queueHeaders[1]) # <<>>
      BY <3>1, <3>2, AppendProperties
    <3> QED BY <3>2, <2>2
  <2>6. /\ UNCHANGED <<pc, serialState, txNdx, txBuffer, sendMicroTimer>>
        /\ UNCHANGED <<books, line>>
    BY <1>3 DEF Rotate, serial
  <2>7. BooksOK' /\ LineOK'
    BY <2>6, <1>0 DEF BooksOK, LineOK, books, line
  <2>8. RestOK'
    BY <2>1, <2>5, <2>6, <1>0, <1>t DEF RestOK
  <2> QED BY <2>1, <2>3, <2>4, <2>6, <2>7, <2>8, <1>t DEF Inv
<1>4. CASE RotateDone
  <2>1. queueHeaders # <<>> /\ serialState = "IDLE"
    BY <1>0, <1>4 DEF RotateDone, RestOK
  <2>2. AttemptsOK(queueHeaders, "SENDING")
    BY <2>1, <1>0, <1>q, AttemptsMove
  <2>3. BooksOK' /\ LineOK' /\ RestOK'
    BY <1>0, <1>4, <1>t DEF RotateDone, BooksOK, LineOK, RestOK, States, books, line
  <2> QED BY <2>2, <2>3, <1>0, <1>4, <1>t DEF RotateDone, Inv, queue
<1>5. CASE Sending
  <2>1. queueHeaders # <<>> /\ serialState = "SENDING"
    BY <1>5 DEF Sending, SendSerialReady
  <2>2. /\ pc' = "recvUdp" /\ serialState' \in {"SENDING", "DELAY"}
        /\ UNCHANGED <<queueHeaders, queueData, books, sendMicroTimer,
                       incoming, rxBuf, replying>>
    BY <2>1, <1>5 DEF Sending, queue
  <2>3. LineOK'
    BY <2>2, <1>0, <1>5, SendingFrame DEF LineOK
  <2>4. AttemptsOK(queueHeaders, serialState')
    BY <2>1, <2>2, <1>0, <1>q, AttemptsMove
  <2>5. BooksOK'
    BY <2>2, <1>0 DEF BooksOK, books
  <2>6. RestOK'
    BY <2>2, <1>0, <1>t DEF RestOK, States
  <2> QED BY <2>2, <2>3, <2>4, <2>5, <2>6, <1>0, <1>t DEF Inv
<1>6. CASE Delay
  <2>1. queueHeaders # <<>> /\ serialState = "DELAY"
    BY <1>6 DEF Delay, SendSerialReady
  <2>2. queueHeaders[1].atts < SerialAttempts
    <3>1. Fresh(queueHeaders[1])
      BY <2>1, <1>0, <1>q DEF AttemptsOK
    <3>2. PICK a \in 0 .. SerialAttempts : a = queueHeaders[1].atts
      BY <2>1, <1>q DEF Headers
    <3>3. a < SerialAttempts
      <4>1. a < 1 \/ a < SerialAttempts
        BY <3>1, <3>2 DEF Fresh
      <4>2. a \in 0 .. SerialAttempts
        BY <3>2
      <4> QED BY <4>1, <4>2, SizesAssumption
    <3> QED BY <3>2, <3>3
  <2>3. queueHeaders' = [queueHeaders EXCEPT ![1].atts = @ + 1] /\ queueData' = queueData
    BY <1>6 DEF Delay
  <2>4. QueueOK(queueHeaders', queueData')
    BY <2>1, <2>2, <2>3, <1>0, QueueCount
  <2>5. AttemptsOK(queueHeaders', "WAITING")
    BY <2>1, <2>2, <2>3, <1>0, <1>q, QueueCount, AttemptsCount
  <2>6. /\ UNCHANGED <<books, txNdx, txBuffer, line>> /\ pc' = "recvUdp"
        /\ serialState' = "WAITING" /\ sendMicroTimer' \in Timers
    BY <1>6 DEF Delay, Armed, Timers
  <2>7. BooksOK' /\ LineOK'
    BY <2>6, <1>0 DEF BooksOK, LineOK, books, line
  <2>8. RestOK'
    BY <2>6, <1>0, <1>t DEF RestOK, States
  <2> QED BY <2>4, <2>5, <2>6, <2>7, <2>8, <1>t DEF Inv
<1>7. ASSUME WaitingOver
      PROVE  /\ queueHeaders # <<>> /\ serialState = "WAITING" /\ serialState' = "IDLE"
             /\ LineOK' /\ RestOK'
  <2>1. /\ queueHeaders # <<>> /\ serialState = "WAITING" /\ serialState' = "IDLE"
        /\ pc' = "recvUdp" /\ UNCHANGED <<txNdx, txBuffer, sendMicroTimer, line>>
    BY <1>7 DEF WaitingOver, SendSerialReady
  <2>2. LineOK'
    BY <2>1, <1>0 DEF LineOK, line
  <2>3. RestOK'
    BY <2>1, <1>0, <1>t DEF RestOK, States
  <2> QED BY <2>1, <2>2, <2>3
<1>8. ASSUME WaitingOver, DeleteRequest, slaveStatus' \in [Tracked -> Statuses]
      PROVE  Inv'
  <2>1. queueHeaders # <<>> /\ serialState' = "IDLE" /\ LineOK' /\ RestOK'
    BY <1>7, <1>8
  <2>2. /\ QueueOK(queueHeaders', queueData') /\ queueHeaders' = Tail(queueHeaders)
        /\ BooksOK'
    BY <2>1, <1>0, <1>8, DeleteKeeps DEF BooksOK
  <2>3. AttemptsOK(queueHeaders', "IDLE")
    BY <2>1, <2>2, <1>0, <1>q, AttemptsTail
  <2> QED BY <2>1, <2>2, <2>3, <1>t DEF Inv
<1>9. CASE TimeoutScan
  BY <1>0, <1>8, <1>9 DEF TimeoutScan, BooksOK
<1>10. CASE TimeoutLast
  <2>1. slaveStatus' \in [Tracked -> Statuses]
    BY <1>0, <1>10, StatusKeeps DEF TimeoutLast, Statuses
  <2> QED BY <2>1, <1>8, <1>10 DEF TimeoutLast, SendResponse
<1>11. CASE TimeoutRetry
  <2>1. slaveStatus' \in [Tracked -> Statuses]
    BY <1>0, <1>11, StatusKeeps DEF TimeoutRetry, Statuses
  <2>2. /\ queueHeaders # <<>> /\ serialState = "WAITING" /\ serialState' = "IDLE"
        /\ LineOK' /\ RestOK'
    BY <1>7, <1>11 DEF TimeoutRetry
  <2>3. Fresh(queueHeaders[1])
    BY <2>2, <1>11, <1>q DEF TimeoutRetry, Fresh
  <2>4. AttemptsOK(queueHeaders, "IDLE")
    BY <2>2, <2>3, <1>0, <1>q, AttemptsMove
  <2>5. BooksOK' /\ UNCHANGED <<queueHeaders, queueData>>
    BY <2>1, <1>0, <1>11 DEF TimeoutRetry, BooksOK, queue
  <2> QED BY <2>2, <2>4, <2>5, <1>0, <1>t DEF Inv
<1> QED BY <1>1, <1>2, <1>3, <1>4, <1>5, <1>6, <1>9, <1>10, <1>11 DEF SendSerial

\* So does receiving a datagram,
LEMMA RecvUdpKeeps ==
  ASSUME Inv, RecvUdp
  PROVE  Inv'
<1>0. /\ QueueOK(queueHeaders, queueData) /\ AttemptsOK(queueHeaders, serialState)
      /\ BooksOK /\ TcpOK /\ LineOK /\ RestOK
  BY DEF Inv
<1>1. /\ UNCHANGED <<serialState, txNdx, txBuffer, sendMicroTimer>>
      /\ UNCHANGED <<line, tcp>> /\ pc' = "recvSerial"
  BY DEF RecvUdp, serial
<1>2. /\ QueueOK(queueHeaders', queueData') /\ AttemptsOK(queueHeaders', serialState)
      /\ BooksOK' /\ sent' \subseteq Messages
  <2>1. CASE NoRequest
    BY <2>1, <1>0 DEF NoRequest, BooksOK, queue, books
  <2>2. ASSUME NEW c \in UdpClients, NEW f \in Frames, CheckRequest(c, MaxSockNum, f)
        PROVE  /\ QueueOK(queueHeaders', queueData')
               /\ AttemptsOK(queueHeaders', serialState)
               /\ BooksOK' /\ sent' \subseteq Messages
    <3>1. c \in Clients /\ MaxSockNum \in 0 .. MaxSockNum
      BY SizesAssumption DEF Clients
    <3> QED BY <3>1, <2>2, <1>0, CheckKeeps
  <2> QED BY <2>1, <2>2 DEF RecvUdp
<1>3. TcpOK' /\ LineOK'
  BY <1>0, <1>1 DEF TcpOK, LineOK, line, tcp
<1>4. RestOK'
  BY <1>0, <1>1, <1>2 DEF RestOK
<1> QED BY <1>1, <1>2, <1>3, <1>4 DEF Inv

\* receiving from the line and freeing its buffer,
LEMMA RecvSerialKeeps ==
  ASSUME Inv, RecvSerial
  PROVE  Inv'
<1>0. /\ QueueOK(queueHeaders, queueData) /\ AttemptsOK(queueHeaders, serialState)
      /\ BooksOK /\ TcpOK /\ LineOK /\ RestOK
  BY DEF Inv
<1>1. CASE RecvSerialNone
  BY <1>0, <1>1 DEF RecvSerialNone, Inv, BooksOK, TcpOK, LineOK, RestOK,
                    queue, books, serial, line, tcp
<1>2. CASE FreeRxBuffer
  <2>1. LineOK'
    BY <1>0, <1>2, EmptySeq DEF FreeRxBuffer, LineOK, serial
  <2> QED BY <2>1, <1>0, <1>2 DEF FreeRxBuffer, Inv, BooksOK, TcpOK, RestOK,
                                  queue, books, serial, tcp
<1>3. ASSUME Received, sent' \subseteq Messages, serialState' \in States
      PROVE  TcpOK' /\ LineOK' /\ RestOK'
  <2>1. /\ UNCHANGED <<txNdx, txBuffer>> /\ UNCHANGED <<line, tcp>>
        /\ pc' = "freeRxBuffer" /\ sendMicroTimer' \in Timers
    BY <1>3 DEF Received, Armed, Timers
  <2>2. TcpOK' /\ LineOK'
    BY <2>1, <1>0 DEF TcpOK, LineOK, line, tcp
  <2>3. RestOK'
    BY <2>1, <1>0, <1>3 DEF RestOK
  <2> QED BY <2>2, <2>3
<1>4. CASE RecvSerialReply
  <2>1. queueHeaders # <<>> /\ serialState' = "IDLE" /\ queueHeaders \in Seq(Headers)
    BY <1>0, <1>4 DEF RecvSerialReply, AttemptsOK, QueueOK
  <2>2. slaveStatus' \in [Tracked -> Statuses]
    BY <1>0, <1>4, StatusKeeps DEF RecvSerialReply, Statuses
  <2>3. sent' \subseteq Messages
    BY <2>1, <1>0, <1>4, ResponseKeeps DEF RecvSerialReply
  <2>4. /\ QueueOK(queueHeaders', queueData') /\ queueHeaders' = Tail(queueHeaders)
        /\ BooksOK'
    BY <2>1, <2>2, <1>0, <1>4, DeleteKeeps DEF RecvSerialReply, SendResponse, BooksOK
  <2>5. AttemptsOK(queueHeaders', "IDLE")
    BY <2>1, <2>4, <1>0, AttemptsTail
  <2>6. TcpOK' /\ LineOK' /\ RestOK'
    BY <2>1, <2>3, <1>3, <1>4 DEF RecvSerialReply, States
  <2> QED BY <2>1, <2>4, <2>5, <2>6 DEF Inv
<1>5. CASE RecvSerialDiscard
  <2>1. /\ UNCHANGED <<queueHeaders, queueData, books, serialState>> /\ sent' = {}
    BY <1>5 DEF RecvSerialDiscard, queue
  <2>2. TcpOK' /\ LineOK' /\ RestOK'
    BY <2>1, <1>0, <1>3, <1>5 DEF RecvSerialDiscard, RestOK
  <2>3. BooksOK'
    BY <2>1, <1>0 DEF BooksOK, books
  <2> QED BY <2>1, <2>2, <2>3, <1>0 DEF Inv
<1> QED BY <1>1, <1>2, <1>4, <1>5 DEF RecvSerial

\* A pass over the sockets takes at most one request, from a connection.
LEMMA SocketRequests ==
  ASSUME ManageSockets
  PROVE  \/ NoRequest
         \/ \E s \in Sockets, f \in Frames :
              snSR[s] \in {"ESTABLISHED", "CLOSE_WAIT"} /\ CheckRequest(peer[s], s, f)
<1>1. ASSUME NEW st, NEW s \in In(st) PROVE s \in Sockets /\ snSR[s] = st
  BY DEF In, Seen
<1>2. PICK data \in SUBSET (In("ESTABLISHED") \cup In("CLOSE_WAIT")) :
        NoRequest \/ \E s \in data, f \in Frames : CheckRequest(peer[s], s, f)
  BY DEF ManageSockets
<1>3. ASSUME NEW s \in data
      PROVE  s \in Sockets /\ snSR[s] \in {"ESTABLISHED", "CLOSE_WAIT"}
  BY <1>1, <1>2
<1> QED BY <1>2, <1>3

\* a pass over the sockets,
LEMMA ManageSocketsKeeps ==
  ASSUME Inv, ManageSockets
  PROVE  Inv'
<1>0. /\ QueueOK(queueHeaders, queueData) /\ AttemptsOK(queueHeaders, serialState)
      /\ BooksOK /\ TcpOK /\ LineOK /\ RestOK
  BY DEF Inv
<1>1. /\ UNCHANGED <<serialState, txNdx, txBuffer, sendMicroTimer>>
      /\ UNCHANGED line /\ pc' = "sendSerial"
  BY DEF ManageSockets, serial
<1>2. \/ NoRequest
      \/ \E s \in Sockets, f \in Frames :
           snSR[s] \in {"ESTABLISHED", "CLOSE_WAIT"} /\ CheckRequest(peer[s], s, f)
  BY SocketRequests
<1>3. /\ QueueOK(queueHeaders', queueData') /\ AttemptsOK(queueHeaders', serialState)
      /\ BooksOK' /\ sent' \subseteq Messages
  <2>1. CASE NoRequest
    BY <2>1, <1>0 DEF NoRequest, BooksOK, queue, books
  <2>2. ASSUME NEW s \in Sockets, NEW f \in Frames,
               snSR[s] \in {"ESTABLISHED", "CLOSE_WAIT"}, CheckRequest(peer[s], s, f)
        PROVE  /\ QueueOK(queueHeaders', queueData')
               /\ AttemptsOK(queueHeaders', serialState)
               /\ BooksOK' /\ sent' \subseteq Messages
    <3>1. peer[s] \in Clients /\ s \in 0 .. MaxSockNum
      BY <2>2, <1>0, SizesAssumption DEF TcpOK, Clients, Sockets
    <3> QED BY <3>1, <2>2, <1>0, CheckKeeps
  <2> QED BY <2>1, <2>2, <1>2
<1>4. TcpOK'
  BY <1>0, SocketsKeep
<1>5. LineOK'
  BY <1>0, <1>1 DEF LineOK, line
<1>6. RestOK'
  BY <1>0, <1>1, <1>3 DEF RestOK
<1> QED BY <1>1, <1>3, <1>4, <1>5, <1>6 DEF Inv

\* What the interrupt handler makes of the frame it sends.
LEMMA FetchedFrame ==
  ASSUME LineOK, Fetch
  PROVE  /\ wire' \in Seq(FrameBytes) /\ Len(wire') = Len(wire)
         /\ fetched' \in 0 .. Len(wire) /\ fetched < fetched'
         /\ \A k \in 1 .. Len(wire) :
              wire'[k] = IF fetched < k /\ k <= fetched' THEN txBuffer[k] ELSE wire[k]
<1>1. /\ wire \in Seq(FrameBytes) /\ txBuffer \in Seq(FrameBytes)
      /\ Len(wire) <= Len(txBuffer) /\ fetched \in 0 .. Len(wire)
      /\ Len(wire) \in Nat /\ Len(txBuffer) \in Nat
  BY LenProperties DEF LineOK, Fetch
<1>2. fetched' \in fetched + 1 .. Len(wire)
  BY DEF Fetch
<1>3. fetched' \in 0 .. Len(wire) /\ fetched < fetched'
  BY <1>1, <1>2
<1> DEFINE byte(k) == IF fetched < k /\ k <= fetched' THEN txBuffer[k] ELSE wire[k]
<1>4. wire' = [k \in 1 .. Len(wire) |-> byte(k)]
  BY DEF Fetch
<1>5. ASSUME NEW k \in 1 .. Len(wire) PROVE byte(k) \in FrameBytes
  <2>1. k \in 1 .. Len(txBuffer)
    BY <1>1
  <2> QED BY <2>1, <1>1, ElementOfSeq
<1> HIDE DEF byte
<1>6. wire' \in Seq(FrameBytes) /\ Len(wire') = Len(wire)
  <2>1. wire' \in [1 .. Len(wire) -> FrameBytes]
    BY <1>4, <1>5
  <2> QED BY <2>1, <1>1, IsASeq, LenProperties
<1>7. \A k \in 1 .. Len(wire) : wire'[k] = byte(k)
  BY <1>4
<1> QED BY <1>3, <1>6, <1>7 DEF byte

\* and every step of the timer, the line, the slaves and the clients.
LEMMA WorldKeeps ==
  ASSUME Inv, World
  PROVE  Inv'
<1>0. /\ QueueOK(queueHeaders, queueData) /\ AttemptsOK(queueHeaders, serialState)
      /\ BooksOK /\ TcpOK /\ LineOK /\ RestOK
  BY DEF Inv
<1>1. /\ UNCHANGED <<queueHeaders, queueData, serialState, pc, txNdx, books>>
      /\ sent' = {}
  BY DEF World, TimerExpires, Fetch, TxDone, LineStarts, LineIdle, Network, queue, serial
<1>2. BooksOK'
  BY <1>0, <1>1 DEF BooksOK, books
<1>3. CASE TimerExpires
  <2>1. sendMicroTimer' \in Timers
    BY <1>0, <1>3 DEF TimerExpires, RestOK, Timers
  <2> QED BY <2>1, <1>0, <1>1, <1>2, <1>3
          DEF TimerExpires, Inv, TcpOK, LineOK, RestOK, serial, line, tcp
<1>4. CASE TxDone
  <2>1. wire' = <<>> /\ fetched' = 0 /\ sending' = FALSE
    BY <1>4 DEF TxDone
  <2>2. txBuffer' \in Seq(FrameBytes) /\ Len(txBuffer') = txNdx
    <3>1. txBuffer' = SubSeq(txBuffer, 1, txNdx)
      BY <1>4 DEF TxDone
    <3>2. txNdx \in Nat /\ txNdx <= Len(txBuffer) /\ txBuffer \in Seq(FrameBytes)
      BY <1>0, SizesAssumption DEF LineOK
    <3> QED BY <3>1, <3>2, TakeProperties
  <2>3. replying' \in [Slaves -> Clients \cup {NoClient}]
    <3>1. CASE UNCHANGED replying
      BY <3>1, <1>0 DEF LineOK
    <3>2. ASSUME NEW s \in Slaves, NEW c \in Clients,
                 replying' = [replying EXCEPT ![s] = c]
          PROVE  replying' \in [Slaves -> Clients \cup {NoClient}]
      BY <3>2, <1>0 DEF LineOK
    <3> QED BY <3>1, <3>2, <1>4 DEF TxDone
  <2>4. UNCHANGED <<sendMicroTimer, incoming, rxBuf, tcp>>
    BY <1>4 DEF TxDone
  <2>5. LineOK'
    <3>1. txNdx \in 0 .. (ByteMod - 1) /\ txNdx <= txNdx /\ 0 \in 0 .. Len(<<>>)
      BY <1>0, SizesAssumption DEF LineOK
    <3> QED BY <3>1, <2>1, <2>2, <2>3, <2>4, <1>0, <1>1, EmptySeq DEF LineOK
  <2> QED BY <2>4, <2>5, <1>0, <1>1, <1>2 DEF Inv, TcpOK, RestOK, tcp
<1>5. CASE LineStarts
  <2>1. incoming' \in Seq(Replies) /\ replying' \in [Slaves -> Clients \cup {NoClient}]
    <3>1. ASSUME NEW s \in Slaves, replying[s] # NoClient,
                 incoming' = <<[slave |-> s, client |-> replying[s]]>>,
                 replying' = [replying EXCEPT ![s] = NoClient]
          PROVE  incoming' \in Seq(Replies) /\ replying' \in [Slaves -> Clients \cup {NoClient}]
      <4>1. [slave |-> s, client |-> replying[s]] \in Replies
        BY <3>1, <1>0 DEF LineOK, Replies
      <4> QED BY <4>1, <3>1, <1>0 DEF LineOK
    <3>2. ASSUME incoming' = <<Garbage>>, UNCHANGED replying
          PROVE  incoming' \in Seq(Replies) /\ replying' \in [Slaves -> Clients \cup {NoClient}]
      <4>1. Garbage \in Replies
        BY DEF Replies
      <4> QED BY <4>1, <3>2, <1>0 DEF LineOK
    <3> QED BY <3>1, <3>2, <1>5 DEF LineStarts
  <2>2. UNCHANGED <<serial, sendMicroTimer, sending, wire, fetched, rxBuf, tcp>>
    BY <1>5 DEF LineStarts
  <2> QED BY <2>1, <2>2, <1>0, <1>1, <1>2 DEF Inv, TcpOK, LineOK, RestOK, tcp, serial
<1>6. CASE LineIdle
  <2>1. incoming' \in Seq(Replies) /\ rxBuf' \in Seq(Replies)
    BY <1>0, <1>6, EmptySeq, ConcatProperties DEF LineIdle, LineOK
  <2>2. UNCHANGED <<serial, sendMicroTimer, sending, wire, fetched, replying, tcp>>
    BY <1>6 DEF LineIdle
  <2> QED BY <2>1, <2>2, <1>0, <1>1, <1>2 DEF Inv, TcpOK, LineOK, RestOK, tcp, serial
<1>7. CASE Network
  <2>1. TcpOK'
    <3>1. ASSUME NEW s \in Sockets, NEW c \in TcpClients, Connect(s, c) PROVE TcpOK'
      BY <3>1, <1>0 DEF Connect, TcpOK, SocketStates
    <3>2. ASSUME NEW s \in Sockets, RemoteCloses(s) PROVE TcpOK'
      BY <3>2, <1>0 DEF RemoteCloses, TcpOK, SocketStates
    <3>3. ASSUME NEW s \in Sockets, ConnectionEnds(s) PROVE TcpOK'
      BY <3>3, <1>0 DEF ConnectionEnds, TcpOK, SocketStates
    <3> QED BY <3>1, <3>2, <3>3, <1>7 DEF Network
  <2>2. UNCHANGED <<serial, sendMicroTimer, line>>
    BY <1>7 DEF Network
  <2> QED BY <2>1, <2>2, <1>0, <1>1, <1>2 DEF Inv, LineOK, RestOK, line, serial
<1>8. CASE Fetch
  <2>1. /\ UNCHANGED <<serial, sendMicroTimer, sending, incoming, rxBuf, replying, tcp>>
    BY <1>8 DEF Fetch
  <2>2. /\ wire' \in Seq(FrameBytes) /\ Len(wire') = Len(wire)
        /\ fetched' \in 0 .. Len(wire)
    BY <1>0, <1>8, FetchedFrame
  <2>3. LineOK'
    BY <2>1, <2>2, <1>0 DEF LineOK, serial
  <2> QED BY <2>1, <2>3, <1>0, <1>1, <1>2 DEF Inv, TcpOK, RestOK, tcp, serial
<1> QED BY <1>3, <1>4, <1>5, <1>6, <1>7, <1>8 DEF World

\* A stuttering step changes nothing the invariant reads.
LEMMA StutterKeeps == Inv /\ UNCHANGED vars => Inv'
BY DEF Inv, BooksOK, TcpOK, LineOK, RestOK, vars, queue, books, serial, line, tcp

\* The inductive invariant holds in every state the gateway reaches.
THEOREM Invariance == Spec => []Inv
<1>1. Inv /\ [Next]_vars => Inv'
  BY SendSerialKeeps, RecvUdpKeeps, RecvSerialKeeps, ManageSocketsKeeps, WorldKeeps,
     StutterKeeps DEF Next, MainLoop
<1> QED BY <1>1, InitKeeps, PTL DEF Spec

-----------------------------------------------------------------------------
(* What follows for the properties of Gateway.                               *)

\* Every handler keeps the types: in particular no index into a ring, a
\* transmit buffer or a counter leaves its range.
THEOREM TypeCorrect == Spec => []TypeOK
<1>1. Inv => TypeOK
  BY DEF Inv, QueueOK, BooksOK, TcpOK, LineOK, RestOK, TypeOK
<1> QED BY <1>1, Invariance, PTL

\* The state machine never works without a request, and counts the attempts
\* of the request it works on before anything is decided by them.
THEOREM AttemptsCorrect == Spec => []AttemptsAccounted
<1>1. Inv => AttemptsAccounted
  <2> SUFFICES ASSUME Inv PROVE AttemptsAccounted
    OBVIOUS
  <2>1. AttemptsOK(queueHeaders, serialState) /\ queueHeaders \in Seq(Headers)
    BY DEF Inv, QueueOK
  <2>2. queueHeaders # <<>> => Current = queueHeaders[1]
    BY <2>1, HeadHeader DEF Current
  <2> QED BY <2>1, <2>2 DEF AttemptsOK, AttemptsAccounted, Fresh
<1> QED BY <1>1, Invariance, PTL

\* The ring of headers and the ring of bytes stay in step: whatever is stored,
\* rotated, retried and deleted, each header stands over its own request.
THEOREM SyncedCorrect == Spec => []Synced
<1>1. Inv => Synced
  <2> SUFFICES ASSUME Inv PROVE Synced
    OBVIOUS
  <2>1. /\ queueHeaders \in Seq(Headers) /\ queueData \in Seq(Bytes)
        /\ Len(queueData) <= DCap /\ Fits(queueHeaders, queueData)
    BY DEF Inv, QueueOK
  <2>2. PICK at : Cut(at, queueHeaders, queueData)
    BY <2>1 DEF Fits
  <2>3. PICK n \in Nat : n = Len(queueHeaders)
    BY <2>1, LenProperties
  <2>4. at \in [1 .. n + 1 -> 0 .. DCap]
    <3>1. ASSUME NEW i \in 1 .. n + 1 PROVE at[i] \in 0 .. DCap
      <4>1. i \in 1 .. n + 1 /\ n + 1 \in 1 .. n + 1 /\ i <= n + 1
        BY <2>3
      <4>2. at[i] \in Nat /\ at[i] <= at[n + 1] /\ at[n + 1] = Len(queueData)
        BY <4>1, <2>2, <2>3 DEF Cut
      <4>3. Len(queueData) \in Nat
        BY <2>1, LenProperties
      <4> QED BY <4>2, <4>3, <2>1, SizesAssumption
    <3>2. at \in [1 .. n + 1 -> Nat]
      BY <2>2, <2>3 DEF Cut
    <3> QED BY <3>1, <3>2
  <2>5. Layout(at)
    BY <2>2 DEF Cut, Layout
  <2>6. /\ at[Len(queueHeaders) + 1] = Len(queueData)
        /\ \A i \in 1 .. Len(queueHeaders) : Whole(queueHeaders[i], queueData, at[i])
    BY <2>2 DEF Cut
  <2> QED BY <2>3, <2>4, <2>5, <2>6 DEF Synced, Whole
<1> QED BY <1>1, Invariance, PTL

\* No step but the one that ends a transaction changes the request at the head.
LEMMA HeadStays ==
  ASSUME Inv, Next, serialState # "IDLE", serialState' # "IDLE"
  PROVE  Identity(Head(queueHeaders')) = Identity(Current)
<1>0. /\ queueHeaders \in Seq(Headers) /\ queueHeaders # <<>>
      /\ QueueOK(queueHeaders, queueData) /\ AttemptsOK(queueHeaders, serialState)
      /\ BooksOK /\ TcpOK /\ RestOK
  BY DEF Inv, QueueOK, AttemptsOK
<1>1. ASSUME queueHeaders' = queueHeaders
      PROVE  Identity(Head(queueHeaders')) = Identity(Current)
  BY <1>1 DEF Current
<1>2. ASSUME NEW h, queueHeaders' = Append(queueHeaders, h)
      PROVE  Identity(Head(queueHeaders')) = Identity(Current)
  <2>1. Head(queueHeaders') = Head(queueHeaders)
    BY <1>0, <1>2, HeadTailAppend
  <2> QED BY <2>1 DEF Current
<1>3. CASE SendSerial
  <2>1. CASE Delay
    <3>1. /\ queueHeaders[1] \in Headers /\ 1 \in 1 .. Len(queueHeaders)
          /\ Current = queueHeaders[1]
      BY <1>0, HeadHeader DEF Current
    <3>2. PICK e : e = [queueHeaders[1] EXCEPT !.atts = @ + 1]
      OBVIOUS
    <3>3. queueHeaders' = [queueHeaders EXCEPT ![1] = e]
      BY <2>1, <3>1, <3>2 DEF Delay
    <3>4. Head(queueHeaders') = e
      BY <1>0, <3>1, <3>3
    <3>5. Identity(e) = Identity(queueHeaders[1])
      BY <3>1, <3>2 DEF Identity, Headers
    <3> QED BY <3>1, <3>4, <3>5
  <2>2. CASE ~Delay
    <3>1. queueHeaders' = queueHeaders
      BY <1>0, <1>3, <2>2
         DEF SendSerial, SendSerialSkip, Idle, Rotate, RotateDone, Sending, WaitingOver,
             TimeoutScan, TimeoutLast, TimeoutRetry, RestOK, queue
    <3> QED BY <3>1, <1>1
  <2> QED BY <2>1, <2>2
<1>4. CASE RecvUdp
  <2>1. CASE NoRequest
    BY <2>1, <1>1 DEF NoRequest, queue
  <2>2. ASSUME NEW c \in UdpClients, NEW f \in Frames, CheckRequest(c, MaxSockNum, f)
        PROVE  Identity(Head(queueHeaders')) = Identity(Current)
    <3>1. c \in Clients /\ MaxSockNum \in 0 .. MaxSockNum
      BY SizesAssumption DEF Clients
    <3>2. queueHeaders' = queueHeaders \/ \E h : queueHeaders' = Append(queueHeaders, h)
      BY <3>1, <2>2, <1>0, CheckKeeps
    <3> QED BY <3>2, <1>1, <1>2
  <2> QED BY <2>1, <2>2, <1>4 DEF RecvUdp
<1>5. CASE RecvSerial
  BY <1>1, <1>5 DEF RecvSerial, RecvSerialNone, RecvSerialReply, RecvSerialDiscard,
                    FreeRxBuffer, queue
<1>6. CASE ManageSockets
  <2>1. CASE NoRequest
    BY <2>1, <1>1 DEF NoRequest, queue
  <2>2. ASSUME NEW s \in Sockets, NEW f \in Frames,
               snSR[s] \in {"ESTABLISHED", "CLOSE_WAIT"}, CheckRequest(peer[s], s, f)
        PROVE  Identity(Head(queueHeaders')) = Identity(Current)
    <3>1. peer[s] \in Clients /\ s \in 0 .. MaxSockNum
      BY <2>2, <1>0, SizesAssumption DEF TcpOK, Clients, Sockets
    <3>2. queueHeaders' = queueHeaders \/ \E h : queueHeaders' = Append(queueHeaders, h)
      BY <3>1, <2>2, <1>0, CheckKeeps
    <3> QED BY <3>2, <1>1, <1>2
  <2>3. \/ NoRequest
        \/ \E s \in Sockets, f \in Frames :
             snSR[s] \in {"ESTABLISHED", "CLOSE_WAIT"} /\ CheckRequest(peer[s], s, f)
    BY <1>6, SocketRequests
  <2> QED BY <2>1, <2>2, <2>3
<1>7. CASE World
  BY <1>1, <1>7 DEF World, TimerExpires, Fetch, TxDone, LineStarts, LineIdle, Network, queue
<1> QED BY <1>3, <1>4, <1>5, <1>6, <1>7 DEF Next, MainLoop

\* From SENDING to the end of the transaction the head of the queue is the
\* request that was transmitted: requests join behind it, rotation waits.
THEOREM HeadKept == Spec => TransactionKeepsHead
<1> DEFINE Kept == serialState # "IDLE" /\ serialState' # "IDLE"
                     => Identity(Head(queueHeaders')) = Identity(Current)
<1>1. Inv /\ [Next]_vars => [Kept]_vars
  BY HeadStays
<1> QED BY <1>1, Invariance, PTL DEF Spec, TransactionKeepsHead

-----------------------------------------------------------------------------
(* The transmit buffer and the line: what the UART interrupt still reads of  *)
(* a frame is left alone, except behind SCAN_TIMEOUT in a broadcast.         *)

\* While our frame is on the line no frame of a slave starts, and the serial
\* state machine cannot get past WAITING: nothing is received that would arm
\* the timer anew, and the timer armed in DELAY does not run out.  What was
\* received before the frame was handed over stops the loop in recvSerial.
Held ==
  \/ /\ serialState = "DELAY"
     /\ Current.scan => Broadcast(wire)
     /\ rxBuf # <<>> => pc \in {"recvUdp", "recvSerial", "freeRxBuffer"}
  \/ /\ serialState = "WAITING"
     /\ ~sendMicroTimer.over /\ rxBuf = <<>>
     /\ \/ sendMicroTimer.kind = "response"
        \/ sendMicroTimer.kind = "scan" /\ Broadcast(wire)

\* A broadcast that outlasts its timer escapes from that.
Escaped == Broadcast(wire) /\ ScanBytes <= fetched

Intact(buf, frame, n) ==
  \A k \in n + 1 .. Len(frame) :
    buf[k] = frame[k] \/ (k > ScanBytes /\ Broadcast(frame))

\* A frame kept back because the line was busy is that of the head.
KeptBack ==
  txNdx > 0 => /\ serialState = "SENDING"
               /\ Current.scan /\ txNdx > 2 => txBuffer[1].slave = 0

LineInv ==
  /\ KeptBack
  /\ sending => incoming = <<>> /\ Intact(txBuffer, wire, fetched) /\ (Held \/ Escaped)

\* Within a transaction the head stays a broadcast, or stays none.
LEMMA ScanStays ==
  ASSUME Inv, Inv', Next, serialState # "IDLE", serialState' # "IDLE"
  PROVE  Current'.scan = Current.scan
<1>1. Current \in Headers /\ Current' \in Headers
  <2>1. queueHeaders # <<>> /\ queueHeaders \in Seq(Headers)
    BY DEF Inv, QueueOK, AttemptsOK
  <2>2. queueHeaders' # <<>> /\ queueHeaders' \in Seq(Headers)
    BY DEF Inv, QueueOK, AttemptsOK
  <2> QED BY <2>1, <2>2, HeadTailProperties DEF Current
<1>2. ASSUME NEW h \in Headers PROVE Identity(h).scan = h.scan
  BY DEF Identity, Headers
<1>3. Identity(Current') = Identity(Current)
  BY HeadStays DEF Current
<1> QED BY <1>1, <1>2, <1>3

\* The first byte of a queued broadcast is its address.
LEMMA HeadBroadcast ==
  ASSUME Inv, queueHeaders # <<>>, Current.scan, Current.msgLen > 0
  PROVE  queueData[1].slave = 0
<1>1. QueueOK(queueHeaders, queueData) /\ queueHeaders \in Seq(Headers)
  BY DEF Inv, QueueOK
<1>2. /\ Current = queueHeaders[1] /\ 1 \in 1 .. Len(queueHeaders)
      /\ Current.msgLen \in Nat
  BY <1>1, HeadHeader DEF Current
<1>3. Whole(Current, queueData, 0)
  BY <1>1, <1>2 DEF QueueOK, Fits, Cut
<1>4. 1 \in 1 .. Current.msgLen /\ 0 + 1 = 1
  BY <1>2
<1>5. PICK slave \in Slaves :
        /\ Current.scan <=> slave = 0
        /\ \A k \in 1 .. Current.msgLen :
             queueData[0 + k] = [slave |-> slave, client |-> Current.client, pos |-> k]
  BY <1>3 DEF Whole
<1>6. queueData[0 + 1] = [slave |-> slave, client |-> Current.client, pos |-> 1]
  BY <1>4, <1>5
<1> QED BY <1>4, <1>5, <1>6

\* SENDING hands over the buffer's own content, marked as what it is; if it
\* meets a frame still on the line, that one has escaped.
LEMMA LineSending ==
  ASSUME Inv, LineInv, Sending
  PROVE  LineInv'
<1>1. /\ queueHeaders # <<>> /\ serialState = "SENDING" /\ pc' = "recvUdp"
      /\ UNCHANGED <<queueHeaders, incoming>>
  BY DEF Sending, SendSerialReady, queue
<1>2. /\ txBuffer' \in Seq(FrameBytes) /\ txBuffer \in Seq(FrameBytes)
      /\ Len(txBuffer') \in Nat /\ Len(txBuffer) \in Nat
      /\ fetched \in Nat
  <2>1. txBuffer \in Seq(FrameBytes) /\ fetched \in 0 .. Len(wire)
    BY DEF Inv, LineOK
  <2>2. txBuffer' \in Seq(FrameBytes)
    BY BuiltFrame
  <2> QED BY <2>1, <2>2, LenProperties
<1>3. PICK ndx \in 0 .. (ByteMod - 1) :
        /\ ndx <= Len(txBuffer')
        /\ \/ ndx = txNdx /\ txBuffer' = txBuffer
           \/ /\ ndx > 2 => Current.msgLen > 0
              /\ Current.msgLen > 0 => txBuffer'[1] = queueData[1]
        /\ \/ /\ sending' = TRUE /\ ~IsBusy /\ serialState' = "DELAY"
              /\ wire' = SubSeq(txBuffer', 1, ndx) /\ fetched' = 0 /\ txNdx' = 0
           \/ UNCHANGED <<sending, wire, fetched, serialState>> /\ txNdx' = ndx
  BY BuiltFrame
<1>4. ndx \in Nat
  BY SizesAssumption
<1>5. Current.scan /\ ndx > 2 => txBuffer'[1].slave = 0
  BY <1>1, <1>3, <1>4, HeadBroadcast DEF LineInv, KeptBack
<1>6. Current' = Current
  BY <1>1 DEF Current
<1>7. CASE /\ sending' = TRUE /\ ~IsBusy /\ serialState' = "DELAY"
           /\ wire' = SubSeq(txBuffer', 1, ndx) /\ fetched' = 0 /\ txNdx' = 0
  <2>1. Len(wire') = ndx /\ \A k \in 1 .. ndx : wire'[k] = txBuffer'[k]
    BY <1>2, <1>3, <1>4, <1>7, TakeProperties
  <2>2. Intact(txBuffer', wire', fetched')
    BY <2>1, <1>4, <1>7 DEF Intact
  <2>3. Current.scan => Broadcast(wire')
    BY <2>1, <1>4, <1>5 DEF Broadcast
  <2>4. incoming' = <<>>
    BY <1>1, <1>7 DEF IsBusy
  <2>5. Held'
    BY <2>3, <1>1, <1>6, <1>7 DEF Held
  <2>6. KeptBack'
    BY <1>7 DEF KeptBack
  <2> QED BY <2>2, <2>4, <2>5, <2>6 DEF LineInv
<1>8. CASE UNCHANGED <<sending, wire, fetched, serialState>> /\ txNdx' = ndx
  <2>1. KeptBack'
    BY <1>1, <1>5, <1>6, <1>8 DEF KeptBack
  <2>2. ASSUME sending
        PROVE  incoming' = <<>> /\ Intact(txBuffer', wire', fetched') /\ Escaped'
    <3>1. Escaped /\ incoming = <<>>
      BY <2>2, <1>1 DEF LineInv, Held
    <3>2. \A k \in fetched + 1 .. Len(wire) : k > ScanBytes
      BY <3>1, <1>2, SizesAssumption DEF Escaped
    <3> QED BY <3>1, <3>2, <1>1, <1>8 DEF Intact, Escaped, Broadcast
  <2> QED BY <2>1, <2>2, <1>8 DEF LineInv
<1> QED BY <1>3, <1>7, <1>8

\* What the handler moves, it moves as handed over up to ScanBytes.
LEMMA LineFetch ==
  ASSUME Inv, LineInv, Fetch
  PROVE  LineInv'
<1>1. /\ Len(wire') = Len(wire) /\ fetched' \in 0 .. Len(wire) /\ fetched < fetched'
      /\ \A k \in 1 .. Len(wire) :
           wire'[k] = IF fetched < k /\ k <= fetched' THEN txBuffer[k] ELSE wire[k]
  BY FetchedFrame DEF Inv
<1>2. PICK n \in Nat, m \in Nat, l \in Nat :
        /\ n = fetched /\ m = fetched' /\ l = Len(wire)
        /\ n < m /\ m <= l
  <2>1. Len(wire) \in Nat
    BY LenProperties DEF Inv, LineOK
  <2>2. fetched \in 0 .. Len(wire)
    BY DEF Inv, LineOK
  <2>3. ASSUME NEW c \in Nat, NEW a \in 0 .. c, NEW b \in 0 .. c
        PROVE  a \in Nat /\ b \in Nat /\ b <= c
    OBVIOUS
  <2>4. fetched \in Nat /\ fetched' \in Nat /\ fetched' <= Len(wire)
    BY <2>1, <2>2, <2>3, <1>1
  <2> QED BY <2>1, <2>4, <1>1
<1>3. /\ sending /\ sending' = sending /\ txBuffer' = txBuffer
      /\ UNCHANGED <<txNdx, serialState, queueHeaders, incoming, rxBuf, sendMicroTimer, pc>>
  BY DEF Fetch, serial, queue
<1>4. Intact(txBuffer, wire, fetched) /\ incoming = <<>> /\ (Held \/ Escaped)
  BY <1>3 DEF LineInv
<1>5. l > 2 => wire'[1] = wire[1]
  <2>1. ASSUME l > 2, n = 0, 1 <= m PROVE txBuffer[1] = wire[1]
    <3>1. 1 \in n + 1 .. l /\ ~(1 > ScanBytes)
      BY <2>1, SizesAssumption
    <3> QED BY <3>1, <1>2, <1>4 DEF Intact
  <2>2. ASSUME l > 2
        PROVE  wire'[1] = IF n < 1 /\ 1 <= m THEN txBuffer[1] ELSE wire[1]
    <3>1. 1 \in 1 .. l
      BY <2>2
    <3> QED BY <3>1, <1>1, <1>2
  <2> QED BY <2>1, <2>2
<1>6. Broadcast(wire') = Broadcast(wire)
  BY <1>1, <1>2, <1>5 DEF Broadcast
<1>7. Intact(txBuffer', wire', fetched')
  <2>1. ASSUME NEW k \in m + 1 .. l
        PROVE  /\ k \in n + 1 .. l /\ k \in 1 .. l /\ wire'[k] = wire[k]
    <3>1. ASSUME NEW a \in Nat, NEW b \in Nat, NEW c \in Nat, a < b, k \in b + 1 .. c
          PROVE  k \in a + 1 .. c /\ k \in 1 .. c /\ ~(k <= b)
      BY <3>1
    <3>2. k \in n + 1 .. l /\ k \in 1 .. l /\ ~(k <= m)
      BY <1>2, <3>1
    <3> QED BY <3>2, <1>1, <1>2
  <2> QED BY <2>1, <1>1, <1>2, <1>3, <1>4, <1>6 DEF Intact
<1>8. Held => Held'
  BY <1>3, <1>6 DEF Held, Current
<1>9. Escaped => Escaped'
  <2>1. ScanBytes <= n => ScanBytes <= m
    BY <1>1, <1>2, SizesAssumption
  <2> QED BY <2>1, <1>2, <1>6 DEF Escaped
<1>10. KeptBack'
  BY <1>3 DEF LineInv, KeptBack, Current
<1> QED BY <1>3, <1>4, <1>7, <1>8, <1>9, <1>10 DEF LineInv

\* The steps that leave the buffer and the line alone.
Untouched == UNCHANGED <<txNdx, txBuffer, sending, wire, fetched>>

LEMMA LineUntouched ==
  ASSUME Inv, LineInv, Untouched,
         KeptBack => KeptBack',
         sending => incoming' = <<>> /\ (Held => Held' \/ Escaped)
  PROVE  LineInv'
BY DEF LineInv, Untouched, Intact, Escaped, Broadcast

LEMMA LineSendSerial ==
  ASSUME Inv, Inv', LineInv, SendSerial
  PROVE  LineInv'
<1>0. txNdx \in Nat /\ (serialState # "SENDING" => ~(txNdx > 0))
  BY SizesAssumption DEF Inv, LineOK, LineInv, KeptBack
<1>1. CASE SendSerialSkip
  <2>1. /\ pc' = "recvUdp" /\ Untouched
        /\ UNCHANGED <<serialState, queueHeaders, sendMicroTimer, incoming, rxBuf>>
    BY <1>1 DEF SendSerialSkip, Untouched, serial, line, queue
  <2>2. Held => Held'
    BY <2>1 DEF Held, Current, Untouched
  <2>3. KeptBack => KeptBack'
    BY <2>1 DEF KeptBack, Current, Untouched
  <2> QED BY <2>1, <2>2, <2>3, LineUntouched DEF LineInv
<1>2. CASE Idle \/ Rotate \/ RotateDone
  <2>1. /\ serialState = "IDLE" /\ Untouched /\ incoming' = incoming
    BY <1>2 DEF Idle, Rotate, RotateDone, Inv, RestOK, Untouched, serial, line
  <2>2. KeptBack' /\ ~Held
    BY <2>1, <1>0 DEF KeptBack, Held, Untouched
  <2> QED BY <2>1, <2>2, LineUntouched DEF LineInv
<1>3. CASE Sending
  BY <1>3, LineSending
<1>4. CASE Delay
  <2>1. /\ serialState = "DELAY" /\ serialState' = "WAITING" /\ pc = "sendSerial"
        /\ sendMicroTimer' = [kind |-> IF Current.scan THEN "scan" ELSE "response",
                              over |-> FALSE]
        /\ Untouched /\ UNCHANGED <<incoming, rxBuf>>
    BY <1>4 DEF Delay, Armed, line, Untouched
  <2>2. Held => Held'
    BY <2>1 DEF Held, Untouched
  <2>3. KeptBack'
    BY <2>1, <1>0 DEF KeptBack, Untouched
  <2> QED BY <2>1, <2>2, <2>3, LineUntouched DEF LineInv
<1>5. CASE TimeoutScan \/ TimeoutLast \/ TimeoutRetry
  <2>1. /\ sendMicroTimer.over /\ serialState = "WAITING"
        /\ Untouched /\ incoming' = incoming
    BY <1>5 DEF TimeoutScan, TimeoutLast, TimeoutRetry, WaitingOver, SendSerialReady,
                line, Untouched
  <2>2. KeptBack' /\ ~Held
    BY <2>1, <1>0 DEF KeptBack, Held, Untouched
  <2> QED BY <2>1, <2>2, LineUntouched DEF LineInv
<1> QED BY <1>1, <1>2, <1>3, <1>4, <1>5 DEF SendSerial

LEMMA LineRecvSerial ==
  ASSUME Inv, Inv', LineInv, RecvSerial
  PROVE  LineInv'
<1>0. txNdx \in Nat /\ (serialState # "SENDING" => ~(txNdx > 0))
  BY SizesAssumption DEF Inv, LineOK, LineInv, KeptBack
<1>1. CASE RecvSerialNone
  <2>1. /\ rxBuf = <<>> /\ Untouched
        /\ UNCHANGED <<serialState, queueHeaders, sendMicroTimer, incoming, rxBuf>>
    BY <1>1 DEF RecvSerialNone, serial, line, queue, Untouched
  <2>2. Held => Held'
    BY <2>1 DEF Held, Current, Untouched
  <2>3. KeptBack => KeptBack'
    BY <2>1 DEF KeptBack, Current, Untouched
  <2> QED BY <2>1, <2>2, <2>3, LineUntouched DEF LineInv
<1>2. CASE RecvSerialReply
  <2>1. /\ serialState = "WAITING" /\ rxBuf # <<>> /\ Untouched /\ incoming' = incoming
    BY <1>2 DEF RecvSerialReply, Received, line, Untouched
  <2>2. KeptBack' /\ ~Held
    BY <2>1, <1>0 DEF KeptBack, Held, Untouched
  <2> QED BY <2>1, <2>2, LineUntouched DEF LineInv
<1>3. CASE RecvSerialDiscard
  <2>1. /\ rxBuf # <<>> /\ pc' = "freeRxBuffer" /\ Untouched
        /\ UNCHANGED <<serialState, queueHeaders, incoming, rxBuf>>
    BY <1>3 DEF RecvSerialDiscard, Received, line, queue, Untouched
  <2>2. Held => Held'
    BY <2>1 DEF Held, Current, Untouched
  <2>3. KeptBack => KeptBack'
    BY <2>1 DEF KeptBack, Current, Untouched
  <2> QED BY <2>1, <2>2, <2>3, LineUntouched DEF LineInv
<1>4. CASE FreeRxBuffer
  <2>1. /\ ~sending /\ Untouched /\ UNCHANGED <<serialState, queueHeaders>>
    BY <1>4 DEF FreeRxBuffer, IsBusy, serial, queue, Untouched
  <2>2. KeptBack => KeptBack'
    BY <2>1 DEF KeptBack, Current, Untouched
  <2> QED BY <2>1, <2>2, LineUntouched DEF LineInv
<1> QED BY <1>1, <1>2, <1>3, <1>4 DEF RecvSerial

LEMMA LineWorld ==
  ASSUME Inv, LineInv, World
  PROVE  LineInv'
<1>1. CASE TimerExpires
  <2>1. Untouched /\ UNCHANGED <<pc, serialState, queueHeaders, incoming, rxBuf>>
    BY <1>1 DEF TimerExpires, serial, line, queue, Untouched
  <2>2. sending => (Held => Held' \/ Escaped)
    <3>1. sending => \/ sendMicroTimer.kind = "frame"
                     \/ sendMicroTimer.kind = "scan" /\ fetched >= ScanBytes
      BY <1>1 DEF TimerExpires
    <3>2. fetched >= ScanBytes => ScanBytes <= fetched
      BY SizesAssumption DEF Inv, LineOK
    <3> QED BY <3>1, <3>2, <2>1 DEF Held, Escaped, Current, Untouched
  <2>3. KeptBack => KeptBack'
    BY <2>1 DEF KeptBack, Current, Untouched
  <2> QED BY <2>1, <2>2, <2>3, LineUntouched DEF LineInv
<1>2. CASE Fetch
  BY <1>2, LineFetch
<1>3. CASE TxDone
  <2>1. /\ sending' = FALSE /\ txBuffer' = SubSeq(txBuffer, 1, txNdx)
        /\ UNCHANGED <<txNdx, serialState, queueHeaders>>
    BY <1>3 DEF TxDone, queue
  <2>2. /\ txBuffer \in Seq(FrameBytes) /\ txNdx \in Nat /\ txNdx <= Len(txBuffer)
    BY SizesAssumption DEF Inv, LineOK
  <2>3. txNdx > 2 => SubSeq(txBuffer, 1, txNdx)[1] = txBuffer[1]
    BY <2>2, TakeProperties
  <2>4. KeptBack'
    BY <2>1, <2>3 DEF LineInv, KeptBack, Current
  <2> QED BY <2>1, <2>4 DEF LineInv
<1>4. CASE LineStarts \/ LineIdle \/ Network
  <2>1. /\ Untouched /\ UNCHANGED <<pc, serialState, queueHeaders, sendMicroTimer>>
        /\ ~sending \/ UNCHANGED <<incoming, rxBuf>>
    BY <1>4 DEF LineInv, LineStarts, LineIdle, Network, IsBusy, serial, line, queue, Untouched
  <2>2. sending => (Held => Held')
    BY <2>1 DEF Held, Current, Untouched
  <2>3. KeptBack => KeptBack'
    BY <2>1 DEF KeptBack, Current, Untouched
  <2> QED BY <2>1, <2>2, <2>3, LineUntouched DEF LineInv
<1> QED BY <1>1, <1>2, <1>3, <1>4 DEF World

\* Nobody writes the part of the buffer the UART interrupt has yet to read of our
\* frame (ModbusRTU.cpp:72); what can change are the bytes of a broadcast that
\* SCAN_TIMEOUT (ProjectSettings.h:37) finds behind ScanBytes, for any ScanBytes.
THEOREM WireCorrect == Spec => []WireIntact
<1>1. Init => LineInv
  BY DEF Init, LineInv, KeptBack
<1>2. ASSUME Inv, Inv', LineInv, [Next]_vars
      PROVE  LineInv'
  <2>1. CASE RecvUdp \/ ManageSockets
    <3>1. /\ pc = "recvUdp" => pc' = "recvSerial"
          /\ pc \in {"recvUdp", "manageSockets"} /\ Untouched
          /\ UNCHANGED <<serialState, sendMicroTimer, incoming, rxBuf>>
      BY <2>1 DEF RecvUdp, ManageSockets, serial, line, Untouched
    <3>2. serialState # "IDLE" => Current'.scan = Current.scan
      BY <1>2, <2>1, <3>1, ScanStays DEF Next, MainLoop
    <3>3. Held => Held'
      BY <3>1, <3>2 DEF Held, Untouched
    <3>4. KeptBack => KeptBack'
      BY <3>1, <3>2 DEF KeptBack, Untouched
    <3> QED BY <1>2, <3>1, <3>3, <3>4, LineUntouched DEF LineInv
  <2>2. CASE UNCHANGED vars
    <3>1. Untouched /\ UNCHANGED <<pc, serialState, queueHeaders, sendMicroTimer,
                                   incoming, rxBuf>>
      BY <2>2 DEF vars, serial, line, queue, Untouched
    <3>2. (Held => Held') /\ (KeptBack => KeptBack')
      BY <3>1 DEF Held, KeptBack, Current, Untouched
    <3> QED BY <1>2, <3>1, <3>2, LineUntouched DEF LineInv
  <2> QED BY <1>2, <2>1, <2>2, LineSendSerial, LineRecvSerial, LineWorld DEF Next, MainLoop
<1>3. LineInv => WireIntact
  BY DEF LineInv, Intact, WireIntact
<1> QED BY <1>1, <1>2, <1>3, Invariance, PTL DEF Spec
=============================================================================
