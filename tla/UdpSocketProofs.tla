-------------------------- MODULE UdpSocketProofs --------------------------
(***************************************************************************)
(* Receiving datagrams, for buffers, pointers and datagrams of every size: *)
(* the copy of the registers agrees with the chip's, each datagram reaches *)
(* checkRequest whole and alone, and the chip's buffer is given back.      *)
(***************************************************************************)
EXTENDS UdpSocket, SequenceTheorems, TLAPS

Byte == [of : Datagrams, pos : Nat]

\* How many bytes of the chip's buffer a datagram takes.
Span(d) == Header + d.len

Types ==
  /\ buf \in Seq(Byte) /\ Len(buf) <= Size
  /\ chipRd \in 0 .. Wrap - 1
  /\ RX_RSR \in Nat /\ RX_RD \in 0 .. Wrap - 1 /\ RX_inc \in Nat
  /\ remaining \in Nat
  /\ at \in {"parse", "header", "read", "drain", "done"}
  /\ msgLength \in Nat
  /\ pending \in Seq(Datagrams)
  /\ \A i \in 1 .. Len(pending) : Span(pending[i]) <= Size
  /\ tag \in 0 .. Tags - 1

\* Bytes the chip was not told of are fewer than a batch, and none when all
\* that is known of was read.
Copy == CopyAgrees /\ RX_inc < Batch /\ (RX_inc > 0 => RX_RSR > 0)

\* c[i] bytes of b precede datagram i of p; it is there as far as it is beyond
\* the first inc bytes.
Holds(c, b, inc, p) ==
  /\ c \in [1 .. Len(p) + 1 -> Int]
  /\ \A i \in 1 .. Len(p) : c[i + 1] = c[i] + Span(p[i])
  /\ c[Len(p) + 1] = Len(b)
  /\ \A i \in 1 .. Len(p) : c[i] <= Len(b)
  /\ \A i \in 1 .. Len(p) : \A k \in 1 .. Span(p[i]) :
       c[i] + k > inc => b[c[i] + k] = [of |-> p[i], pos |-> k]

\* How much of the first datagram was read.
Gone == CASE at \in {"parse", "header"} -> 0
          [] at = "read" -> Header
          [] OTHER -> Header + msgLength - remaining

Cuts == \E c \in [1 .. Len(pending) + 1 -> Int] :
          c[1] = RX_inc - Gone /\ Holds(c, buf, RX_inc, pending)

Stage ==
  /\ at # "parse" => pending # <<>>
  /\ at \in {"parse", "header"} => msgLength = 0 /\ remaining = 0
  /\ at \in {"parse", "header", "read"} => inBuffer = <<>>
  /\ at \in {"read", "drain", "done"} =>
       msgLength = pending[1].len /\ msgLength > 0 /\ remaining <= msgLength
  /\ at = "read" => remaining = msgLength
  /\ at \in {"drain", "done"} => inBuffer = Data(pending[1])
  /\ at = "done" => remaining = 0

Inv == Types /\ Copy /\ Cuts /\ Stage

-----------------------------------------------------------------------------
(* Numbers                                                                   *)

\* The lesser of two numbers.
LEMMA Lesser ==
  ASSUME NEW a \in Int, NEW b \in Int
  PROVE  Min({a, b}) = IF a <= b THEN a ELSE b
<1> DEFINE m == IF a <= b THEN a ELSE b
<1>1. m \in {a, b} /\ \A y \in {a, b} : m <= y
  OBVIOUS
<1>2. \A x \in {a, b} : (\A y \in {a, b} : x <= y) => x = m
  OBVIOUS
<1> HIDE DEF m
<1>3. Min({a, b}) \in {a, b} /\ \A y \in {a, b} : Min({a, b}) <= y
  BY <1>1 DEF Min
<1>4. Min({a, b}) = m
  BY <1>2, <1>3
<1> QED BY <1>4 DEF m

\* x brought back into 0 .. w - 1 from less than w away.
Wrapped(x, w) == IF x < 0 THEN x + w ELSE IF x < w THEN x ELSE x - w

LEMMA Remainder ==
  ASSUME NEW w \in Nat \ {0}
  PROVE  \A x \in Int : -w <= x /\ x < 2 * w => x % w = Wrapped(x, w)
BY DEF Wrapped

\* Pointer r, inc behind pointer c on a buffer of w: n bytes on from it, and
\* the bytes between.
Moves(w, c, inc, n, r) ==
  /\ (r + n) % w \in 0 .. w - 1
  /\ (r + n) % w = Wrapped(c + (inc + n), w)
  /\ (((r + n) % w) - c) % w = inc + n
  /\ \A i \in 1 .. n : (r - c + i) % w = inc + i

LEMMA Pointers ==
  ASSUME NEW w \in Nat \ {0}, NEW c \in 0 .. w - 1, NEW inc \in Nat, NEW n \in Nat,
         inc + n < w,
         NEW r \in 0 .. w - 1, r = Wrapped(c + inc, w)
  PROVE  Moves(w, c, inc, n, r)
<1>1. \A x \in Int : -w <= x /\ x < 2 * w => x % w = Wrapped(x, w)
  BY Remainder
<1>2. ASSUME NEW x \in Int, -w <= x, x < 2 * w PROVE x % w = Wrapped(x, w)
  BY <1>1, <1>2, Zenon
<1>3. (r + n) % w = Wrapped(r + n, w)
  <2>1. r + n \in Int /\ -w <= r + n /\ r + n < 2 * w
    OBVIOUS
  <2> QED BY <1>2, <2>1, Zenon
<1>4. Wrapped(r + n, w) = Wrapped(c + (inc + n), w) /\ Wrapped(r + n, w) \in 0 .. w - 1
  BY DEF Wrapped
<1>5. (((r + n) % w) - c) % w = inc + n
  <2>1. PICK x \in 0 .. w - 1 : x = Wrapped(r + n, w)
    BY <1>4
  <2>2. x - c \in Int /\ -w <= x - c /\ x - c < 2 * w
    OBVIOUS
  <2>3. (x - c) % w = Wrapped(x - c, w)
    BY <1>2, <2>2, Zenon
  <2>4. Wrapped(x - c, w) = inc + n
    BY <2>1 DEF Wrapped
  <2> QED BY <1>3, <2>1, <2>3, <2>4, Zenon
<1>6. ASSUME NEW i \in 1 .. n PROVE (r - c + i) % w = inc + i
  <2>1. r - c + i \in Int /\ -w <= r - c + i /\ r - c + i < 2 * w
    OBVIOUS
  <2>2. (r - c + i) % w = Wrapped(r - c + i, w)
    BY <1>2, <2>1, Zenon
  <2>3. Wrapped(r - c + i, w) = inc + i
    BY DEF Wrapped
  <2> QED BY <2>2, <2>3, Zenon
<1> QED BY <1>3, <1>4, <1>5, <1>6, Zenon DEF Moves

-----------------------------------------------------------------------------
(* Datagrams in a buffer                                                     *)

LEMMA Constants ==
  /\ Lens \subseteq Nat
  /\ Header \in Nat \ {0} /\ InBuf \in Nat \ {0} /\ Size \in Nat \ {0}
  /\ Wrap \in Nat \ {0} /\ Batch \in Nat \ {0} /\ IncWrap \in Nat \ {0}
  /\ Tags \in Nat \ {0}
  /\ Size < Wrap /\ Batch <= IncWrap
BY SizesAssumption

\* A datagram behind its header.
LEMMA Bytes ==
  ASSUME NEW d \in Datagrams
  PROVE  /\ d.len \in Nat /\ Span(d) \in Nat \ {0}
         /\ BytesOf(d) \in Seq(Byte) /\ Len(BytesOf(d)) = Span(d)
         /\ \A k \in 1 .. Span(d) : BytesOf(d)[k] = [of |-> d, pos |-> k]
<1>1. d.len \in Lens
  BY DEF Datagrams
<1>2. d.len \in Nat /\ Header \in Nat \ {0}
  BY <1>1, Constants
<1>3. PICK n \in Nat \ {0} : n = Span(d)
  BY <1>2 DEF Span
<1>4. BytesOf(d) = [k \in 1 .. n |-> [of |-> d, pos |-> k]]
  BY <1>3 DEF BytesOf, Span
<1>5. \A k \in 1 .. n : [of |-> d, pos |-> k] \in Byte
  BY DEF Byte
<1>6. BytesOf(d) \in Seq(Byte) /\ Len(BytesOf(d)) = n
  BY <1>4, <1>5
<1> QED BY <1>2, <1>3, <1>4, <1>6

LEMMA Elements ==
  ASSUME NEW p \in Seq(Datagrams), NEW i \in 1 .. Len(p)
  PROVE  p[i] \in Datagrams /\ Span(p[i]) \in Nat \ {0}
<1>1. p[i] \in Datagrams
  OBVIOUS
<1> QED BY <1>1, Bytes, Zenon

\* Datagram i of those in a buffer.
Lies(c, b, inc, p, i) ==
  /\ Span(p[i]) \in Nat \ {0}
  /\ c[i] \in Int /\ c[i + 1] = c[i] + Span(p[i])
  /\ c[i] <= Len(b) /\ c[i + 1] <= Len(b)
  /\ \A k \in 1 .. Span(p[i]) : c[i] + k > inc =>
       c[i] + k \in 1 .. Len(b) /\ b[c[i] + k] = [of |-> p[i], pos |-> k]

LEMMA Laid ==
  ASSUME NEW p \in Seq(Datagrams), NEW b \in Seq(Byte), NEW inc \in Nat,
         NEW c, Holds(c, b, inc, p), NEW i \in 1 .. Len(p)
  PROVE  Lies(c, b, inc, p, i)
<1>1. Len(p) \in Nat /\ Len(b) \in Nat
  OBVIOUS
<1>2. PICK h \in Nat \ {0} : h = Span(p[i])
  BY Elements
<1>3. /\ c \in [1 .. Len(p) + 1 -> Int]
      /\ c[i + 1] = c[i] + h
      /\ c[Len(p) + 1] = Len(b)
      /\ \A n \in 1 .. Len(p) : c[n] <= Len(b)
      /\ \A k \in 1 .. h : c[i] + k > inc => b[c[i] + k] = [of |-> p[i], pos |-> k]
  BY <1>2, Zenon DEF Holds
<1>4. i \in 1 .. Len(p) + 1 /\ (i + 1 = Len(p) + 1 \/ i + 1 \in 1 .. Len(p))
  BY <1>1
<1>5. c[i] \in Int
  BY <1>3, <1>4
<1>6. c[i] <= Len(b) /\ c[i + 1] <= Len(b)
  BY <1>1, <1>3, <1>4
<1>7. PICK x \in Int : x = c[i]
  BY <1>5
<1>8. ASSUME NEW k \in 1 .. h, x + k > inc PROVE x + k \in 1 .. Len(b)
  <2>1. x + h <= Len(b)
    BY <1>3, <1>6, <1>7, Zenon
  <2> QED BY <1>1, <1>2, <1>8, <2>1
<1> QED BY <1>2, <1>3, <1>5, <1>6, <1>7, <1>8 DEF Lies

\* Where the datagrams begin when the first one is taken off,
LEMMA FirstTaken ==
  ASSUME NEW p \in Seq(Datagrams), p # <<>>,
         NEW b \in Seq(Byte), NEW inc \in Nat,
         NEW c, Holds(c, b, inc, p)
  PROVE  Holds([i \in 1 .. Len(p) |-> c[i + 1]], b, inc, Tail(p))
<1> DEFINE d == [i \in 1 .. Len(p) |-> c[i + 1]]
<1>1. Len(p) \in Nat \ {0} /\ Len(Tail(p)) = Len(p) - 1
  OBVIOUS
<1>2. \A i \in 1 .. Len(p) - 1 : Tail(p)[i] = p[i + 1]
  OBVIOUS
<1>3. d \in [1 .. Len(Tail(p)) + 1 -> Int]
  BY <1>1 DEF Holds
<1>4. ASSUME NEW i \in 1 .. Len(Tail(p))
      PROVE  /\ d[i + 1] = d[i] + Span(Tail(p)[i])
             /\ d[i] <= Len(b)
  BY <1>1, <1>2 DEF Holds
<1>5. d[Len(Tail(p)) + 1] = Len(b)
  BY <1>1 DEF Holds
<1>6. ASSUME NEW i \in 1 .. Len(Tail(p)), NEW k \in 1 .. Span(Tail(p)[i]),
             d[i] + k > inc
      PROVE  b[d[i] + k] = [of |-> Tail(p)[i], pos |-> k]
  BY <1>1, <1>2, <1>6 DEF Holds
<1> QED BY <1>3, <1>4, <1>5, <1>6 DEF Holds

\* all of it being read,
LEMMA FirstDone ==
  ASSUME NEW p \in Seq(Datagrams), p # <<>>,
         NEW b \in Seq(Byte), NEW inc \in Nat,
         NEW c, Holds(c, b, inc, p), c[1] + Span(p[1]) = inc
  PROVE  \E e \in [1 .. Len(Tail(p)) + 1 -> Int] : e[1] = inc /\ Holds(e, b, inc, Tail(p))
<1> DEFINE e == [i \in 1 .. Len(p) |-> c[i + 1]]
<1>1. Holds(e, b, inc, Tail(p))
  BY FirstTaken
<1>2. e \in [1 .. Len(Tail(p)) + 1 -> Int]
  BY <1>1 DEF Holds
<1>3. e[1] = inc
  <2>1. PICK i \in 1 .. Len(p) : i = 1
    OBVIOUS
  <2>2. c[i + 1] = c[i] + Span(p[i]) /\ e[i] = c[i + 1]
    BY DEF Holds
  <2> QED BY <2>1, <2>2
<1> QED BY <1>1, <1>2, <1>3

\* when another one comes,
LEMMA OneMore ==
  ASSUME NEW p \in Seq(Datagrams), NEW new \in Datagrams,
         NEW b \in Seq(Byte), NEW inc \in Nat, inc <= Len(b),
         NEW c, Holds(c, b, inc, p)
  PROVE  Holds([i \in 1 .. Len(p) + 2 |-> IF i <= Len(p) + 1 THEN c[i]
                                         ELSE Len(b) + Span(new)],
               b \o BytesOf(new), inc, Append(p, new))
<1> DEFINE d == [i \in 1 .. Len(p) + 2 |-> IF i <= Len(p) + 1 THEN c[i]
                                          ELSE Len(b) + Span(new)]
           q == Append(p, new)
<1>1. Len(p) \in Nat /\ Len(b) \in Nat /\ Span(new) \in Nat \ {0}
  BY Constants, Bytes
<1>2. Len(q) = Len(p) + 1 /\ q[Len(p) + 1] = new /\ \A i \in 1 .. Len(p) : q[i] = p[i]
  OBVIOUS
<1>3. /\ BytesOf(new) \in Seq(Byte) /\ Len(BytesOf(new)) = Span(new)
      /\ \A k \in 1 .. Span(new) : BytesOf(new)[k] = [of |-> new, pos |-> k]
  BY Bytes
<1>4. /\ Len(b \o BytesOf(new)) = Len(b) + Span(new)
      /\ \A n \in 1 .. Len(b) : (b \o BytesOf(new))[n] = b[n]
      /\ \A k \in 1 .. Span(new) :
           (b \o BytesOf(new))[Len(b) + k] = [of |-> new, pos |-> k]
  <2>1. PICK t \in Seq(Byte) : t = BytesOf(new)
    BY <1>3
  <2>2. /\ Len(b \o t) = Len(b) + Len(t)
        /\ \A n \in 1 .. Len(b) : (b \o t)[n] = b[n]
        /\ \A k \in 1 .. Len(t) : (b \o t)[Len(b) + k] = t[k]
    OBVIOUS
  <2>3. Len(t) = Span(new) /\ \A k \in 1 .. Span(new) : t[k] = [of |-> new, pos |-> k]
    BY <1>3, <2>1
  <2>4. Len(b \o t) = Len(b) + Span(new)
    BY <1>1, <2>2, <2>3
  <2> QED BY <2>1, <2>2, <2>3, <2>4
<1>5. c \in [1 .. Len(p) + 1 -> Int] /\ c[Len(p) + 1] = Len(b)
  BY DEF Holds
<1>6. /\ d \in [1 .. Len(q) + 1 -> Int]
      /\ \A i \in 1 .. Len(p) + 1 : d[i] = c[i]
      /\ d[Len(p) + 1] = Len(b)
      /\ d[Len(q) + 1] = Len(b) + Span(new)
  BY <1>1, <1>2, <1>5
<1> HIDE DEF d, q
<1>7. ASSUME NEW i \in 1 .. Len(p)
      PROVE  /\ d[i] = c[i] /\ d[i + 1] = c[i + 1] /\ q[i] = p[i] /\ Span(p[i]) \in Nat
             /\ c[i] \in Int /\ c[i + 1] = c[i] + Span(p[i])
             /\ c[i] <= Len(b) /\ c[i + 1] <= Len(b)
  <2>1. i \in 1 .. Len(p) + 1 /\ i + 1 \in 1 .. Len(p) + 1
    BY <1>1
  <2> QED BY <1>2, <1>6, <2>1, Laid DEF Lies
<1>8. ASSUME NEW i \in 1 .. Len(q)
      PROVE  d[i + 1] = d[i] + Span(q[i]) /\ d[i] <= Len(b) + Span(new)
  <2>1. CASE i = Len(p) + 1
    <3>1. d[i] = Len(b) /\ d[i + 1] = Len(b) + Span(new) /\ q[i] = new
      BY <1>1, <1>2, <1>6, <2>1
    <3> QED BY <1>1, <3>1
  <2>2. CASE i \in 1 .. Len(p)
    <3>1. /\ d[i + 1] = d[i] + Span(q[i])
          /\ d[i] = c[i] /\ c[i] \in Int /\ c[i] <= Len(b)
      BY <1>7, <2>2, Zenon
    <3>2. PICK x \in Int : x = d[i]
      BY <3>1
    <3>3. x <= Len(b) + Span(new)
      BY <1>1, <3>1, <3>2
    <3> QED BY <3>1, <3>2, <3>3
  <2> QED BY <1>1, <1>2, <2>1, <2>2
<1>9. ASSUME NEW i \in 1 .. Len(q), NEW k \in 1 .. Span(q[i]), d[i] + k > inc
      PROVE  (b \o BytesOf(new))[d[i] + k] = [of |-> q[i], pos |-> k]
  <2>1. CASE i = Len(p) + 1
    <3>1. d[i] = Len(b) /\ q[i] = new
      BY <1>1, <1>2, <1>6, <2>1
    <3> QED BY <1>4, <3>1
  <2>2. CASE i \in 1 .. Len(p)
    <3>1. d[i] = c[i] /\ q[i] = p[i] /\ k \in 1 .. Span(p[i]) /\ c[i] + k > inc
      BY <1>7, <1>9, <2>2
    <3>2. c[i] + k \in 1 .. Len(b) /\ b[c[i] + k] = [of |-> p[i], pos |-> k]
      <4>1. Lies(c, b, inc, p, i)
        BY <2>2, Laid
      <4> QED BY <3>1, <4>1, Zenon DEF Lies
    <3> QED BY <1>4, <3>1, <3>2, Zenon
  <2>3. i = Len(p) + 1 \/ i \in 1 .. Len(p)
    BY <1>1, <1>2
  <2> QED BY <2>1, <2>2, <2>3, Zenon
<1>10. Holds(d, b \o BytesOf(new), inc, q)
  BY <1>4, <1>6, <1>8, <1>9 DEF Holds
<1> QED BY <1>10 DEF d, q

\* when the chip is told of m bytes, and when they are only read.
LEMMA BytesTold ==
  ASSUME NEW p \in Seq(Datagrams),
         NEW b \in Seq(Byte), NEW inc \in Nat, NEW m \in Nat, inc <= m, m <= Len(b),
         NEW c, Holds(c, b, inc, p)
  PROVE  /\ Holds([i \in 1 .. Len(p) + 1 |-> c[i] - m], SubSeq(b, m + 1, Len(b)), 0, p)
         /\ Holds(c, b, m, p)
<1> DEFINE d == [i \in 1 .. Len(p) + 1 |-> c[i] - m]
           rest == SubSeq(b, m + 1, Len(b))
<1>1. Len(p) \in Nat /\ Len(b) \in Nat /\ Header \in Nat \ {0} /\ c \in [1 .. Len(p) + 1 -> Int]
  BY Constants DEF Holds
<1>2. Len(rest) = Len(b) - m /\ \A k \in 1 .. Len(b) - m : rest[k] = b[m + k]
  BY <1>1
<1>3. d \in [1 .. Len(p) + 1 -> Int] /\ d[Len(p) + 1] = Len(rest)
  BY <1>1, <1>2 DEF Holds
<1>4. \A i \in 1 .. Len(p) : Lies(c, b, inc, p, i)
  BY Laid
<1>5. ASSUME NEW i \in 1 .. Len(p)
      PROVE  /\ d[i + 1] = d[i] + Span(p[i])
             /\ d[i] <= Len(rest)
  <2>1. /\ Span(p[i]) \in Nat
        /\ c[i] \in Int /\ c[i + 1] = c[i] + Span(p[i]) /\ c[i] <= Len(b)
    BY <1>4 DEF Lies
  <2>2. d[i] = c[i] - m /\ d[i + 1] = c[i + 1] - m
    BY <1>1
  <2> QED BY <1>1, <1>2, <2>1, <2>2
<1>6. ASSUME NEW i \in 1 .. Len(p), NEW k \in 1 .. Span(p[i])
      PROVE  /\ d[i] + k > 0 => rest[d[i] + k] = [of |-> p[i], pos |-> k]
             /\ c[i] + k > m => b[c[i] + k] = [of |-> p[i], pos |-> k]
  <2>1. PICK x \in Int : x = c[i]
    BY <1>4 DEF Lies
  <2>2. k \in Nat /\ d[i] = x - m
    BY <1>1, <2>1, Elements
  <2>3. x + k > inc => x + k \in 1 .. Len(b) /\ b[x + k] = [of |-> p[i], pos |-> k]
    BY <1>4, <2>1 DEF Lies
  <2>4. x - m + k > 0 => x - m + k \in 1 .. Len(b) - m /\ m + (x - m + k) = x + k /\ x + k > inc
    BY <1>1, <2>2, <2>3
  <2> HIDE DEF d, rest
  <2>5. x - m + k > 0 => rest[x - m + k] = b[x + k]
    BY <1>2, <2>4
  <2>6. d[i] + k > 0 => rest[d[i] + k] = [of |-> p[i], pos |-> k]
    <3>1. d[i] + k = x - m + k
      BY <2>2
    <3>2. x - m + k > 0 => rest[x - m + k] = [of |-> p[i], pos |-> k]
      BY <2>3, <2>4, <2>5, Zenon
    <3> QED BY <3>1, <3>2, Zenon
  <2>7. c[i] + k > m => b[c[i] + k] = [of |-> p[i], pos |-> k]
    <3>1. x + k > m => x + k > inc
      BY <2>2
    <3> QED BY <2>1, <2>3, <3>1, Zenon
  <2> QED BY <2>6, <2>7, Zenon
<1>7. Holds(d, rest, 0, p)
  <2> HIDE DEF d, rest
  <2> QED BY <1>3, <1>5, <1>6 DEF Holds
<1>8. Holds(c, b, m, p)
  BY <1>6, Zenon DEF Holds
<1> QED BY <1>7, <1>8

-----------------------------------------------------------------------------
(* socketRecv, of bytes that are there                                       *)

LEMMA CopyInRange ==
  ASSUME Types, Copy
  PROVE  /\ Len(buf) \in Nat /\ RX_inc <= Len(buf) /\ Len(buf) < Wrap
         /\ Fresh \in Nat /\ Fresh = Len(buf) - RX_inc /\ RX_RSR <= Fresh
         /\ RX_RD = Wrapped(chipRd + RX_inc, Wrap)
<1>1. Len(buf) \in Nat /\ RX_RSR \in Nat /\ RX_inc \in Nat /\ RX_RSR + RX_inc <= Len(buf)
  BY DEF Types, Copy, CopyAgrees
<1>2. Len(buf) < Wrap /\ Wrap \in Nat \ {0} /\ chipRd \in 0 .. Wrap - 1
  BY <1>1, Constants DEF Types
<1>3. PICK x \in Int : x = chipRd + RX_inc
  BY <1>1, <1>2
<1>4. -Wrap <= x /\ x < 2 * Wrap
  BY <1>1, <1>2, <1>3
<1>5. x % Wrap = Wrapped(x, Wrap)
  BY <1>2, <1>4, Remainder
<1>6. RX_RD = Wrapped(chipRd + RX_inc, Wrap)
  BY <1>3, <1>5 DEF Copy, CopyAgrees
<1> QED BY <1>1, <1>2, <1>6 DEF Fresh

LEMMA PointersMove ==
  ASSUME Types, Copy, NEW n \in Nat, n <= Fresh
  PROVE  /\ Advance(RX_RD, n) \in 0 .. Wrap - 1
         /\ Advance(RX_RD, n) = (chipRd + (RX_inc + n)) % Wrap
         /\ (Advance(RX_RD, n) - chipRd) % Wrap = RX_inc + n
         /\ \A i \in 1 .. n : (RX_RD - chipRd + i) % Wrap = RX_inc + i
<1>1. /\ Wrap \in Nat \ {0} /\ chipRd \in 0 .. Wrap - 1 /\ RX_RD \in 0 .. Wrap - 1
      /\ RX_inc \in Nat
  BY Constants DEF Types
<1>2. RX_inc + n < Wrap /\ RX_RD = Wrapped(chipRd + RX_inc, Wrap)
  BY <1>1, CopyInRange
<1>3. Moves(Wrap, chipRd, RX_inc, n, RX_RD)
  BY <1>1, <1>2, Pointers
<1>4. PICK x \in Int : x = chipRd + (RX_inc + n)
  BY <1>1
<1>5. -Wrap <= x /\ x < 2 * Wrap
  BY <1>1, <1>2, <1>4
<1>6. x % Wrap = Wrapped(x, Wrap)
  BY <1>1, <1>5, Remainder
<1> QED BY <1>3, <1>4, <1>6, Zenon DEF Moves, Advance

LEMMA TakenIsAll ==
  ASSUME Types, Copy, NEW n \in Nat, n <= Fresh
  PROVE  Taken(n) = n /\ Known(n) \in Nat /\ n <= Known(n) /\ Known(n) <= Fresh
<1>1. RX_RSR \in Nat /\ Fresh \in Nat /\ RX_RSR <= Fresh
  BY CopyInRange DEF Types
<1>2. Known(n) \in Nat /\ n <= Known(n) /\ Known(n) <= Fresh
  BY <1>1 DEF Known
<1>3. Taken(n) = n
  BY <1>2, Lesser DEF Taken
<1> QED BY <1>2, <1>3

LEMMA DataRead ==
  ASSUME Types, Copy, NEW n \in Nat, n <= Fresh
  PROVE  ReadData(RX_RD, n) = [i \in 1 .. n |-> buf[RX_inc + i]]
<1>1. ASSUME NEW i \in 1 .. n
      PROVE  (RX_RD - chipRd + i) % Wrap = RX_inc + i /\ RX_inc + i \in 1 .. Len(buf)
  <2>1. RX_inc + i \in 1 .. Len(buf)
    BY CopyInRange DEF Types
  <2> QED BY <2>1, PointersMove
<1>2. ASSUME NEW i \in 1 .. n
      PROVE  (LET k == (RX_RD - chipRd + i) % Wrap IN
              IF k \in 1 .. Len(buf) THEN buf[k] ELSE Stale) = buf[RX_inc + i]
  BY <1>1, Zenon
<1> QED BY <1>2, Zenon DEF ReadData

\* The copy still agrees, whether the chip was told or not.
LEMMA Received ==
  ASSUME Types, Copy, NEW n \in Nat \ {0}, n <= Fresh, SocketRecv(n)
  PROVE  /\ Copy'
         /\ buf' \in Seq(Byte) /\ Len(buf') <= Size
         /\ chipRd' \in 0 .. Wrap - 1
         /\ RX_RSR' \in Nat /\ RX_RD' \in 0 .. Wrap - 1 /\ RX_inc' \in Nat
         /\ \/ RX_inc' = RX_inc + n /\ buf' = buf
            \/ RX_inc' = 0 /\ buf' = SubSeq(buf, RX_inc + n + 1, Len(buf))
<1>1. /\ RX_inc \in Nat /\ Len(buf) \in Nat /\ buf \in Seq(Byte) /\ Len(buf) <= Size
      /\ RX_inc + n <= Len(buf) /\ chipRd \in 0 .. Wrap - 1
  BY CopyInRange DEF Types
<1>2. Taken(n) = n /\ Known(n) \in Nat /\ n <= Known(n) /\ Known(n) + RX_inc <= Len(buf)
  BY <1>1, TakenIsAll, CopyInRange
<1>3. RX_RSR' = Known(n) - n /\ RX_RD' = Advance(RX_RD, n)
  BY <1>2 DEF SocketRecv
<1>4. /\ RX_RSR' \in Nat /\ RX_RSR' + (RX_inc + n) <= Len(buf)
      /\ RX_RD' \in 0 .. Wrap - 1
      /\ RX_RD' = (chipRd + (RX_inc + n)) % Wrap
      /\ (RX_RD' - chipRd) % Wrap = RX_inc + n
  <2>1. RX_RSR' \in Nat /\ RX_RSR' + (RX_inc + n) <= Len(buf)
    BY <1>1, <1>2, <1>3
  <2> QED BY <1>3, <2>1, PointersMove
<1>5. CASE Tells(RX_inc + n, RX_RSR')
  <2>1. RX_inc' = 0 /\ SockRecv(RX_RD')
    BY <1>2, <1>5 DEF SocketRecv
  <2>2. chipRd' = RX_RD' /\ buf' = SubSeq(buf, RX_inc + n + 1, Len(buf))
    BY <1>4, <2>1, Zenon DEF SockRecv
  <2>3. buf' \in Seq(Byte) /\ Len(buf') = Len(buf) - (RX_inc + n)
    BY <1>1, <2>2
  <2>4. RX_RD' = (chipRd' + RX_inc') % Wrap
    <3>1. PICK x \in 0 .. Wrap - 1 : x = RX_RD'
      BY <1>4
    <3>2. x % Wrap = x
      BY Constants
    <3>3. x + 0 = x
      OBVIOUS
    <3> QED BY <2>1, <2>2, <3>1, <3>2, <3>3, Zenon
  <2>5. CopyAgrees'
    BY <1>1, <1>4, <2>1, <2>3, <2>4 DEF CopyAgrees
  <2> QED BY <1>1, <1>4, <2>1, <2>2, <2>3, <2>5, Constants DEF Copy
<1>6. CASE ~Tells(RX_inc + n, RX_RSR')
  <2>1. RX_inc' = (RX_inc + n) % IncWrap /\ chipRd' = chipRd /\ buf' = buf
    BY <1>2, <1>6 DEF SocketRecv, chip
  <2>2. RX_inc + n < Batch /\ RX_RSR' # 0
    BY <1>1, <1>4, <1>6, Constants DEF Tells
  <2>3. RX_inc' = RX_inc + n
    <3>1. PICK x \in 0 .. IncWrap - 1 : x = RX_inc + n
      BY <1>1, <2>2, Constants
    <3>2. x % IncWrap = x
      BY Constants
    <3> QED BY <2>1, <3>1, <3>2, Zenon
  <2>4. CopyAgrees'
    BY <1>4, <2>1, <2>3 DEF CopyAgrees
  <2> QED BY <1>1, <1>4, <2>1, <2>2, <2>3, <2>4 DEF Copy
<1> QED BY <1>5, <1>6

\* The cuts are where they were, as seen from the byte to be read next.
LEMMA CutsMove ==
  ASSUME Types, Copy, NEW n \in Nat \ {0}, n <= Fresh, SocketRecv(n),
         NEW c, Holds(c, buf, RX_inc, pending)
  PROVE  \E e \in [1 .. Len(pending) + 1 -> Int] :
           /\ Holds(e, buf', RX_inc', pending)
           /\ \A i \in 1 .. Len(pending) + 1 : e[i] - RX_inc' = c[i] - (RX_inc + n)
<1>1. /\ RX_inc \in Nat /\ buf \in Seq(Byte) /\ pending \in Seq(Datagrams)
      /\ RX_inc + n <= Len(buf) /\ Len(pending) \in Nat
      /\ c \in [1 .. Len(pending) + 1 -> Int]
  BY CopyInRange DEF Types, Holds
<1>2. PICK m \in Nat : m = RX_inc + n
  BY <1>1
<1>3. /\ Holds([i \in 1 .. Len(pending) + 1 |-> c[i] - m], SubSeq(buf, m + 1, Len(buf)), 0, pending)
      /\ Holds(c, buf, m, pending)
  <2>1. RX_inc <= m /\ m <= Len(buf)
    BY <1>1, <1>2
  <2> QED BY <1>1, <2>1, BytesTold, Zenon
<1>4. CASE RX_inc' = RX_inc + n /\ buf' = buf
  BY <1>1, <1>2, <1>3, <1>4
<1>5. CASE RX_inc' = 0 /\ buf' = SubSeq(buf, RX_inc + n + 1, Len(buf))
  <2> DEFINE e == [i \in 1 .. Len(pending) + 1 |-> c[i] - m]
  <2>1. e \in [1 .. Len(pending) + 1 -> Int]
    BY <1>1
  <2>2. Holds(e, buf', RX_inc', pending)
    BY <1>2, <1>3, <1>5, Zenon
  <2>3. ASSUME NEW i \in 1 .. Len(pending) + 1 PROVE e[i] - RX_inc' = c[i] - (RX_inc + n)
    BY <1>1, <1>2, <1>5
  <2> QED BY <2>1, <2>2, <2>3
<1> QED BY <1>4, <1>5, Received, Zenon

-----------------------------------------------------------------------------
(* The invariant                                                             *)

LEMMA Starts == Init => Inv
<1> SUFFICES ASSUME Init PROVE Inv
  OBVIOUS
<1>1. /\ buf = <<>> /\ chipRd \in 0 .. Wrap - 1
      /\ RX_RSR = 0 /\ RX_RD = chipRd /\ RX_inc = 0 /\ remaining = 0
      /\ at = "parse" /\ msgLength = 0 /\ inBuffer = <<>> /\ pending = <<>> /\ tag = 0
  BY DEF Init
<1>2. Types
  BY <1>1, Constants DEF Types
<1>3. RX_RD = (chipRd + RX_inc) % Wrap
  <2>1. PICK x \in 0 .. Wrap - 1 : x = chipRd
    BY <1>1
  <2>2. x % Wrap = x /\ x + 0 = x
    BY Constants
  <2> QED BY <1>1, <2>1, <2>2, Zenon
<1>4. Copy
  BY <1>1, <1>3, Constants DEF Copy, CopyAgrees
<1>5. Cuts
  <2> DEFINE c == [i \in 1 .. 1 |-> 0]
  <2>1. c \in [1 .. Len(pending) + 1 -> Int] /\ c[1] = RX_inc - Gone
    BY <1>1 DEF Gone
  <2>2. Holds(c, buf, RX_inc, pending)
    BY <1>1, <2>1 DEF Holds
  <2> QED BY <2>1, <2>2 DEF Cuts
<1>6. Stage
  BY <1>1 DEF Stage
<1> QED BY <1>2, <1>4, <1>5, <1>6 DEF Inv

\* While a datagram is being read the rest of it is there.
LEMMA FirstThere ==
  ASSUME Inv, pending # <<>>,
         NEW c, c[1] = RX_inc - Gone, Holds(c, buf, RX_inc, pending)
  PROVE  /\ 1 \in 1 .. Len(pending) /\ pending[1] \in Datagrams /\ pending[1] = Head(pending)
         /\ pending[1].len \in Nat /\ Span(pending[1]) = Header + pending[1].len
         /\ Gone \in Int /\ Span(pending[1]) - Gone <= Fresh
         /\ \A k \in 1 .. Span(pending[1]) : k > Gone =>
              buf[RX_inc + (k - Gone)] = [of |-> pending[1], pos |-> k]
<1>1. /\ pending \in Seq(Datagrams) /\ buf \in Seq(Byte) /\ RX_inc \in Nat
      /\ msgLength \in Nat /\ remaining \in Nat
  BY DEF Inv, Types
<1>2. 1 \in 1 .. Len(pending) /\ pending[1] \in Datagrams /\ pending[1] = Head(pending)
  BY <1>1
<1>3. pending[1].len \in Nat /\ Span(pending[1]) = Header + pending[1].len
  BY <1>2, Bytes DEF Span
<1>4. Gone \in Int
  BY <1>1, Constants DEF Gone
<1>5. /\ Span(pending[1]) \in Nat
      /\ c[1] \in Int /\ c[2] = c[1] + Span(pending[1]) /\ c[2] <= Len(buf)
      /\ \A k \in 1 .. Span(pending[1]) : c[1] + k > RX_inc =>
           buf[c[1] + k] = [of |-> pending[1], pos |-> k]
  <2>1. PICK i \in 1 .. Len(pending) : i = 1
    BY <1>2
  <2>2. Lies(c, buf, RX_inc, pending, i)
    BY <1>1, Laid
  <2>3. i + 1 = 2 /\ Span(pending[i]) \in Nat
    BY <2>1, <2>2 DEF Lies
  <2> QED BY <2>1, <2>2, <2>3, Zenon DEF Lies
<1>6. Span(pending[1]) - Gone <= Fresh
  BY <1>1, <1>4, <1>5, CopyInRange DEF Inv
<1>7. ASSUME NEW k \in 1 .. Span(pending[1]), k > Gone
      PROVE  buf[RX_inc + (k - Gone)] = [of |-> pending[1], pos |-> k]
  <2>1. c[1] + k > RX_inc /\ c[1] + k = RX_inc + (k - Gone)
    BY <1>1, <1>4, <1>5, <1>7
  <2> QED BY <1>5, <2>1
<1> QED BY <1>2, <1>3, <1>4, <1>6, <1>7

LEMMA Arriving ==
  ASSUME Inv, NEW n \in Lens, Arrive(n)
  PROVE  Inv'
<1> DEFINE new == [tag |-> tag, len |-> n]
<1>1. /\ Len(buf) + Header + n <= Size
      /\ buf' = buf \o BytesOf(new) /\ pending' = Append(pending, new)
      /\ tag' = (tag + 1) % Tags
      /\ UNCHANGED <<chipRd, copy, remaining, at, local>>
  BY DEF Arrive
<1>2. /\ new \in Datagrams /\ Span(new) = Header + n /\ Span(new) \in Nat
      /\ BytesOf(new) \in Seq(Byte) /\ Len(BytesOf(new)) = Span(new)
  <2>1. new \in Datagrams
    BY DEF Inv, Types, Datagrams
  <2> QED BY <2>1, Bytes DEF Span
<1> HIDE DEF new
<1>3. /\ buf \in Seq(Byte) /\ pending \in Seq(Datagrams) /\ RX_inc \in Nat
      /\ Len(buf) \in Nat /\ Len(pending) \in Nat /\ RX_inc <= Len(buf)
  BY CopyInRange DEF Inv, Types
<1>4. /\ buf' \in Seq(Byte) /\ Len(buf') = Len(buf) + Span(new) /\ Len(buf') <= Size
  <2>1. PICK t \in Seq(Byte) : t = BytesOf(new)
    BY <1>2
  <2>2. buf \o t \in Seq(Byte) /\ Len(buf \o t) = Len(buf) + Len(t)
    BY <1>3
  <2>3. Len(buf) + Span(new) <= Size
    <3>1. n \in Nat /\ Header \in Nat
      BY Constants
    <3> QED BY <1>1, <1>2, <1>3, <3>1
  <2> QED BY <1>1, <1>2, <2>1, <2>2, <2>3
<1>5. /\ pending' \in Seq(Datagrams) /\ Len(pending') = Len(pending) + 1
      /\ \A i \in 1 .. Len(pending) : pending'[i] = pending[i]
      /\ pending'[Len(pending) + 1] = new
      /\ pending' # <<>>
  <2>1. PICK d \in Datagrams : d = new
    BY <1>2
  <2>2. /\ Append(pending, d) \in Seq(Datagrams) /\ Len(Append(pending, d)) = Len(pending) + 1
        /\ \A i \in 1 .. Len(pending) : Append(pending, d)[i] = pending[i]
        /\ Append(pending, d)[Len(pending) + 1] = d
    BY <1>3
  <2>3. Append(pending, d) # <<>>
    BY <1>3, <2>2
  <2> QED BY <1>1, <2>1, <2>2, <2>3, Zenon
<1>6. Types'
  <2>1. ASSUME NEW i \in 1 .. Len(pending') PROVE Span(pending'[i]) <= Size
    <3>1. i = Len(pending) + 1 \/ i \in 1 .. Len(pending)
      BY <1>3, <1>5
    <3>2. Span(new) <= Size
      <4>1. Size \in Nat
        BY Constants
      <4> QED BY <1>2, <1>3, <1>4, <4>1
    <3>3. \A k \in 1 .. Len(pending) : Span(pending[k]) <= Size
      BY DEF Inv, Types
    <3> QED BY <1>5, <3>1, <3>2, <3>3
  <2>2. tag' \in 0 .. Tags - 1
    <3>1. Tags \in Nat \ {0} /\ tag + 1 \in Nat
      BY Constants DEF Inv, Types
    <3> QED BY <1>1, <3>1
  <2> QED BY <1>1, <1>4, <1>5, <2>1, <2>2 DEF Inv, Types, copy, local
<1>7. Copy'
  BY <1>1, <1>2, <1>3, <1>4 DEF Inv, Types, Copy, CopyAgrees, copy
<1>8. Cuts'
  <2>1. PICK c \in [1 .. Len(pending) + 1 -> Int] :
          c[1] = RX_inc - Gone /\ Holds(c, buf, RX_inc, pending)
    BY DEF Inv, Cuts
  <2> DEFINE e == [i \in 1 .. Len(pending) + 2 |-> IF i <= Len(pending) + 1 THEN c[i]
                                                  ELSE Len(buf) + Span(new)]
  <2>2. Holds(e, buf', RX_inc', pending')
    BY <1>1, <1>2, <1>3, <2>1, OneMore DEF copy
  <2>3. e \in [1 .. Len(pending') + 1 -> Int] /\ e[1] = c[1]
    BY <1>2, <1>3, <1>5
  <2>4. Gone' = Gone /\ RX_inc' = RX_inc
    BY <1>1 DEF Gone, copy, local
  <2> QED BY <2>1, <2>2, <2>3, <2>4, Zenon DEF Cuts
<1>9. Stage'
  <2>1. at # "parse" => pending'[1] = pending[1]
    <3>1. at # "parse" => 1 \in 1 .. Len(pending)
      BY <1>3 DEF Inv, Stage
    <3> QED BY <1>5, <3>1
  <2>2. UNCHANGED <<at, remaining, msgLength, inBuffer>>
    BY <1>1 DEF local
  <2> QED BY <1>5, <2>1, <2>2 DEF Inv, Stage
<1> QED BY <1>6, <1>7, <1>8, <1>9 DEF Inv

LEMMA Parsing ==
  ASSUME Inv, ParsePacket
  PROVE  Inv'
<1>1. /\ at = "parse" /\ RX_RSR' = (IF RX_RSR = 0 THEN Fresh ELSE RX_RSR)
      /\ at' = (IF RX_RSR' > 0 THEN "header" ELSE "parse")
      /\ UNCHANGED <<buf, chipRd, RX_RD, RX_inc, remaining, msgLength, inBuffer, pending, tag>>
  BY DEF ParsePacket, chip, local, sent
<1>2. /\ RX_RSR' \in Nat /\ RX_RSR' <= Fresh /\ Fresh = Len(buf) - RX_inc
      /\ RX_inc \in Nat /\ Len(buf) \in Nat
      /\ RX_RSR = 0 => RX_inc = 0
      /\ RX_RSR \in Nat
  BY <1>1, CopyInRange DEF Inv, Types, Copy
<1>3. Types'
  BY <1>1, <1>2 DEF Inv, Types
<1>4. Copy'
  <2>1. RX_RSR' + RX_inc' <= Len(buf')
    BY <1>1, <1>2
  <2>2. RX_inc' > 0 => RX_RSR' > 0
    BY <1>1, <1>2
  <2> QED BY <1>1, <2>1, <2>2 DEF Inv, Copy, CopyAgrees
<1>5. PICK c \in [1 .. Len(pending) + 1 -> Int] :
        c[1] = RX_inc - Gone /\ Holds(c, buf, RX_inc, pending)
  BY DEF Inv, Cuts
<1>6. Gone = 0 /\ Gone' = 0
  BY <1>1 DEF Gone
<1>7. Cuts'
  BY <1>1, <1>5, <1>6, Zenon DEF Cuts
<1>8. at' = "header" => pending # <<>>
  <2> SUFFICES ASSUME RX_RSR' > 0, pending = <<>> PROVE FALSE
    BY <1>1
  <2>1. c[1] = Len(buf)
    BY <1>5 DEF Holds
  <2> QED BY <1>2, <1>5, <1>6, <2>1
<1>9. Stage'
  BY <1>1, <1>8 DEF Inv, Stage
<1> QED BY <1>3, <1>4, <1>7, <1>9 DEF Inv

LEMMA HeaderParsing ==
  ASSUME Inv, ParseHeader
  PROVE  Inv'
<1>1. at = "header" /\ pending # <<>> /\ Gone = 0 /\ inBuffer = <<>>
  BY DEF ParseHeader, Inv, Stage, Gone
<1>2. PICK c \in [1 .. Len(pending) + 1 -> Int] :
        c[1] = RX_inc - Gone /\ Holds(c, buf, RX_inc, pending)
  BY DEF Inv, Cuts
<1>3. /\ 1 \in 1 .. Len(pending) /\ pending[1] \in Datagrams
      /\ pending[1].len \in Nat /\ Span(pending[1]) = Header + pending[1].len
      /\ Span(pending[1]) - Gone <= Fresh
      /\ \A k \in 1 .. Span(pending[1]) : k > Gone =>
           buf[RX_inc + (k - Gone)] = [of |-> pending[1], pos |-> k]
  BY <1>1, <1>2, FirstThere
<1>4. Types /\ Copy /\ pending \in Seq(Datagrams) /\ Header \in Nat \ {0} /\ RX_inc \in Nat
  BY Constants DEF Inv, Types
<1>5. Header <= Fresh
  BY <1>1, <1>3, <1>4, CopyInRange
<1>6. ReadData(RX_RD, Header)[Header].of.len = pending[1].len
  <2>1. PICK h \in Nat \ {0} : h = Header
    BY <1>4
  <2>2. ReadData(RX_RD, h) = [i \in 1 .. h |-> buf[RX_inc + i]]
    BY <1>4, <1>5, <2>1, DataRead
  <2>3. ReadData(RX_RD, h)[h] = buf[RX_inc + h]
    BY <2>2
  <2>4. h \in 1 .. Span(pending[1]) /\ h > Gone /\ h - Gone = h
    BY <1>1, <1>3, <2>1
  <2>5. buf[RX_inc + h] = [of |-> pending[1], pos |-> h]
    BY <1>3, <2>4
  <2> QED BY <2>1, <2>3, <2>5
<1>7. /\ SocketRecv(Header)
      /\ remaining' = pending[1].len /\ msgLength' = pending[1].len
      /\ UNCHANGED <<inBuffer, tag>>
      /\ IF pending[1].len > 0
         THEN at' = "read" /\ UNCHANGED pending
         ELSE at' = "parse" /\ pending' = Tail(pending)
  BY <1>6 DEF ParseHeader
<1>8. /\ Copy'
      /\ buf' \in Seq(Byte) /\ Len(buf') <= Size
      /\ chipRd' \in 0 .. Wrap - 1
      /\ RX_RSR' \in Nat /\ RX_RD' \in 0 .. Wrap - 1 /\ RX_inc' \in Nat
  BY <1>4, <1>5, <1>7, Received
<1>9. PICK e \in [1 .. Len(pending) + 1 -> Int] :
        /\ Holds(e, buf', RX_inc', pending)
        /\ \A i \in 1 .. Len(pending) + 1 : e[i] - RX_inc' = c[i] - (RX_inc + Header)
  BY <1>2, <1>4, <1>5, <1>7, CutsMove
<1>10. e[1] = RX_inc' - Header
  <2>1. 1 \in 1 .. Len(pending) + 1 /\ c[1] = RX_inc
    BY <1>1, <1>2, <1>3, <1>4
  <2>2. e[1] - RX_inc' = c[1] - (RX_inc + Header) /\ e[1] \in Int
    BY <1>9, <2>1
  <2>3. PICK x \in Nat : x = RX_inc'
    BY <1>8
  <2>4. PICK y \in Int : y = e[1]
    BY <2>2
  <2>5. y - x = RX_inc - (RX_inc + Header)
    BY <2>1, <2>2, <2>3, <2>4, Zenon
  <2>6. y = x - Header
    BY <1>4, <2>5
  <2> QED BY <2>3, <2>4, <2>6, Zenon
<1>11. CASE pending[1].len > 0
  <2>1. at' = "read" /\ pending' = pending
    BY <1>7, <1>11
  <2>2. Types'
    BY <1>3, <1>7, <1>8, <2>1 DEF Inv, Types
  <2>3. Gone' = Header
    BY <2>1 DEF Gone
  <2>4. Cuts'
    BY <1>9, <1>10, <2>1, <2>3, Zenon DEF Cuts
  <2>5. Stage'
    BY <1>1, <1>3, <1>7, <1>11, <2>1 DEF Stage
  <2> QED BY <1>8, <2>2, <2>4, <2>5 DEF Inv
<1>12. CASE ~(pending[1].len > 0)
  <2>1. at' = "parse" /\ pending' = Tail(pending) /\ pending[1].len = 0
    BY <1>3, <1>7, <1>12
  <2>2. Types'
    <3>1. /\ Tail(pending) \in Seq(Datagrams) /\ Len(Tail(pending)) = Len(pending) - 1
          /\ \A i \in 1 .. Len(pending) - 1 : Tail(pending)[i] = pending[i + 1]
      BY <1>1, <1>4
    <3>2. ASSUME NEW i \in 1 .. Len(pending') PROVE Span(pending'[i]) <= Size
      <4>1. i + 1 \in 1 .. Len(pending) /\ pending'[i] = pending[i + 1]
        BY <1>4, <2>1, <3>1
      <4> QED BY <4>1 DEF Inv, Types
    <3> QED BY <1>3, <1>7, <1>8, <2>1, <3>1, <3>2 DEF Inv, Types
  <2>3. Gone' = 0
    BY <2>1 DEF Gone
  <2>4. e[1] + Span(pending[1]) = RX_inc'
    <3>1. PICK x \in Nat : x = RX_inc'
      BY <1>8
    <3>2. Span(pending[1]) = Header /\ x - Header + Header = x
      BY <1>3, <1>4, <2>1
    <3> QED BY <1>10, <3>1, <3>2
  <2>5. PICK f \in [1 .. Len(pending') + 1 -> Int] :
          f[1] = RX_inc' /\ Holds(f, buf', RX_inc', pending')
    BY <1>1, <1>4, <1>8, <1>9, <2>1, <2>4, FirstDone
  <2>6. f[1] = RX_inc' - Gone'
    <3>1. PICK x \in Nat : x = RX_inc'
      BY <1>8
    <3>2. x - 0 = x
      OBVIOUS
    <3> QED BY <2>3, <2>5, <3>1, <3>2, Zenon
  <2>7. Cuts'
    BY <2>5, <2>6, Zenon DEF Cuts
  <2>8. Stage'
    BY <1>1, <1>7, <2>1 DEF Stage
  <2> QED BY <1>8, <2>2, <2>7, <2>8 DEF Inv
<1> QED BY <1>11, <1>12

LEMMA Handling ==
  ASSUME Inv, Handled
  PROVE  Inv'
<1>1. /\ at = "done" /\ at' = "parse" /\ msgLength' = 0 /\ inBuffer' = <<>>
      /\ pending' = Tail(pending) /\ pending # <<>>
      /\ remaining = 0 /\ msgLength = pending[1].len
      /\ UNCHANGED <<buf, chipRd, RX_RSR, RX_RD, RX_inc, remaining, tag>>
  BY DEF Handled, Inv, Stage, chip, copy
<1>2. pending \in Seq(Datagrams) /\ buf \in Seq(Byte) /\ RX_inc \in Nat /\ Header \in Nat
  BY Constants DEF Inv, Types
<1>3. Types'
  <2>1. /\ Tail(pending) \in Seq(Datagrams) /\ Len(Tail(pending)) = Len(pending) - 1
        /\ \A i \in 1 .. Len(pending) - 1 : Tail(pending)[i] = pending[i + 1]
    BY <1>1, <1>2
  <2>2. ASSUME NEW i \in 1 .. Len(pending') PROVE Span(pending'[i]) <= Size
    <3>1. i + 1 \in 1 .. Len(pending) /\ pending'[i] = pending[i + 1]
      BY <1>1, <1>2, <2>1
    <3> QED BY <3>1 DEF Inv, Types
  <2> QED BY <1>1, <2>1, <2>2 DEF Inv, Types
<1>4. Copy'
  BY <1>1 DEF Inv, Copy, CopyAgrees
<1>5. Cuts'
  <2>1. PICK c \in [1 .. Len(pending) + 1 -> Int] :
          c[1] = RX_inc - Gone /\ Holds(c, buf, RX_inc, pending)
    BY DEF Inv, Cuts
  <2>2. Gone = Header + pending[1].len /\ Gone' = 0
    <3>1. pending[1].len \in Nat
      BY <1>1, <2>1, FirstThere
    <3> QED BY <1>1, <1>2, <3>1 DEF Gone
  <2>3. Span(pending[1]) = Gone /\ Gone \in Int
    BY <1>1, <2>1, <2>2, FirstThere
  <2>4. c[1] + Span(pending[1]) = RX_inc
    BY <1>2, <2>1, <2>3
  <2>5. PICK f \in [1 .. Len(pending') + 1 -> Int] :
          f[1] = RX_inc /\ Holds(f, buf, RX_inc, pending')
    BY <1>1, <1>2, <2>1, <2>4, FirstDone
  <2>6. f[1] = RX_inc' - Gone'
    BY <1>1, <1>2, <2>2, <2>5
  <2> QED BY <1>1, <2>5, <2>6, Zenon DEF Cuts
<1>6. Stage'
  BY <1>1 DEF Stage
<1> QED BY <1>3, <1>4, <1>5, <1>6 DEF Inv

\* n more bytes of the first datagram are read.
LEMMA ReadOn ==
  ASSUME Inv, NEW n \in Nat \ {0}, n <= Fresh, SocketRecv(n),
         pending' = pending, Gone \in Int, Gone' = Gone + n
  PROVE  Copy' /\ Cuts'
<1>1. Types /\ Copy /\ RX_inc \in Nat /\ Len(pending) \in Nat
  BY DEF Inv, Types
<1>2. Copy' /\ RX_inc' \in Nat
  BY <1>1, Received
<1>3. PICK c \in [1 .. Len(pending) + 1 -> Int] :
        c[1] = RX_inc - Gone /\ Holds(c, buf, RX_inc, pending)
  BY DEF Inv, Cuts
<1>4. PICK e \in [1 .. Len(pending) + 1 -> Int] :
        /\ Holds(e, buf', RX_inc', pending)
        /\ \A i \in 1 .. Len(pending) + 1 : e[i] - RX_inc' = c[i] - (RX_inc + n)
  BY <1>1, <1>3, CutsMove
<1>5. e[1] = RX_inc' - Gone'
  <2>1. 1 \in 1 .. Len(pending) + 1
    BY <1>1
  <2>2. e[1] - RX_inc' = c[1] - (RX_inc + n) /\ e[1] \in Int
    BY <1>4, <2>1
  <2>3. PICK x \in Nat : x = RX_inc'
    BY <1>2
  <2>4. PICK y \in Int : y = e[1]
    BY <2>2
  <2>5. PICK g \in Int : g = Gone
    OBVIOUS
  <2>6. y - x = (RX_inc - g) - (RX_inc + n)
    BY <1>3, <2>2, <2>3, <2>4, <2>5, Zenon
  <2>7. y = x - (g + n)
    BY <1>1, <2>6
  <2>8. Gone' = g + n
    BY <2>5, Zenon
  <2> QED BY <2>3, <2>4, <2>7, <2>8, Zenon
<1>6. Cuts'
  BY <1>4, <1>5, Zenon DEF Cuts
<1> QED BY <1>2, <1>6

LEMMA Reading ==
  ASSUME Inv, Read
  PROVE  Inv'
<1> DEFINE n == Min({remaining, InBuf})
           d == pending[1]
<1>1. /\ at = "read" /\ pending # <<>> /\ Gone = Header
      /\ remaining = d.len /\ msgLength = d.len /\ msgLength > 0
  BY DEF Read, Inv, Stage, Gone
<1>2. PICK c \in [1 .. Len(pending) + 1 -> Int] :
        c[1] = RX_inc - Gone /\ Holds(c, buf, RX_inc, pending)
  BY DEF Inv, Cuts
<1>3. /\ d \in Datagrams /\ d.len \in Nat /\ Span(d) = Header + d.len
      /\ Span(d) - Gone <= Fresh
      /\ \A k \in 1 .. Span(d) : k > Gone => buf[RX_inc + (k - Gone)] = [of |-> d, pos |-> k]
  BY <1>1, <1>2, FirstThere
<1>4. /\ Types /\ Copy /\ pending \in Seq(Datagrams) /\ RX_inc \in Nat
      /\ Header \in Nat \ {0} /\ InBuf \in Nat \ {0}
  BY Constants DEF Inv, Types
<1>5. n = (IF d.len <= InBuf THEN d.len ELSE InBuf)
  BY <1>1, <1>3, <1>4, Lesser
<1>6. n \in Nat \ {0} /\ n <= d.len /\ n <= InBuf /\ n <= Fresh
  <2>1. d.len <= Fresh
    BY <1>1, <1>3, <1>4, CopyInRange
  <2> QED BY <1>1, <1>3, <1>4, <1>5, <2>1, CopyInRange
<1> HIDE DEF n
<1>7. /\ SocketRecv(n)
      /\ inBuffer' = ReadData(RX_RD, n) /\ remaining' = remaining - n
      /\ at' = "drain" /\ msgLength' = msgLength /\ pending' = pending /\ tag' = tag
  <2>1. Taken(n) = n
    BY <1>4, <1>6, TakenIsAll
  <2> QED BY <2>1 DEF Read, sent, n
<1>8. inBuffer' = Data(d)
  <2>1. inBuffer' = [i \in 1 .. n |-> buf[RX_inc + i]]
    BY <1>4, <1>6, <1>7, DataRead
  <2>2. ASSUME NEW i \in 1 .. n PROVE buf[RX_inc + i] = [of |-> d, pos |-> Header + i]
    <3>1. PICK k \in Nat : k = Header + i
      BY <1>4, <1>6
    <3>2. k \in 1 .. Span(d) /\ k > Gone /\ k - Gone = i
      BY <1>1, <1>3, <1>4, <1>6, <3>1
    <3> QED BY <1>3, <3>1, <3>2
  <2>3. Min({d.len, InBuf}) = n
    BY <1>1 DEF n
  <2>4. Data(d) = SubSeq(BytesOf(d), Header + 1, Header + n)
    BY <2>3 DEF Data
  <2>5. /\ BytesOf(d) \in Seq(Byte) /\ Len(BytesOf(d)) = Span(d)
        /\ \A k \in 1 .. Span(d) : BytesOf(d)[k] = [of |-> d, pos |-> k]
    BY <1>3, Bytes
  <2>6. SubSeq(BytesOf(d), Header + 1, Header + n) = [i \in 1 .. n |-> BytesOf(d)[Header + i]]
    <3>1. PICK t \in Seq(Byte) : t = BytesOf(d)
      BY <2>5
    <3>2. Header + n <= Len(t)
      BY <1>3, <1>4, <1>6, <2>5, <3>1
    <3>3. SubSeq(t, Header + 1, Header + n) = [i \in 1 .. n |-> t[Header + i]]
      <4>1. Header + n - (Header + 1) + 1 = n
        BY <1>4, <1>6
      <4>2. \A i \in 1 .. n : i + (Header + 1) - 1 = Header + i
        BY <1>4, <1>6
      <4>3. SubSeq(t, Header + 1, Header + n) =
              [i \in 1 .. (Header + n - (Header + 1) + 1) |-> t[i + (Header + 1) - 1]]
        BY <1>4, <1>6, <3>2
      <4> QED BY <4>1, <4>2, <4>3
    <3> QED BY <3>1, <3>3
  <2>7. ASSUME NEW i \in 1 .. n PROVE BytesOf(d)[Header + i] = [of |-> d, pos |-> Header + i]
    <3>1. Header + i \in 1 .. Span(d)
      BY <1>3, <1>4, <1>6
    <3> QED BY <2>5, <3>1
  <2> QED BY <2>1, <2>2, <2>4, <2>6, <2>7
<1>9. Gone \in Int /\ Gone' = Gone + n
  <2>1. Gone' = Header + msgLength - (remaining - n)
    BY <1>7 DEF Gone
  <2> QED BY <1>1, <1>3, <1>4, <1>6, <2>1
<1>10. Copy' /\ Cuts'
  BY <1>6, <1>7, <1>9, ReadOn
<1>11. remaining' \in Nat /\ remaining' <= msgLength
  BY <1>1, <1>3, <1>6, <1>7
<1>12. Types'
  <2>1. /\ buf' \in Seq(Byte) /\ Len(buf') <= Size
        /\ chipRd' \in 0 .. Wrap - 1
        /\ RX_RSR' \in Nat /\ RX_RD' \in 0 .. Wrap - 1 /\ RX_inc' \in Nat
    BY <1>4, <1>6, <1>7, Received
  <2> QED BY <1>7, <1>11, <2>1 DEF Inv, Types
<1>13. Stage'
  BY <1>1, <1>7, <1>8, <1>11 DEF Stage
<1> QED BY <1>10, <1>12, <1>13 DEF Inv

LEMMA Draining ==
  ASSUME Inv, Drain
  PROVE  Inv'
<1>1. /\ at = "drain" /\ pending # <<>> /\ remaining > 0
      /\ msgLength = pending[1].len /\ remaining <= msgLength
      /\ Gone = Header + msgLength - remaining
  BY DEF Drain, Inv, Stage, Gone
<1>2. PICK c \in [1 .. Len(pending) + 1 -> Int] :
        c[1] = RX_inc - Gone /\ Holds(c, buf, RX_inc, pending)
  BY DEF Inv, Cuts
<1>3. /\ pending[1].len \in Nat /\ Span(pending[1]) = Header + pending[1].len
      /\ Gone \in Int /\ Span(pending[1]) - Gone <= Fresh
  BY <1>1, <1>2, FirstThere
<1>4. Types /\ Copy /\ remaining \in Nat /\ Header \in Nat /\ 1 \in Nat \ {0}
  BY Constants DEF Inv, Types
<1>5. 1 <= Fresh
  BY <1>1, <1>3, <1>4, CopyInRange
<1>6. /\ SocketRecv(1) /\ remaining' = remaining - 1
      /\ UNCHANGED <<at, msgLength, inBuffer, pending, tag>>
  <2>1. Taken(1) = 1
    BY <1>4, <1>5, TakenIsAll
  <2> QED BY <2>1 DEF Drain, local, sent
<1>7. Gone' = Gone + 1
  <2>1. Gone' = Header + msgLength - (remaining - 1)
    BY <1>1, <1>6 DEF Gone
  <2>2. msgLength \in Nat
    BY <1>4 DEF Types
  <2>3. Gone = Header + msgLength - remaining
    BY <1>1
  <2> QED BY <1>4, <2>1, <2>2, <2>3
<1>8. Copy' /\ Cuts'
  BY <1>3, <1>4, <1>5, <1>6, <1>7, ReadOn
<1>9. remaining' \in Nat /\ remaining' <= msgLength
  BY <1>1, <1>3, <1>4, <1>6
<1>10. Types'
  <2>1. /\ buf' \in Seq(Byte) /\ Len(buf') <= Size
        /\ chipRd' \in 0 .. Wrap - 1
        /\ RX_RSR' \in Nat /\ RX_RD' \in 0 .. Wrap - 1 /\ RX_inc' \in Nat
    BY <1>4, <1>5, <1>6, Received
  <2> QED BY <1>6, <1>9, <2>1 DEF Inv, Types
<1>11. Stage'
  BY <1>1, <1>6, <1>9 DEF Inv, Stage
<1> QED BY <1>8, <1>10, <1>11 DEF Inv

LEMMA AllDrained ==
  ASSUME Inv, Drained
  PROVE  Inv'
<1>1. /\ at = "drain" /\ at' = "done" /\ remaining = 0
      /\ UNCHANGED <<buf, chipRd, RX_RSR, RX_RD, RX_inc, remaining, msgLength, inBuffer,
                     pending, tag>>
  BY DEF Drained, chip, copy, local, sent
<1>2. Gone' = Gone
  BY <1>1 DEF Gone
<1> QED BY <1>1, <1>2 DEF Inv, Types, Copy, CopyAgrees, Cuts, Stage

LEMMA Steps ==
  ASSUME Inv, [Next]_vars
  PROVE  Inv'
<1>1. CASE RecvUdp
  <2>1. CASE ParsePacket
    BY <2>1, Parsing
  <2>2. CASE ParseHeader
    BY <2>2, HeaderParsing
  <2>3. CASE Read
    BY <2>3, Reading
  <2>4. CASE Drain
    BY <2>4, Draining
  <2>5. CASE Drained
    BY <2>5, AllDrained
  <2>6. CASE Handled
    BY <2>6, Handling
  <2> QED BY <1>1, <2>1, <2>2, <2>3, <2>4, <2>5, <2>6 DEF RecvUdp
<1>2. CASE \E n \in Lens : Arrive(n)
  BY <1>2, Arriving
<1>3. CASE UNCHANGED vars
  <2>1. UNCHANGED <<buf, chipRd, RX_RSR, RX_RD, RX_inc, remaining, at, msgLength, inBuffer,
                    pending, tag>>
    BY <1>3 DEF vars, chip, copy, local, sent
  <2>2. Gone' = Gone
    BY <2>1 DEF Gone
  <2> QED BY <2>1, <2>2 DEF Inv, Types, Copy, CopyAgrees, Cuts, Stage
<1> QED BY <1>1, <1>2, <1>3 DEF Next

LEMMA Invariance == Spec => []Inv
BY Starts, Steps, PTL DEF Spec

-----------------------------------------------------------------------------
(* What the invariant says of the code                                       *)

LEMMA FirstFits ==
  ASSUME Inv, pending # <<>>
  PROVE  /\ pending[1] \in Datagrams /\ pending[1].len \in Nat /\ pending[1].len <= Size
         /\ Data(pending[1]) \in Seq(Byte) /\ Len(Data(pending[1])) <= InBuf
<1> DEFINE d == pending[1]
           n == Min({d.len, InBuf})
<1>1. d \in Datagrams /\ 1 \in 1 .. Len(pending)
  BY DEF Inv, Types
<1>2. /\ Header \in Nat \ {0} /\ InBuf \in Nat \ {0} /\ Size \in Nat
      /\ d.len \in Nat /\ Span(d) = Header + d.len /\ Span(d) <= Size
      /\ BytesOf(d) \in Seq(Byte) /\ Len(BytesOf(d)) = Span(d)
  <2>1. Span(d) <= Size
    BY <1>1 DEF Inv, Types
  <2> QED BY <1>1, <2>1, Bytes, Constants DEF Span
<1>3. n \in Nat /\ n <= d.len /\ n <= InBuf
  <2>1. n = (IF d.len <= InBuf THEN d.len ELSE InBuf)
    BY <1>2, Lesser
  <2> HIDE DEF n
  <2> QED BY <1>2, <2>1
<1> HIDE DEF n
<1>4. Data(d) = SubSeq(BytesOf(d), Header + 1, Header + n)
  BY DEF Data, n
<1>5. Data(d) \in Seq(Byte) /\ Len(Data(d)) = n
  <2>1. PICK t \in Seq(Byte) : t = BytesOf(d)
    BY <1>2
  <2>2. Header + n <= Len(t)
    BY <1>2, <1>3, <2>1
  <2>3. /\ SubSeq(t, Header + 1, Header + n) \in Seq(Byte)
        /\ Len(SubSeq(t, Header + 1, Header + n)) = n
    BY <1>2, <1>3, <2>2
  <2> QED BY <1>4, <2>1, <2>3
<1> QED BY <1>1, <1>2, <1>3, <1>5

LEMMA InvTypes == Inv => TypeOK
<1> SUFFICES ASSUME Inv PROVE TypeOK
  OBVIOUS
<1>1. /\ Types /\ Copy /\ Stage
      /\ Batch <= IncWrap /\ {Size, InBuf, Batch, IncWrap} \subseteq Nat \ {0}
  BY Constants DEF Inv
<1>2. Len(buf) \in Nat /\ RX_RSR + RX_inc <= Len(buf) /\ RX_inc < Batch
  BY <1>1 DEF Types, Copy, CopyAgrees
<1>3. RX_RSR \in 0 .. Size /\ RX_inc \in 0 .. IncWrap - 1
  BY <1>1, <1>2 DEF Types
<1>4. msgLength \in 0 .. Size /\ remaining \in 0 .. Size
  <2>1. CASE at \in {"parse", "header"}
    BY <1>1, <2>1 DEF Stage
  <2>2. CASE at \in {"read", "drain", "done"}
    <3>1. msgLength = pending[1].len /\ remaining <= msgLength /\ pending # <<>>
      BY <1>1, <2>2 DEF Stage
    <3>2. msgLength <= Size /\ remaining \in Nat /\ msgLength \in Nat
      BY <1>1, <3>1, FirstFits DEF Types
    <3> QED BY <1>1, <3>1, <3>2
  <2> QED BY <1>1, <2>1, <2>2 DEF Types
<1>5. Len(inBuffer) <= InBuf
  <2>1. CASE at \in {"parse", "header", "read"}
    BY <1>1, <2>1 DEF Stage
  <2>2. CASE at \in {"drain", "done"}
    <3>1. inBuffer = Data(pending[1]) /\ pending # <<>>
      BY <1>1, <2>2 DEF Stage
    <3> QED BY <3>1, FirstFits
  <2> QED BY <1>1, <2>1, <2>2 DEF Types
<1> QED BY <1>1, <1>3, <1>4, <1>5 DEF TypeOK, Types

LEMMA InvIntact == Inv => DatagramsIntact
<1> SUFFICES ASSUME Inv, at = "done" PROVE DatagramsIntact
  BY DEF DatagramsIntact
<1>1. /\ pending # <<>> /\ msgLength = pending[1].len /\ inBuffer = Data(pending[1])
      /\ pending \in Seq(Datagrams)
  BY DEF Inv, Types, Stage
<1>2. Head(pending) = pending[1]
  BY <1>1
<1> QED BY <1>1, <1>2 DEF DatagramsIntact

LEMMA InvSpace == Inv => SpaceReturned
<1> SUFFICES ASSUME Inv, at = "parse", pending = <<>> PROVE buf = <<>>
  BY DEF SpaceReturned
<1>1. /\ buf \in Seq(Byte) /\ RX_inc \in Nat /\ RX_RSR \in Nat
      /\ RX_RSR + RX_inc <= Len(buf) /\ (RX_inc > 0 => RX_RSR > 0)
  BY DEF Inv, Types, Copy, CopyAgrees
<1>2. PICK c \in [1 .. Len(pending) + 1 -> Int] :
        c[1] = RX_inc - Gone /\ Holds(c, buf, RX_inc, pending)
  BY DEF Inv, Cuts
<1>3. c[1] = RX_inc
  BY <1>1, <1>2 DEF Gone
<1>4. Len(pending) = 0 /\ c[Len(pending) + 1] = Len(buf)
  BY <1>2 DEF Holds
<1>5. Len(buf) = RX_inc
  BY <1>3, <1>4
<1>6. Len(buf) = 0
  BY <1>1, <1>5
<1> QED BY <1>1, <1>6

\* What recvUdp and the socket library keep has its types: the copied registers
\* and the 8-bit count RX_inc stay in their ranges (socket.cpp:334), and recvUdp
\* never puts more into inBuffer than it holds (ModbusTCP.cpp:124).
THEOREM TypeCorrect == Spec => []TypeOK
BY Invariance, InvTypes, PTL

\* socketRecv's copy of the receive registers is behind the chip's by the bytes
\* it did not tell it of, and never counts bytes that have not come
\* (socket.cpp:304), for every batch that fits the 8-bit count.
THEOREM CopyCorrect == Spec => []CopyAgrees
<1>1. Inv => CopyAgrees
  BY DEF Inv, Copy
<1> QED BY <1>1, Invariance, PTL

\* Whatever came and in whatever pieces it was read, when all of it was read the
\* chip was told of all of it and its buffer is empty (socket.cpp:334).
THEOREM SpaceCorrect == Spec => []SpaceReturned
BY Invariance, InvSpace, PTL

\* recvUdp (ModbusTCP.cpp:118) hands each datagram to checkRequest once, in the
\* order they came in, with its own length and its own first bytes.
THEOREM IntactCorrect == Spec => []DatagramsIntact
BY Invariance, InvIntact, PTL
=============================================================================
