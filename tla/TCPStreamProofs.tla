-------------------------- MODULE TCPStreamProofs ---------------------------
(***************************************************************************)
(* Proofs about TCPStream, for all lengths of messages, headers, buffers   *)
(* and any number of requests and breaks.                                  *)
(***************************************************************************)
EXTENDS TCPStream, SequenceTheorems, TLAPS

L(m) == HeadLen + ReqBody[m]

ReqUnit == [m : Msg, k : Nat]

\* The stream of requests, as far as it has not been handled.
Stream == s_ibuf \o (c2s \o c_obuf)

\* A piece of the stream that ends where a request ends: every unit is
\* followed by the rest of its request, and the last one of a request by the
\* first of a later request.
Units(q)    == \A i \in 1 .. Len(q) : q[i].k \in 1 .. L(q[i].m)
Forward(q)  == \A i \in 1 .. Len(q) : \A d \in Nat : q[i].k + d <= L(q[i].m) =>
                 i + d <= Len(q) /\ q[i + d].m = q[i].m /\ q[i + d].k = q[i].k + d
Boundary(q) == \A i \in 1 .. Len(q) - 1 : q[i].k = L(q[i].m) =>
                 q[i + 1].k = 1 /\ q[i].m < q[i + 1].m
Ordered(q)  == \A i, j \in 1 .. Len(q) : i <= j => q[i].m <= q[j].m

Good(q) == Units(q) /\ Forward(q) /\ Boundary(q) /\ Ordered(q)

Starts(q) == q # <<>> => q[1].k = 1

Suffix(r, q) ==
    /\ Len(r) <= Len(q)
    /\ \A i \in 1 .. Len(r) : r[i] = q[i + (Len(q) - Len(r))]

\* Lengths are positive naturals.
LEMMA Lengths == \A m \in Msg : m \in Nat /\ L(m) \in Nat /\ L(m) >= HeadLen /\ HeadLen \in Nat /\ HeadLen > 1
BY StreamAssumption DEF L, Msg

\* The fields of the units of a sequence.
LEMMA Fields ==
    ASSUME NEW q \in Seq(ReqUnit)
    PROVE  /\ Len(q) \in Nat
           /\ \A i \in 1 .. Len(q) : /\ q[i] \in ReqUnit /\ q[i].m \in Msg /\ q[i].m \in Nat
                                     /\ q[i].k \in Nat /\ L(q[i].m) \in Nat
<1>1. \A i \in 1 .. Len(q) : q[i] \in ReqUnit
    BY ElementOfSeq
<1>2. \A u \in ReqUnit : u.m \in Msg /\ u.k \in Nat
    BY DEF ReqUnit
<1> QED
    BY <1>1, <1>2, Lengths

\* What Drop leaves.
LEMMA DropFacts ==
    ASSUME NEW S, NEW q \in Seq(S), NEW n \in 0 .. Len(q)
    PROVE  /\ Drop(q, n) \in Seq(S) /\ Len(Drop(q, n)) = Len(q) - n
           /\ \A i \in 1 .. Len(q) - n : Drop(q, n)[i] = q[i + n]
           /\ SubSeq(q, 1, n) \in Seq(S)
           /\ q = SubSeq(q, 1, n) \o Drop(q, n)
<1>1. \A i \in 1 .. Len(q) : q[i] \in S
    BY ElementOfSeq
<1>2. /\ Drop(q, n) \in Seq(S) /\ Len(Drop(q, n)) = Len(q) - n
      /\ \A i \in 1 .. Len(q) - n : Drop(q, n)[i] = q[i + n]
    BY <1>1 DEF Drop
<1>3. /\ SubSeq(q, 1, n) \in Seq(S) /\ Len(SubSeq(q, 1, n)) = n
      /\ \A i \in 1 .. n : SubSeq(q, 1, n)[i] = q[i]
    BY <1>1
<1> DEFINE p == SubSeq(q, 1, n) \o Drop(q, n)
<1>4. /\ p \in Seq(S) /\ Len(p) = n + (Len(q) - n)
      /\ \A i \in 1 .. n + (Len(q) - n) :
           p[i] = IF i <= n THEN SubSeq(q, 1, n)[i] ELSE Drop(q, n)[i - n]
    BY <1>2, <1>3, ConcatProperties
<1>5. Len(p) = Len(q) /\ \A i \in 1 .. Len(q) : p[i] = q[i]
    BY <1>2, <1>3, <1>4
<1>6. p = q
    BY <1>4, <1>5, SeqEqual
<1> QED
    BY <1>2, <1>3, <1>6

\* A suffix of a good piece is one.
LEMMA SuffixGood ==
    ASSUME NEW q \in Seq(ReqUnit), NEW r \in Seq(ReqUnit), Suffix(r, q), Good(q)
    PROVE  Good(r)
<1> DEFINE n == Len(q) - Len(r)
<1>1. /\ n \in Nat /\ Len(q) \in Nat /\ Len(r) \in Nat /\ Len(q) = Len(r) + n
      /\ \A i \in 1 .. Len(r) : r[i] = q[i + n] /\ i + n \in 1 .. Len(q)
    BY Fields DEF Suffix
<1>2. \A i \in 1 .. Len(q) : q[i].m \in Nat /\ q[i].k \in Nat /\ L(q[i].m) \in Nat
    BY Fields
<1> HIDE DEF n
<1>3. Units(r)
    BY <1>1 DEF Good, Units
<1>4. Forward(r)
  <2> SUFFICES ASSUME NEW i \in 1 .. Len(r), NEW d \in Nat, r[i].k + d <= L(r[i].m)
               PROVE  i + d <= Len(r) /\ r[i + d].m = r[i].m /\ r[i + d].k = r[i].k + d
      BY DEF Forward
  <2>1. r[i] = q[i + n] /\ i + n \in 1 .. Len(q)
      BY <1>1
  <2>2. (i + n) + d <= Len(q) /\ q[(i + n) + d].m = q[i + n].m /\ q[(i + n) + d].k = q[i + n].k + d
      BY <2>1 DEF Good, Forward
  <2>3. i + d \in 1 .. Len(r) /\ (i + d) + n = (i + n) + d
      BY <1>1, <2>2, SMTT(30)
  <2> QED
      BY <1>1, <2>1, <2>2, <2>3
<1>5. Boundary(r)
  <2> SUFFICES ASSUME NEW i \in 1 .. Len(r) - 1, r[i].k = L(r[i].m)
               PROVE  r[i + 1].k = 1 /\ r[i].m < r[i + 1].m
      BY DEF Boundary
  <2>1. /\ i \in 1 .. Len(r) /\ i + 1 \in 1 .. Len(r)
        /\ i + n \in 1 .. Len(q) - 1 /\ (i + 1) + n = (i + n) + 1
      BY <1>1
  <2>2. r[i] = q[i + n] /\ r[i + 1] = q[(i + n) + 1]
      BY <1>1, <2>1
  <2> QED
      BY <2>1, <2>2 DEF Good, Boundary
<1>6. Ordered(r)
  <2> SUFFICES ASSUME NEW i \in 1 .. Len(r), NEW j \in 1 .. Len(r), i <= j
               PROVE  r[i].m <= r[j].m
      BY DEF Ordered
  <2>1. i + n <= j + n /\ i + n \in 1 .. Len(q) /\ j + n \in 1 .. Len(q)
      BY <1>1
  <2>2. q[i + n].m <= q[j + n].m
      BY <2>1 DEF Good, Ordered
  <2> QED
      BY <1>1, <2>2
<1> QED
    BY <1>3, <1>4, <1>5, <1>6 DEF Good

\* The end of a concatenation is a suffix of it, and so is what Drop leaves.
LEMMA Suffixes ==
    ASSUME NEW q \in Seq(ReqUnit), NEW r \in Seq(ReqUnit)
    PROVE  /\ Suffix(r, q \o r)
           /\ \A n \in 0 .. Len(q) : Suffix(Drop(q, n), q)
<1>1. Len(q) \in Nat /\ Len(r) \in Nat
    BY Fields
<1>2. Suffix(r, q \o r)
  <2>1. /\ Len(q \o r) = Len(q) + Len(r)
        /\ \A i \in 1 .. Len(q) + Len(r) : (q \o r)[i] = IF i <= Len(q) THEN q[i] ELSE r[i - Len(q)]
      BY ConcatProperties
  <2>2. \A i \in 1 .. Len(r) : r[i] = (q \o r)[i + Len(q)]
      BY <1>1, <2>1
  <2>3. Len(q \o r) - Len(r) = Len(q)
      BY <1>1, <2>1
  <2> QED
      BY <1>1, <2>1, <2>2, <2>3 DEF Suffix
<1>3. ASSUME NEW n \in 0 .. Len(q) PROVE Suffix(Drop(q, n), q)
  <2>1. /\ Len(Drop(q, n)) = Len(q) - n
        /\ \A i \in 1 .. Len(q) - n : Drop(q, n)[i] = q[i + n]
      BY DropFacts
  <2>2. Len(q) - Len(Drop(q, n)) = n
      BY <1>1, <2>1
  <2> QED
      BY <1>1, <2>1, <2>2 DEF Suffix
<1> QED
    BY <1>2, <1>3

\* Concatenation of pieces of the stream.
LEMMA Assoc ==
    \A a, b, c \in Seq(ReqUnit) : (a \o b) \o c = a \o (b \o c) /\ a \o b \in Seq(ReqUnit)
BY ConcatAssociative, ConcatProperties, SMTT(30)

\* Dropping from the front part of a concatenation.
LEMMA DropConcat ==
    ASSUME NEW S, NEW p \in Seq(S), NEW r \in Seq(S), NEW n \in 0 .. Len(p)
    PROVE  /\ n \in 0 .. Len(p \o r) /\ p \o r \in Seq(S)
           /\ Drop(p, n) \o r = Drop(p \o r, n)
<1>1. Len(p) \in Nat /\ Len(r) \in Nat
    BY LenProperties
<1>2. /\ p \o r \in Seq(S) /\ Len(p \o r) = Len(p) + Len(r)
      /\ \A i \in 1 .. Len(p) + Len(r) : (p \o r)[i] = IF i <= Len(p) THEN p[i] ELSE r[i - Len(p)]
    BY ConcatProperties
<1>3. n \in 0 .. Len(p \o r)
    BY <1>1, <1>2
<1> DEFINE a == Drop(p, n) \o r
           b == Drop(p \o r, n)
<1>4. /\ Drop(p, n) \in Seq(S) /\ Len(Drop(p, n)) = Len(p) - n
      /\ \A i \in 1 .. Len(p) - n : Drop(p, n)[i] = p[i + n]
    BY DropFacts
<1>5. /\ a \in Seq(S) /\ Len(a) = (Len(p) - n) + Len(r)
      /\ \A i \in 1 .. (Len(p) - n) + Len(r) :
           a[i] = IF i <= Len(p) - n THEN Drop(p, n)[i] ELSE r[i - (Len(p) - n)]
  <2> DEFINE u == Drop(p, n)
  <2>1. u \in Seq(S) /\ Len(u) = Len(p) - n
      BY <1>4
  <2> HIDE DEF u
  <2>2. /\ u \o r \in Seq(S) /\ Len(u \o r) = Len(u) + Len(r)
        /\ \A i \in 1 .. Len(u) + Len(r) : (u \o r)[i] = IF i <= Len(u) THEN u[i] ELSE r[i - Len(u)]
      BY <2>1, ConcatProperties
  <2> QED
      BY <2>1, <2>2 DEF u
<1>6. /\ b \in Seq(S) /\ Len(b) = (Len(p) + Len(r)) - n
      /\ \A i \in 1 .. (Len(p) + Len(r)) - n : b[i] = (p \o r)[i + n]
    BY <1>2, <1>3, DropFacts, ZenonT(60)
<1>7. Len(a) = Len(b)
    BY <1>1, <1>5, <1>6
<1>8. ASSUME NEW i \in 1 .. Len(a) PROVE a[i] = b[i]
  <2>1. CASE i <= Len(p) - n
      BY <1>1, <1>2, <1>4, <1>5, <1>6, <2>1
  <2>2. CASE i > Len(p) - n
    <3>1. a[i] = r[i - (Len(p) - n)]
        BY <1>1, <1>5, <2>2
    <3>2. b[i] = r[(i + n) - Len(p)]
        BY <1>1, <1>2, <1>5, <1>6, <2>2
    <3>3. i - (Len(p) - n) = (i + n) - Len(p)
        BY <1>1, <1>5
    <3> QED
        BY <3>1, <3>2, <3>3
  <2> QED
      BY <1>1, <1>5, <2>1, <2>2
<1> HIDE DEF a, b
<1>9. a = b
    BY <1>5, <1>6, <1>7, <1>8, SeqEqual
<1> QED
    BY <1>2, <1>3, <1>9 DEF a, b

\* The units of a request, as send_message lays them out.
LEMMA FrameFacts ==
    ASSUME NEW m \in Msg
    PROVE  /\ Frame(m, ReqBody[m]) \in Seq(ReqUnit) /\ Len(Frame(m, ReqBody[m])) = L(m)
           /\ \A i \in 1 .. L(m) : Frame(m, ReqBody[m])[i].m = m /\ Frame(m, ReqBody[m])[i].k = i
<1>1. L(m) \in Nat /\ L(m) = HeadLen + ReqBody[m]
    BY Lengths DEF L
<1>2. \A k \in 1 .. L(m) : [m |-> m, k |-> k] \in ReqUnit
    BY <1>1 DEF ReqUnit
<1>3. Frame(m, ReqBody[m]) = [k \in 1 .. L(m) |-> [m |-> m, k |-> k]]
    BY <1>1 DEF Frame
<1>4. Frame(m, ReqBody[m]) \in [1 .. L(m) -> ReqUnit]
    BY <1>2, <1>3
<1>5. Frame(m, ReqBody[m]) \in Seq(ReqUnit) /\ Len(Frame(m, ReqBody[m])) = L(m)
    BY <1>1, <1>4, SeqDef
<1>6. \A i \in 1 .. L(m) : Frame(m, ReqBody[m])[i] = [m |-> m, k |-> i]
    BY <1>3
<1>7. ASSUME NEW i \in 1 .. L(m)
      PROVE  Frame(m, ReqBody[m])[i].m = m /\ Frame(m, ReqBody[m])[i].k = i
  <2> DEFINE u == Frame(m, ReqBody[m])[i]
  <2>1. u = [m |-> m, k |-> i]
      BY <1>6
  <2> HIDE DEF u
  <2>2. u.m = m /\ u.k = i
      BY <2>1
  <2> QED
      BY <2>2 DEF u
<1> QED
    BY <1>5, <1>7

\* A later request after a good piece.
LEMMA AppendGood ==
    ASSUME NEW q \in Seq(ReqUnit), NEW m \in Msg, Good(q),
           \A i \in 1 .. Len(q) : q[i].m < m
    PROVE  Good(q \o Frame(m, ReqBody[m]))
<1> DEFINE f == Frame(m, ReqBody[m])
           r == q \o f
<1>1. /\ f \in Seq(ReqUnit) /\ Len(f) = L(m)
      /\ \A i \in 1 .. L(m) : f[i].m = m /\ f[i].k = i
    BY FrameFacts
<1>2. L(m) \in Nat /\ L(m) > 1 /\ m \in Nat
    BY Lengths
<1>3. /\ Len(q) \in Nat
      /\ \A i \in 1 .. Len(q) : q[i].m \in Nat /\ q[i].k \in Nat /\ L(q[i].m) \in Nat
    BY Fields
<1> HIDE DEF f
<1>4. /\ Len(r) = Len(q) + L(m)
      /\ \A i \in 1 .. Len(q) + L(m) : r[i] = IF i <= Len(q) THEN q[i] ELSE f[i - Len(q)]
  <2>1. /\ Len(q \o f) = Len(q) + Len(f)
        /\ \A i \in 1 .. Len(q) + Len(f) : (q \o f)[i] = IF i <= Len(q) THEN q[i] ELSE f[i - Len(q)]
      BY <1>1, ConcatProperties
  <2> QED
      BY <1>1, <2>1
<1> HIDE DEF r
<1>5. \A i \in 1 .. Len(q) : r[i] = q[i] /\ i \in 1 .. Len(r)
    BY <1>2, <1>3, <1>4
<1>6. ASSUME NEW i \in 1 .. Len(r), i > Len(q)
      PROVE  r[i].m = m /\ r[i].k = i - Len(q) /\ i - Len(q) \in 1 .. L(m)
  <2>1. i - Len(q) \in 1 .. L(m) /\ r[i] = f[i - Len(q)]
      BY <1>2, <1>3, <1>4, <1>6
  <2> QED
      BY <1>1, <2>1
<1>7. Units(r)
  <2> SUFFICES ASSUME NEW i \in 1 .. Len(r) PROVE r[i].k \in 1 .. L(r[i].m)
      BY DEF Units
  <2>1. CASE i <= Len(q)
      BY <1>3, <1>5, <2>1 DEF Good, Units
  <2>2. CASE i > Len(q)
      BY <1>6, <2>2
  <2> QED
      BY <1>3, <1>4, <1>2, <2>1, <2>2
<1>8. Forward(r)
  <2> SUFFICES ASSUME NEW i \in 1 .. Len(r), NEW d \in Nat, r[i].k + d <= L(r[i].m)
               PROVE  i + d <= Len(r) /\ r[i + d].m = r[i].m /\ r[i + d].k = r[i].k + d
      BY DEF Forward
  <2>1. CASE i <= Len(q)
    <3>1. i \in 1 .. Len(q) /\ r[i] = q[i]
        BY <1>2, <1>3, <1>4, <1>5, <2>1
    <3>2. i + d <= Len(q) /\ q[i + d].m = q[i].m /\ q[i + d].k = q[i].k + d
        BY <3>1 DEF Good, Forward
    <3>3. i + d \in 1 .. Len(q)
        BY <1>3, <3>1, <3>2, SMTT(30)
    <3> QED
        BY <1>2, <1>3, <1>4, <1>5, <3>1, <3>2, <3>3
  <2>2. CASE i > Len(q)
    <3>1. r[i].m = m /\ r[i].k = i - Len(q) /\ i - Len(q) \in 1 .. L(m)
        BY <1>6, <2>2
    <3>2. i + d \in 1 .. Len(r) /\ i + d > Len(q)
        BY <1>2, <1>3, <1>4, <2>2, <3>1
    <3>3. r[i + d].m = m /\ r[i + d].k = (i + d) - Len(q)
        BY <1>6, <3>2
    <3> QED
        BY <1>2, <1>3, <1>4, <3>1, <3>2, <3>3
  <2> QED
      BY <1>2, <1>3, <1>4, <2>1, <2>2
<1>9. Boundary(r)
  <2> SUFFICES ASSUME NEW i \in 1 .. Len(r) - 1, r[i].k = L(r[i].m)
               PROVE  r[i + 1].k = 1 /\ r[i].m < r[i + 1].m
      BY DEF Boundary
  <2>1. i \in 1 .. Len(r) /\ i + 1 \in 1 .. Len(r)
      BY <1>2, <1>3, <1>4
  <2>2. CASE i < Len(q)
    <3>1. i \in 1 .. Len(q) /\ i + 1 \in 1 .. Len(q) /\ i \in 1 .. Len(q) - 1
        BY <1>3, <2>1, <2>2
    <3> QED
        BY <1>5, <3>1 DEF Good, Boundary
  <2>3. CASE i = Len(q)
    <3>1. i \in 1 .. Len(q) /\ r[i].m < m
        BY <1>3, <1>5, <2>1, <2>3
    <3>2. r[i + 1].m = m /\ r[i + 1].k = 1
        BY <1>3, <1>6, <2>1, <2>3
    <3> QED
        BY <3>1, <3>2
  <2>4. CASE i > Len(q)
    <3>1. r[i].m = m /\ r[i].k = i - Len(q)
        BY <1>6, <2>1, <2>4
    <3> QED
        BY <1>2, <1>3, <1>4, <2>1, <3>1
  <2> QED
      BY <1>3, <2>1, <2>2, <2>3, <2>4
<1>10. Ordered(r)
  <2> SUFFICES ASSUME NEW i \in 1 .. Len(r), NEW j \in 1 .. Len(r), i <= j
               PROVE  r[i].m <= r[j].m
      BY DEF Ordered
  <2>1. CASE j <= Len(q)
    <3>1. i \in 1 .. Len(q) /\ j \in 1 .. Len(q)
        BY <1>2, <1>3, <1>4, <2>1
    <3>2. q[i].m <= q[j].m
        BY <3>1 DEF Good, Ordered
    <3> QED
        BY <1>5, <3>1, <3>2
  <2>2. CASE j > Len(q) /\ i <= Len(q)
    <3>1. i \in 1 .. Len(q) /\ r[j].m = m
        BY <1>2, <1>3, <1>4, <1>6, <2>2
    <3>2. r[i] = q[i]
        BY <1>5, <3>1
    <3>3. q[i].m \in Nat /\ q[i].m < m
        BY <1>3, <3>1
    <3> QED
        BY <1>2, <3>1, <3>2, <3>3
  <2>3. CASE i > Len(q)
    <3>1. r[i].m = m /\ r[j].m = m
        BY <1>2, <1>3, <1>4, <1>6, <2>3
    <3> QED
        BY <1>2, <3>1
  <2> QED
      BY <1>2, <1>3, <1>4, <2>1, <2>2, <2>3
<1> QED
    BY <1>7, <1>8, <1>9, <1>10 DEF Good, r, f

\* A good piece that starts with a request has all of it, and goes on with the
\* beginning of a later one.
LEMMA FirstRequest ==
    ASSUME NEW q \in Seq(ReqUnit), Good(q), q # <<>>, q[1].k = 1
    PROVE  /\ q[1].m \in Msg /\ L(q[1].m) \in 0 .. Len(q)
           /\ \A k \in 1 .. L(q[1].m) : q[k].m = q[1].m /\ q[k].k = k
           /\ Starts(Drop(q, L(q[1].m)))
           /\ \A j \in 1 .. Len(Drop(q, L(q[1].m))) : q[1].m < Drop(q, L(q[1].m))[j].m
<1> DEFINE m == q[1].m
           n == L(q[1].m)
           r == Drop(q, n)
<1>1. /\ Len(q) \in Nat /\ Len(q) > 0
      /\ \A i \in 1 .. Len(q) : q[i].m \in Msg /\ q[i].m \in Nat
    BY Fields, EmptySeq
<1>2. m \in Msg /\ n \in Nat /\ n > 1
    BY <1>1, Lengths
<1>3. ASSUME NEW k \in 1 .. n PROVE k <= Len(q) /\ q[k].m = m /\ q[k].k = k
  <2>1. k - 1 \in Nat /\ q[1].k + (k - 1) <= n /\ 1 + (k - 1) = k
      BY <1>2
  <2>2. 1 \in 1 .. Len(q)
      BY <1>1
  <2> QED
      BY <2>1, <2>2 DEF Good, Forward
<1>4. n \in 1 .. Len(q) /\ n \in 0 .. Len(q)
    BY <1>1, <1>2, <1>3
<1>5. /\ r \in Seq(ReqUnit) /\ Len(r) = Len(q) - n
      /\ \A i \in 1 .. Len(q) - n : r[i] = q[i + n]
    BY <1>4, DropFacts
<1>6. ASSUME Len(r) > 0 PROVE r[1].k = 1 /\ m < r[1].m
  <2>1. n \in 1 .. Len(q) - 1 /\ q[n].k = L(q[n].m) /\ q[n].m = m /\ r[1] = q[n + 1]
    <3>1. n \in 1 .. Len(q) - 1 /\ n \in 1 .. n /\ 1 \in 1 .. Len(q) - n /\ 1 + n = n + 1
        BY <1>1, <1>2, <1>4, <1>5, <1>6
    <3>2. q[n].m = m /\ q[n].k = n
        BY <1>3, <3>1
    <3>3. r[1] = q[n + 1]
        BY <1>5, <3>1
    <3> QED
        BY <3>1, <3>2, <3>3
  <2> QED
      BY <2>1 DEF Good, Boundary
<1>7. Starts(r)
    BY <1>5, <1>6, EmptySeq DEF Starts
<1>8. ASSUME NEW j \in 1 .. Len(r) PROVE m < r[j].m
  <2>1. /\ Len(r) > 0 /\ 1 + n \in 1 .. Len(q) /\ j + n \in 1 .. Len(q) /\ 1 + n <= j + n
        /\ r[1] = q[1 + n] /\ r[j] = q[j + n]
      BY <1>1, <1>2, <1>5, SMTT(30)
  <2>2. q[1 + n].m <= q[j + n].m
      BY <2>1 DEF Good, Ordered
  <2> QED
      BY <1>1, <1>6, <2>1, <2>2
<1> QED
    BY <1>2, <1>3, <1>4, <1>7, <1>8

-----------------------------------------------------------------------------
(* The inductive invariant.                                                 *)

Types ==
    /\ c_obuf \in Seq(ReqUnit) /\ c2s \in Seq(ReqUnit) /\ s_ibuf \in Seq(ReqUnit)
    /\ handled \in Seq(Msg) /\ asked \in 0 .. MaxMsgs

\* What is in the stream has been asked for, and comes after what was handled.
Above(q, h, a) ==
    \A j \in 1 .. Len(q) : q[j].m <= a /\ \A i \in 1 .. Len(h) : h[i] < q[j].m

InOrder ==
    /\ Increasing(handled)
    /\ \A i \in 1 .. Len(handled) : handled[i] <= asked

Flow == Types /\ Good(Stream) /\ Above(Stream, handled, asked) /\ InOrder

\* A connection that is not torn starts at a request.
Start == link # "dead" /\ ~torn => Starts(Stream)

Causes ==
    /\ s_pc = "parse" => link = "open"
    /\ garbled => torn
    /\ s_head => refused # {}
    /\ AbortCauses

Inv == Flow /\ Start /\ Causes

\* The parts of the stream.
LEMMA StreamFacts ==
    ASSUME Types
    PROVE  /\ Stream \in Seq(ReqUnit) /\ Suffix(c_obuf, Stream) /\ Suffix(Stream, Stream)
           /\ \A i \in 1 .. Len(s_ibuf) : Stream[i] = s_ibuf[i] /\ i \in 1 .. Len(Stream)
           /\ \A n \in 0 .. Len(s_ibuf) :
                /\ n \in 0 .. Len(Stream)
                /\ Drop(s_ibuf, n) \o (c2s \o c_obuf) = Drop(Stream, n)
                /\ Suffix(c_obuf, Drop(Stream, n))
<1> DEFINE r == c2s \o c_obuf
<1>1. c_obuf \in Seq(ReqUnit) /\ c2s \in Seq(ReqUnit) /\ s_ibuf \in Seq(ReqUnit)
    BY DEF Types
<1>2. r \in Seq(ReqUnit)
    BY <1>1, ConcatProperties
<1>3. /\ Stream \in Seq(ReqUnit) /\ Len(Stream) = Len(s_ibuf) + Len(r)
      /\ \A i \in 1 .. Len(s_ibuf) + Len(r) : Stream[i] = IF i <= Len(s_ibuf) THEN s_ibuf[i] ELSE r[i - Len(s_ibuf)]
    BY <1>1, <1>2, ConcatProperties DEF Stream
<1>4. Len(s_ibuf) \in Nat /\ Len(r) \in Nat
    BY <1>1, <1>2, Fields
<1>5. \A i \in 1 .. Len(s_ibuf) : Stream[i] = s_ibuf[i] /\ i \in 1 .. Len(Stream)
    BY <1>3, <1>4
<1>6. ASSUME NEW n \in 0 .. Len(s_ibuf)
      PROVE  /\ n \in 0 .. Len(Stream)
             /\ Drop(s_ibuf, n) \o (c2s \o c_obuf) = Drop(Stream, n)
             /\ Suffix(c_obuf, Drop(Stream, n))
  <2>1. n \in 0 .. Len(Stream) /\ Drop(s_ibuf, n) \o r = Drop(Stream, n)
    <3> HIDE DEF r
    <3>1. n \in 0 .. Len(s_ibuf \o r) /\ Drop(s_ibuf, n) \o r = Drop(s_ibuf \o r, n)
      <4>1. s_ibuf \in Seq(ReqUnit) /\ r \in Seq(ReqUnit)
          BY <1>1, <1>2
      <4> QED
          BY <4>1, DropConcat, ZenonT(60)
    <3> QED
        BY <3>1 DEF Stream, r
  <2>2. Drop(s_ibuf, n) \in Seq(ReqUnit)
      BY <1>1, DropFacts
  <2>3. Drop(s_ibuf, n) \o (c2s \o c_obuf) = (Drop(s_ibuf, n) \o c2s) \o c_obuf
    <3> DEFINE u == Drop(s_ibuf, n)
    <3>1. u \in Seq(ReqUnit)
        BY <2>2
    <3> HIDE DEF u
    <3>2. (u \o c2s) \o c_obuf = u \o (c2s \o c_obuf)
        BY <1>1, <3>1, ConcatAssociative, SMTT(30)
    <3> QED
        BY <3>2 DEF u
  <2>4. Drop(s_ibuf, n) \o c2s \in Seq(ReqUnit)
      BY <1>1, <2>2, ConcatProperties
  <2>5. Suffix(c_obuf, (Drop(s_ibuf, n) \o c2s) \o c_obuf)
      BY <1>1, <2>4, Suffixes
  <2> QED
      BY <2>1, <2>3, <2>5
<1>7. Suffix(c_obuf, Stream)
  <2>1. Stream = (s_ibuf \o c2s) \o c_obuf
      BY <1>1, ConcatAssociative DEF Stream
  <2>2. s_ibuf \o c2s \in Seq(ReqUnit)
      BY <1>1, ConcatProperties
  <2> QED
      BY <1>1, <2>1, <2>2, Suffixes
<1>8. Suffix(Stream, Stream)
  <2>1. Len(Stream) \in Nat
      BY <1>3, <1>4
  <2> QED
      BY <2>1 DEF Suffix
<1> QED
    BY <1>3, <1>5, <1>6, <1>7, <1>8

\* A suffix has only units of the whole.
LEMMA SuffixAbove ==
    ASSUME NEW q \in Seq(ReqUnit), NEW r \in Seq(ReqUnit), Suffix(r, q), NEW h, NEW a, Above(q, h, a)
    PROVE  Above(r, h, a)
<1>1. Len(q) \in Nat /\ Len(r) \in Nat /\ Len(r) <= Len(q)
    BY Fields DEF Suffix
<1>2. \A j \in 1 .. Len(r) : j + (Len(q) - Len(r)) \in 1 .. Len(q)
    BY <1>1
<1> QED
    BY <1>2 DEF Suffix, Above

\* Steps that hand over no request and leave an end of the stream.
LEMMA SuffixStep ==
    ASSUME Flow, Types', Suffix(Stream', Stream), UNCHANGED <<handled, asked>>
    PROVE  Flow'
<1>1. Stream \in Seq(ReqUnit)
    BY StreamFacts DEF Flow
<1>2. Stream' \in Seq(ReqUnit)
    BY ConcatProperties DEF Types, Stream
<1>3. Good(Stream')
    BY <1>1, <1>2, SuffixGood DEF Flow
<1>4. Above(Stream', handled, asked)
    BY <1>1, <1>2, SuffixAbove DEF Flow
<1>5. InOrder'
    BY DEF Flow, InOrder, Increasing
<1>6. Good(Stream)' /\ Above(Stream, handled, asked)'
    BY <1>3, <1>4 DEF Good, Units, Forward, Boundary, Ordered, Above, L
<1> QED
    BY <1>5, <1>6 DEF Flow

\* The step that hands over the first request of the stream.
LEMMA HandleStep ==
    ASSUME Flow, Types', NEW m, Stream # <<>>, Stream[1].k = 1, Stream[1].m = m,
           handled' = Append(handled, m), asked' = asked,
           Suffix(Stream', Drop(Stream, L(m)))
    PROVE  Flow'
<1> DEFINE r == Drop(Stream, L(m))
           q == Stream'
<1>1. Stream \in Seq(ReqUnit) /\ Good(Stream)
    BY StreamFacts DEF Flow
<1>2. q \in Seq(ReqUnit)
    BY ConcatProperties DEF Types, Stream
<1>3. /\ m \in Msg /\ L(m) \in 0 .. Len(Stream)
      /\ \A j \in 1 .. Len(r) : m < r[j].m
    BY <1>1, FirstRequest
<1>4. r \in Seq(ReqUnit) /\ Suffix(r, Stream)
    BY <1>1, <1>3, DropFacts, Suffixes
<1>5. Good(r) /\ Above(r, handled, asked)
    BY <1>1, <1>4, SuffixGood, SuffixAbove DEF Flow
<1>6. 1 \in 1 .. Len(Stream)
    BY <1>1, EmptySeq
<1>7. m <= asked /\ \A i \in 1 .. Len(handled) : handled[i] < m
    BY <1>6 DEF Flow, Above
<1>8. handled \in Seq(Msg) /\ asked \in Nat
    BY StreamAssumption DEF Flow, Types
<1>9. /\ Len(handled) \in Nat /\ Len(handled') = Len(handled) + 1
      /\ \A i \in 1 .. Len(handled) : handled'[i] = handled[i]
      /\ handled'[Len(handled) + 1] = m
    BY <1>3, <1>8, AppendProperties, LenProperties
<1>10. \A i \in 1 .. Len(handled') : handled'[i] <= m
  <2>1. \A i \in 1 .. Len(handled) : handled[i] \in Nat
      BY <1>8, ElementOfSeq, Lengths
  <2> QED
      BY <1>3, <1>7, <1>9, <2>1, Lengths
<1>11. \A i \in 1 .. Len(handled') : handled'[i] \in Nat /\ handled'[i] \in Msg
    BY ElementOfSeq, Lengths DEF Types
<1> HIDE DEF r
<1>12. Above(r, handled', asked)
  <2> SUFFICES ASSUME NEW j \in 1 .. Len(r)
               PROVE  r[j].m <= asked /\ \A i \in 1 .. Len(handled') : handled'[i] < r[j].m
      BY DEF Above
  <2>1. r[j].m <= asked /\ m < r[j].m
      BY <1>3, <1>5 DEF Above, r
  <2>2. r[j].m \in Nat
      BY <1>4, Fields
  <2> QED
      BY <1>3, <1>10, <1>11, <2>1, <2>2, Lengths
<1> HIDE DEF q
<1>13. Good(q) /\ Above(q, handled', asked)
    BY <1>2, <1>4, <1>5, <1>12, SuffixGood, SuffixAbove DEF r, q
<1>14. InOrder'
  <2>1. \A i \in 1 .. Len(handled') : handled'[i] <= asked
      BY <1>3, <1>7, <1>8, <1>10, <1>11, Lengths, SMTT(30)
  <2>2. ASSUME NEW i \in 1 .. Len(handled'), NEW j \in 1 .. Len(handled'), i < j
        PROVE  handled'[i] < handled'[j]
    <3>1. i \in 1 .. Len(handled)
        BY <1>9, <2>2
    <3>2. CASE j \in 1 .. Len(handled)
        BY <1>9, <2>2, <3>1, <3>2 DEF Flow, InOrder, Increasing
    <3>3. CASE j = Len(handled) + 1
        BY <1>7, <1>9, <3>1, <3>3
    <3> QED
        BY <1>9, <3>2, <3>3
  <2> QED
      BY <2>1, <2>2 DEF InOrder, Increasing
<1>15. Good(Stream)' /\ Above(Stream, handled, asked)'
    BY <1>13 DEF Good, Units, Forward, Boundary, Ordered, Above, L, q
<1> QED
    BY <1>14, <1>15 DEF Flow

\* send_message of the client puts a request at the end of the stream.
LEMMA SendStep ==
    ASSUME Inv, client_send_message
    PROVE  Flow' /\ Start'
<1> DEFINE m == asked + 1
           f == Frame(m, ReqBody[m])
<1>1. /\ c_obuf' = c_obuf \o f /\ asked' = m
      /\ c2s' = c2s /\ s_ibuf' = s_ibuf /\ handled' = handled
      /\ link' = link /\ torn' = torn
    BY DEF client_send_message, svars, net, shist
<1>2. m \in Msg /\ m \in 0 .. MaxMsgs /\ asked \in Nat
    BY StreamAssumption DEF client_send_message, Inv, Flow, Types, Msg
<1>3. /\ f \in Seq(ReqUnit) /\ Len(f) = L(m) /\ L(m) \in Nat /\ L(m) > 1
      /\ \A i \in 1 .. L(m) : f[i].m = m /\ f[i].k = i
    BY <1>2, FrameFacts, Lengths
<1> HIDE DEF f
<1>4. c_obuf \in Seq(ReqUnit) /\ c2s \in Seq(ReqUnit) /\ s_ibuf \in Seq(ReqUnit)
    BY DEF Inv, Flow, Types
<1>5. Types'
    BY <1>1, <1>2, <1>3, <1>4, ConcatProperties DEF Inv, Flow, Types
<1>6. Stream' = Stream \o f
  <2>1. c2s \o c_obuf \in Seq(ReqUnit)
      BY <1>4, ConcatProperties
  <2>2. f \in Seq(ReqUnit)
      BY <1>3
  <2>3. c2s \o (c_obuf \o f) = (c2s \o c_obuf) \o f
      BY <1>4, <2>2, Assoc, SMTT(30)
  <2>4. s_ibuf \o ((c2s \o c_obuf) \o f) = (s_ibuf \o (c2s \o c_obuf)) \o f
      BY <1>4, <2>1, <2>2, Assoc, SMTT(30)
  <2> QED
      BY <1>1, <2>3, <2>4 DEF Stream
<1>7. Stream \in Seq(ReqUnit) /\ Len(Stream) \in Nat
    BY StreamFacts, Fields DEF Inv, Flow
<1>8. \A i \in 1 .. Len(Stream) : Stream[i].m \in Nat /\ Stream[i].m <= asked /\ Stream[i].m < m
    BY <1>2, <1>7, Fields DEF Inv, Flow, Above
<1>9. Good(Stream \o f)
    BY <1>2, <1>7, <1>8, AppendGood DEF Inv, Flow, f
<1> DEFINE q == Stream \o f
<1>10. /\ Len(q) = Len(Stream) + L(m)
       /\ \A j \in 1 .. Len(Stream) + L(m) : q[j] = IF j <= Len(Stream) THEN Stream[j] ELSE f[j - Len(Stream)]
  <2>1. /\ Len(q) = Len(Stream) + Len(f)
        /\ \A j \in 1 .. Len(Stream) + Len(f) : q[j] = IF j <= Len(Stream) THEN Stream[j] ELSE f[j - Len(Stream)]
      BY <1>3, <1>7, ConcatProperties
  <2> QED
      BY <1>3, <2>1
<1> HIDE DEF q
<1>11. \A i \in 1 .. Len(handled) : handled[i] \in Nat /\ handled[i] <= asked
    BY ElementOfSeq, Lengths DEF Inv, Flow, Types, InOrder
<1>12. Above(q, handled, m)
  <2> SUFFICES ASSUME NEW j \in 1 .. Len(q)
               PROVE  q[j].m <= m /\ \A i \in 1 .. Len(handled) : handled[i] < q[j].m
      BY DEF Above
  <2>1. CASE j <= Len(Stream)
    <3>1. j \in 1 .. Len(Stream) /\ q[j] = Stream[j]
        BY <1>3, <1>7, <1>10, <2>1
    <3> QED
        BY <1>2, <1>8, <3>1 DEF Inv, Flow, Above
  <2>2. CASE j > Len(Stream)
    <3>1. j - Len(Stream) \in 1 .. L(m) /\ q[j] = f[j - Len(Stream)]
        BY <1>3, <1>7, <1>10, <2>2
    <3>2. q[j].m = m
        BY <1>3, <3>1
    <3> QED
        BY <1>2, <1>11, <3>2
  <2> QED
      BY <1>3, <1>7, <1>10, <2>1, <2>2
<1>13. InOrder'
    BY <1>1, <1>2, <1>11 DEF Inv, Flow, InOrder, Increasing
<1>14. Flow'
  <2>1. Good(q) /\ q = Stream'
      BY <1>6, <1>9 DEF q
  <2>2. Good(Stream)' /\ Above(Stream, handled, asked)'
      BY <1>1, <1>12, <2>1 DEF Good, Units, Forward, Boundary, Ordered, Above, L
  <2> QED
      BY <1>5, <1>13, <2>2 DEF Flow
<1>15. Starts(Stream) => Starts(q)
  <2>1. CASE Len(Stream) = 0
    <3>1. q[1] = f[1 - Len(Stream)] /\ 1 - Len(Stream) = 1 /\ 1 \in 1 .. L(m)
        BY <1>3, <1>7, <1>10, <2>1
    <3> QED
        BY <1>3, <3>1 DEF Starts
  <2>2. CASE Len(Stream) > 0
    <3>1. q[1] = Stream[1] /\ Stream # <<>>
        BY <1>3, <1>7, <1>10, <2>2, EmptySeq
    <3> QED
        BY <3>1 DEF Starts
  <2> QED
      BY <1>7, <2>1, <2>2
<1>16. Start'
    BY <1>1, <1>6, <1>15 DEF Inv, Start, Starts, q
<1> QED
    BY <1>14, <1>16

\* The stream when a connection is gone: what the client has not written.
LEMMA GoneStep ==
    ASSUME Flow, s_ibuf' = <<>>, c2s' = <<>>, c_obuf' = c_obuf, UNCHANGED <<handled, asked>>
    PROVE  Flow' /\ Stream' = c_obuf
<1>1. Types'
    BY EmptySeq DEF Flow, Types
<1>2. c_obuf \in Seq(ReqUnit)
    BY DEF Flow, Types
<1>3. <<>> \o c_obuf = c_obuf
    BY <1>2, ConcatEmptySeq
<1>4. Stream' = c_obuf
    BY <1>3 DEF Stream
<1>5. Suffix(Stream', Stream)
    BY <1>4, StreamFacts DEF Flow
<1> QED
    BY <1>1, <1>4, <1>5, SuffixStep

\* Steps that move units along the stream, or leave it alone.
LEMMA SameStep ==
    ASSUME Flow, Start, Types', Stream' = Stream, UNCHANGED <<handled, asked, torn>>,
           link' # "dead" => link # "dead"
    PROVE  Flow' /\ Start'
<1>1. Suffix(Stream', Stream)
    BY StreamFacts DEF Flow
<1>2. Flow'
    BY <1>1, SuffixStep
<1>3. Start'
    BY DEF Start, Starts
<1> QED
    BY <1>2, <1>3

\* clean_conn of the client.
LEMMA CleanStep ==
    ASSUME Inv, clean_conn
    PROVE  Inv'
<1>1. /\ s_ibuf' = <<>> /\ c2s' = <<>> /\ c_obuf' = c_obuf /\ handled' = handled /\ asked' = asked
      /\ s_pc' = "idle" /\ s_head' = FALSE /\ garbled' = garbled /\ refused' = refused
      /\ server' = server
      /\ torn' = (torn \/ (c_obuf # <<>> /\ Head(c_obuf).k # 1))
    BY DEF clean_conn, shist
<1>2. Flow' /\ Stream' = c_obuf
    BY <1>1, GoneStep DEF Inv
<1>3. Start'
  <2>1. c_obuf # <<>> => Head(c_obuf) = c_obuf[1]
      BY DEF Inv, Flow, Types
  <2> QED
      BY <1>1, <1>2, <2>1 DEF Start, Starts
<1>4. Causes'
    BY <1>1 DEF Inv, Causes, AbortCauses
<1> QED
    BY <1>2, <1>3, <1>4 DEF Inv

\* do_write of the client, do_read of the server: units move along.
LEMMA MoveSteps ==
    ASSUME Inv, client_do_write \/ conn_do_read
    PROVE  Inv'
<1>1. c_obuf \in Seq(ReqUnit) /\ c2s \in Seq(ReqUnit) /\ s_ibuf \in Seq(ReqUnit)
    BY DEF Inv, Flow, Types
<1>2. CASE client_do_write /\ link = "open"
  <2>1. PICK n \in 1 .. Len(c_obuf) : c2s' = c2s \o SubSeq(c_obuf, 1, n) /\ c_obuf' = Drop(c_obuf, n)
      BY <1>2 DEF client_do_write
  <2>2. /\ s_ibuf' = s_ibuf /\ UNCHANGED <<handled, asked, torn, link, s_pc, garbled, refused, s_head, server>>
      BY <1>2 DEF client_do_write, svars, chist, shist
  <2> DEFINE a == SubSeq(c_obuf, 1, n)
             b == Drop(c_obuf, n)
  <2>3. a \in Seq(ReqUnit) /\ b \in Seq(ReqUnit) /\ c_obuf = a \o b
    <3>1. n \in 0 .. Len(c_obuf)
        BY <1>1, Fields
    <3> QED
        BY <1>1, <3>1, DropFacts
  <2> HIDE DEF a, b
  <2>4. (c2s \o a) \o b = c2s \o (a \o b) /\ c2s \o a \in Seq(ReqUnit)
      BY <1>1, <2>3, Assoc, SMTT(30)
  <2>5. c2s' = c2s \o a /\ c_obuf' = b
      BY <2>1 DEF a, b
  <2>6. Stream' = Stream
      BY <2>2, <2>3, <2>4, <2>5 DEF Stream
  <2>7. Types'
      BY <1>1, <2>2, <2>3, <2>4, <2>5 DEF Inv, Flow, Types
  <2>8. Flow' /\ Start'
      BY <2>2, <2>6, <2>7, SameStep DEF Inv
  <2> QED
      BY <2>2, <2>8 DEF Inv, Causes, AbortCauses
<1>3. CASE client_do_write /\ link # "open"
    BY <1>3, CleanStep DEF client_do_write
<1>4. CASE conn_do_read
  <2>1. PICK n \in 1 .. Len(c2s) : s_ibuf' = s_ibuf \o SubSeq(c2s, 1, n) /\ c2s' = Drop(c2s, n)
      BY <1>4 DEF conn_do_read
  <2>2. /\ c_obuf' = c_obuf /\ UNCHANGED <<handled, asked, torn, link, garbled, refused, s_head, server>>
        /\ link = "open"
      BY <1>4 DEF conn_do_read, cvars, chist, shist
  <2> DEFINE a == SubSeq(c2s, 1, n)
             b == Drop(c2s, n)
  <2>3. a \in Seq(ReqUnit) /\ b \in Seq(ReqUnit) /\ c2s = a \o b
    <3>1. n \in 0 .. Len(c2s)
        BY <1>1, Fields
    <3> QED
        BY <1>1, <3>1, DropFacts
  <2> HIDE DEF a, b
  <2>4. b \o c_obuf \in Seq(ReqUnit) /\ (a \o b) \o c_obuf = a \o (b \o c_obuf)
      BY <1>1, <2>3, Assoc, SMTT(30)
  <2>5. (s_ibuf \o a) \o (b \o c_obuf) = s_ibuf \o (a \o (b \o c_obuf)) /\ s_ibuf \o a \in Seq(ReqUnit)
    <3> DEFINE d == b \o c_obuf
    <3>1. d \in Seq(ReqUnit)
        BY <2>4
    <3> HIDE DEF d
    <3>2. (s_ibuf \o a) \o d = s_ibuf \o (a \o d) /\ s_ibuf \o a \in Seq(ReqUnit)
        BY <1>1, <2>3, <3>1, Assoc
    <3> QED
        BY <3>2 DEF d
  <2>6. s_ibuf' = s_ibuf \o a /\ c2s' = b
      BY <2>1 DEF a, b
  <2>7. Stream' = Stream
    <3>1. Stream' = (s_ibuf \o a) \o (b \o c_obuf)
        BY <2>2, <2>6 DEF Stream
    <3>2. Stream = s_ibuf \o ((a \o b) \o c_obuf)
        BY <2>3 DEF Stream
    <3> QED
        BY <2>4, <2>5, <3>1, <3>2
  <2>8. Types'
      BY <1>1, <2>2, <2>3, <2>5, <2>6 DEF Inv, Flow, Types
  <2>9. Flow' /\ Start'
      BY <2>2, <2>7, <2>8, SameStep DEF Inv
  <2> QED
      BY <2>2, <2>9 DEF Inv, Causes, AbortCauses
<1> QED
    BY <1>2, <1>3, <1>4

\* Steps that leave the requests alone.
LEMMA OtherSteps ==
    ASSUME Inv,
           UNCHANGED <<s_ibuf, c2s, c_obuf, handled, asked, torn, garbled, refused, s_head, s_pc, server>>,
           link' = link \/ link = "pending"
    PROVE  Inv'
<1>1. Types' /\ Stream' = Stream
    BY DEF Inv, Flow, Types, Stream
<1>2. Flow' /\ Start'
    BY <1>1, SameStep DEF Inv
<1>3. Causes'
    BY DEF Inv, Causes, AbortCauses
<1> QED
    BY <1>2, <1>3 DEF Inv

\* send_message of a handler: the assertion fails after a rollback only.
LEMMA AnswerStep ==
    ASSUME Inv, server = "up", NEW m, NEW rest, conn_send_message(m, rest)
    PROVE  \/ /\ s_ibuf' = <<>> /\ c2s' = <<>> /\ link' = "dead" /\ s_pc' = "idle"
              /\ s_head' = FALSE /\ refused' # {} /\ server' = "aborted"
           \/ /\ s_ibuf' = rest /\ c2s' = c2s /\ link' = link /\ s_pc' = s_pc
              /\ server' = "up" /\ (s_head' => refused' # {})
<1>1. CASE s_head
    BY <1>1 DEF conn_send_message, Abort, ConnGone, Inv, Causes
<1>2. CASE ~s_head
    BY <1>2 DEF conn_send_message
<1> QED
    BY <1>1, <1>2

\* conn_handle: a whole request at the head of the stream.
LEMMA RequestStep ==
    ASSUME Inv, server = "up", link = "open", NEW m, NEW n,
           Len(s_ibuf) >= HeadLen, Aligned(s_ibuf), m = s_ibuf[1].m, n = HeadLen + ReqBody[m],
           Whole(n), conn_handle(m, n), UNCHANGED <<c_obuf, asked, torn>>
    PROVE  Inv'
<1>1. c_obuf \in Seq(ReqUnit) /\ c2s \in Seq(ReqUnit) /\ s_ibuf \in Seq(ReqUnit)
    BY DEF Inv, Flow, Types
<1>2. Len(s_ibuf) \in Nat /\ Len(s_ibuf) > 1 /\ 1 \in 1 .. HeadLen /\ 1 \in 1 .. Len(s_ibuf)
    BY <1>1, Fields, StreamAssumption
<1>3. s_ibuf[1].k = 1 /\ m \in Msg /\ n = L(m) /\ n \in Nat /\ n \in 0 .. Len(s_ibuf)
  <2>1. s_ibuf[1].k = 1
      BY <1>2 DEF Aligned
  <2>2. m \in Msg
      BY <1>1, <1>2, Fields
  <2>3. n = L(m) /\ n \in Nat
      BY <2>2, Lengths DEF L
  <2>4. n <= Len(s_ibuf)
      BY DEF Whole
  <2> QED
      BY <1>2, <2>1, <2>2, <2>3, <2>4
<1>4. Stream \in Seq(ReqUnit) /\ Stream[1] = s_ibuf[1] /\ Stream # <<>>
    BY <1>2, StreamFacts, EmptySeq DEF Inv, Flow
<1>5. /\ Drop(s_ibuf, n) \o (c2s \o c_obuf) = Drop(Stream, n)
      /\ Suffix(c_obuf, Drop(Stream, n)) /\ n \in 0 .. Len(Stream)
    BY <1>3, StreamFacts DEF Inv, Flow
<1>6. /\ Starts(Drop(Stream, n)) /\ Drop(Stream, n) \in Seq(ReqUnit)
      /\ Suffix(Drop(Stream, n), Drop(Stream, n))
  <2>1. Drop(Stream, n) \in Seq(ReqUnit)
      BY <1>4, <1>5, DropFacts
  <2>2. Starts(Drop(Stream, n))
      BY <1>3, <1>4, FirstRequest DEF Inv, Flow
  <2>3. Len(Drop(Stream, n)) \in Nat
      BY <2>1, Fields
  <2> QED
      BY <2>1, <2>2, <2>3 DEF Suffix
<1>7. handled' = Append(handled, m) /\ garbled' = garbled
    BY DEF conn_handle
<1>8. handled' \in Seq(Msg) /\ Len(handled') \in Nat /\ Len(handled') > 0 /\ handled'[Len(handled')] = m
    BY <1>3, <1>7, AppendProperties, LenProperties DEF Inv, Flow, Types
<1>9. ASSUME s_ibuf' = <<>>, c2s' = <<>> PROVE Flow'
  <2>1. Stream' = c_obuf
    <3>1. <<>> \o c_obuf = c_obuf
        BY <1>1, ConcatEmptySeq
    <3> QED
        BY <1>9, <3>1 DEF Stream
  <2>2. Types'
      BY <1>1, <1>8, <1>9, EmptySeq DEF Inv, Flow, Types
  <2> QED
      BY <1>3, <1>4, <1>5, <1>7, <2>1, <2>2, HandleStep DEF Inv
<1>10. ASSUME s_ibuf' = Drop(s_ibuf, n), c2s' = c2s PROVE Flow' /\ Start'
  <2>1. Stream' = Drop(Stream, n)
      BY <1>5, <1>10 DEF Stream
  <2>2. Types'
    <3>1. Drop(s_ibuf, n) \in Seq(ReqUnit)
        BY <1>1, <1>3, DropFacts
    <3> QED
        BY <1>1, <1>8, <1>10, <3>1 DEF Inv, Flow, Types
  <2>3. Flow'
      BY <1>3, <1>4, <1>6, <1>7, <2>1, <2>2, HandleStep DEF Inv
  <2> QED
      BY <1>6, <2>1, <2>3 DEF Start, Starts
<1>11. CASE n = HeadLen /\ Len(s_ibuf) = HeadLen
  <2>1. /\ s_ibuf' = <<>> /\ c2s' = <<>> /\ link' = "dead" /\ s_pc' = "idle" /\ s_head' = FALSE
      BY <1>11 DEF conn_handle, Abort, ConnGone
  <2>2. ReqBody[m] = 0
      BY <1>3, <1>11, StreamAssumption, SMTT(30)
  <2>3. AbortCauses'
      BY <1>8, <2>2 DEF AbortCauses
  <2> QED
      BY <1>7, <1>9, <2>1, <2>3 DEF Inv, Start, Causes
<1>12. CASE ~(n = HeadLen /\ Len(s_ibuf) = HeadLen)
  <2>1. conn_send_message(m, Drop(s_ibuf, n))
      BY <1>12 DEF conn_handle
  <2>2. CASE /\ s_ibuf' = <<>> /\ c2s' = <<>> /\ link' = "dead" /\ s_pc' = "idle"
             /\ s_head' = FALSE /\ refused' # {} /\ server' = "aborted"
      BY <1>7, <1>9, <2>2 DEF Inv, Start, Causes, AbortCauses
  <2>3. CASE /\ s_ibuf' = Drop(s_ibuf, n) /\ c2s' = c2s /\ link' = link /\ s_pc' = s_pc
             /\ server' = "up" /\ (s_head' => refused' # {})
      BY <1>7, <1>10, <2>3 DEF Inv, Causes, AbortCauses
  <2> QED
      BY <2>1, <2>2, <2>3, AnswerStep
<1> QED
    BY <1>11, <1>12

\* Another unit than the first of a request at the head of the stream: the
\* request before was cut off by a break, and kept.
LEMMA MisreadTorn ==
    ASSUME Inv, link = "open", Len(s_ibuf) >= HeadLen, ~Aligned(s_ibuf)
    PROVE  torn
<1> SUFFICES ASSUME ~torn PROVE FALSE
    OBVIOUS
<1>1. Types /\ Good(Stream) /\ Starts(Stream)
    BY DEF Inv, Flow, Start
<1>2. s_ibuf \in Seq(ReqUnit) /\ Len(s_ibuf) \in Nat /\ 1 \in 1 .. Len(s_ibuf)
    BY <1>1, Fields, StreamAssumption DEF Types
<1>3. /\ Stream \in Seq(ReqUnit)
      /\ \A i \in 1 .. Len(s_ibuf) : Stream[i] = s_ibuf[i] /\ i \in 1 .. Len(Stream)
    BY <1>1, StreamFacts
<1>4. Stream # <<>>
    BY <1>2, <1>3, EmptySeq
<1>5. Stream[1].k = 1
    BY <1>1, <1>4 DEF Starts
<1>6. /\ Stream[1].m \in Msg
      /\ \A k \in 1 .. L(Stream[1].m) : Stream[k].m = Stream[1].m /\ Stream[k].k = k
    BY <1>1, <1>3, <1>4, <1>5, FirstRequest
<1>7. \A k \in 1 .. HeadLen : k \in 1 .. L(Stream[1].m) /\ k \in 1 .. Len(s_ibuf)
    BY <1>2, <1>6, Lengths
<1>8. \A k \in 1 .. HeadLen : s_ibuf[k].k = k /\ s_ibuf[k].m = s_ibuf[1].m
    BY <1>2, <1>3, <1>6, <1>7
<1> QED
    BY <1>8 DEF Aligned

\* conn_misread: what is left is a part of a torn stream.
LEMMA MisreadStep ==
    ASSUME Inv, server = "up", link = "open", Len(s_ibuf) >= HeadLen, ~Aligned(s_ibuf),
           conn_misread, UNCHANGED <<c_obuf, asked, torn>>
    PROVE  Inv'
<1>1. torn /\ torn'
    BY MisreadTorn
<1>2. Flow /\ Types /\ handled' = handled /\ asked' = asked
    BY DEF Inv, Flow, conn_misread
<1>3. s_ibuf \in Seq(ReqUnit) /\ c2s \in Seq(ReqUnit) /\ c_obuf \in Seq(ReqUnit)
    BY <1>2 DEF Types
<1>4. ASSUME s_ibuf' = <<>>, c2s' = <<>> PROVE Flow'
    BY <1>2, <1>4, GoneStep
<1>5. ASSUME NEW n \in 0 .. Len(s_ibuf), s_ibuf' = Drop(s_ibuf, n), c2s' = c2s PROVE Flow'
  <2>1. Drop(s_ibuf, n) \in Seq(ReqUnit)
      BY <1>3, DropFacts
  <2>2. Types'
      BY <1>2, <1>3, <1>5, <2>1 DEF Types
  <2>3. Stream' = Drop(Stream, n) /\ n \in 0 .. Len(Stream) /\ Stream \in Seq(ReqUnit)
      BY <1>2, <1>5, StreamFacts DEF Stream
  <2>4. Suffix(Drop(Stream, n), Stream)
    <3>1. /\ Drop(Stream, n) \in Seq(ReqUnit) /\ Len(Drop(Stream, n)) = Len(Stream) - n
          /\ \A i \in 1 .. Len(Stream) - n : Drop(Stream, n)[i] = Stream[i + n]
        BY <2>3, DropFacts
    <3>2. Len(Stream) \in Nat /\ Len(Stream) - (Len(Stream) - n) = n
        BY <2>3, Fields
    <3> QED
        BY <2>3, <3>1, <3>2 DEF Suffix
  <2> QED
      BY <1>2, <2>2, <2>3, <2>4, SuffixStep
<1>6. ASSUME Flow', s_pc' = "parse" => link' = "open", s_head' => refused' # {} PROVE Inv'
    BY <1>1, <1>6 DEF Inv, Start, Causes, AbortCauses
<1>7. CASE ConnGone
    BY <1>4, <1>6, <1>7 DEF ConnGone
<1>8. CASE s_pc' = "idle" /\ UNCHANGED <<server, s_obuf, s_ibuf, s_head, link, c2s, refused>>
  <2>1. Types' /\ Stream' = Stream
      BY <1>2, <1>8 DEF Types, Stream
  <2>2. Flow'
      BY <1>2, <2>1, StreamFacts, SuffixStep
  <2> QED
      BY <1>6, <1>8, <2>2 DEF Inv, Causes
<1>9. ASSUME NEW n \in HeadLen .. Len(s_ibuf), conn_send_message(0, Drop(s_ibuf, n)) PROVE Inv'
  <2>1. n \in 0 .. Len(s_ibuf)
      BY <1>3, Fields, StreamAssumption
  <2>2. CASE s_ibuf' = <<>> /\ c2s' = <<>> /\ s_pc' = "idle" /\ s_head' = FALSE
      BY <1>4, <1>6, <2>2
  <2>3. CASE /\ s_ibuf' = Drop(s_ibuf, n) /\ c2s' = c2s /\ link' = link /\ s_pc' = s_pc
             /\ (s_head' => refused' # {})
      BY <1>5, <1>6, <2>1, <2>3
  <2> QED
      BY <1>9, <2>2, <2>3, AnswerStep
<1>10. ASSUME NEW n \in HeadLen .. Len(s_ibuf), s_ibuf' = Drop(s_ibuf, n),
              UNCHANGED <<server, s_obuf, s_pc, s_head, link, c2s, refused>>
       PROVE  Inv'
  <2>1. n \in 0 .. Len(s_ibuf)
      BY <1>3, Fields, StreamAssumption
  <2>2. Flow'
      BY <1>5, <1>10, <2>1
  <2> QED
      BY <1>6, <1>10, <2>2 DEF Inv, Causes
<1> QED
    BY <1>7, <1>8, <1>9, <1>10 DEF conn_misread, Abort

\* conn_parse, by what is at the head of the buffer.
LEMMA ParseStep ==
    ASSUME Inv, conn_parse
    PROVE  Inv'
<1> DEFINE m == s_ibuf[1].m
           n == HeadLen + ReqBody[m]
<1>1. server = "up" /\ s_pc = "parse" /\ link = "open" /\ UNCHANGED <<c_obuf, asked, torn>>
    BY DEF conn_parse, Inv, Causes, cvars, chist
<1>2. CASE conn_wait
  <2>1. UNCHANGED <<s_ibuf, c2s, handled, garbled, refused, s_head, server, link>> /\ s_pc' = "idle"
      BY <1>2 DEF conn_wait, shist
  <2>2. Types' /\ Stream' = Stream
      BY <1>1, <2>1 DEF Inv, Flow, Types, Stream
  <2>3. Flow' /\ Start'
      BY <1>1, <2>1, <2>2, SameStep DEF Inv
  <2> QED
      BY <1>1, <2>1, <2>3 DEF Inv, Causes, AbortCauses
<1>3. CASE Len(s_ibuf) >= HeadLen /\ Aligned(s_ibuf) /\ Whole(n) /\ conn_handle(m, n)
    BY <1>1, <1>3, RequestStep
<1>4. CASE Len(s_ibuf) >= HeadLen /\ ~Aligned(s_ibuf) /\ conn_misread
    BY <1>1, <1>4, MisreadStep
<1>5. CASE conn_refuse
  <2>1. /\ s_ibuf' = <<>> /\ c2s' = <<>> /\ link' = "dead" /\ s_pc' = "idle" /\ s_head' = FALSE
        /\ UNCHANGED <<server, handled, garbled, refused>>
      BY <1>5 DEF conn_refuse, ConnGone
  <2>2. Flow'
      BY <1>1, <2>1, GoneStep DEF Inv
  <2> QED
      BY <1>1, <2>1, <2>2 DEF Inv, Start, Causes, AbortCauses
<1> QED
    BY <1>2, <1>3, <1>4, <1>5 DEF conn_parse

\* conn_do_write and the break of a connection.
LEMMA WriteCutSteps ==
    ASSUME Inv, conn_do_write \/ Cut
    PROVE  Inv'
<1>1. UNCHANGED <<c_obuf, handled, asked, torn, garbled, refused>>
    BY DEF conn_do_write, Cut, cvars, chist, shist
<1>2. CASE ConnGone /\ (server' = server \/ (server' = "aborted" /\ s_head))
  <2>1. s_ibuf' = <<>> /\ c2s' = <<>> /\ link' = "dead" /\ s_pc' = "idle" /\ s_head' = FALSE
      BY <1>2 DEF ConnGone
  <2>2. Flow'
      BY <1>1, <2>1, GoneStep DEF Inv
  <2> QED
      BY <1>1, <1>2, <2>1, <2>2 DEF Inv, Start, Causes, AbortCauses
<1>3. CASE UNCHANGED <<server, s_ibuf, s_pc, s_head, link, c2s>>
    BY <1>1, <1>3, OtherSteps
<1> QED
    BY <1>2, <1>3 DEF conn_do_write, Cut, Abort

\* The steps of the client and of the network that do not write requests.
LEMMA ClientSteps ==
    ASSUME Inv, connection_delay \/ client_do_read \/ client_parse \/ Established
    PROVE  Inv'
<1>1. CASE clean_conn
    BY <1>1, CleanStep
<1>2. CASE ~clean_conn
  <2>1. /\ UNCHANGED <<s_ibuf, c2s, c_obuf, handled, asked, torn, garbled, refused, s_head, s_pc, server>>
        /\ link' = link \/ link = "pending"
      BY <1>2 DEF connection_delay, client_do_read, client_parse, Established, svars, net, cvars, chist, shist
  <2> QED
      BY <2>1, OtherSteps
<1> QED
    BY <1>1, <1>2

\* The invariant holds of every behaviour.
LEMMA StreamInv == Spec => []Inv
<1>1. Init => Inv
  <2> SUFFICES ASSUME Init PROVE Inv
      OBVIOUS
  <2>1. /\ s_ibuf = <<>> /\ c2s = <<>> /\ c_obuf = <<>> /\ handled = <<>> /\ asked = 0
        /\ s_pc = "idle" /\ garbled = FALSE /\ s_head = FALSE /\ server = "up"
      BY DEF Init
  <2>2. Stream = <<>> /\ Len(Stream) = 0 /\ Len(handled) = 0
    <3>1. <<>> \in Seq(ReqUnit) /\ Len(<<>>) = 0
        BY EmptySeq
    <3>2. <<>> \o <<>> = <<>>
        BY <3>1, ConcatEmptySeq
    <3> QED
        BY <2>1, <3>1, <3>2 DEF Stream
  <2>3. Types
      BY <2>1, EmptySeq, StreamAssumption DEF Types
  <2>4. Good(Stream) /\ Starts(Stream)
      BY <2>2 DEF Good, Units, Forward, Boundary, Ordered, Starts
  <2>5. Above(Stream, handled, asked) /\ InOrder
      BY <2>2 DEF Above, InOrder, Increasing
  <2> QED
      BY <2>1, <2>3, <2>4, <2>5 DEF Inv, Flow, Start, Causes, AbortCauses
<1>2. Inv /\ [Next]_vars => Inv'
  <2> SUFFICES ASSUME Inv, [Next]_vars PROVE Inv'
      OBVIOUS
  <2>1. CASE client_send_message
    <3>1. Flow' /\ Start'
        BY <2>1, SendStep
    <3>2. UNCHANGED <<s_pc, link, garbled, torn, s_head, refused, server, handled>>
        BY <2>1 DEF client_send_message, svars, net, shist
    <3> QED
        BY <3>1, <3>2 DEF Inv, Causes, AbortCauses
  <2>2. CASE client_do_write \/ conn_do_read
      BY <2>2, MoveSteps
  <2>3. CASE connection_delay \/ client_do_read \/ client_parse \/ Established
      BY <2>3, ClientSteps
  <2>4. CASE conn_parse
      BY <2>4, ParseStep
  <2>5. CASE conn_do_write \/ Cut
      BY <2>5, WriteCutSteps
  <2>6. CASE UNCHANGED vars
      BY <2>6, OtherSteps DEF vars, cvars, svars, net, chist, shist
  <2> QED
      BY <2>1, <2>2, <2>3, <2>4, <2>5, <2>6 DEF Next, ClientStep, ServerStep
<1> QED
    BY <1>1, <1>2, PTL DEF Spec

\* For all messages, buffers and breaks: the server handles whole requests, at
\* most once and in the order sent, misreads a torn stream only
\* (RequestsWhole), and aborts of this client only for one of three causes
\* (AbortCauses).
THEOREM StreamSafe == Spec => [](RequestsWhole /\ AbortCauses)
<1>1. Inv => RequestsWhole /\ AbortCauses
    BY DEF Inv, Flow, InOrder, Causes, RequestsWhole
<1> QED
    BY <1>1, StreamInv, PTL

-----------------------------------------------------------------------------
(* The events of the client.                                                *)

EInv ==
    /\ c_obuf \in Seq(ReqUnit)
    /\ EventsMatch
    /\ client = "ok" /\ out = "write" => connected

\* do_connect registers what the buffer needs.
LEMMA ConnectEvents ==
    ASSUME EInv, client = "ok", clean_conn
    PROVE  EInv'
<1>1. c_obuf' = c_obuf /\ misled' = misled /\ gaveup' = gaveup
    BY DEF clean_conn
<1> QED
    BY <1>1 DEF EInv, EventsMatch, clean_conn, do_connect, Registered

\* Through connects, breaks and partial writes, the events the client has
\* registered are those its state needs (EventsMatch).
THEOREM EventsSafe == Spec => []EventsMatch
<1>1. Init => EInv
    BY EmptySeq DEF Init, EInv, EventsMatch
<1>2. EInv /\ Inv /\ Inv' /\ [Next]_vars => EInv'
  <2> SUFFICES ASSUME EInv, Inv, Inv', [Next]_vars PROVE EInv'
      OBVIOUS
  <2>0. c_obuf' \in Seq(ReqUnit)
      BY DEF Inv, Flow, Types
  <2>1. CASE client_send_message
    <3> DEFINE f == Frame(asked + 1, ReqBody[asked + 1])
    <3>1. c_obuf' # <<>>
      <4>1. asked + 1 \in Msg /\ c_obuf \in Seq(ReqUnit) /\ c_obuf' = c_obuf \o f
          BY <2>1 DEF client_send_message, Inv, Flow, Types, Msg
      <4>2. f \in Seq(ReqUnit) /\ Len(f) \in Nat /\ Len(f) > 0
          BY <4>1, FrameFacts, Lengths
      <4> HIDE DEF f
      <4>3. Len(c_obuf') = Len(c_obuf) + Len(f) /\ Len(c_obuf) \in Nat
          BY <4>1, <4>2, ConcatProperties, LenProperties
      <4> QED
          BY <4>2, <4>3, EmptySeq
    <3> QED
        BY <2>0, <2>1, <3>1 DEF client_send_message, EInv, EventsMatch, net
  <2>2. CASE connection_delay
      BY <2>0, <2>2 DEF connection_delay, Registered, EInv, EventsMatch, net
  <2>3. CASE client_do_write
    <3>1. CASE clean_conn
        BY <2>3, <3>1, ConnectEvents DEF client_do_write
    <3>2. CASE ~clean_conn
      <4>1. /\ client = "ok" /\ out = "write" /\ UNCHANGED <<client, connected, watch, misled, gaveup>>
            /\ out' = IF c_obuf' = <<>> THEN "none" ELSE out
          BY <2>3, <3>2 DEF client_do_write, chist
      <4> QED
          BY <2>0, <4>1 DEF EInv, EventsMatch
    <3> QED
        BY <3>1, <3>2
  <2>4. CASE client_do_read
    <3>1. CASE clean_conn
        BY <2>4, <3>1, ConnectEvents DEF client_do_read
    <3>2. CASE ~clean_conn
      <4>1. /\ UNCHANGED <<connected, watch, out, c_obuf, misled, gaveup>>
            /\ client' = "ok" => client = "ok"
          BY <2>4, <3>2 DEF client_do_read, chist
      <4> QED
          BY <2>0, <4>1 DEF EInv, EventsMatch
    <3> QED
        BY <3>1, <3>2
  <2>5. CASE client_parse
      BY <2>0, <2>5 DEF client_parse, client_handle, EInv, EventsMatch, net
  <2>6. CASE Established
      BY <2>6 DEF Established, EInv, EventsMatch, cvars, chist
  <2>7. CASE ServerStep \/ Cut
    <3>1. UNCHANGED <<cvars, chist>> /\ (link' = link \/ link' = "dead")
        BY <2>7 DEF ServerStep, conn_do_read, conn_parse, conn_do_write, Cut, conn_wait, conn_handle,
                    conn_misread, conn_refuse, conn_send_message, Abort, ConnGone
    <3> QED
        BY <3>1 DEF EInv, EventsMatch, cvars, chist
  <2>8. CASE UNCHANGED vars
      BY <2>8 DEF vars, cvars, chist, net, EInv, EventsMatch
  <2> QED
      BY <2>1, <2>2, <2>3, <2>4, <2>5, <2>6, <2>7, <2>8 DEF Next, ClientStep
<1>3. EInv => EventsMatch
    BY DEF EInv
<1> QED
    BY <1>1, <1>2, <1>3, StreamInv, PTL DEF Spec
-----------------------------------------------------------------------------
(* Types, with the sizes of the buffers.                                    *)

\* Units of requests are units.
LEMMA UnitSeqs == Seq(ReqUnit) \subseteq Seq(Unit)
<1>1. ReqUnit \subseteq Unit
    BY StreamAssumption DEF ReqUnit, Unit, Msg
<1> QED
    BY <1>1

\* The units of an answer, as send_message lays them out.
LEMMA FrameUnits ==
    ASSUME NEW m \in 0 .. MaxMsgs, NEW b \in Nat
    PROVE  /\ HeadLen + b \in Nat /\ Frame(m, b) \in Seq(Unit) /\ Len(Frame(m, b)) = HeadLen + b
           /\ \A i \in 1 .. HeadLen + b : Frame(m, b)[i].m = m /\ Frame(m, b)[i].k = i
<1>1. HeadLen + b \in Nat
    BY StreamAssumption
<1> DEFINE n == HeadLen + b
<1>2. Frame(m, b) = [k \in 1 .. n |-> [m |-> m, k |-> k]]
    BY DEF Frame
<1> HIDE DEF n
<1>3. \A k \in 1 .. n : [m |-> m, k |-> k] \in Unit
    BY <1>1 DEF Unit, n
<1>4. Frame(m, b) \in [1 .. n -> Unit]
    BY <1>2, <1>3
<1>5. Frame(m, b) \in Seq(Unit) /\ Len(Frame(m, b)) = n
    BY <1>1, <1>4, SeqDef DEF n
<1>6. ASSUME NEW i \in 1 .. n
      PROVE  Frame(m, b)[i].m = m /\ Frame(m, b)[i].k = i
  <2> DEFINE u == Frame(m, b)[i]
  <2>1. u = [m |-> m, k |-> i]
      BY <1>2
  <2> HIDE DEF u
  <2>2. u.m = m /\ u.k = i
      BY <2>1
  <2> QED
      BY <2>2 DEF u
<1> QED
    BY <1>1, <1>5, <1>6 DEF n

\* The parts of TypeOK that the server's side changes.
ServerTypes ==
    /\ link \in {"pending", "open", "dead"} /\ server \in {"up", "aborted"}
    /\ s_obuf \in Seq(Unit) /\ Len(s_obuf) <= SObufCap
    /\ s_pc \in {"idle", "parse"} /\ s_head \in BOOLEAN
    /\ garbled \in BOOLEAN /\ refused \subseteq 0 .. MaxMsgs

\* send_message of a handler: the answer fits, or the rollback takes away as
\* many units as the header brought.
LEMMA AnswerTypes ==
    ASSUME ServerTypes, NEW m \in 0 .. MaxMsgs, NEW rest, conn_send_message(m, rest),
           garbled' \in BOOLEAN
    PROVE  ServerTypes'
<1>1. RespBody[m] \in Nat /\ SObufCap \in Nat /\ HeadLen \in Nat /\ 0 \in Nat
    BY StreamAssumption
<1>2. s_obuf \in Seq(Unit) /\ Len(s_obuf) \in Nat /\ Len(s_obuf) <= SObufCap
    BY LenProperties DEF ServerTypes
<1>3. CASE s_head
  <2>1. <<>> \in Seq(Unit) /\ Len(<<>>) = 0
      BY EmptySeq
  <2>2. /\ link' = "dead" /\ server' = "aborted" /\ s_obuf' = <<>> /\ s_pc' = "idle"
        /\ s_head' = FALSE /\ refused' = refused
      BY <1>3 DEF conn_send_message, Abort, ConnGone
  <2>3. s_obuf' \in Seq(Unit) /\ Len(s_obuf') <= SObufCap
      BY <1>1, <2>1, <2>2
  <2> QED
      BY <2>2, <2>3 DEF ServerTypes
<1>4. CASE ~s_head /\ s_obuf' = s_obuf \o Frame(m, RespBody[m]) /\ SObufCap - Len(s_obuf) >= HeadLen + RespBody[m]
           /\ UNCHANGED <<s_head, refused, server, s_pc, link>>
  <2> DEFINE f == Frame(m, RespBody[m])
  <2>1. f \in Seq(Unit) /\ Len(f) = HeadLen + RespBody[m]
      BY <1>1, FrameUnits
  <2> HIDE DEF f
  <2>2. s_obuf \o f \in Seq(Unit) /\ Len(s_obuf \o f) = Len(s_obuf) + Len(f)
      BY <1>2, <2>1, ConcatProperties
  <2>3. Len(s_obuf \o f) <= SObufCap
    <3>1. Len(f) \in Nat /\ SObufCap - Len(s_obuf) >= Len(f)
        BY <1>1, <1>4, <2>1
    <3> QED
        BY <1>1, <1>2, <2>2, <3>1
  <2>4. s_obuf' \in Seq(Unit) /\ Len(s_obuf') <= SObufCap
      BY <1>4, <2>2, <2>3 DEF f
  <2> QED
      BY <1>4, <2>4 DEF ServerTypes
<1>5. CASE ~s_head /\ s_obuf' = s_obuf /\ s_head' = s_head /\ refused' = refused \cup {m}
           /\ UNCHANGED <<server, s_pc, link>>
    BY <1>5 DEF ServerTypes
<1>6. CASE ~s_head /\ s_obuf' = Drop(s_obuf \o Frame(m, 0), HeadLen) /\ s_head' = TRUE /\ refused' = refused \cup {m}
           /\ UNCHANGED <<server, s_pc, link>>
  <2> DEFINE f == Frame(m, 0)
             q == s_obuf \o f
  <2>0. f \in Seq(Unit) /\ Len(f) = HeadLen + 0
      BY <1>1, FrameUnits
  <2>1. f \in Seq(Unit) /\ Len(f) = HeadLen
      BY <1>1, <2>0
  <2> HIDE DEF f
  <2>2. q \in Seq(Unit) /\ Len(q) = Len(s_obuf) + Len(f)
      BY <1>2, <2>1, ConcatProperties
  <2> HIDE DEF q
  <2>3. HeadLen \in 0 .. Len(q) /\ Len(q) - HeadLen = Len(s_obuf)
      BY <1>1, <1>2, <2>1, <2>2
  <2>4. Drop(q, HeadLen) \in Seq(Unit) /\ Len(Drop(q, HeadLen)) = Len(q) - HeadLen
      BY <2>2, <2>3, DropFacts
  <2> QED
      BY <1>2, <1>6, <2>3, <2>4 DEF ServerTypes, q, f
<1> QED
    BY <1>3, <1>4, <1>5, <1>6 DEF conn_send_message

\* The steps of the server.
LEMMA ServerStepTypes ==
    ASSUME ServerTypes, Inv, s2c \in Seq(Unit), ServerStep
    PROVE  ServerTypes' /\ s2c' \in Seq(Unit)
<1>1. s_obuf \in Seq(Unit) /\ s_ibuf \in Seq(ReqUnit) /\ Len(s_obuf) \in Nat /\ Len(s_ibuf) \in Nat
    BY LenProperties DEF ServerTypes, Inv, Flow, Types
<1>2. CASE conn_do_read
    BY <1>2 DEF conn_do_read, shist, ServerTypes
<1>3. ASSUME ConnGone, server' \in {"up", "aborted"}, garbled' \in BOOLEAN, refused' = refused
      PROVE  ServerTypes'
  <2>1. <<>> \in Seq(Unit) /\ Len(<<>>) = 0
      BY EmptySeq
  <2>2. s_obuf' \in Seq(Unit) /\ Len(s_obuf') <= SObufCap
      BY <1>3, <2>1, StreamAssumption DEF ConnGone
  <2> QED
      BY <1>3, <2>2 DEF ConnGone, ServerTypes
<1>4. CASE conn_parse
  <2> DEFINE m == s_ibuf[1].m
             n == HeadLen + ReqBody[m]
  <2>0. s2c' \in Seq(Unit)
      BY <1>4 DEF conn_parse
  <2>1. CASE conn_wait
      BY <2>0, <2>1 DEF conn_wait, shist, ServerTypes
  <2>2. CASE Len(s_ibuf) >= HeadLen /\ conn_handle(m, n)
    <3>1. m \in 0 .. MaxMsgs
      <4>1. 1 \in 1 .. Len(s_ibuf)
          BY <1>1, <2>2, StreamAssumption
      <4> QED
          BY <1>1, <4>1, Fields DEF Msg
    <3>2. garbled' \in BOOLEAN
        BY <2>2 DEF conn_handle, ServerTypes
    <3>3. CASE Abort /\ refused' = refused
        BY <1>3, <2>0, <3>2, <3>3 DEF Abort
    <3>4. CASE conn_send_message(m, Drop(s_ibuf, n))
        BY <2>0, <3>1, <3>2, <3>4, AnswerTypes
    <3> QED
        BY <2>2, <3>3, <3>4 DEF conn_handle
  <2>3. CASE conn_misread
    <3>1. garbled' \in BOOLEAN
        BY <2>3 DEF conn_misread
    <3>2. CASE ConnGone /\ (server' = server \/ server' = "aborted") /\ refused' = refused
        BY <1>3, <2>0, <3>1, <3>2 DEF ServerTypes
    <3>3. CASE (s_pc' = "idle" \/ s_pc' = s_pc) /\ UNCHANGED <<server, s_obuf, s_head, link, refused>>
        BY <2>0, <3>1, <3>3 DEF ServerTypes
    <3>4. ASSUME NEW i, conn_send_message(0, Drop(s_ibuf, i)) PROVE ServerTypes'
      <4>1. 0 \in 0 .. MaxMsgs
          BY StreamAssumption
      <4> QED
          BY <3>1, <3>4, <4>1, AnswerTypes
    <3> QED
        BY <2>0, <2>3, <3>2, <3>3, <3>4 DEF conn_misread, Abort
  <2>4. CASE conn_refuse
      BY <1>3, <2>0, <2>4 DEF conn_refuse, ServerTypes
  <2> QED
      BY <1>4, <2>1, <2>2, <2>3, <2>4 DEF conn_parse
<1>5. CASE conn_do_write /\ s_head
    BY <1>3, <1>5 DEF conn_do_write, Abort, shist, ServerTypes
<1>6. CASE conn_do_write /\ ~s_head
  <2>1. PICK n \in 1 .. Len(s_obuf) : s2c' = s2c \o SubSeq(s_obuf, 1, n) /\ s_obuf' = Drop(s_obuf, n)
      BY <1>6 DEF conn_do_write
  <2>2. n \in 0 .. Len(s_obuf) /\ Len(s_obuf) - n <= Len(s_obuf) /\ n \in Nat
      BY <1>1
  <2>3. SubSeq(s_obuf, 1, n) \in Seq(Unit) /\ Drop(s_obuf, n) \in Seq(Unit) /\ Len(Drop(s_obuf, n)) = Len(s_obuf) - n
      BY <1>1, <2>2, DropFacts
  <2>4. s2c' \in Seq(Unit)
      BY <2>1, <2>3, ConcatProperties
  <2>5. s_obuf' \in Seq(Unit) /\ Len(s_obuf') <= SObufCap
      BY <1>1, <2>1, <2>2, <2>3, StreamAssumption DEF ServerTypes
  <2> QED
      BY <1>6, <2>4, <2>5 DEF conn_do_write, shist, ServerTypes
<1> QED
    BY <1>2, <1>4, <1>5, <1>6 DEF ServerStep

\* The parts of TypeOK that the client's side changes.
ClientTypes ==
    /\ client \in {"ok", "exited", "full", "overrun", "garbled"}
    /\ connected \in BOOLEAN /\ watch \in BOOLEAN
    /\ out \in {"none", "delay", "write"}
    /\ c_obuf \in Seq(Unit) /\ Len(c_obuf) <= CObufCap
    /\ c_ibuf \in Seq(Unit) /\ Len(c_ibuf) <= CIbufCap
    /\ c_pc \in {"idle", "parse"}
    /\ got \in Seq(0 .. MaxMsgs) /\ partial \subseteq 0 .. MaxMsgs
    /\ torn \in BOOLEAN /\ stale \in BOOLEAN /\ misled \in BOOLEAN /\ gaveup \in BOOLEAN

\* What TypeOK says besides.
OtherTypes ==
    /\ c2s \in Seq(Unit) /\ s2c \in Seq(Unit) /\ s_ibuf \in Seq(Unit)
    /\ asked \in 0 .. MaxMsgs /\ handled \in Seq(Msg) /\ cuts \in 0 .. MaxCuts
    /\ toolong \in BOOLEAN

\* Only a request over the limit sets toolong.
LEMMA LimitStep ==
    ASSUME [Next]_vars
    PROVE  toolong' = toolong \/ toolong' = TRUE
<1>1. CASE client_send_message \/ ClientStep \/ Established \/ Cut \/ UNCHANGED vars
    BY <1>1 DEF ClientStep, client_send_message, connection_delay, client_do_write, client_do_read,
                clean_conn, client_parse, Established, Cut, vars, shist
<1>2. CASE conn_do_read \/ conn_do_write
    BY <1>2 DEF conn_do_read, conn_do_write, shist
<1>3. CASE conn_parse
    BY <1>3 DEF conn_parse, conn_wait, conn_handle, conn_refuse, conn_misread, shist
<1> QED
    BY <1>1, <1>2, <1>3 DEF Next, ServerStep

\* The steps of the client that read.
LEMMA ReadTypes ==
    ASSUME ClientTypes, s2c \in Seq(Unit), client_do_read \/ client_parse, ~clean_conn
    PROVE  ClientTypes' /\ s2c' \in Seq(Unit) /\ link' = link
<1>1. c_ibuf \in Seq(Unit) /\ Len(c_ibuf) \in Nat /\ Len(s2c) \in Nat /\ CIbufCap \in Nat /\ Len(c_ibuf) <= CIbufCap
    BY LenProperties, StreamAssumption DEF ClientTypes
<1>2. CASE client_do_read
  <2>1. PICK n \in 1 .. Len(s2c) :
          /\ s2c' = Drop(s2c, n)
          /\ \/ n <= CIbufCap - Len(c_ibuf) /\ c_ibuf' = c_ibuf \o SubSeq(s2c, 1, n) /\ c_pc' = "parse" /\ client' = client
             \/ client' = "full" /\ UNCHANGED <<c_ibuf, c_pc>>
      BY <1>2 DEF client_do_read
  <2>2. n \in 0 .. Len(s2c) /\ n \in Nat
      BY <1>1
  <2>3. SubSeq(s2c, 1, n) \in Seq(Unit) /\ Drop(s2c, n) \in Seq(Unit) /\ Len(SubSeq(s2c, 1, n)) = n
    <3>1. Len(SubSeq(s2c, 1, n)) = n
        BY <2>2
    <3> QED
        BY <2>2, <3>1, DropFacts
  <2> DEFINE a == SubSeq(s2c, 1, n)
  <2>4. a \in Seq(Unit) /\ Len(a) = n
      BY <2>3
  <2> HIDE DEF a
  <2>5. c_ibuf \o a \in Seq(Unit) /\ Len(c_ibuf \o a) = Len(c_ibuf) + n
      BY <1>1, <2>4, ConcatProperties
  <2>6. c_ibuf' \in Seq(Unit) /\ Len(c_ibuf') <= CIbufCap
    <3>1. CASE n <= CIbufCap - Len(c_ibuf) /\ c_ibuf' = c_ibuf \o a
      <4>1. Len(c_ibuf) + n <= CIbufCap
          BY <1>1, <2>2, <3>1
      <4> QED
          BY <2>5, <3>1, <4>1
    <3>2. CASE c_ibuf' = c_ibuf
        BY <1>1, <3>2
    <3> QED
        BY <2>1, <3>1, <3>2 DEF a
  <2>7. /\ UNCHANGED <<connected, watch, out, c_obuf, got, partial, torn, stale, misled, gaveup, link>>
      BY <1>2 DEF client_do_read, chist
  <2>8. s2c' \in Seq(Unit)
      BY <2>1, <2>3
  <2> QED
      BY <2>1, <2>6, <2>7, <2>8 DEF ClientTypes
<1>3. CASE client_parse
  <2> DEFINE m == c_ibuf[1].m
             n == HeadLen + RespBody[m]
  <2>1. /\ UNCHANGED <<connected, watch, out, c_obuf, torn, stale, misled, gaveup, link, s2c>>
      BY <1>3 DEF client_parse, net
  <2>2. CASE UNCHANGED <<c_ibuf, got, partial>> /\ client' \in {"ok", "garbled"} /\ c_pc' \in {"idle", "parse"}
      BY <2>1, <2>2 DEF ClientTypes
  <2>3. CASE Len(c_ibuf) >= HeadLen /\ client_handle(m) /\ c_pc' = c_pc
    <3>1. m \in 0 .. MaxMsgs
      <4>1. 1 \in 1 .. Len(c_ibuf)
          BY <1>1, <2>3, StreamAssumption
      <4>2. c_ibuf[1] \in Unit
          BY <1>1, <4>1, ElementOfSeq
      <4> QED
          BY <4>2 DEF Unit
    <3>2. n \in Nat
      <4> HIDE DEF m
      <4>1. RespBody[m] \in Nat /\ HeadLen \in Nat
          BY <3>1, StreamAssumption
      <4> QED
          BY <4>1
    <3>3. /\ got' = Append(got, m)
          /\ \/ Len(c_ibuf) >= n /\ c_ibuf' = Drop(c_ibuf, n) /\ UNCHANGED <<client, partial>>
             \/ c_ibuf' = c_ibuf /\ client' = "overrun" /\ partial' = partial \cup {m}
        BY <2>3 DEF client_handle
    <3> HIDE DEF m, n
    <3>4. c_ibuf' \in Seq(Unit) /\ Len(c_ibuf') <= CIbufCap
      <4>1. CASE Len(c_ibuf) >= n /\ c_ibuf' = Drop(c_ibuf, n)
        <5>1. n \in 0 .. Len(c_ibuf) /\ Len(c_ibuf) - n <= Len(c_ibuf)
            BY <1>1, <3>2, <4>1
        <5>2. Drop(c_ibuf, n) \in Seq(Unit) /\ Len(Drop(c_ibuf, n)) = Len(c_ibuf) - n
            BY <1>1, <5>1, DropFacts
        <5> QED
            BY <1>1, <3>2, <4>1, <5>1, <5>2
      <4>2. CASE c_ibuf' = c_ibuf
          BY <1>1, <4>2
      <4> QED
          BY <3>3, <4>1, <4>2
    <3>5. got' \in Seq(0 .. MaxMsgs)
        BY <3>1, <3>3, AppendProperties DEF ClientTypes
    <3>6. partial' \subseteq 0 .. MaxMsgs /\ client' \in {"ok", "exited", "full", "overrun", "garbled"}
        BY <3>1, <3>3 DEF ClientTypes
    <3> QED
        BY <2>1, <2>3, <3>4, <3>5, <3>6 DEF ClientTypes
  <2> QED
      BY <1>3, <2>2, <2>3 DEF client_parse, ClientTypes
<1> QED
    BY <1>2, <1>3

\* The steps of the client that write, and the connects.
LEMMA WriteTypes ==
    ASSUME ClientTypes, Inv,
           client_send_message \/ connection_delay \/ (client_do_write /\ ~clean_conn) \/ clean_conn
    PROVE  ClientTypes'
<1>1. c_obuf \in Seq(Unit) /\ Len(c_obuf) \in Nat /\ CObufCap \in Nat /\ Len(c_obuf) <= CObufCap
    BY LenProperties, StreamAssumption DEF ClientTypes
<1>2. CASE client_send_message
  <2> DEFINE m == asked + 1
             f == Frame(m, ReqBody[m])
  <2>1. m \in Msg /\ m \in 0 .. MaxMsgs /\ ReqBody[m] \in Nat
      BY <1>2, StreamAssumption DEF client_send_message, Inv, Flow, Types, Msg
  <2>2. f \in Seq(Unit) /\ Len(f) = HeadLen + ReqBody[m] /\ HeadLen + ReqBody[m] \in Nat
      BY <2>1, FrameUnits
  <2>3. HeadLen + ReqBody[m] <= CObufCap - Len(c_obuf) /\ c_obuf' = c_obuf \o f
      BY <1>2 DEF client_send_message, Fits
  <2> HIDE DEF f, m
  <2>4. c_obuf \o f \in Seq(Unit) /\ Len(c_obuf \o f) = Len(c_obuf) + Len(f)
      BY <1>1, <2>2, ConcatProperties
  <2>5. c_obuf' \in Seq(Unit) /\ Len(c_obuf') <= CObufCap
      BY <1>1, <2>2, <2>3, <2>4
  <2> QED
      BY <1>2, <2>5 DEF client_send_message, ClientTypes
<1>3. CASE connection_delay
    BY <1>3 DEF connection_delay, Registered, ClientTypes
<1>4. CASE client_do_write /\ ~clean_conn
  <2>1. PICK n \in 1 .. Len(c_obuf) : c_obuf' = Drop(c_obuf, n)
      BY <1>4 DEF client_do_write
  <2>2. n \in 0 .. Len(c_obuf) /\ Len(c_obuf) - n <= CObufCap
      BY <1>1
  <2>3. Drop(c_obuf, n) \in Seq(Unit) /\ Len(Drop(c_obuf, n)) = Len(c_obuf) - n
      BY <1>1, <2>2, DropFacts
  <2>4. c_obuf' \in Seq(Unit) /\ Len(c_obuf') <= CObufCap
      BY <2>1, <2>2, <2>3
  <2> QED
      BY <1>4, <2>4 DEF client_do_write, chist, ClientTypes
<1>5. CASE clean_conn
    BY <1>5 DEF clean_conn, do_connect, Registered, ClientTypes
<1> QED
    BY <1>2, <1>3, <1>4, <1>5

\* clean_conn, for the server's side.
LEMMA CleanTypes ==
    ASSUME ServerTypes, clean_conn
    PROVE  ServerTypes' /\ s2c' \in Seq(Unit)
<1>1. <<>> \in Seq(Unit) /\ Len(<<>>) = 0
    BY EmptySeq
<1>2. s_obuf' \in Seq(Unit) /\ Len(s_obuf') <= SObufCap /\ s2c' \in Seq(Unit)
    BY <1>1, StreamAssumption DEF clean_conn
<1> QED
    BY <1>2 DEF clean_conn, do_connect, shist, ServerTypes

\* Types and sizes hold of every behaviour: no buffer exceeds its capacity.
LEMMA StreamTypes == Spec => []TypeOK
<1>0. TypeOK <=> ClientTypes /\ ServerTypes /\ OtherTypes
    BY DEF TypeOK, ClientTypes, ServerTypes, OtherTypes
<1>1. Init => TypeOK
  <2> SUFFICES ASSUME Init PROVE TypeOK
      OBVIOUS
  <2>1. /\ <<>> \in Seq(Unit) /\ <<>> \in Seq(Msg) /\ <<>> \in Seq(0 .. MaxMsgs) /\ Len(<<>>) = 0
        /\ \A n \in Nat : Len(<<>>) <= n
      BY EmptySeq
  <2>2. CObufCap \in Nat /\ CIbufCap \in Nat /\ SObufCap \in Nat /\ 0 \in 0 .. MaxMsgs /\ 0 \in 0 .. MaxCuts
      BY StreamAssumption
  <2>3. ClientTypes
      BY <2>1, <2>2 DEF Init, ClientTypes
  <2>4. ServerTypes /\ OtherTypes
      BY <2>1, <2>2 DEF Init, ServerTypes, OtherTypes
  <2> QED
      BY <1>0, <2>3, <2>4
<1>2. TypeOK /\ Inv /\ Inv' /\ [Next]_vars => TypeOK'
  <2> SUFFICES ASSUME ClientTypes, ServerTypes, OtherTypes, Inv, Inv', [Next]_vars
               PROVE  ClientTypes' /\ ServerTypes' /\ OtherTypes'
      BY <1>0 DEF TypeOK, ClientTypes, ServerTypes, OtherTypes
  <2>1. c2s' \in Seq(Unit) /\ s_ibuf' \in Seq(Unit) /\ asked' \in 0 .. MaxMsgs /\ handled' \in Seq(Msg)
    <3>1. c2s' \in Seq(ReqUnit) /\ s_ibuf' \in Seq(ReqUnit) /\ asked' \in 0 .. MaxMsgs /\ handled' \in Seq(Msg)
        BY DEF Inv, Flow, Types
    <3> QED
        BY <3>1, UnitSeqs
  <2>2. s2c \in Seq(Unit) /\ cuts \in 0 .. MaxCuts /\ toolong' \in BOOLEAN
      BY LimitStep DEF OtherTypes
  <2>3. ASSUME clean_conn PROVE ClientTypes' /\ ServerTypes' /\ OtherTypes'
    <3>1. ClientTypes' /\ ServerTypes' /\ s2c' \in Seq(Unit)
        BY <2>3, WriteTypes, CleanTypes
    <3>2. cuts' = cuts
        BY <2>3 DEF clean_conn
    <3> QED
        BY <2>1, <2>2, <3>1, <3>2 DEF OtherTypes
  <2>4. CASE client_send_message \/ connection_delay \/ (client_do_write /\ ~clean_conn)
    <3>1. ClientTypes'
        BY <2>4, WriteTypes
    <3>2. UNCHANGED <<link, server, s_obuf, s_pc, s_head, garbled, refused, s2c, cuts>>
        BY <2>4 DEF client_send_message, connection_delay, client_do_write, svars, net, shist
    <3> QED
        BY <2>1, <2>2, <3>1, <3>2 DEF OtherTypes, ServerTypes
  <2>5. CASE (client_do_read \/ client_parse) /\ ~clean_conn
    <3>1. ClientTypes' /\ s2c' \in Seq(Unit)
        BY <2>2, <2>5, ReadTypes
    <3>2. UNCHANGED <<link, server, s_obuf, s_pc, s_head, garbled, refused, cuts>>
        BY <2>5 DEF client_do_read, client_parse, svars, net, shist
    <3> QED
        BY <2>1, <2>2, <3>1, <3>2 DEF OtherTypes, ServerTypes
  <2>6. CASE ServerStep
    <3>1. ServerTypes' /\ s2c' \in Seq(Unit)
        BY <2>2, <2>6, ServerStepTypes
    <3>2. UNCHANGED <<cvars, chist, cuts>>
        BY <2>6 DEF ServerStep, conn_do_read, conn_parse, conn_do_write
    <3> QED
        BY <2>1, <2>2, <3>1, <3>2 DEF OtherTypes, ClientTypes, cvars, chist
  <2>7. CASE Established
    <3>1. link' \in {"pending", "open", "dead"} /\ UNCHANGED <<cvars, svars, chist, shist, s2c, cuts>>
        BY <2>7 DEF Established
    <3> QED
        BY <2>1, <2>2, <3>1 DEF OtherTypes, ClientTypes, ServerTypes, cvars, svars, chist, shist
  <2>8. CASE Cut
    <3>1. PICK n \in 0 .. Len(s2c) : s2c' = SubSeq(s2c, 1, n)
        BY <2>8 DEF Cut
    <3>2. s2c' \in Seq(Unit)
        BY <2>2, <3>1, DropFacts
    <3>3. cuts' \in 0 .. MaxCuts
        BY <2>2, <2>8, StreamAssumption DEF Cut
    <3>4. <<>> \in Seq(Unit) /\ Len(<<>>) = 0
        BY EmptySeq
    <3>5. s_obuf' \in Seq(Unit) /\ Len(s_obuf') <= SObufCap
        BY <2>8, <3>4, StreamAssumption DEF Cut, ConnGone
    <3>6. ServerTypes'
        BY <2>8, <3>5 DEF Cut, ConnGone, ServerTypes, shist
    <3>7. ClientTypes'
        BY <2>8 DEF Cut, ClientTypes, cvars, chist
    <3> QED
        BY <2>1, <2>2, <3>2, <3>3, <3>6, <3>7 DEF OtherTypes
  <2>9. CASE UNCHANGED vars
      BY <2>1, <2>2, <2>9 DEF vars, cvars, svars, net, chist, shist, OtherTypes, ClientTypes, ServerTypes
  <2> QED
      BY <2>3, <2>4, <2>5, <2>6, <2>7, <2>8, <2>9 DEF Next, ClientStep, client_do_write, client_do_read
<1> QED
    BY <1>1, <1>2, StreamInv, PTL DEF Spec

-----------------------------------------------------------------------------
(* The stream of answers.                                                   *)

RL(m) == HeadLen + RespBody[m]

\* The answers on their way, as far as the client has not taken them.  After
\* a rollback nothing of obuf is written any more.
Unsent  == IF s_head THEN <<>> ELSE s_obuf
Answers == c_ibuf \o (s2c \o Unsent)

\* A piece of the stream of answers; a break can end it anywhere.
AUnits(q)    == \A i \in 1 .. Len(q) : q[i].k \in 1 .. RL(q[i].m)
AForward(q)  == \A i, j \in 1 .. Len(q) : i <= j /\ q[i].k + (j - i) <= RL(q[i].m) =>
                  q[j].m = q[i].m /\ q[j].k = q[i].k + (j - i)
ABoundary(q) == \A i \in 1 .. Len(q) - 1 : q[i].k = RL(q[i].m) => q[i + 1].k = 1

AGood(q) == AUnits(q) /\ AForward(q) /\ ABoundary(q)

\* It ends where an answer ends.
AClosed(q) == q # <<>> => q[Len(q)].k = RL(q[Len(q)].m)

\* Each answer is to a later request than the one before.
AStrict(q) ==
    /\ \A i, j \in 1 .. Len(q) : i <= j => q[i].m <= q[j].m
    /\ \A i \in 1 .. Len(q) - 1 : q[i].k = RL(q[i].m) => q[i].m < q[i + 1].m

\* Answers to requests of h, each later than those of g.
AFrom(q, h, g) ==
    \A j \in 1 .. Len(q) : /\ \E i \in 1 .. Len(h) : q[j].m = h[i]
                           /\ \A i \in 1 .. Len(g) : g[i] < q[j].m

\* r is the part of q after the first n units, or the beginning of that.
Window(r, q, n) ==
    /\ n + Len(r) <= Len(q)
    /\ \A i \in 1 .. Len(r) : r[i] = q[i + n]

\* Lengths of answers.
LEMMA RLengths == \A m \in 0 .. MaxMsgs : m \in Nat /\ RL(m) \in Nat /\ RL(m) >= HeadLen /\ HeadLen \in Nat /\ HeadLen > 1
BY StreamAssumption DEF RL

\* The fields of the units of a sequence.
LEMMA UFields ==
    ASSUME NEW q \in Seq(Unit)
    PROVE  /\ Len(q) \in Nat
           /\ \A i \in 1 .. Len(q) : /\ q[i].m \in 0 .. MaxMsgs /\ q[i].m \in Nat
                                     /\ q[i].k \in Nat /\ RL(q[i].m) \in Nat
<1>1. \A i \in 1 .. Len(q) : q[i] \in Unit
    BY ElementOfSeq
<1>2. \A u \in Unit : u.m \in 0 .. MaxMsgs /\ u.k \in Nat
    BY DEF Unit
<1>3. Len(q) \in Nat
    BY LenProperties
<1> QED
    BY <1>1, <1>2, <1>3, RLengths

\* A part of a piece is one.
LEMMA WindowGood ==
    ASSUME NEW q \in Seq(Unit), NEW r \in Seq(Unit), NEW n \in Nat, Window(r, q, n)
    PROVE  /\ AGood(q) => AGood(r)
           /\ AStrict(q) => AStrict(r)
           /\ \A h, g : AFrom(q, h, g) => AFrom(r, h, g)
<1>1. /\ Len(q) \in Nat /\ Len(r) \in Nat
      /\ \A i \in 1 .. Len(r) : r[i] = q[i + n] /\ i + n \in 1 .. Len(q)
    BY UFields DEF Window
<1>2. /\ \A i \in 1 .. Len(r) - 1 : /\ i \in 1 .. Len(r) /\ i + 1 \in 1 .. Len(r)
                                    /\ i + n \in 1 .. Len(q) - 1 /\ (i + 1) + n = (i + n) + 1
      /\ \A i, j \in 1 .. Len(r) : (j + n) - (i + n) = j - i /\ (i <= j => i + n <= j + n)
    BY <1>1 DEF Window
<1>3. ASSUME AGood(q) PROVE AGood(r)
  <2>1. AUnits(r)
      BY <1>1, <1>3 DEF AGood, AUnits
  <2>2. AForward(r)
    <3> SUFFICES ASSUME NEW i \in 1 .. Len(r), NEW j \in 1 .. Len(r), i <= j, r[i].k + (j - i) <= RL(r[i].m)
                 PROVE  r[j].m = r[i].m /\ r[j].k = r[i].k + (j - i)
        BY DEF AForward
    <3>1. r[i] = q[i + n] /\ r[j] = q[j + n] /\ i + n \in 1 .. Len(q) /\ j + n \in 1 .. Len(q)
        BY <1>1
    <3>2. (j + n) - (i + n) = j - i /\ i + n <= j + n
        BY <1>2
    <3> QED
        BY <1>3, <3>1, <3>2 DEF AGood, AForward
  <2>3. ABoundary(r)
    <3> SUFFICES ASSUME NEW i \in 1 .. Len(r) - 1, r[i].k = RL(r[i].m) PROVE r[i + 1].k = 1
        BY DEF ABoundary
    <3>1. i + n \in 1 .. Len(q) - 1 /\ r[i] = q[i + n] /\ r[i + 1] = q[(i + n) + 1]
        BY <1>1, <1>2
    <3> QED
        BY <1>3, <3>1 DEF AGood, ABoundary
  <2> QED
      BY <2>1, <2>2, <2>3 DEF AGood
<1>4. ASSUME AStrict(q) PROVE AStrict(r)
  <2>1. ASSUME NEW i \in 1 .. Len(r), NEW j \in 1 .. Len(r), i <= j PROVE r[i].m <= r[j].m
    <3>1. /\ r[i] = q[i + n] /\ r[j] = q[j + n] /\ i + n \in 1 .. Len(q) /\ j + n \in 1 .. Len(q)
          /\ i + n <= j + n
        BY <1>1, <1>2, <2>1
    <3> QED
        BY <1>4, <3>1 DEF AStrict
  <2>2. ASSUME NEW i \in 1 .. Len(r) - 1, r[i].k = RL(r[i].m) PROVE r[i].m < r[i + 1].m
    <3>1. i + n \in 1 .. Len(q) - 1 /\ r[i] = q[i + n] /\ r[i + 1] = q[(i + n) + 1]
        BY <1>1, <1>2
    <3> QED
        BY <1>4, <2>2, <3>1 DEF AStrict
  <2> QED
      BY <2>1, <2>2 DEF AStrict
<1>5. ASSUME NEW h, NEW g, AFrom(q, h, g) PROVE AFrom(r, h, g)
  <2> SUFFICES ASSUME NEW j \in 1 .. Len(r)
               PROVE  /\ \E i \in 1 .. Len(h) : r[j].m = h[i]
                      /\ \A i \in 1 .. Len(g) : g[i] < r[j].m
      BY DEF AFrom
  <2>1. r[j] = q[j + n] /\ j + n \in 1 .. Len(q)
      BY <1>1
  <2>2. /\ \E i \in 1 .. Len(h) : q[j + n].m = h[i]
        /\ \A i \in 1 .. Len(g) : g[i] < q[j + n].m
      BY <1>5, <2>1 DEF AFrom
  <2> QED
      BY <2>1, <2>2
<1> QED
    BY <1>3, <1>4, <1>5

\* A piece that starts with an answer: as much as there is of its first answer
\* is in place, and behind it starts a later one.
LEMMA FirstAnswer ==
    ASSUME NEW q \in Seq(Unit), AGood(q), q # <<>>, q[1].k = 1
    PROVE  /\ q[1].m \in 0 .. MaxMsgs /\ RL(q[1].m) \in Nat /\ RL(q[1].m) >= HeadLen
           /\ \A k \in 1 .. Len(q) : k <= RL(q[1].m) => q[k].m = q[1].m /\ q[k].k = k
           /\ RL(q[1].m) < Len(q) => /\ q[RL(q[1].m) + 1].k = 1
                                     /\ AStrict(q) => q[1].m < q[RL(q[1].m) + 1].m
<1> DEFINE m == q[1].m
           n == RL(m)
<1>1. Len(q) \in Nat /\ Len(q) > 0 /\ 1 \in 1 .. Len(q)
    BY UFields, EmptySeq
<1>2. m \in 0 .. MaxMsgs /\ n \in Nat /\ n >= HeadLen /\ n > 1
    BY <1>1, UFields, RLengths
<1> HIDE DEF n
<1>3. ASSUME NEW k \in 1 .. Len(q), k <= n PROVE q[k].m = m /\ q[k].k = k
  <2>1. q[1].k + (k - 1) <= n /\ 1 <= k /\ 1 + (k - 1) = k
      BY <1>1, <1>2, <1>3
  <2>2. q[k].m = q[1].m /\ q[k].k = q[1].k + (k - 1)
      BY <1>1, <2>1 DEF AGood, AForward, n
  <2> QED
      BY <2>1, <2>2
<1>4. ASSUME n < Len(q) PROVE q[n + 1].k = 1 /\ (AStrict(q) => m < q[n + 1].m)
  <2>1. n \in 1 .. Len(q) - 1 /\ n \in 1 .. Len(q)
      BY <1>1, <1>2, <1>4
  <2>2. q[n].m = m /\ q[n].k = n
      BY <1>2, <1>3, <2>1
  <2>3. q[n].k = RL(q[n].m)
      BY <2>2 DEF n
  <2> QED
      BY <2>1, <2>2, <2>3 DEF AGood, ABoundary, AStrict
<1> QED
    BY <1>2, <1>3, <1>4 DEF n

\* An answer behind a piece that ends where an answer ends.
LEMMA AppendAnswer ==
    ASSUME NEW q \in Seq(Unit), NEW m \in 0 .. MaxMsgs, NEW f \in Seq(Unit), f = Frame(m, RespBody[m])
    PROVE  /\ q \o f \in Seq(Unit) /\ q \o f # <<>> /\ AClosed(q \o f)
           /\ Starts(q) => Starts(q \o f)
           /\ AGood(q) /\ AClosed(q) => AGood(q \o f)
           /\ AStrict(q) /\ (\A i \in 1 .. Len(q) : q[i].m < m) => AStrict(q \o f)
           /\ \A h, g : AFrom(q, h, g) /\ (\E i \in 1 .. Len(h) : m = h[i]) /\ (\A i \in 1 .. Len(g) : g[i] < m)
                          => AFrom(q \o f, h, g)
           /\ Len(q \o f) >= Len(q)
           /\ \A i \in 1 .. Len(q) : (q \o f)[i] = q[i]
           /\ (q \o f)[Len(q) + 1].k = 1
<1> DEFINE r == q \o f
           n == RL(m)
<1>1. /\ Len(f) = n /\ \A i \in 1 .. n : f[i].m = m /\ f[i].k = i
  <2>1. RespBody[m] \in Nat
      BY StreamAssumption
  <2>2. n = HeadLen + RespBody[m]
      BY DEF RL
  <2>3. /\ Len(Frame(m, RespBody[m])) = HeadLen + RespBody[m]
        /\ \A i \in 1 .. HeadLen + RespBody[m] :
             /\ Frame(m, RespBody[m])[i].m = m /\ Frame(m, RespBody[m])[i].k = i
      BY <2>1, FrameUnits
  <2> QED
      BY <2>2, <2>3
<1>2. n \in Nat /\ n > 1 /\ m \in Nat
    BY RLengths
<1>3. /\ Len(q) \in Nat
      /\ \A i \in 1 .. Len(q) : q[i].m \in Nat /\ q[i].k \in Nat /\ RL(q[i].m) \in Nat
    BY UFields
<1>4. /\ r \in Seq(Unit) /\ Len(r) = Len(q) + n
      /\ \A i \in 1 .. Len(q) + n : r[i] = IF i <= Len(q) THEN q[i] ELSE f[i - Len(q)]
  <2>1. /\ q \o f \in Seq(Unit) /\ Len(q \o f) = Len(q) + Len(f)
        /\ \A i \in 1 .. Len(q) + Len(f) : (q \o f)[i] = IF i <= Len(q) THEN q[i] ELSE f[i - Len(q)]
      BY ConcatProperties
  <2> QED
      BY <1>1, <2>1
<1> HIDE DEF r
<1>5. \A i \in 1 .. Len(q) : r[i] = q[i] /\ i \in 1 .. Len(r)
    BY <1>2, <1>3, <1>4
<1>6. ASSUME NEW i \in 1 .. Len(r), i > Len(q)
      PROVE  r[i].m = m /\ r[i].k = i - Len(q) /\ i - Len(q) \in 1 .. n
  <2>1. i - Len(q) \in 1 .. n /\ r[i] = f[i - Len(q)]
      BY <1>2, <1>3, <1>4, <1>6
  <2> QED
      BY <1>1, <2>1
<1>7. Len(q) + 1 \in 1 .. Len(r) /\ Len(r) \in 1 .. Len(r) /\ Len(r) > Len(q) /\ Len(r) \in Nat
    BY <1>2, <1>3, <1>4
<1>8. r # <<>> /\ AClosed(r)
  <2>1. r[Len(r)].m = m /\ r[Len(r)].k = n
      BY <1>2, <1>3, <1>4, <1>6, <1>7
  <2>2. r # <<>>
      BY <1>4, <1>7, EmptySeq
  <2> QED
      BY <2>1, <2>2 DEF AClosed
<1>9. r[Len(q) + 1].k = 1
    BY <1>3, <1>6, <1>7
<1>10. ASSUME Starts(q) PROVE Starts(r)
  <2>1. CASE Len(q) = 0
      BY <1>9, <2>1 DEF Starts
  <2>2. CASE Len(q) > 0
    <3>1. r[1] = q[1] /\ q # <<>>
        BY <1>3, <1>5, <2>2, EmptySeq
    <3> QED
        BY <1>10, <3>1 DEF Starts
  <2> QED
      BY <1>3, <2>1, <2>2
<1>11. ASSUME AGood(q), AClosed(q) PROVE AGood(r)
  <2>0. Len(q) > 0 => q[Len(q)].k = RL(q[Len(q)].m)
      BY <1>11, EmptySeq DEF AClosed
  <2>1. AUnits(r)
    <3> SUFFICES ASSUME NEW i \in 1 .. Len(r) PROVE r[i].k \in 1 .. RL(r[i].m)
        BY DEF AUnits
    <3>1. CASE i <= Len(q)
      <4>1. i \in 1 .. Len(q) /\ r[i] = q[i]
          BY <1>3, <1>5, <1>7, <3>1
      <4> QED
          BY <1>11, <4>1 DEF AGood, AUnits
    <3>2. CASE i > Len(q)
        BY <1>6, <3>2
    <3> QED
        BY <1>3, <1>7, <3>1, <3>2
  <2>2. AForward(r)
    <3> SUFFICES ASSUME NEW i \in 1 .. Len(r), NEW j \in 1 .. Len(r), i <= j, r[i].k + (j - i) <= RL(r[i].m)
                 PROVE  r[j].m = r[i].m /\ r[j].k = r[i].k + (j - i)
        BY DEF AForward
    <3>1. CASE j <= Len(q)
      <4>0. i \in 1 .. Len(q) /\ j \in 1 .. Len(q)
          BY <1>3, <1>7, <3>1
      <4>1. i \in 1 .. Len(q) /\ j \in 1 .. Len(q) /\ r[i] = q[i] /\ r[j] = q[j]
          BY <1>5, <4>0
      <4> QED
          BY <1>11, <4>1 DEF AGood, AForward
    <3>2. CASE i > Len(q)
      <4>1. j > Len(q)
          BY <1>3, <1>7, <3>2
      <4>2. r[i].m = m /\ r[i].k = i - Len(q) /\ r[j].m = m /\ r[j].k = j - Len(q)
          BY <1>6, <3>2, <4>1
      <4> QED
          BY <1>3, <1>7, <4>2
    <3>3. CASE i <= Len(q) /\ j > Len(q)
      <4>0. i \in 1 .. Len(q) /\ Len(q) \in 1 .. Len(q) /\ Len(q) - i < j - i /\ i <= Len(q)
          BY <1>3, <1>7, <3>3
      <4>1. i \in 1 .. Len(q) /\ Len(q) \in 1 .. Len(q) /\ r[i] = q[i] /\ Len(q) - i < j - i /\ i <= Len(q)
          BY <1>5, <4>0
      <4>2. q[i].k + (Len(q) - i) < RL(q[i].m) /\ q[i].k + (Len(q) - i) <= RL(q[i].m)
        <5>1. q[i].k + (j - i) <= RL(q[i].m) /\ q[i].k \in Nat /\ RL(q[i].m) \in Nat
            BY <1>3, <4>1
        <5> QED
            BY <1>3, <1>7, <4>0, <5>1, SMTT(60)
      <4>3. q[Len(q)].m = q[i].m /\ q[Len(q)].k = q[i].k + (Len(q) - i)
          BY <1>11, <4>1, <4>2 DEF AGood, AForward
      <4> QED
          BY <1>3, <2>0, <4>1, <4>2, <4>3
    <3> QED
        BY <1>3, <1>7, <3>1, <3>2, <3>3
  <2>3. ABoundary(r)
    <3> SUFFICES ASSUME NEW i \in 1 .. Len(r) - 1, r[i].k = RL(r[i].m) PROVE r[i + 1].k = 1
        BY DEF ABoundary
    <3>1. CASE i < Len(q)
      <4>0. i \in 1 .. Len(q) - 1 /\ i \in 1 .. Len(q) /\ i + 1 \in 1 .. Len(q)
          BY <1>3, <1>7, <3>1
      <4>1. i \in 1 .. Len(q) - 1 /\ r[i] = q[i] /\ r[i + 1] = q[i + 1]
          BY <1>5, <4>0
      <4> QED
          BY <1>11, <4>1 DEF AGood, ABoundary
    <3>2. CASE i = Len(q)
        BY <1>9, <3>2
    <3>3. CASE i > Len(q)
      <4>1. r[i].m = m /\ r[i].k = i - Len(q) /\ i < Len(q) + n
          BY <1>2, <1>3, <1>4, <1>6, <1>7, <3>3
      <4> QED
          BY <1>2, <1>3, <4>1
    <3> QED
        BY <1>3, <1>7, <3>1, <3>2, <3>3
  <2> QED
      BY <2>1, <2>2, <2>3 DEF AGood
<1>12. ASSUME AStrict(q), \A i \in 1 .. Len(q) : q[i].m < m PROVE AStrict(r)
  <2>1. ASSUME NEW i \in 1 .. Len(r), NEW j \in 1 .. Len(r), i <= j PROVE r[i].m <= r[j].m
    <3>1. CASE j <= Len(q)
      <4>1. i \in 1 .. Len(q) /\ j \in 1 .. Len(q) /\ r[i] = q[i] /\ r[j] = q[j]
          BY <1>3, <1>5, <1>7, <2>1, <3>1
      <4>2. q[i].m <= q[j].m
          BY <1>12, <2>1, <4>1 DEF AStrict
      <4> QED
          BY <4>1, <4>2
    <3>2. CASE i > Len(q)
        BY <1>2, <1>3, <1>6, <1>7, <2>1, <3>2
    <3>3. CASE i <= Len(q) /\ j > Len(q)
      <4>0. i \in 1 .. Len(q)
          BY <1>3, <1>7, <3>3
      <4>1. r[i] = q[i]
          BY <1>5, <4>0
      <4>2. r[j].m = m
          BY <1>6, <3>3
      <4> QED
          BY <1>2, <1>3, <1>12, <4>0, <4>1, <4>2
    <3> QED
        BY <1>3, <1>7, <3>1, <3>2, <3>3
  <2>2. ASSUME NEW i \in 1 .. Len(r) - 1, r[i].k = RL(r[i].m) PROVE r[i].m < r[i + 1].m
    <3>1. CASE i < Len(q)
      <4>0. i \in 1 .. Len(q) - 1 /\ i \in 1 .. Len(q) /\ i + 1 \in 1 .. Len(q)
          BY <1>3, <1>7, <3>1
      <4>1. i \in 1 .. Len(q) - 1 /\ r[i] = q[i] /\ r[i + 1] = q[i + 1]
          BY <1>5, <4>0
      <4> QED
          BY <1>12, <2>2, <4>1 DEF AStrict
    <3>2. CASE i = Len(q)
      <4>0. i \in 1 .. Len(q) /\ i + 1 \in 1 .. Len(r) /\ i + 1 > Len(q)
          BY <1>3, <1>7, <3>2
      <4>1. r[i] = q[i]
          BY <1>5, <4>0
      <4>2. r[i + 1].m = m
          BY <1>6, <4>0
      <4> QED
          BY <1>12, <4>0, <4>1, <4>2
    <3>3. CASE i > Len(q)
      <4>1. r[i].m = m /\ r[i].k = i - Len(q) /\ i < Len(q) + n
          BY <1>2, <1>3, <1>4, <1>6, <1>7, <3>3
      <4> QED
          BY <1>2, <1>3, <2>2, <4>1
    <3> QED
        BY <1>3, <1>7, <3>1, <3>2, <3>3
  <2> QED
      BY <2>1, <2>2 DEF AStrict
<1>13. ASSUME NEW h, NEW g, AFrom(q, h, g), \E i \in 1 .. Len(h) : m = h[i], \A i \in 1 .. Len(g) : g[i] < m
       PROVE  AFrom(r, h, g)
  <2> SUFFICES ASSUME NEW j \in 1 .. Len(r)
               PROVE  /\ \E i \in 1 .. Len(h) : r[j].m = h[i]
                      /\ \A i \in 1 .. Len(g) : g[i] < r[j].m
      BY DEF AFrom
  <2>1. CASE j <= Len(q)
    <3>1. j \in 1 .. Len(q) /\ r[j] = q[j]
        BY <1>3, <1>5, <1>7, <2>1
    <3>2. /\ \E i \in 1 .. Len(h) : q[j].m = h[i]
          /\ \A i \in 1 .. Len(g) : g[i] < q[j].m
        BY <1>13, <3>1 DEF AFrom
    <3> QED
        BY <3>1, <3>2
  <2>2. CASE j > Len(q)
    <3>1. r[j].m = m
        BY <1>6, <2>2
    <3> QED
        BY <1>13, <3>1
  <2> QED
      BY <1>3, <1>7, <2>1, <2>2
<1>14. r \in Seq(Unit) /\ Len(r) >= Len(q)
    BY <1>3, <1>4, <1>7
<1> QED
    BY <1>5, <1>8, <1>9, <1>10, <1>11, <1>12, <1>13, <1>14 DEF r

\* A connection that began with nothing in _ibuf.
Fresh(q, l, h) ==
    /\ AGood(q) /\ Starts(q)
    /\ l = "pending" => q = <<>>
    /\ l = "open" /\ ~h => AClosed(q)

\* A connection that began behind a part of a header, kept in _ibuf.
Left(q, b) == \E j \in 1 .. HeadLen - 1 : j <= Len(b) /\ (Len(q) > j => q[j + 1].k = 1)

GotOrder ==
    /\ Increasing(got)
    /\ \A i \in 1 .. Len(got) : \E j \in 1 .. Len(handled) : got[i] = handled[j]

\* The inductive invariant of the answers.
AInv ==
    /\ client = "garbled" => stale
    /\ client = "ok" /\ c_pc = "idle" => Len(c_ibuf) < HeadLen
    /\ client = "ok" /\ stale => Left(Answers, c_ibuf)
    /\ client = "ok" /\ ~stale => Fresh(Answers, link, s_head)
    /\ ~garbled => GotOrder
    /\ ~garbled /\ client = "ok" /\ ~stale => AStrict(Answers) /\ AFrom(Answers, handled, got)

\* Concatenation of pieces of the stream of answers.
LEMMA UAssoc ==
    \A a, b, c \in Seq(Unit) : (a \o b) \o c = a \o (b \o c) /\ b \o c \in Seq(Unit)
BY ConcatAssociative, ConcatProperties, SMTT(30)

\* The parts of the stream of answers.
LEMMA AnswersFacts ==
    ASSUME TypeOK
    PROVE  /\ c_ibuf \in Seq(Unit) /\ s2c \in Seq(Unit) /\ Unsent \in Seq(Unit)
           /\ s2c \o Unsent \in Seq(Unit) /\ Answers \in Seq(Unit)
           /\ Len(c_ibuf) \in Nat /\ Len(Answers) \in Nat /\ Len(c_ibuf) <= Len(Answers)
           /\ \A i \in 1 .. Len(c_ibuf) : Answers[i] = c_ibuf[i] /\ i \in 1 .. Len(Answers)
<1>1. c_ibuf \in Seq(Unit) /\ s2c \in Seq(Unit) /\ s_obuf \in Seq(Unit)
    BY DEF TypeOK
<1>2. Unsent \in Seq(Unit)
    BY <1>1, EmptySeq DEF Unsent
<1> DEFINE r == s2c \o Unsent
<1>3. r \in Seq(Unit)
    BY <1>1, <1>2, ConcatProperties
<1> HIDE DEF r
<1>4. /\ c_ibuf \o r \in Seq(Unit) /\ Len(c_ibuf \o r) = Len(c_ibuf) + Len(r)
      /\ \A i \in 1 .. Len(c_ibuf) + Len(r) : (c_ibuf \o r)[i] = IF i <= Len(c_ibuf) THEN c_ibuf[i] ELSE r[i - Len(c_ibuf)]
    BY <1>1, <1>3, ConcatProperties
<1>5. Len(c_ibuf) \in Nat /\ Len(r) \in Nat
    BY <1>1, <1>3, LenProperties
<1>6. Answers = c_ibuf \o r
    BY DEF Answers, r
<1>7. \A i \in 1 .. Len(c_ibuf) : Answers[i] = c_ibuf[i] /\ i \in 1 .. Len(Answers)
    BY <1>4, <1>5, <1>6
<1>8. Len(Answers) \in Nat /\ Len(c_ibuf) <= Len(Answers)
    BY <1>4, <1>5, <1>6
<1> QED
    BY <1>1, <1>2, <1>3, <1>4, <1>5, <1>6, <1>7, <1>8 DEF r

\* The stream when what the server had not written is gone, and an end of what
\* the kernel held.
LEMMA PartWindow ==
    ASSUME NEW p \in Seq(Unit), NEW a \in Seq(Unit), NEW u \in Seq(Unit), NEW n \in 0 .. Len(a)
    PROVE  Window(p \o (SubSeq(a, 1, n) \o <<>>), p \o (a \o u), 0)
<1> DEFINE b == SubSeq(a, 1, n)
           r == a \o u
<1>1. Len(p) \in Nat /\ Len(a) \in Nat /\ Len(u) \in Nat /\ n \in Nat
    BY LenProperties
<1>2. /\ b \in Seq(Unit) /\ Len(b) = n
      /\ \A i \in 1 .. n : b[i] = a[i]
  <2>1. \A i \in 1 .. Len(a) : a[i] \in Unit
      BY ElementOfSeq
  <2> QED
      BY <1>1, <2>1
<1> HIDE DEF b
<1>3. b \o <<>> = b
    BY <1>2, ConcatEmptySeq
<1>4. /\ r \in Seq(Unit) /\ Len(r) = Len(a) + Len(u)
      /\ \A i \in 1 .. Len(a) + Len(u) : r[i] = IF i <= Len(a) THEN a[i] ELSE u[i - Len(a)]
    BY ConcatProperties
<1> HIDE DEF r
<1>5. /\ Len(p \o b) = Len(p) + n
      /\ \A i \in 1 .. Len(p) + n : (p \o b)[i] = IF i <= Len(p) THEN p[i] ELSE b[i - Len(p)]
  <2>1. /\ Len(p \o b) = Len(p) + Len(b)
        /\ \A i \in 1 .. Len(p) + Len(b) : (p \o b)[i] = IF i <= Len(p) THEN p[i] ELSE b[i - Len(p)]
      BY <1>2, ConcatProperties
  <2> QED
      BY <1>2, <2>1
<1>6. /\ Len(p \o r) = Len(p) + Len(r)
      /\ \A i \in 1 .. Len(p) + Len(r) : (p \o r)[i] = IF i <= Len(p) THEN p[i] ELSE r[i - Len(p)]
  <2>1. r \in Seq(Unit)
      BY <1>4
  <2> QED
      BY <2>1, ConcatProperties
<1>7. ASSUME NEW i \in 1 .. Len(p) + n PROVE (p \o b)[i] = (p \o r)[i]
  <2>1. i \in 1 .. Len(p) + Len(r)
      BY <1>1, <1>4
  <2>2. CASE i <= Len(p)
      BY <1>5, <1>6, <2>1, <2>2
  <2>3. CASE i > Len(p)
    <3>1. i - Len(p) \in 1 .. n /\ i - Len(p) \in 1 .. Len(a) + Len(u) /\ i - Len(p) <= Len(a)
        BY <1>1, <2>3
    <3>2. b[i - Len(p)] = r[i - Len(p)]
        BY <1>2, <1>4, <3>1
    <3> QED
        BY <1>1, <1>5, <1>6, <2>1, <2>3, <3>2
  <2>4. i <= Len(p) \/ i > Len(p)
      BY <1>1
  <2> QED
      BY <2>2, <2>3, <2>4
<1>8. 0 + Len(p \o b) <= Len(p \o r)
    BY <1>1, <1>4, <1>5, <1>6
<1>9. ASSUME NEW i \in 1 .. Len(p \o b) PROVE (p \o b)[i] = (p \o r)[i + 0]
  <2>1. i \in 1 .. Len(p) + n
      BY <1>5
  <2>2. i + 0 = i
      BY <1>1, <2>1
  <2> QED
      BY <1>7, <2>1, <2>2
<1> QED
    BY <1>3, <1>8, <1>9 DEF Window, b, r

\* Steps that hand over no answer and leave a beginning of the stream.
LEMMA PrefixStep ==
    ASSUME TypeOK, TypeOK', AInv,
           Window(Answers', Answers, 0), Len(c_ibuf) <= Len(c_ibuf'),
           stale' = stale, got' = got,
           client' # client => client' \notin {"ok", "garbled"},
           client' = "ok" /\ c_pc' = "idle" => Len(c_ibuf') < HeadLen,
           link' = "pending" => link = "pending",
           link' = "open" /\ ~s_head' => Answers' = Answers /\ link # "dead" /\ ~s_head,
           ~garbled' => ~garbled,
           \A j \in 1 .. Len(handled) : \E i \in 1 .. Len(handled') : handled[j] = handled'[i]
    PROVE  AInv'
<1> DEFINE q == Answers
           r == Answers'
<1>1. q \in Seq(Unit) /\ Len(q) \in Nat /\ Len(c_ibuf) \in Nat
    BY AnswersFacts
<1>2. r \in Seq(Unit) /\ Len(r) \in Nat /\ Len(c_ibuf') \in Nat
  <2>1. c_ibuf' \in Seq(Unit) /\ s2c' \in Seq(Unit) /\ s_obuf' \in Seq(Unit)
      BY DEF TypeOK
  <2>2. Unsent' \in Seq(Unit)
      BY <2>1, EmptySeq DEF Unsent
  <2>3. (s2c \o Unsent)' \in Seq(Unit)
      BY <2>1, <2>2, ConcatProperties
  <2>4. r \in Seq(Unit)
      BY <2>1, <2>3, ConcatProperties DEF Answers
  <2> QED
      BY <2>1, <2>4, LenProperties
<1>3. Window(r, q, 0)
    OBVIOUS
<1> HIDE DEF q, r
<1>4. Len(r) <= Len(q) /\ \A i \in 1 .. Len(r) : r[i] = q[i]
  <2>1. 0 + Len(r) <= Len(q) /\ \A i \in 1 .. Len(r) : r[i] = q[i + 0]
      BY <1>3 DEF Window
  <2> QED
      BY <1>1, <1>2, <2>1
<1>5. client' = "ok" => client = "ok"
    OBVIOUS
<1>6. (client = "garbled" => stale)'
    BY DEF AInv
<1>7. ASSUME client' = "ok", stale' PROVE Left(r, c_ibuf')
  <2>1. Left(q, c_ibuf)
      BY <1>7, <1>5 DEF AInv, q
  <2>2. PICK j \in 1 .. HeadLen - 1 : j <= Len(c_ibuf) /\ (Len(q) > j => q[j + 1].k = 1)
      BY <2>1 DEF Left
  <2>3. j \in Nat /\ j >= 1 /\ j <= Len(c_ibuf')
      BY <1>1, <1>2, <2>2, StreamAssumption
  <2>4. ASSUME Len(r) > j PROVE r[j + 1].k = 1
    <3>1. j + 1 \in 1 .. Len(r) /\ Len(q) > j
        BY <1>1, <1>2, <1>4, <2>3, <2>4
    <3> QED
        BY <1>4, <2>2, <3>1
  <2> QED
      BY <2>3, <2>4 DEF Left
<1>8. ASSUME client' = "ok", ~stale'
      PROVE  /\ AGood(r) /\ Starts(r)
             /\ link' = "pending" => r = <<>>
             /\ link' = "open" /\ ~s_head' => AClosed(r)
  <2>1. Fresh(q, link, s_head)
      BY <1>5, <1>8 DEF AInv, q
  <2>2. AGood(r)
      BY <1>1, <1>2, <1>3, <2>1, WindowGood DEF Fresh
  <2>3. Starts(r)
    <3>1. CASE Len(r) = 0
        BY <1>2, <3>1, EmptySeq DEF Starts
    <3>2. CASE Len(r) > 0
      <4>1. r[1] = q[1] /\ Len(q) > 0
          BY <1>1, <1>2, <1>4, <3>2
      <4>2. q # <<>>
          BY <4>1, EmptySeq
      <4> QED
          BY <2>1, <4>1, <4>2 DEF Fresh, Starts
    <3> QED
        BY <1>2, <3>1, <3>2
  <2>4. ASSUME link' = "pending" PROVE r = <<>>
    <3>1. q = <<>> /\ Len(q) = 0
        BY <2>1, <2>4, EmptySeq DEF Fresh
    <3>2. Len(r) = 0
        BY <1>2, <1>4, <3>1
    <3> QED
        BY <1>2, <3>2, EmptySeq
  <2>5. ASSUME link' = "open", ~s_head' PROVE AClosed(r)
    <3>1. r = q /\ link # "dead" /\ ~s_head
        BY <2>5 DEF q, r
    <3>2. link \in {"pending", "open"}
        BY <3>1 DEF TypeOK
    <3> QED
        BY <2>1, <3>1, <3>2 DEF Fresh, AClosed
  <2> QED
      BY <2>2, <2>3, <2>4, <2>5
<1>9. ASSUME ~garbled' PROVE GotOrder'
  <2>1. GotOrder
      BY <1>9 DEF AInv
  <2>2. Increasing(got)'
      BY <2>1 DEF GotOrder, Increasing
  <2>3. \A i \in 1 .. Len(got) : \E j \in 1 .. Len(handled') : got[i] = handled'[j]
      BY <2>1 DEF GotOrder
  <2> QED
      BY <2>2, <2>3 DEF GotOrder
<1>10. ASSUME ~garbled', client' = "ok", ~stale' PROVE AStrict(r) /\ AFrom(r, handled', got')
  <2>1. AStrict(q) /\ AFrom(q, handled, got)
      BY <1>5, <1>10 DEF AInv, q
  <2>2. AStrict(r) /\ AFrom(r, handled, got)
      BY <1>1, <1>2, <1>3, <2>1, WindowGood
  <2>3. ASSUME NEW j \in 1 .. Len(r)
        PROVE  (\E i \in 1 .. Len(handled') : r[j].m = handled'[i]) /\ (\A i \in 1 .. Len(got') : got'[i] < r[j].m)
    <3>1. PICK i \in 1 .. Len(handled) : r[j].m = handled[i]
        BY <2>2 DEF AFrom
    <3>2. PICK l \in 1 .. Len(handled') : handled[i] = handled'[l]
        OBVIOUS
    <3>3. \A l2 \in 1 .. Len(got') : got'[l2] < r[j].m
        BY <2>2 DEF AFrom
    <3> QED
        BY <3>1, <3>2, <3>3
  <2> QED
      BY <2>2, <2>3 DEF AFrom
<1>11. /\ client' = "ok" /\ stale' => Left(Answers, c_ibuf)'
       /\ client' = "ok" /\ ~stale' => Fresh(Answers, link, s_head)'
       /\ ~garbled' /\ client' = "ok" /\ ~stale' => (AStrict(Answers) /\ AFrom(Answers, handled, got))'
  <2>1. client' = "ok" /\ stale' => Left(Answers, c_ibuf)'
      BY <1>7 DEF Left, r
  <2>2. client' = "ok" /\ ~stale' => Fresh(Answers, link, s_head)'
      BY <1>8 DEF Fresh, AGood, AUnits, AForward, ABoundary, Starts, AClosed, RL, r
  <2>3. ~garbled' /\ client' = "ok" /\ ~stale' => (AStrict(Answers) /\ AFrom(Answers, handled, got))'
      BY <1>10 DEF AStrict, AFrom, RL, r
  <2> QED
      BY <2>1, <2>2, <2>3
<1> QED
    BY <1>6, <1>9, <1>11 DEF AInv

\* send_message of a handler puts an answer at the end of the stream.
LEMMA AppendStep ==
    ASSUME TypeOK, Inv', AInv, NEW m \in 0 .. MaxMsgs, NEW f \in Seq(Unit), f = Frame(m, RespBody[m]),
           Answers' = Answers \o f, link = "open", link' = link, ~s_head, ~s_head',
           UNCHANGED <<client, c_pc, c_ibuf, stale, got>>,
           garbled' \/ (~garbled /\ handled' = Append(handled, m) /\ m \in Msg)
    PROVE  AInv'
<1> DEFINE q == Answers
           r == Answers \o f
<1>1. q \in Seq(Unit) /\ Len(q) \in Nat /\ Len(c_ibuf) \in Nat
    BY AnswersFacts
<1>2. Answers' = r
    OBVIOUS
<1> HIDE DEF q
<1>3. /\ r \in Seq(Unit) /\ AClosed(r) /\ Len(r) \in Nat
      /\ Starts(q) => Starts(r)
      /\ AGood(q) /\ AClosed(q) => AGood(r)
      /\ Len(r) >= Len(q) /\ \A i \in 1 .. Len(q) : r[i] = q[i]
      /\ r[Len(q) + 1].k = 1
    BY <1>1, AppendAnswer, LenProperties DEF q
<1>4. ASSUME client' = "ok", stale' PROVE Left(r, c_ibuf')
  <2>1. PICK j \in 1 .. HeadLen - 1 : j <= Len(c_ibuf) /\ (Len(q) > j => q[j + 1].k = 1)
      BY <1>4 DEF AInv, Left, q
  <2>2. j \in Nat /\ j >= 1 /\ j <= Len(q)
      BY <1>1, <2>1, AnswersFacts, StreamAssumption DEF q
  <2>3. r[j + 1].k = 1
    <3>1. CASE j = Len(q)
        BY <1>3, <3>1
    <3>2. CASE j < Len(q)
      <4>1. j + 1 \in 1 .. Len(q)
          BY <1>1, <2>2, <3>2
      <4> QED
          BY <1>3, <2>1, <3>2, <4>1
    <3>3. j = Len(q) \/ j < Len(q)
        BY <1>1, <2>2
    <3> QED
        BY <3>1, <3>2, <3>3
  <2> QED
      BY <2>1, <2>3 DEF Left
<1>5. ASSUME client' = "ok", ~stale' PROVE AGood(r) /\ Starts(r)
  <2>1. Fresh(q, link, s_head)
      BY <1>5 DEF AInv, q
  <2> QED
      BY <1>3, <2>1 DEF Fresh
<1>6. ASSUME ~garbled'
      PROVE  /\ GotOrder' /\ \A i \in 1 .. Len(got) : got[i] < m
             /\ \E i \in 1 .. Len(handled') : m = handled'[i]
             /\ \A j \in 1 .. Len(handled) : handled[j] < m /\ \E i \in 1 .. Len(handled') : handled[j] = handled'[i]
  <2>1. handled \in Seq(Msg) /\ m \in Msg /\ handled' = Append(handled, m)
      BY <1>6 DEF TypeOK
  <2>2. /\ Len(handled) \in Nat /\ Len(handled') = Len(handled) + 1
        /\ \A i \in 1 .. Len(handled) : handled'[i] = handled[i]
        /\ handled'[Len(handled) + 1] = m
      BY <2>1, AppendProperties, LenProperties
  <2>3. Increasing(handled')
      BY DEF Inv, Flow, InOrder, Increasing
  <2>4. ASSUME NEW j \in 1 .. Len(handled)
        PROVE  handled[j] < m /\ \E i \in 1 .. Len(handled') : handled[j] = handled'[i]
    <3>1. /\ j \in 1 .. Len(handled') /\ Len(handled) + 1 \in 1 .. Len(handled') /\ j < Len(handled) + 1
        BY <2>2
    <3>2. handled'[j] < handled'[Len(handled) + 1]
        BY <2>3, <3>1 DEF Increasing
    <3>3. handled'[j] = handled[j] /\ handled'[Len(handled) + 1] = m
        BY <2>2
    <3> QED
        BY <3>1, <3>2, <3>3
  <2>5. Len(handled') \in 1 .. Len(handled')
      BY <2>2
  <2>6. GotOrder
      BY <1>6 DEF AInv
  <2>7. ASSUME NEW i \in 1 .. Len(got)
        PROVE  got[i] < m /\ \E j \in 1 .. Len(handled') : got[i] = handled'[j]
      BY <2>4, <2>6 DEF GotOrder
  <2>8. GotOrder'
    <3>1. Increasing(got)'
        BY <2>6 DEF GotOrder, Increasing
    <3> QED
        BY <2>7, <3>1 DEF GotOrder
  <2> QED
      BY <2>2, <2>4, <2>5, <2>7, <2>8
<1>7. ASSUME ~garbled', client' = "ok", ~stale' PROVE AStrict(r) /\ AFrom(r, handled', got)
  <2>1. AStrict(q) /\ AFrom(q, handled, got)
      BY <1>6, <1>7 DEF AInv, q
  <2>2. ASSUME NEW j \in 1 .. Len(q)
        PROVE  /\ q[j].m < m /\ \A i \in 1 .. Len(got) : got[i] < q[j].m
               /\ \E i \in 1 .. Len(handled') : q[j].m = handled'[i]
    <3>1. PICK i \in 1 .. Len(handled) : q[j].m = handled[i]
        BY <2>1 DEF AFrom
    <3>2. \A l \in 1 .. Len(got) : got[l] < q[j].m
        BY <2>1 DEF AFrom
    <3>3. handled[i] < m /\ \E l \in 1 .. Len(handled') : handled[i] = handled'[l]
        BY <1>6, <1>7
    <3> QED
        BY <3>1, <3>2, <3>3
  <2>3. AFrom(q, handled', got)
      BY <2>2 DEF AFrom
  <2>4. AStrict(r)
      BY <1>1, <2>1, <2>2, AppendAnswer DEF q
  <2>5. AFrom(r, handled', got)
    <3> DEFINE h == handled'
    <3>1. (\E i \in 1 .. Len(h) : m = h[i]) /\ (\A i \in 1 .. Len(got) : got[i] < m) /\ AFrom(q, h, got)
        BY <1>6, <1>7, <2>3
    <3> HIDE DEF h
    <3>2. AFrom(r, h, got)
        BY <1>1, <3>1, AppendAnswer DEF q
    <3> QED
        BY <3>2 DEF h
  <2> QED
      BY <2>4, <2>5
<1> HIDE DEF r
<1>8. client' = "ok" /\ stale' => Left(Answers, c_ibuf)'
    BY <1>2, <1>4 DEF Left
<1>9. client' = "ok" /\ ~stale' => Fresh(Answers, link, s_head)'
    BY <1>2, <1>3, <1>5 DEF Fresh, AGood, AUnits, AForward, ABoundary, Starts, AClosed, RL
<1>10. ~garbled' /\ client' = "ok" /\ ~stale' => (AStrict(Answers) /\ AFrom(Answers, handled, got))'
    BY <1>2, <1>7 DEF AStrict, AFrom, RL
<1> QED
    BY <1>6, <1>8, <1>9, <1>10 DEF AInv

\* A connection that began with a part of a header in _ibuf: that part and what
\* follows are not a header.
LEMMA StaleMisread ==
    ASSUME TypeOK, AInv, client = "ok", stale, Len(c_ibuf) >= HeadLen
    PROVE  ~Aligned(c_ibuf)
<1>1. PICK j \in 1 .. HeadLen - 1 : j <= Len(c_ibuf) /\ (Len(Answers) > j => Answers[j + 1].k = 1)
    BY DEF AInv, Left
<1>2. /\ j + 1 \in 1 .. HeadLen /\ j + 1 # 1 /\ j + 1 \in 1 .. Len(c_ibuf) /\ Len(Answers) > j
    BY <1>1, AnswersFacts, StreamAssumption
<1>3. c_ibuf[j + 1].k = 1
    BY <1>1, <1>2, AnswersFacts
<1> QED
    BY <1>2, <1>3 DEF Aligned

\* Another connection has a header there.
LEMMA FreshAligned ==
    ASSUME TypeOK, AInv, client = "ok", ~stale, Len(c_ibuf) >= HeadLen
    PROVE  /\ Aligned(c_ibuf) /\ Fresh(Answers, link, s_head)
           /\ Answers # <<>> /\ Answers[1].k = 1 /\ Answers[1] = c_ibuf[1]
<1>1. Fresh(Answers, link, s_head)
    BY DEF AInv
<1>2. /\ Answers \in Seq(Unit) /\ Len(c_ibuf) \in Nat /\ Len(Answers) \in Nat /\ Len(Answers) >= Len(c_ibuf)
      /\ \A i \in 1 .. Len(c_ibuf) : Answers[i] = c_ibuf[i] /\ i \in 1 .. Len(Answers)
    BY AnswersFacts
<1>3. 1 \in 1 .. Len(c_ibuf) /\ \A k \in 1 .. HeadLen : k \in 1 .. Len(c_ibuf)
    BY <1>2, StreamAssumption
<1>4. Answers # <<>> /\ Answers[1] = c_ibuf[1]
    BY <1>2, <1>3, EmptySeq
<1>5. Answers[1].k = 1
    BY <1>1, <1>4 DEF Fresh, Starts
<1>6. /\ RL(Answers[1].m) \in Nat /\ RL(Answers[1].m) >= HeadLen
      /\ \A k \in 1 .. Len(Answers) : k <= RL(Answers[1].m) => Answers[k].m = Answers[1].m /\ Answers[k].k = k
    BY <1>1, <1>2, <1>4, <1>5, FirstAnswer DEF Fresh
<1>7. ASSUME NEW k \in 1 .. HeadLen PROVE c_ibuf[k].k = k /\ c_ibuf[k].m = c_ibuf[1].m
  <2>1. k \in 1 .. Len(c_ibuf) /\ k <= RL(Answers[1].m)
      BY <1>3, <1>6, StreamAssumption
  <2> QED
      BY <1>2, <1>4, <1>6, <2>1
<1> QED
    BY <1>1, <1>4, <1>5, <1>7 DEF Aligned

\* clean_conn of the client.
LEMMA CleanAnswers ==
    ASSUME TypeOK, AInv, clean_conn, client = "ok", c_pc = "idle"
    PROVE  AInv'
<1>1. /\ c_ibuf' = c_ibuf /\ s2c' = <<>> /\ s_obuf' = <<>> /\ s_head' = FALSE /\ c_pc' = c_pc
      /\ handled' = handled /\ got' = got /\ garbled' = garbled
      /\ stale' = (stale \/ c_ibuf # <<>>) /\ client' \in {"ok", "exited"}
    BY DEF clean_conn, shist, do_connect
<1>2. c_ibuf \in Seq(Unit) /\ Len(c_ibuf) \in Nat /\ Len(c_ibuf) < HeadLen
    BY AnswersFacts DEF AInv
<1>3. Answers' = c_ibuf
  <2>1. Unsent' = <<>>
      BY <1>1 DEF Unsent
  <2>2. <<>> \o <<>> = <<>> /\ c_ibuf \o <<>> = c_ibuf
      BY <1>2, ConcatEmptySeq, EmptySeq
  <2> QED
      BY <1>1, <2>1, <2>2 DEF Answers
<1>4. ASSUME stale' PROVE Left(c_ibuf, c_ibuf)
  <2>1. CASE stale
    <3>1. PICK j \in 1 .. HeadLen - 1 : j <= Len(c_ibuf) /\ (Len(Answers) > j => Answers[j + 1].k = 1)
        BY <2>1 DEF AInv, Left
    <3>2. ASSUME Len(c_ibuf) > j PROVE c_ibuf[j + 1].k = 1
      <4>1. j + 1 \in 1 .. Len(c_ibuf) /\ Len(Answers) > j
          BY <1>2, <3>2, AnswersFacts
      <4> QED
          BY <3>1, <4>1, AnswersFacts
    <3> QED
        BY <3>1, <3>2 DEF Left
  <2>2. CASE ~stale
    <3>0. c_ibuf # <<>>
        BY <1>1, <1>4, <2>2
    <3>1. Len(c_ibuf) > 0
        BY <1>2, <3>0, EmptySeq
    <3>2. PICK j \in 1 .. HeadLen - 1 : j = Len(c_ibuf)
        BY <1>2, <3>1, StreamAssumption
    <3>3. j <= Len(c_ibuf) /\ ~(Len(c_ibuf) > j)
        BY <1>2, <3>2
    <3> QED
        BY <3>3 DEF Left
  <2> QED
      BY <2>1, <2>2
<1>5. ASSUME ~stale' PROVE c_ibuf = <<>> /\ Len(c_ibuf) = 0
    BY <1>1, <1>5, EmptySeq
<1>6. client' = "ok" /\ stale' => Left(Answers, c_ibuf)'
    BY <1>1, <1>3, <1>4 DEF Left
<1>7. client' = "ok" /\ ~stale' => Fresh(Answers, link, s_head)'
    BY <1>3, <1>5 DEF Fresh, AGood, AUnits, AForward, ABoundary, Starts, AClosed
<1>8. client' = "ok" /\ ~stale' => (AStrict(Answers) /\ AFrom(Answers, handled, got))'
    BY <1>3, <1>5 DEF AStrict, AFrom
<1>9. ~garbled' => GotOrder'
    BY <1>1 DEF AInv, GotOrder, Increasing
<1> QED
    BY <1>1, <1>2, <1>6, <1>7, <1>8, <1>9 DEF AInv

\* The handler runs for the first answer of the stream, which has arrived at
\* least to the end of its header.
LEMMA GotStep ==
    ASSUME TypeOK, AInv, client = "ok", Len(c_ibuf) >= HeadLen, Aligned(c_ibuf), ~garbled,
           NEW m, m = c_ibuf[1].m, got' = Append(got, m), handled' = handled
    PROVE  GotOrder'
<1>1. ~stale
    BY StaleMisread
<1>2. Answers # <<>> /\ Answers[1].m = m
    BY <1>1, FreshAligned
<1>3. AFrom(Answers, handled, got) /\ GotOrder
    BY <1>1 DEF AInv
<1>4. m \in 0 .. MaxMsgs /\ (\E i \in 1 .. Len(handled) : m = handled[i]) /\ \A i \in 1 .. Len(got) : got[i] < m
  <2>1. Answers \in Seq(Unit) /\ 1 \in 1 .. Len(Answers)
      BY <1>2, AnswersFacts, EmptySeq
  <2>2. Answers[1] \in Unit
      BY <2>1, ElementOfSeq
  <2> QED
      BY <1>2, <1>3, <2>1, <2>2 DEF AFrom, Unit
<1>5. got \in Seq(0 .. MaxMsgs) /\ got' = Append(got, m)
    BY DEF TypeOK
<1>6. /\ Len(got) \in Nat /\ Len(got') = Len(got) + 1
      /\ \A i \in 1 .. Len(got) : got'[i] = got[i]
      /\ got'[Len(got) + 1] = m
    BY <1>4, <1>5, AppendProperties, LenProperties
<1>7. \A i \in 1 .. Len(got') : i \in 1 .. Len(got) \/ i = Len(got) + 1
    BY <1>6
<1>8. Increasing(got')
  <2> SUFFICES ASSUME NEW i \in 1 .. Len(got'), NEW j \in 1 .. Len(got'), i < j PROVE got'[i] < got'[j]
      BY DEF Increasing
  <2>1. i \in 1 .. Len(got)
      BY <1>6
  <2>2. CASE j \in 1 .. Len(got)
      BY <1>3, <1>6, <2>1, <2>2 DEF GotOrder, Increasing
  <2>3. CASE j = Len(got) + 1
      BY <1>4, <1>6, <2>1, <2>3
  <2> QED
      BY <1>7, <2>2, <2>3
<1>9. ASSUME NEW i \in 1 .. Len(got') PROVE \E j \in 1 .. Len(handled) : got'[i] = handled[j]
  <2>1. CASE i \in 1 .. Len(got)
      BY <1>3, <1>6, <2>1 DEF GotOrder
  <2>2. CASE i = Len(got) + 1
      BY <1>4, <1>6, <2>2
  <2> QED
      BY <1>7, <2>1, <2>2
<1>10. Increasing(got)'
    BY <1>8 DEF Increasing
<1> QED
    BY <1>9, <1>10 DEF GotOrder

\* client_handle with the whole answer: it leaves the stream.
LEMMA HandleAnswer ==
    ASSUME TypeOK, AInv, client = "ok", c_pc = "parse", Len(c_ibuf) >= HeadLen, Aligned(c_ibuf),
           NEW m, m = c_ibuf[1].m, Len(c_ibuf) >= HeadLen + RespBody[m], client_handle(m), c_pc' = c_pc,
           UNCHANGED <<s2c, s_obuf, s_head, link, stale, garbled, handled>>
    PROVE  AInv'
<1> DEFINE q == Answers
           n == RL(m)
           r == Drop(q, n)
<1>1. ~stale
    BY StaleMisread
<1>2. Fresh(q, link, s_head) /\ q # <<>> /\ q[1].k = 1 /\ q[1].m = m
    BY <1>1, FreshAligned
<1>3. /\ q \in Seq(Unit) /\ Len(q) \in Nat /\ c_ibuf \in Seq(Unit) /\ Len(c_ibuf) \in Nat
      /\ Len(c_ibuf) <= Len(q) /\ s2c \o Unsent \in Seq(Unit)
    BY AnswersFacts
<1>4. /\ m \in 0 .. MaxMsgs /\ n \in Nat /\ n >= HeadLen
      /\ n < Len(q) => q[n + 1].k = 1 /\ (AStrict(q) => m < q[n + 1].m)
    BY <1>2, <1>3, FirstAnswer DEF Fresh
<1>5. n \in 0 .. Len(c_ibuf) /\ n \in 0 .. Len(q) /\ n > 1
  <2>1. n <= Len(c_ibuf)
      BY DEF RL
  <2> HIDE DEF n, q
  <2> QED
      BY <1>3, <1>4, <2>1, StreamAssumption
<1>6. Answers' = r
  <2>1. c_ibuf' = Drop(c_ibuf, n) /\ (s2c \o Unsent)' = s2c \o Unsent
      BY DEF client_handle, RL, Unsent
  <2> DEFINE u == s2c \o Unsent
  <2>2. u \in Seq(Unit) /\ Answers = c_ibuf \o u /\ Answers' = Drop(c_ibuf, n) \o u
      BY <1>3, <2>1 DEF Answers
  <2> HIDE DEF u, n
  <2>3. Drop(c_ibuf, n) \o u = Drop(c_ibuf \o u, n)
    <3>1. c_ibuf \in Seq(Unit) /\ u \in Seq(Unit) /\ n \in 0 .. Len(c_ibuf)
        BY <1>3, <1>5, <2>2
    <3> QED
        BY <3>1, DropConcat, ZenonT(60)
  <2> QED
      BY <2>2, <2>3
<1> HIDE DEF q, n
<1>7. /\ r \in Seq(Unit) /\ Len(r) = Len(q) - n /\ Len(r) \in Nat
      /\ \A i \in 1 .. Len(q) - n : r[i] = q[i + n]
  <2>1. r \in Seq(Unit) /\ Len(r) = Len(q) - n /\ \A i \in 1 .. Len(q) - n : r[i] = q[i + n]
      BY <1>3, <1>5, DropFacts
  <2>2. Len(q) - n \in Nat
      BY <1>3, <1>4, <1>5
  <2> QED
      BY <2>1, <2>2
<1> HIDE DEF r
<1>8. n + Len(r) = Len(q)
    BY <1>3, <1>4, <1>5, <1>7
<1>9. Window(r, q, n)
  <2>1. n + Len(r) <= Len(q) /\ \A i \in 1 .. Len(r) : r[i] = q[i + n]
      BY <1>3, <1>7, <1>8
  <2> QED
      BY <2>1 DEF Window
<1>10. AGood(r)
    BY <1>2, <1>3, <1>4, <1>7, <1>9, WindowGood DEF Fresh
<1>11. Len(r) > 0 => /\ r[1] = q[n + 1] /\ n < Len(q)
                     /\ r[Len(r)] = q[Len(q)]
  <2> SUFFICES ASSUME Len(r) > 0 PROVE r[1] = q[n + 1] /\ n < Len(q) /\ r[Len(r)] = q[Len(q)]
      OBVIOUS
  <2>1. /\ 1 \in 1 .. Len(q) - n /\ Len(r) \in 1 .. Len(q) - n /\ 1 + n = n + 1
        /\ Len(r) + n = Len(q) /\ n < Len(q)
      BY <1>3, <1>4, <1>7, <1>8
  <2>2. r[1] = q[1 + n] /\ r[Len(r)] = q[Len(r) + n]
      BY <1>7, <2>1
  <2> QED
      BY <2>1, <2>2
<1>12. Starts(r)
  <2>1. r # <<>> => Len(r) > 0
      BY <1>7, EmptySeq
  <2> QED
      BY <1>4, <1>11, <2>1 DEF Starts, q, n
<1>13. link = "open" /\ ~s_head => AClosed(r)
  <2>1. r # <<>> => Len(r) > 0
      BY <1>7, EmptySeq
  <2> QED
      BY <1>2, <1>11, <2>1 DEF Fresh, AClosed, q
<1>14. link # "pending"
    BY <1>2 DEF Fresh, q
<1>15. Fresh(Answers, link, s_head)'
    BY <1>6, <1>10, <1>12, <1>13, <1>14 DEF Fresh, AGood, AUnits, AForward, ABoundary, Starts, AClosed, RL
<1>16. ASSUME ~garbled PROVE GotOrder' /\ (AStrict(Answers) /\ AFrom(Answers, handled, got))'
  <2>1. AStrict(q) /\ AFrom(q, handled, got) /\ GotOrder
      BY <1>1, <1>16 DEF AInv, q
  <2>2. AStrict(r) /\ AFrom(r, handled, got)
      BY <1>3, <1>4, <1>7, <1>9, <2>1, WindowGood
  <2>3. 1 \in 1 .. Len(q) /\ q[1].m = m
      BY <1>2, <1>3, <1>4, <1>5, <1>8, <1>7 DEF q
  <2>4. (\E i \in 1 .. Len(handled) : m = handled[i]) /\ \A i \in 1 .. Len(got) : got[i] < m
      BY <2>1, <2>3 DEF AFrom
  <2>5. got \in Seq(0 .. MaxMsgs) /\ got' = Append(got, m)
      BY DEF client_handle, TypeOK
  <2>6. /\ Len(got) \in Nat /\ Len(got') = Len(got) + 1
        /\ \A i \in 1 .. Len(got) : got'[i] = got[i]
        /\ got'[Len(got) + 1] = m
      BY <1>4, <2>5, AppendProperties, LenProperties
  <2>7. \A i \in 1 .. Len(got') : i \in 1 .. Len(got) \/ i = Len(got) + 1
      BY <2>6
  <2>10. GotOrder'
      BY <1>16, <2>5, GotStep
  <2>11. ASSUME NEW j \in 1 .. Len(r) PROVE m < r[j].m
    <3>1. /\ Len(r) > 0 /\ n + 1 \in 1 .. Len(q) /\ j + n \in 1 .. Len(q) /\ n + 1 <= j + n
          /\ j \in 1 .. Len(q) - n
        BY <1>3, <1>4, <1>7, <1>8
    <3>2. q[n + 1].m <= q[j + n].m
        BY <2>1, <3>1 DEF AStrict
    <3>3. m < q[n + 1].m
        BY <1>4, <1>11, <2>1, <3>1 DEF q, n
    <3>4. r[j] = q[j + n] /\ q[n + 1].m \in Nat /\ q[j + n].m \in Nat /\ m \in Nat
      <4>1. q[n + 1].m \in Nat /\ q[j + n].m \in Nat
          BY <1>3, <3>1, UFields
      <4>2. m \in Nat
          BY <1>4
      <4> QED
          BY <1>7, <3>1, <4>1, <4>2
    <3> QED
        BY <3>2, <3>3, <3>4
  <2>12. AFrom(r, handled, got')
    <3> SUFFICES ASSUME NEW j \in 1 .. Len(r)
                 PROVE  /\ \E i \in 1 .. Len(handled) : r[j].m = handled[i]
                        /\ \A i \in 1 .. Len(got') : got'[i] < r[j].m
        BY DEF AFrom
    <3>1. /\ \E i \in 1 .. Len(handled) : r[j].m = handled[i]
          /\ \A i \in 1 .. Len(got) : got[i] < r[j].m
        BY <2>2 DEF AFrom
    <3>2. m < r[j].m
        BY <2>11
    <3> QED
        BY <2>6, <2>7, <3>1, <3>2
  <2> QED
      BY <1>6, <2>2, <2>10, <2>12 DEF AStrict, AFrom, RL
<1>17. client' = "ok" /\ c_pc' = "parse" /\ ~stale'
    BY <1>1 DEF client_handle
<1> QED
    BY <1>15, <1>16, <1>17 DEF AInv

\* The connection is gone for the server, with what it had not written and
\* maybe a part of what it had.
LEMMA GoneAnswers ==
    ASSUME TypeOK, TypeOK', AInv, ConnGone, NEW n \in 0 .. Len(s2c), s2c' = SubSeq(s2c, 1, n),
           UNCHANGED <<client, c_pc, c_ibuf, stale, got>>, ~garbled' => ~garbled,
           \A j \in 1 .. Len(handled) : \E i \in 1 .. Len(handled') : handled[j] = handled'[i]
    PROVE  AInv'
<1>1. c_ibuf \in Seq(Unit) /\ s2c \in Seq(Unit) /\ Unsent \in Seq(Unit) /\ Len(c_ibuf) \in Nat
    BY AnswersFacts
<1>2. Unsent' = <<>> /\ link' = "dead"
    BY DEF ConnGone, Unsent
<1>3. Window(Answers', Answers, 0)
  <2>1. Answers' = c_ibuf \o (SubSeq(s2c, 1, n) \o <<>>)
      BY <1>2 DEF Answers
  <2> QED
      BY <1>1, <2>1, PartWindow DEF Answers
<1>4. client' = "ok" /\ c_pc' = "idle" => Len(c_ibuf') < HeadLen
    BY DEF AInv
<1>5. Len(c_ibuf) <= Len(c_ibuf')
    BY <1>1
<1> QED
    BY <1>2, <1>3, <1>4, <1>5, PrefixStep

\* Steps that leave the stream of answers alone.
LEMMA SameAnswers ==
    ASSUME TypeOK, TypeOK', AInv, Answers' = Answers, Len(c_ibuf) <= Len(c_ibuf'),
           UNCHANGED <<stale, got>>, ~garbled' => ~garbled, s_head' = s_head,
           client' # client => client' \notin {"ok", "garbled"},
           client' = "ok" /\ c_pc' = "idle" => Len(c_ibuf') < HeadLen,
           link' = link \/ link = "pending", link' = "pending" => link = "pending",
           \A j \in 1 .. Len(handled) : \E i \in 1 .. Len(handled') : handled[j] = handled'[i]
    PROVE  AInv'
<1>1. Answers \in Seq(Unit) /\ Len(Answers) \in Nat
    BY AnswersFacts
<1>2. Window(Answers', Answers, 0)
  <2>1. 0 + Len(Answers) <= Len(Answers) /\ \A i \in 1 .. Len(Answers) : i + 0 = i
      BY <1>1
  <2> QED
      BY <2>1 DEF Window
<1> QED
    BY <1>2, PrefixStep

\* A prefix of the answers given: nothing is taken out of handled.
LEMMA HandledGrows ==
    ASSUME handled \in Seq(Msg), handled' = handled \/ \E m \in Msg : handled' = Append(handled, m)
    PROVE  \A j \in 1 .. Len(handled) : \E i \in 1 .. Len(handled') : handled[j] = handled'[i]
<1>1. CASE handled' = handled
    BY <1>1
<1>2. ASSUME NEW m \in Msg, handled' = Append(handled, m)
      PROVE  \A j \in 1 .. Len(handled) : \E i \in 1 .. Len(handled') : handled[j] = handled'[i]
  <2>1. /\ Len(handled) \in Nat /\ Len(handled') = Len(handled) + 1
        /\ \A i \in 1 .. Len(handled) : handled'[i] = handled[i]
      BY <1>2, AppendProperties, LenProperties
  <2>2. \A j \in 1 .. Len(handled) : j \in 1 .. Len(handled')
      BY <2>1
  <2> QED
      BY <2>1, <2>2
<1> QED
    BY <1>1, <1>2

\* send_message of a handler.
LEMMA ReplyStep ==
    ASSUME TypeOK, TypeOK', Inv', AInv, NEW m \in 0 .. MaxMsgs, NEW rest, conn_send_message(m, rest),
           link = "open", UNCHANGED <<client, c_pc, c_ibuf, stale, got, s2c>>,
           \/ garbled' /\ handled' = handled
           \/ garbled' = garbled /\ handled' = Append(handled, m) /\ m \in Msg
    PROVE  AInv'
<1>1. c_ibuf \in Seq(Unit) /\ s2c \in Seq(Unit) /\ Unsent \in Seq(Unit) /\ Len(c_ibuf) \in Nat /\ Len(s2c) \in Nat
    BY AnswersFacts, LenProperties
<1>2. SubSeq(s2c, 1, Len(s2c)) = s2c /\ Len(s2c) \in 0 .. Len(s2c)
    BY <1>1
<1>3. \A j \in 1 .. Len(handled) : \E i \in 1 .. Len(handled') : handled[j] = handled'[i]
    BY HandledGrows DEF TypeOK
<1>4. ~garbled' => ~garbled
    OBVIOUS
<1>5. client' = "ok" /\ c_pc' = "idle" => Len(c_ibuf') < HeadLen
    BY DEF AInv
<1>6. Len(c_ibuf) <= Len(c_ibuf')
    BY <1>1
<1>7. CASE s_head
  <2>1. ConnGone /\ s2c' = SubSeq(s2c, 1, Len(s2c))
      BY <1>2, <1>7 DEF conn_send_message, Abort
  <2> QED
      BY <1>2, <1>3, <1>4, <2>1, GoneAnswers
<1>8. CASE ~s_head /\ s_obuf' = s_obuf \o Frame(m, RespBody[m]) /\ s_head' = s_head /\ link' = link
  <2> DEFINE f == Frame(m, RespBody[m])
  <2>1. f \in Seq(Unit)
      BY FrameUnits, StreamAssumption
  <2> HIDE DEF f
  <2>2. Unsent = s_obuf /\ Unsent' = s_obuf \o f
      BY <1>8 DEF Unsent, f
  <2>3. s_obuf \in Seq(Unit) /\ s2c \o s_obuf \in Seq(Unit)
      BY <1>1, ConcatProperties DEF TypeOK
  <2>4. s2c \o (s_obuf \o f) = (s2c \o s_obuf) \o f
      BY <1>1, <2>1, <2>3, UAssoc, SMTT(60)
  <2> DEFINE u == s2c \o s_obuf
  <2>5. u \in Seq(Unit)
      BY <2>3
  <2> HIDE DEF u
  <2>6. c_ibuf \o (u \o f) = (c_ibuf \o u) \o f
    <3>1. c_ibuf \in Seq(Unit)
        BY <1>1
    <3> QED
        BY <2>1, <2>5, <3>1, UAssoc, SMTT(60)
  <2>7. Answers' = Answers \o f
      BY <2>2, <2>4, <2>6 DEF Answers, u
  <2>8. f = Frame(m, RespBody[m])
      BY DEF f
  <2>9. garbled' \/ (~garbled /\ handled' = Append(handled, m) /\ m \in Msg)
      BY DEF TypeOK
  <2> QED
      BY <1>8, <2>1, <2>7, <2>8, <2>9, AppendStep
<1>9. CASE ~s_head /\ s_obuf' = s_obuf /\ s_head' = s_head /\ link' = link
  <2>1. Answers' = Answers
      BY <1>9 DEF Answers, Unsent
  <2> QED
      BY <1>3, <1>4, <1>5, <1>6, <1>9, <2>1, SameAnswers
<1>10. CASE ~s_head /\ s_head' = TRUE /\ link' = link
  <2>1. Answers' = c_ibuf \o (SubSeq(s2c, 1, Len(s2c)) \o <<>>)
      BY <1>2, <1>10 DEF Answers, Unsent
  <2>2. Window(Answers', Answers, 0)
      BY <1>1, <1>2, <2>1, PartWindow DEF Answers
  <2> QED
      BY <1>3, <1>4, <1>5, <1>6, <1>10, <2>2, PrefixStep
<1> QED
    BY <1>7, <1>8, <1>9, <1>10 DEF conn_send_message

\* do_read of the server, by what is at the head of its buffer.
LEMMA ServerParse ==
    ASSUME TypeOK, TypeOK', Inv, Inv', AInv, conn_parse
    PROVE  AInv'
<1> DEFINE m == s_ibuf[1].m
           n == HeadLen + ReqBody[m]
<1>1. link = "open" /\ UNCHANGED <<client, c_pc, c_ibuf, stale, got, s2c>>
    BY DEF conn_parse, Inv, Causes, cvars, chist
<1>2. s2c \in Seq(Unit) /\ Len(s2c) \in Nat /\ Len(c_ibuf) \in Nat
    BY AnswersFacts, LenProperties
<1>3. s2c' = SubSeq(s2c, 1, Len(s2c)) /\ Len(s2c) \in 0 .. Len(s2c) /\ Len(c_ibuf) <= Len(c_ibuf')
    BY <1>1, <1>2
<1>4. client' = "ok" /\ c_pc' = "idle" => Len(c_ibuf') < HeadLen
    BY <1>1 DEF AInv
<1>5. ASSUME ConnGone, ~garbled' => ~garbled, handled' = handled \/ \E i \in Msg : handled' = Append(handled, i)
      PROVE  AInv'
  <2>1. \A j \in 1 .. Len(handled) : \E i \in 1 .. Len(handled') : handled[j] = handled'[i]
      BY <1>5, HandledGrows DEF TypeOK
  <2> QED
      BY <1>1, <1>3, <1>5, <2>1, GoneAnswers
<1>6. ASSUME UNCHANGED <<s_obuf, s_head, link, handled>>, ~garbled' => ~garbled PROVE AInv'
  <2>1. Answers' = Answers
      BY <1>1, <1>6 DEF Answers, Unsent
  <2>2. \A j \in 1 .. Len(handled) : \E i \in 1 .. Len(handled') : handled[j] = handled'[i]
      BY <1>6
  <2> QED
      BY <1>1, <1>3, <1>4, <1>6, <2>1, <2>2, SameAnswers
<1>7. CASE conn_wait
    BY <1>6, <1>7 DEF conn_wait, shist
<1>8. CASE Len(s_ibuf) >= HeadLen /\ conn_handle(m, n)
  <2>1. m \in Msg /\ m \in 0 .. MaxMsgs
    <3>1. s_ibuf \in Seq(ReqUnit) /\ 1 \in 1 .. Len(s_ibuf)
        BY <1>8, Fields, StreamAssumption DEF Inv, Flow, Types
    <3> QED
        BY <3>1, Fields DEF Msg
  <2>2. handled' = Append(handled, m) /\ garbled' = garbled
      BY <1>8 DEF conn_handle
  <2>3. CASE Abort
      BY <1>5, <2>1, <2>2, <2>3 DEF Abort
  <2>4. CASE conn_send_message(m, Drop(s_ibuf, n))
      BY <1>1, <2>1, <2>2, <2>4, ReplyStep
  <2> QED
      BY <1>8, <2>3, <2>4 DEF conn_handle
<1>9. CASE conn_misread
  <2>1. garbled' /\ handled' = handled
      BY <1>9 DEF conn_misread
  <2>2. CASE ConnGone
      BY <1>5, <2>1, <2>2
  <2>3. CASE UNCHANGED <<s_obuf, s_head, link>>
      BY <1>6, <2>1, <2>3
  <2>4. ASSUME NEW i, conn_send_message(0, Drop(s_ibuf, i)) PROVE AInv'
    <3>1. 0 \in 0 .. MaxMsgs
        BY StreamAssumption
    <3> QED
        BY <1>1, <2>1, <2>4, <3>1, ReplyStep
  <2> QED
      BY <1>9, <2>2, <2>3, <2>4 DEF conn_misread, Abort
<1>10. CASE conn_refuse
    BY <1>5, <1>10 DEF conn_refuse
<1> QED
    BY <1>7, <1>8, <1>9, <1>10 DEF conn_parse

\* do_write of the server: units move along.
LEMMA ServerWrite ==
    ASSUME TypeOK, TypeOK', AInv, conn_do_write
    PROVE  AInv'
<1>1. UNCHANGED <<client, c_pc, c_ibuf, stale, got, handled, garbled>>
    BY DEF conn_do_write, cvars, chist, shist
<1>2. /\ c_ibuf \in Seq(Unit) /\ s2c \in Seq(Unit) /\ s_obuf \in Seq(Unit)
      /\ Len(s2c) \in Nat /\ Len(c_ibuf) \in Nat /\ Len(s_obuf) \in Nat
    BY AnswersFacts, LenProperties DEF TypeOK
<1>3. \A j \in 1 .. Len(handled) : \E i \in 1 .. Len(handled') : handled[j] = handled'[i]
    BY <1>1
<1>4. CASE s_head
  <2>1. ConnGone /\ s2c' = SubSeq(s2c, 1, Len(s2c)) /\ Len(s2c) \in 0 .. Len(s2c)
      BY <1>2, <1>4 DEF conn_do_write, Abort
  <2> QED
      BY <1>1, <1>3, <2>1, GoneAnswers
<1>5. CASE ~s_head
  <2>1. PICK n \in 1 .. Len(s_obuf) : s2c' = s2c \o SubSeq(s_obuf, 1, n) /\ s_obuf' = Drop(s_obuf, n)
      BY <1>5 DEF conn_do_write
  <2>2. s_head' = s_head /\ link' = link
      BY <1>5 DEF conn_do_write
  <2> DEFINE a == SubSeq(s_obuf, 1, n)
             b == Drop(s_obuf, n)
  <2>3. a \in Seq(Unit) /\ b \in Seq(Unit) /\ s_obuf = a \o b
    <3>1. n \in 0 .. Len(s_obuf)
        BY <1>2
    <3> QED
        BY <1>2, <3>1, DropFacts
  <2> HIDE DEF a, b
  <2>4. (s2c \o a) \o b = s2c \o (a \o b)
      BY <1>2, <2>3, UAssoc, SMTT(60)
  <2>5. s2c' = s2c \o a /\ s_obuf' = b
      BY <2>1 DEF a, b
  <2>6. Answers' = Answers
      BY <1>1, <1>5, <2>2, <2>3, <2>4, <2>5 DEF Answers, Unsent
  <2>7. client' = "ok" /\ c_pc' = "idle" => Len(c_ibuf') < HeadLen
      BY <1>1 DEF AInv
  <2>8. Len(c_ibuf) <= Len(c_ibuf')
      BY <1>1, <1>2
  <2> QED
      BY <1>1, <1>3, <2>2, <2>6, <2>7, <2>8, SameAnswers
<1> QED
    BY <1>4, <1>5

\* The steps of the client that read.
LEMMA ClientReads ==
    ASSUME TypeOK, TypeOK', AInv, client_do_read \/ client_parse
    PROVE  AInv'
<1>1. /\ c_ibuf \in Seq(Unit) /\ s2c \in Seq(Unit) /\ Unsent \in Seq(Unit)
      /\ Len(s2c) \in Nat /\ Len(c_ibuf) \in Nat
    BY AnswersFacts, LenProperties
<1>2. CASE client_do_read /\ clean_conn
    BY <1>2, CleanAnswers DEF client_do_read
<1>3. CASE client_do_read /\ ~clean_conn
  <2>0. UNCHANGED <<s_obuf, s_head, link, stale, got, handled, garbled>> /\ Unsent' = Unsent /\ client = "ok"
    <3>1. UNCHANGED <<s_obuf, s_head, link, stale, got, handled, garbled>> /\ client = "ok"
        BY <1>3 DEF client_do_read, svars, chist, shist
    <3> QED
        BY <3>1 DEF Unsent
  <2>1. PICK n \in 1 .. Len(s2c) :
          /\ s2c' = Drop(s2c, n)
          /\ \/ c_ibuf' = c_ibuf \o SubSeq(s2c, 1, n) /\ c_pc' = "parse" /\ client' = client
             \/ client' = "full" /\ UNCHANGED <<c_ibuf, c_pc>>
      BY <1>3 DEF client_do_read
  <2>2. CASE c_ibuf' = c_ibuf \o SubSeq(s2c, 1, n) /\ c_pc' = "parse" /\ client' = client
    <3> DEFINE a == SubSeq(s2c, 1, n)
               b == Drop(s2c, n)
    <3>1. a \in Seq(Unit) /\ b \in Seq(Unit) /\ s2c = a \o b
      <4>1. n \in 0 .. Len(s2c)
          BY <1>1
      <4> QED
          BY <1>1, <4>1, DropFacts
    <3> HIDE DEF a, b
    <3>2. b \o Unsent \in Seq(Unit) /\ (a \o b) \o Unsent = a \o (b \o Unsent)
        BY <1>1, <3>1, UAssoc, SMTT(60)
    <3> DEFINE d == b \o Unsent
    <3>3. d \in Seq(Unit)
        BY <3>2
    <3> HIDE DEF d
    <3>4. (c_ibuf \o a) \o d = c_ibuf \o (a \o d)
        BY <1>1, <3>1, <3>3, UAssoc, SMTT(60)
    <3>5. c_ibuf' = c_ibuf \o a /\ s2c' = b
        BY <2>1, <2>2 DEF a, b
    <3>6. Answers' = Answers
        BY <2>0, <3>1, <3>2, <3>4, <3>5 DEF Answers, d
    <3>7. Len(c_ibuf) <= Len(c_ibuf')
      <4>1. Len(c_ibuf \o a) = Len(c_ibuf) + Len(a) /\ Len(a) \in Nat
          BY <1>1, <3>1, ConcatProperties, LenProperties
      <4> QED
          BY <1>1, <3>5, <4>1
    <3>8. \A j \in 1 .. Len(handled) : \E i \in 1 .. Len(handled') : handled[j] = handled'[i]
        BY <2>0
    <3> QED
        BY <2>0, <2>2, <3>6, <3>7, <3>8, SameAnswers
  <2>3. CASE client' = "full"
      BY <2>0, <2>3 DEF AInv, GotOrder, Increasing
  <2> QED
      BY <2>1, <2>2, <2>3
<1>4. CASE client_parse
  <2> DEFINE m == c_ibuf[1].m
  <2>0. /\ UNCHANGED <<s_obuf, s_head, link, s2c, stale, handled, garbled>> /\ Unsent' = Unsent
        /\ client = "ok" /\ c_pc = "parse"
      BY <1>4 DEF client_parse, svars, net, shist, Unsent
  <2>1. CASE Len(c_ibuf) < HeadLen /\ c_pc' = "idle" /\ UNCHANGED <<client, c_ibuf, got>>
    <3>1. Answers' = Answers
        BY <2>0, <2>1 DEF Answers
    <3>2. \A j \in 1 .. Len(handled) : \E i \in 1 .. Len(handled') : handled[j] = handled'[i]
        BY <2>0
    <3>3. Len(c_ibuf) <= Len(c_ibuf') /\ Len(c_ibuf') < HeadLen
        BY <1>1, <2>1
    <3> QED
        BY <2>0, <2>1, <3>1, <3>2, <3>3, SameAnswers
  <2>2. CASE /\ Len(c_ibuf) >= HeadLen /\ Aligned(c_ibuf) /\ Len(c_ibuf) >= HeadLen + RespBody[m]
             /\ client_handle(m) /\ c_pc' = c_pc
      BY <2>0, <2>2, HandleAnswer
  <2>3. CASE /\ Len(c_ibuf) >= HeadLen /\ Aligned(c_ibuf) /\ ~(Len(c_ibuf) >= HeadLen + RespBody[m])
             /\ client_handle(m) /\ c_pc' = c_pc
    <3>1. client' = "overrun" /\ got' = Append(got, m)
        BY <2>3 DEF client_handle
    <3>2. ~garbled' => GotOrder'
        BY <2>0, <2>3, <3>1, GotStep
    <3> QED
        BY <3>1, <3>2 DEF AInv
  <2>4. CASE Len(c_ibuf) >= HeadLen /\ ~Aligned(c_ibuf) /\ client' = "garbled" /\ got' = got
    <3>1. stale
        BY <2>0, <2>4, FreshAligned DEF TypeOK
    <3>2. stale'
        BY <2>0, <3>1
    <3>3. ~garbled' => GotOrder'
        BY <2>0, <2>4 DEF AInv, GotOrder, Increasing
    <3> QED
        BY <2>4, <3>2, <3>3 DEF AInv
  <2> QED
      BY <1>4, <2>1, <2>2, <2>3, <2>4 DEF client_parse
<1> QED
    BY <1>2, <1>3, <1>4

\* The answer given in part is the last one, and the end of the client.
PInv == partial # {} => client = "overrun" /\ partial = {got[Len(got)]}

\* Only client_parse gives answers, and only to a client that lives.
LEMMA PartStep ==
    ASSUME TypeOK, PInv, [Next]_vars
    PROVE  PInv'
<1>1. ASSUME UNCHANGED <<partial, got>>, client' = client \/ client = "ok" PROVE PInv'
    BY <1>1 DEF PInv
<1>2. CASE client_send_message \/ connection_delay \/ client_do_write \/ client_do_read
    BY <1>1, <1>2 DEF client_send_message, connection_delay, client_do_write, client_do_read, clean_conn, chist
<1>3. CASE ServerStep \/ Established \/ Cut \/ UNCHANGED vars
    BY <1>1, <1>3 DEF ServerStep, conn_do_read, conn_parse, conn_do_write, Established, Cut, vars, cvars, chist
<1>4. CASE client_parse /\ UNCHANGED <<partial, got>>
    BY <1>1, <1>4 DEF client_parse
<1>5. CASE client_parse /\ Len(c_ibuf) >= HeadLen /\ client_handle(c_ibuf[1].m)
  <2> DEFINE m == c_ibuf[1].m
  <2>1. partial = {}
      BY <1>5 DEF client_parse, PInv
  <2>2. got \in Seq(0 .. MaxMsgs) /\ m \in 0 .. MaxMsgs /\ got' = Append(got, m)
    <3>1. c_ibuf \in Seq(Unit) /\ Len(c_ibuf) >= HeadLen /\ got \in Seq(0 .. MaxMsgs)
        BY <1>5 DEF TypeOK
    <3>2. 1 \in 1 .. Len(c_ibuf)
        BY <3>1, LenProperties, StreamAssumption
    <3>3. c_ibuf[1] \in Unit
        BY <3>1, <3>2, ElementOfSeq
    <3> QED
        BY <1>5, <3>1, <3>3 DEF client_handle, Unit
  <2> HIDE DEF m
  <2>3. got'[Len(got')] = m
      BY <2>2, AppendProperties, LenProperties
  <2>4. UNCHANGED partial \/ (client' = "overrun" /\ partial' = {m})
      BY <1>5, <2>1 DEF client_handle, m
  <2> QED
      BY <2>1, <2>3, <2>4 DEF PInv
<1> QED
    BY <1>2, <1>3, <1>4, <1>5 DEF Next, ClientStep, client_parse

\* For all messages, buffers and breaks: no buffer exceeds its capacity
\* (TypeOK), and the client runs its handler at most once for each answer and
\* in order; an answer given before all of it arrived is the last one, and
\* only a stream that began behind half a header is misread (AnswersGiven).
THEOREM AnswersSafe == Spec => [](TypeOK /\ AnswersGiven)
<1>1. Init => AInv
  <2> SUFFICES ASSUME Init PROVE AInv
      OBVIOUS
  <2>1. /\ client = "ok" /\ stale = FALSE /\ c_ibuf = <<>> /\ s2c = <<>> /\ s_obuf = <<>> /\ got = <<>>
        /\ s_head = FALSE /\ handled = <<>>
      BY DEF Init
  <2>2. Len(<<>>) = 0 /\ <<>> \o <<>> = <<>>
    <3>1. <<>> \in Seq(Unit) /\ Len(<<>>) = 0
        BY EmptySeq
    <3> QED
        BY <3>1, ConcatEmptySeq
  <2>3. Answers = <<>> /\ Len(Answers) = 0
      BY <2>1, <2>2 DEF Answers, Unsent
  <2>4. Fresh(Answers, link, s_head) /\ AStrict(Answers) /\ AFrom(Answers, handled, got)
      BY <2>3 DEF Fresh, AGood, AUnits, AForward, ABoundary, Starts, AClosed, AStrict, AFrom
  <2>5. GotOrder
      BY <2>1, <2>2 DEF GotOrder, Increasing
  <2>6. Len(c_ibuf) < HeadLen
      BY <2>1, <2>2, StreamAssumption
  <2> QED
      BY <2>1, <2>4, <2>5, <2>6 DEF AInv
<1>2. TypeOK /\ TypeOK' /\ Inv /\ Inv' /\ AInv /\ [Next]_vars => AInv'
  <2> SUFFICES ASSUME TypeOK, TypeOK', Inv, Inv', AInv, [Next]_vars PROVE AInv'
      OBVIOUS
  <2>1. CASE client_do_read \/ client_parse
      BY <2>1, ClientReads
  <2>2. CASE conn_parse
      BY <2>2, ServerParse
  <2>3. CASE conn_do_write
      BY <2>3, ServerWrite
  <2>4. CASE client_do_write /\ clean_conn
      BY <2>4, CleanAnswers DEF client_do_write
  <2>5. CASE Cut
    <3>1. PICK n \in 0 .. Len(s2c) : s2c' = SubSeq(s2c, 1, n)
        BY <2>5 DEF Cut
    <3>2. ConnGone /\ UNCHANGED <<client, c_pc, c_ibuf, stale, got, garbled, handled>>
        BY <2>5 DEF Cut, cvars, chist, shist
    <3>3. \A j \in 1 .. Len(handled) : \E i \in 1 .. Len(handled') : handled[j] = handled'[i]
        BY <3>2
    <3> QED
        BY <3>1, <3>2, <3>3, GoneAnswers
  <2>6. CASE client_send_message \/ connection_delay \/ (client_do_write /\ ~clean_conn) \/ conn_do_read
             \/ Established \/ UNCHANGED vars
    <3>1. /\ UNCHANGED <<client, c_pc, c_ibuf, s2c, s_obuf, s_head, stale, got, garbled, handled>>
          /\ link' = link \/ link = "pending"
          /\ link' = "pending" => link = "pending"
        BY <2>6 DEF client_send_message, connection_delay, client_do_write, conn_do_read, Established,
                    vars, cvars, svars, net, chist, shist
    <3>2. Answers' = Answers
        BY <3>1 DEF Answers, Unsent
    <3>3. \A j \in 1 .. Len(handled) : \E i \in 1 .. Len(handled') : handled[j] = handled'[i]
        BY <3>1
    <3>4. Len(c_ibuf) <= Len(c_ibuf') /\ (client' = "ok" /\ c_pc' = "idle" => Len(c_ibuf') < HeadLen)
      <4>1. Len(c_ibuf) \in Nat
          BY AnswersFacts
      <4> QED
          BY <3>1, <4>1 DEF AInv
    <3> QED
        BY <3>1, <3>2, <3>3, <3>4, SameAnswers
  <2> QED
      BY <2>1, <2>2, <2>3, <2>4, <2>5, <2>6 DEF Next, ClientStep, ServerStep
<1>3. Init => PInv
    BY DEF Init, PInv
<1>4. TypeOK /\ PInv /\ [Next]_vars => PInv'
    BY PartStep
<1>5. AInv /\ PInv => AnswersGiven
    BY DEF AInv, PInv, GotOrder, AnswersGiven
<1> QED
    BY <1>1, <1>2, <1>3, <1>4, <1>5, StreamInv, StreamTypes, PTL DEF Spec
=============================================================================
