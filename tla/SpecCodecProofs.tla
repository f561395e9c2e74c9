-------------------------- MODULE SpecCodecProofs --------------------------
(***************************************************************************)
(* What the codec computes, for every buffer and every spec.               *)
(*                                                                         *)
(* The readers and writers of SpecCodec are recursive functions over the   *)
(* fields, the entries and the sections.  Induction gives what they        *)
(* compute: a set of good points holds 0 and is closed under successor.    *)
(***************************************************************************)
EXTENDS SpecCodec, FiniteSetTheorems, NaturalsInduction, SequenceTheorems, TLAPS

-----------------------------------------------------------------------------
(* Induction and recursion over an initial segment of the naturals.        *)

\* A set of naturals that is not empty has a least member.
LEMMA LeastNatural ==
    ASSUME NEW B, B \subseteq Nat, B # {}
    PROVE  \E x \in B : \A y \in B : x <= y
<1> DEFINE Less == OpToRel(<, Nat)
<1>1. IsWellFoundedOn(Less, Nat)
  BY NatLessThanWellFounded
<1>2. PICK x \in B : \A y \in B : ~ (<<y, x>> \in Less)
  <2> HIDE DEF Less
  <2> QED
    BY <1>1, WFMin
<1>3. ASSUME NEW y \in B, y < x
      PROVE  FALSE
  BY <1>2, <1>3 DEF OpToRel
<1> QED
  BY <1>3

\* A set that holds 0 and with each point before n the next one holds all of
\* 0..n: otherwise there would be a least point outside.
LEMMA Induction ==
    ASSUME NEW n \in Nat, NEW S, 0 \in S,
           \A k \in 1 .. n : k - 1 \in S => k \in S
    PROVE  0 .. n \subseteq S
<1> DEFINE B == {k \in 0 .. n : k \notin S}
<1> SUFFICES ASSUME B # {} PROVE FALSE
  OBVIOUS
<1>1. PICK x \in B : \A y \in B : x <= y
  <2>1. B \subseteq Nat /\ B # {}
    OBVIOUS
  <2> HIDE DEF B
  <2> QED
    BY <2>1, LeastNatural
<1>2. x # 0 /\ x \in 1 .. n
  OBVIOUS
<1>3. x - 1 \notin B
  BY <1>1, <1>2
<1> QED
  BY <1>2, <1>3

\* Function f on 0..n has a at 0 and, at each later point, what g makes of the
\* value before.
Recursive(f, S, a, n, g) ==
    f \in [0 .. n -> S] /\ f[0] = a /\ \A k \in 1 .. n : f[k] = g[<<f[k - 1], k>>]

\* A function may be defined by recursion.
LEMMA RecursionExists ==
    ASSUME NEW S, NEW a \in S, NEW n \in Nat, NEW g \in [S \X (1 .. n) -> S]
    PROVE  \E f : Recursive(f, S, a, n, g)
<1> DEFINE G(m, f) == f \in [0 .. m -> S] /\ f[0] = a /\ \A k \in 1 .. m : f[k] = g[<<f[k - 1], k>>]
           P == {m \in 0 .. n : \E f : G(m, f)}
<1>1. 0 \in P
  <2> DEFINE z == [k \in 0 .. 0 |-> a]
  <2>1. z \in [0 .. 0 -> S] /\ z[0] = a /\ 1 .. 0 = {}
    OBVIOUS
  <2>2. G(0, z)
    BY <2>1
  <2> HIDE DEF z, G
  <2> QED
    BY <2>2
<1>2. ASSUME NEW k \in 1 .. n, k - 1 \in P
      PROVE  k \in P
  <2>1. PICK f : G(k - 1, f)
    BY <1>2
  <2> DEFINE h == [j \in 0 .. k |-> IF j = k THEN g[<<f[k - 1], k>>] ELSE f[j]]
  <2>2. f[k - 1] \in S /\ g[<<f[k - 1], k>>] \in S
    BY <2>1
  <2>3. h \in [0 .. k -> S] /\ h[0] = a
    BY <2>1, <2>2
  <2>4. ASSUME NEW j \in 1 .. k
        PROVE  h[j] = g[<<h[j - 1], j>>]
    <3>1. j - 1 \in 0 .. k /\ j \in 0 .. k /\ j - 1 # k
      OBVIOUS
    <3>2. h[j - 1] = f[j - 1] /\ h[j] = IF j = k THEN g[<<f[k - 1], k>>] ELSE f[j]
      BY <3>1
    <3>3. CASE j = k
      BY <3>2, <3>3
    <3>4. CASE j # k
      <4>1. j \in 1 .. (k - 1)
        BY <3>4
      <4>2. f[j] = g[<<f[j - 1], j>>]
        BY <2>1, <4>1
      <4> QED
        BY <3>2, <3>4, <4>2
    <3> QED
      BY <3>3, <3>4
  <2>5. G(k, h)
    BY <2>3, <2>4
  <2> HIDE DEF h, G
  <2>6. k \in 0 .. n
    OBVIOUS
  <2> QED
    BY <2>5, <2>6
<1> HIDE DEF P
<1>3. n \in P
  BY <1>1, <1>2, Induction
<1> QED
  BY <1>3 DEF P, Recursive

-----------------------------------------------------------------------------
(* FlattenSeq: where the parts of the whole begin and end.                 *)

\* Offsets(s)[k]: how many cells the first k sequences of s have.
Offsets(s) ==
    CHOOSE at \in [0 .. Len(s) -> Nat] :
        at[0] = 0 /\ \A k \in 1 .. Len(s) : at[k] = at[k - 1] + Len(s[k])

\* Offsets(s)[k] is the length of the first k members laid end to end.
LEMMA OffsetsType ==
    ASSUME NEW T, NEW s \in Seq(Seq(T))
    PROVE  /\ Offsets(s) \in [0 .. Len(s) -> Nat]
           /\ Offsets(s)[0] = 0
           /\ \A k \in 1 .. Len(s) : Offsets(s)[k] = Offsets(s)[k - 1] + Len(s[k])
<1> DEFINE n == Len(s)
           g == [x \in Nat \X (1 .. n) |-> x[1] + Len(s[x[2]])]
<1>1. n \in Nat /\ \A k \in 1 .. n : s[k] \in Seq(T) /\ Len(s[k]) \in Nat
  OBVIOUS
<1> HIDE DEF n
<1>2. g \in [Nat \X (1 .. n) -> Nat] /\ 0 \in Nat
  BY <1>1
<1>3. PICK f : Recursive(f, Nat, 0, n, g)
  <2> HIDE DEF g
  <2> QED
    BY <1>1, <1>2, RecursionExists
<1>4. f \in [0 .. n -> Nat] /\ f[0] = 0
  BY <1>3 DEF Recursive
<1>5. ASSUME NEW k \in 1 .. n
      PROVE  f[k] = f[k - 1] + Len(s[k])
  <2>1. k - 1 \in 0 .. n /\ f[k] = g[<<f[k - 1], k>>]
    <3> HIDE DEF g
    <3> QED
      BY <1>1, <1>3 DEF Recursive
  <2>2. f[k - 1] \in Nat
    BY <1>4, <2>1
  <2> QED
    BY <2>1, <2>2
<1> HIDE DEF g
<1> QED
  BY <1>4, <1>5 DEF Offsets, n

\* The same facts in the form the proofs below use them.
LEMMA OffsetsStep ==
    ASSUME NEW T, NEW s \in Seq(Seq(T)), NEW k \in 1 .. Len(s)
    PROVE  /\ k - 1 \in 0 .. Len(s) /\ s[k] \in Seq(T) /\ Len(s[k]) \in Nat
           /\ Offsets(s)[k] \in Nat /\ Offsets(s)[k - 1] \in Nat
           /\ Offsets(s)[k] = Offsets(s)[k - 1] + Len(s[k])
<1>1. k - 1 \in 0 .. Len(s) /\ k \in 0 .. Len(s) /\ s[k] \in Seq(T)
  OBVIOUS
<1>2. Len(s[k]) \in Nat
  BY <1>1
<1>3. /\ Offsets(s) \in [0 .. Len(s) -> Nat]
      /\ Offsets(s)[k] = Offsets(s)[k - 1] + Len(s[k])
  BY OffsetsType
<1> QED
  BY <1>1, <1>2, <1>3

\* A member starts no earlier than those before it.
LEMMA OffsetsMonotonic ==
    ASSUME NEW T, NEW s \in Seq(Seq(T)), NEW i \in 0 .. Len(s), NEW j \in i .. Len(s)
    PROVE  Offsets(s)[i] <= Offsets(s)[j]
<1> DEFINE at == Offsets(s)
           n == Len(s)
           P == {m \in 0 .. n : m >= i => at[i] <= at[m]}
<1>1. n \in Nat
  OBVIOUS
<1>2. \A k \in 0 .. n : at[k] \in Nat
  BY OffsetsType
<1>3. \A k \in 1 .. n : at[k - 1] <= at[k]
  <2> SUFFICES ASSUME NEW k \in 1 .. n PROVE at[k - 1] <= at[k]
    OBVIOUS
  <2> QED
    BY OffsetsStep
<1> HIDE DEF at, n
<1>4. i \in 0 .. n /\ j \in i .. n
  BY DEF n
<1>5. 0 \in P
  BY <1>1, <1>2, <1>4
<1>6. ASSUME NEW k \in 1 .. n, k - 1 \in P
      PROVE  k \in P
  BY <1>1, <1>2, <1>3, <1>4, <1>6
<1> HIDE DEF P
<1>7. 0 .. n \subseteq P
  BY <1>1, <1>5, <1>6, Induction
<1> QED
  BY <1>1, <1>4, <1>7 DEF P, at

\* The cells of a concatenation.
LEMMA ConcatCells ==
    ASSUME NEW T, NEW u \in Seq(T), NEW v \in Seq(T)
    PROVE  /\ u \o v \in Seq(T)
           /\ Len(u \o v) = Len(u) + Len(v)
           /\ \A i \in 1 .. Len(u) : (u \o v)[i] = u[i]
           /\ \A i \in 1 .. Len(v) : (u \o v)[Len(u) + i] = v[i]
  OBVIOUS

\* A cell of a part that ends before the whole does.
LEMMA InPart ==
    ASSUME NEW b \in Nat, NEW n \in Nat, NEW i \in 1 .. n, NEW e \in Nat, NEW w \in Nat,
           e = b + n, e <= w
    PROVE  b + i \in 1 .. w
  OBVIOUS

\* A prefix, one cell longer.
LEMMA SubSeqAppend ==
    ASSUME NEW T, NEW s \in Seq(T), NEW k \in 1 .. Len(s)
    PROVE  Append(SubSeq(s, 1, k - 1), s[k]) = SubSeq(s, 1, k)
  OBVIOUS

\* The cells v stand in s after cell a, from cell lo to cell hi.
Stands(v, s, a, lo, hi) ==
    /\ s \in Seq(Nat) /\ v \in Seq(Nat) /\ a \in Nat
    /\ lo = a + 1 /\ hi = a + Len(v) /\ a + Len(v) <= Len(s)
    /\ \A i \in 1 .. Len(v) : s[a + i] = v[i]

\* A part that stands in a sequence is what SubSeq takes out of it.
LEMMA SubSeqIs ==
    ASSUME NEW s, NEW v, NEW a, NEW lo, NEW hi, Stands(v, s, a, lo, hi)
    PROVE  SubSeq(s, lo, hi) = v
<1> DEFINE q == SubSeq(s, lo, hi)
<1>0. /\ s \in Seq(Nat) /\ v \in Seq(Nat) /\ a \in Nat
      /\ lo = a + 1 /\ hi = a + Len(v) /\ a + Len(v) <= Len(s)
      /\ \A i \in 1 .. Len(v) : s[a + i] = v[i]
  BY DEF Stands
<1>1. lo \in Int /\ hi \in Int /\ Len(v) \in Nat /\ Len(s) \in Nat
  BY <1>0
<1>2. \A i \in lo .. hi : s[i] \in Nat
  <2> SUFFICES ASSUME NEW i \in lo .. hi PROVE s[i] \in Nat
    OBVIOUS
  <2>1. i \in 1 .. Len(s)
    BY <1>0, <1>1
  <2> QED
    BY <1>0, <2>1, ElementOfSeq
<1>3. /\ q \in Seq(Nat) /\ Len(q) = IF lo <= hi THEN hi - lo + 1 ELSE 0
      /\ \A i \in 1 .. hi - lo + 1 : q[i] = s[lo + i - 1]
  BY <1>1, <1>2, SubSeqProperties
<1> HIDE DEF q
<1>4. Len(q) = Len(v) /\ hi - lo + 1 = Len(v)
  BY <1>0, <1>1, <1>3
<1>5. ASSUME NEW i \in 1 .. Len(q)
      PROVE  q[i] = v[i]
  <2>1. i \in 1 .. Len(v) /\ i \in 1 .. hi - lo + 1 /\ lo + i - 1 = a + i
    BY <1>0, <1>1, <1>4
  <2> QED
    BY <1>0, <1>3, <2>1
<1> QED
  BY <1>0, <1>3, <1>4, <1>5, SeqEqual DEF q

\* The flattened sequence is the concatenation of its parts, one by one.
LEMMA FlattenPrefixes ==
    ASSUME NEW T, NEW s \in Seq(Seq(T))
    PROVE  \E f \in [0 .. Len(s) -> Seq(T)] :
               /\ f[0] = <<>>
               /\ \A k \in 1 .. Len(s) : f[k] = f[k - 1] \o s[k]
               /\ FlattenSeq(s) = f[Len(s)]
<1> DEFINE n == Len(s)
           g == [x \in Seq(T) \X (1 .. n) |-> x[1] \o s[x[2]]]
           Body(f) == [i \in 1 .. n |-> IF i = 1 THEN s[i] ELSE f[i - 1] \o s[i]]
<1>1. n \in Nat /\ \A k \in 1 .. n : s[k] \in Seq(T)
  OBVIOUS
<1>2. g \in [Seq(T) \X (1 .. n) -> Seq(T)] /\ <<>> \in Seq(T)
  <2> HIDE DEF n
  <2> QED
    BY <1>1
<1>3. PICK h : Recursive(h, Seq(T), <<>>, n, g)
  <2> HIDE DEF g, n
  <2> QED
    BY <1>1, <1>2, RecursionExists
<1>4. h \in [0 .. n -> Seq(T)] /\ h[0] = <<>>
  BY <1>3 DEF Recursive
<1>5. ASSUME NEW k \in 1 .. n
      PROVE  k - 1 \in 0 .. n /\ h[k - 1] \in Seq(T) /\ h[k] = h[k - 1] \o s[k]
  <2> HIDE DEF n
  <2>1. k - 1 \in 0 .. n /\ h[k] = g[<<h[k - 1], k>>]
    <3> HIDE DEF g
    <3>1. k - 1 \in 0 .. n
      BY <1>1
    <3>2. \A i \in 1 .. n : h[i] = g[<<h[i - 1], i>>]
      BY <1>3, Zenon DEF Recursive
    <3> QED
      BY <3>1, <3>2, Zenon
  <2>2. h[k - 1] \in Seq(T)
    BY <1>4, <2>1
  <2> QED
    BY <2>1, <2>2
<1> HIDE DEF g
<1>6. CASE n = 0
  <2>1. FlattenSeq(s) = <<>>
    BY <1>6 DEF FlattenSeq
  <2> QED
    BY <1>4, <1>5, <1>6, <2>1
<1>7. CASE n # 0
  <2> DEFINE f == [k \in 1 .. n |-> h[k]]
  <2>1. f = Body(f)
    <3> HIDE DEF n
    <3>1. ASSUME NEW k \in 1 .. n
          PROVE  h[k] = IF k = 1 THEN s[k] ELSE f[k - 1] \o s[k]
      <4>1. h[k] = h[k - 1] \o s[k] /\ s[k] \in Seq(T)
        BY <1>1, <1>5
      <4>2. CASE k = 1
        <5>1. h[k - 1] = <<>>
          BY <1>4, <4>2
        <5> QED
          BY <4>1, <4>2, <5>1, ConcatEmptySeq
      <4>3. CASE k # 1
        <5>1. k - 1 \in 1 .. n
          BY <1>1, <4>3
        <5> QED
          BY <4>1, <4>3, <5>1
      <4> QED
        BY <4>2, <4>3
    <3> QED
      BY <3>1
  <2> DEFINE c == CHOOSE x : x = Body(x)
  <2>2. c = Body(c)
    <3> HIDE DEF f, Body
    <3> QED
      BY <2>1
  <2>3. FlattenSeq(s) = c[n]
    BY <1>7, Zenon DEF FlattenSeq
  <2> HIDE DEF c
  <2>4. \A k \in 1 .. n : c[k] = IF k = 1 THEN s[k] ELSE c[k - 1] \o s[k]
    BY <2>2
  <2> DEFINE P == {k \in 0 .. n : k = 0 \/ c[k] = h[k]}
  <2> HIDE DEF n
  <2>5. 0 \in P
    BY <1>1
  <2>6. ASSUME NEW k \in 1 .. n, k - 1 \in P
        PROVE  k \in P
    <3>1. c[k] = IF k = 1 THEN s[k] ELSE c[k - 1] \o s[k]
      BY <2>4
    <3>2. h[k] = h[k - 1] \o s[k] /\ s[k] \in Seq(T)
      BY <1>1, <1>5
    <3>3. CASE k = 1
      <4>1. h[k - 1] = <<>>
        BY <1>4, <3>3
      <4>2. h[k] = s[k]
        BY <3>2, <4>1, ConcatEmptySeq
      <4> QED
        BY <1>1, <3>1, <3>3, <4>2
    <3>4. CASE k # 1
      <4>1. c[k - 1] = h[k - 1]
        BY <2>6, <3>4
      <4>2. c[k] = h[k]
        BY <3>1, <3>2, <3>4, <4>1
      <4> QED
        BY <1>1, <4>2
    <3> QED
      BY <3>3, <3>4
  <2> HIDE DEF P
  <2>7. 0 .. n \subseteq P
    BY <1>1, <2>5, <2>6, Induction
  <2>8. c[n] = h[n]
    BY <1>1, <1>7, <2>7 DEF P
  <2> QED
    BY <1>4, <1>5, <2>3, <2>8 DEF n
<1> QED
  BY <1>6, <1>7

\* Cell i of part k of a flattened sequence is cell Offsets(s)[k - 1] + i of it.
LEMMA Flatten ==
    ASSUME NEW T, NEW s \in Seq(Seq(T))
    PROVE  /\ FlattenSeq(s) \in Seq(T)
           /\ Len(FlattenSeq(s)) = Offsets(s)[Len(s)]
           /\ \A k \in 1 .. Len(s) : \A i \in 1 .. Len(s[k]) :
                 FlattenSeq(s)[Offsets(s)[k - 1] + i] = s[k][i]
<1> DEFINE n == Len(s)
           at == Offsets(s)
<1>1. PICK f \in [0 .. n -> Seq(T)] :
          /\ f[0] = <<>>
          /\ \A k \in 1 .. n : f[k] = f[k - 1] \o s[k]
          /\ FlattenSeq(s) = f[n]
  BY FlattenPrefixes
<1> DEFINE Good(m) == /\ Len(f[m]) = at[m]
                      /\ \A k \in 1 .. m : \A i \in 1 .. Len(s[k]) : f[m][at[k - 1] + i] = s[k][i]
           P == {m \in 0 .. n : Good(m)}
<1>2. n \in Nat
  OBVIOUS
<1>3. ASSUME NEW k \in 1 .. n
      PROVE  /\ k - 1 \in 0 .. n /\ s[k] \in Seq(T) /\ Len(s[k]) \in Nat
             /\ at[k] \in Nat /\ at[k - 1] \in Nat /\ at[k] = at[k - 1] + Len(s[k])
  BY OffsetsStep
<1>4. \A i \in 0 .. n : \A j \in i .. n : at[i] <= at[j]
  BY OffsetsMonotonic
<1>5. at[0] = 0
  BY OffsetsType
<1> HIDE DEF n, at
<1>6. 0 \in P
  <2>1. Len(f[0]) = at[0]
    BY <1>1, <1>5
  <2>2. 0 \in 0 .. n /\ 1 .. 0 = {}
    BY <1>2
  <2> QED
    BY <2>1, <2>2
<1>7. ASSUME NEW m \in 1 .. n, m - 1 \in P
      PROVE  m \in P
  <2>1. /\ m \in 0 .. n /\ m - 1 \in 0 .. n
        /\ f[m] = f[m - 1] \o s[m] /\ f[m - 1] \in Seq(T) /\ s[m] \in Seq(T)
        /\ at[m] = at[m - 1] + Len(s[m]) /\ at[m - 1] \in Nat /\ Len(s[m]) \in Nat
    <3>1. m \in 0 .. n /\ m - 1 \in 0 .. n
      BY <1>2
    <3>2. f[m] = f[m - 1] \o s[m] /\ f[m - 1] \in Seq(T)
      BY <1>1, <3>1
    <3>3. /\ s[m] \in Seq(T)
          /\ at[m] = at[m - 1] + Len(s[m]) /\ at[m - 1] \in Nat /\ Len(s[m]) \in Nat
      BY <1>3
    <3> QED
      BY <3>1, <3>2, <3>3
  <2>2. Len(f[m - 1]) = at[m - 1]
    BY <1>7
  <2>3. /\ Len(f[m]) = at[m]
        /\ \A i \in 1 .. at[m - 1] : f[m][i] = f[m - 1][i]
        /\ \A i \in 1 .. Len(s[m]) : f[m][at[m - 1] + i] = s[m][i]
    <3>1. /\ Len(f[m - 1] \o s[m]) = Len(f[m - 1]) + Len(s[m])
          /\ \A i \in 1 .. Len(f[m - 1]) : (f[m - 1] \o s[m])[i] = f[m - 1][i]
          /\ \A i \in 1 .. Len(s[m]) : (f[m - 1] \o s[m])[Len(f[m - 1]) + i] = s[m][i]
      BY <2>1, ConcatCells
    <3> QED
      BY <2>1, <2>2, <3>1
  <2>4. ASSUME NEW k \in 1 .. m, NEW i \in 1 .. Len(s[k])
        PROVE  f[m][at[k - 1] + i] = s[k][i]
    <3>1. CASE k = m
      BY <2>3, <3>1
    <3>2. CASE k # m
      <4>1. k \in 1 .. m - 1 /\ k \in 0 .. n /\ m - 1 \in k .. n /\ k \in 1 .. n
        BY <1>2, <3>2
      <4>2. f[m - 1][at[k - 1] + i] = s[k][i]
        BY <1>7, <4>1
      <4>3. at[k - 1] + i \in 1 .. at[m - 1]
        <5>1. at[k] <= at[m - 1]
          BY <1>4, <4>1
        <5>2. Len(s[k]) \in Nat /\ at[k] \in Nat /\ at[k - 1] \in Nat /\ at[k] = at[k - 1] + Len(s[k])
          BY <1>3, <4>1
        <5> QED
          BY <2>1, <5>1, <5>2, InPart
      <4> QED
        BY <2>3, <4>2, <4>3
    <3> QED
      BY <3>1, <3>2
  <2> QED
    BY <2>1, <2>3, <2>4
<1> HIDE DEF P
<1>8. n \in P
  <2>1. 0 .. n \subseteq P
    BY <1>2, <1>6, <1>7, Induction
  <2> QED
    BY <1>2, <2>1
<1>9. f[n] \in Seq(T)
  BY <1>1, <1>2
<1> QED
  BY <1>1, <1>8, <1>9 DEF P, n, at

-----------------------------------------------------------------------------
(* The readers: what they compute, field by field and entry by entry.      *)

\* What a field, a cursor over the fields of an entry and one over the entries
\* of a list are, in payload p.
Val == Nat \cup Seq(Nat)
Errors == {"none", "Truncated", "TooLarge", "Duplicate", "Utf8"}
Cursors(p) == [at : 0 .. Len(p), vals : Seq(Val), err : Errors]
ListCursors(p) == [at : 0 .. Len(p), list : Seq(Seq(Val)), err : Errors]

\* Reading a field stays within the payload.
LEMMA ReadFieldType ==
    ASSUME NEW side, NEW p \in Seq(Nat), NEW c \in Cursors(p), NEW kind
    PROVE  ReadField(side, c, p, kind) \in Cursors(p)
<1> DEFINE n == p[c.at + 1]
           s == SubSeq(p, c.at + 2, c.at + 1 + n)
<1>1. /\ c.at \in 0 .. Len(p) /\ c.vals \in Seq(Val) /\ c.err \in Errors /\ Len(p) \in Nat
      /\ c = [at |-> c.at, vals |-> c.vals, err |-> c.err]
  BY DEF Cursors
<1>2. CASE c.err # "none"
  BY <1>2 DEF ReadField
<1>3. CASE c.err = "none" /\ c.at = Len(p)
  <2>1. ReadField(side, c, p, kind) = [c EXCEPT !.err = "Truncated"]
    BY <1>3 DEF ReadField
  <2> QED
    BY <1>1, <2>1 DEF Cursors, Errors
<1>4. CASE c.err = "none" /\ c.at # Len(p)
  <2>1. c.at + 1 \in 1 .. Len(p) /\ n \in Nat
    BY <1>1, <1>4
  <2>2. CASE kind = "int"
    <3>1. ReadField(side, c, p, kind) = [c EXCEPT !.at = @ + 1, !.vals = Append(@, n)]
      BY <1>4, <2>2 DEF ReadField
    <3>2. n \in Val
      BY <2>1 DEF Val
    <3> HIDE DEF n
    <3>3. Append(c.vals, n) \in Seq(Val)
      BY <1>1, <3>2
    <3>4. c.at + 1 \in 0 .. Len(p)
      BY <1>1, <2>1
    <3> QED
      BY <1>1, <3>1, <3>3, <3>4 DEF Cursors
  <2>3. CASE kind # "int" /\ n > MaxStr
    <3>1. ReadField(side, c, p, kind) = [c EXCEPT !.err = "TooLarge"]
      BY <1>4, <2>3 DEF ReadField
    <3> QED
      BY <1>1, <3>1 DEF Cursors, Errors
  <2>4. CASE kind # "int" /\ ~(n > MaxStr) /\ c.at + 1 + n > Len(p)
    <3>1. ReadField(side, c, p, kind) = [c EXCEPT !.err = "Truncated"]
      BY <1>4, <2>4 DEF ReadField
    <3> QED
      BY <1>1, <3>1 DEF Cursors, Errors
  <2>5. CASE kind # "int" /\ ~(n > MaxStr) /\ ~(c.at + 1 + n > Len(p))
    <3>1. ReadField(side, c, p, kind) =
              [at |-> c.at + 1 + n, vals |-> Append(c.vals, s), err |-> StringError(side, s)]
      BY <1>4, <2>5 DEF ReadField
    <3>2. s \in Seq(Nat)
      <4>1. \A i \in c.at + 2 .. c.at + 1 + n : p[i] \in Nat
        <5> SUFFICES ASSUME NEW i \in c.at + 2 .. c.at + 1 + n PROVE p[i] \in Nat
          OBVIOUS
        <5> HIDE DEF n
        <5>1. i \in 1 .. Len(p)
          BY <1>1, <2>1, <2>5, SMTT(30)
        <5> QED
          BY <5>1, ElementOfSeq
      <4>2. c.at + 2 \in Int /\ c.at + 1 + n \in Int
        BY <1>1, <2>1
      <4> HIDE DEF n
      <4> QED
        BY <4>1, <4>2, SubSeqProperties
    <3>3. StringError(side, s) \in Errors
      BY DEF StringError, Errors
    <3>4. c.at + 1 + n \in 0 .. Len(p)
      BY <1>1, <2>1, <2>5
    <3> HIDE DEF s, n
    <3>5. Append(c.vals, s) \in Seq(Val)
      BY <1>1, <3>2 DEF Val
    <3> QED
      BY <3>1, <3>3, <3>4, <3>5 DEF Cursors
  <2> QED
    BY <2>2, <2>3, <2>4, <2>5
<1> QED
  BY <1>2, <1>3, <1>4

\* The cursors ReadEntry goes through.
EntryRun(read, side, p, start, kinds) ==
    /\ read[0] = [at |-> start, vals |-> <<>>, err |-> "none"]
    /\ \A k \in 1 .. Len(kinds) : read[k] = ReadField(side, read[k - 1], p, kinds[k])
    /\ \A k \in 0 .. Len(kinds) : read[k] \in Cursors(p)
    /\ ReadEntry(side, p, start, kinds) = read[Len(kinds)]

\* The recursive function that reads an entry field by field exists.
LEMMA ReadEntryRun ==
    ASSUME NEW side, NEW p \in Seq(Nat), NEW start \in 0 .. Len(p), NEW kinds, Len(kinds) \in Nat
    PROVE  \E read : EntryRun(read, side, p, start, kinds)
<1> DEFINE n == Len(kinds)
           a == [at |-> start, vals |-> <<>>, err |-> "none"]
           S == Cursors(p)
           g == [x \in S \X (1 .. n) |-> ReadField(side, x[1], p, kinds[x[2]])]
           Body(f) == [k \in 0 .. n |-> IF k = 0 THEN a ELSE ReadField(side, f[k - 1], p, kinds[k])]
           c == CHOOSE f : f = Body(f)
<1>1. n \in Nat
  OBVIOUS
<1>2. a \in S
  BY EmptySeq DEF Cursors, Errors
<1>3. \A x \in S : \A k : ReadField(side, x, p, kinds[k]) \in S
  BY ReadFieldType
<1>4. ReadEntry(side, p, start, kinds) = c[n]
  BY Zenon DEF ReadEntry
<1> HIDE DEF n, a, S
<1>5. g \in [S \X (1 .. n) -> S]
  BY <1>3
<1>6. PICK h : Recursive(h, S, a, n, g)
  <2> HIDE DEF g
  <2> QED
    BY <1>1, <1>2, <1>5, RecursionExists
<1>7. h \in [0 .. n -> S] /\ h[0] = a
  BY <1>6 DEF Recursive
<1>8. ASSUME NEW k \in 1 .. n
      PROVE  h[k] = ReadField(side, h[k - 1], p, kinds[k])
  <2>1. k - 1 \in 0 .. n /\ h[k] = g[<<h[k - 1], k>>]
    <3> HIDE DEF g
    <3> QED
      BY <1>1, <1>6 DEF Recursive
  <2>2. h[k - 1] \in S
    BY <1>7, <2>1
  <2> QED
    BY <2>1, <2>2
<1>9. h = Body(h)
  BY <1>1, <1>7, <1>8
<1>10. c = Body(c)
  <2> HIDE DEF Body
  <2> QED
    BY <1>9
<1> HIDE DEF c, g
<1>11. c[0] = a /\ \A k \in 1 .. n : c[k] = ReadField(side, c[k - 1], p, kinds[k])
  BY <1>1, <1>10
<1> DEFINE P == {k \in 0 .. n : c[k] \in S}
<1>12. 0 \in P
  BY <1>1, <1>2, <1>11
<1>13. ASSUME NEW k \in 1 .. n, k - 1 \in P
       PROVE  k \in P
  BY <1>1, <1>3, <1>11, <1>13
<1> HIDE DEF P
<1>14. 0 .. n \subseteq P
  BY <1>1, <1>12, <1>13, Induction
<1>15. \A k \in 0 .. n : c[k] \in S
  BY <1>14 DEF P
<1> QED
  BY <1>4, <1>11, <1>15 DEF EntryRun, n, a, S

\* Reading an entry stays within the payload.
LEMMA ReadEntryType ==
    ASSUME NEW side, NEW p \in Seq(Nat), NEW start \in 0 .. Len(p), NEW kinds, Len(kinds) \in Nat
    PROVE  ReadEntry(side, p, start, kinds) \in Cursors(p)
<1>1. PICK read : EntryRun(read, side, p, start, kinds)
  BY ReadEntryRun
<1>2. Len(kinds) \in 0 .. Len(kinds)
  OBVIOUS
<1> QED
  BY <1>1, <1>2 DEF EntryRun

\* Reading one more entry of a list stays within the payload.
LEMMA NextEntryType ==
    ASSUME NEW side, NEW p \in Seq(Nat), NEW c \in ListCursors(p), NEW kinds, Len(kinds) \in Nat
    PROVE  NextEntry(side, c, p, kinds) \in ListCursors(p)
<1> DEFINE e == ReadEntry(side, p, c.at, kinds)
<1>1. c.at \in 0 .. Len(p) /\ c.list \in Seq(Seq(Val))
  BY DEF ListCursors
<1>2. e \in Cursors(p)
  BY <1>1, ReadEntryType
<1>3. CASE c.err # "none"
  BY <1>3 DEF NextEntry
<1>4. CASE c.err = "none"
  <2>1. NextEntry(side, c, p, kinds) = [at |-> e.at, list |-> Append(c.list, e.vals), err |-> e.err]
    BY <1>4 DEF NextEntry
  <2> HIDE DEF e
  <2>2. e.at \in 0 .. Len(p) /\ e.vals \in Seq(Val) /\ e.err \in Errors
    BY <1>2 DEF Cursors
  <2>3. Append(c.list, e.vals) \in Seq(Seq(Val))
    BY <1>1, <2>2
  <2> QED
    BY <2>1, <2>2, <2>3 DEF ListCursors
<1> QED
  BY <1>3, <1>4

\* The cursors ReadEntries goes through.
ListRun(read, side, p, kinds) ==
    /\ read[0] = [at |-> 1, list |-> <<>>, err |-> "none"]
    /\ \A k \in 1 .. p[1] : read[k] = NextEntry(side, read[k - 1], p, kinds)
    /\ \A k \in 0 .. p[1] : read[k] \in ListCursors(p)
    /\ ReadEntries(side, p, kinds) = read[p[1]]

\* The recursive function that reads a list entry by entry exists.
LEMMA ReadEntriesRun ==
    ASSUME NEW side, NEW p \in Seq(Nat), p # <<>>, NEW kinds, Len(kinds) \in Nat
    PROVE  \E read : ListRun(read, side, p, kinds)
<1> DEFINE n == p[1]
           a == [at |-> 1, list |-> <<>>, err |-> "none"]
           S == ListCursors(p)
           g == [x \in S \X (1 .. n) |-> NextEntry(side, x[1], p, kinds)]
           Body(f) == [k \in 0 .. n |-> IF k = 0 THEN a ELSE NextEntry(side, f[k - 1], p, kinds)]
           c == CHOOSE f : f = Body(f)
<1>1. n \in Nat
  OBVIOUS
<1>2. a \in S
  BY EmptySeq DEF ListCursors, Errors
<1>3. \A x \in S : NextEntry(side, x, p, kinds) \in S
  BY NextEntryType
<1>4. ReadEntries(side, p, kinds) = c[n]
  BY Zenon DEF ReadEntries
<1> HIDE DEF n, a, S
<1>5. g \in [S \X (1 .. n) -> S]
  BY <1>3
<1>6. PICK h : Recursive(h, S, a, n, g)
  <2> HIDE DEF g
  <2> QED
    BY <1>1, <1>2, <1>5, RecursionExists
<1>7. h \in [0 .. n -> S] /\ h[0] = a
  BY <1>6 DEF Recursive
<1>8. ASSUME NEW k \in 1 .. n
      PROVE  h[k] = NextEntry(side, h[k - 1], p, kinds)
  <2>1. k - 1 \in 0 .. n /\ h[k] = g[<<h[k - 1], k>>]
    <3> HIDE DEF g
    <3> QED
      BY <1>1, <1>6 DEF Recursive
  <2>2. h[k - 1] \in S
    BY <1>7, <2>1
  <2> QED
    BY <2>1, <2>2
<1>9. h = Body(h)
  BY <1>1, <1>7, <1>8
<1>10. c = Body(c)
  <2> HIDE DEF Body
  <2> QED
    BY <1>9
<1> HIDE DEF c, g
<1>11. c[0] = a /\ \A k \in 1 .. n : c[k] = NextEntry(side, c[k - 1], p, kinds)
  BY <1>1, <1>10
<1> DEFINE P == {k \in 0 .. n : c[k] \in S}
<1>12. 0 \in P
  BY <1>1, <1>2, <1>11
<1>13. ASSUME NEW k \in 1 .. n, k - 1 \in P
       PROVE  k \in P
  BY <1>1, <1>3, <1>11, <1>13
<1> HIDE DEF P
<1>14. 0 .. n \subseteq P
  BY <1>1, <1>12, <1>13, Induction
<1>15. \A k \in 0 .. n : c[k] \in S
  BY <1>14 DEF P
<1> QED
  BY <1>4, <1>11, <1>15 DEF ListRun, n, a, S

\* A section of n integers: the first n cells, if there are as many.
LEMMA ReadIntsCells ==
    ASSUME NEW side, NEW p \in Seq(Nat), NEW n \in Nat
    PROVE  ReadEntry(side, p, 0, [k \in 1 .. n |-> "int"]) =
               IF n <= Len(p) THEN [at |-> n, vals |-> SubSeq(p, 1, n), err |-> "none"]
               ELSE [at |-> Len(p), vals |-> p, err |-> "Truncated"]
<1> DEFINE kinds == [k \in 1 .. n |-> "int"]
           Read(k) == IF k <= Len(p) THEN [at |-> k, vals |-> SubSeq(p, 1, k), err |-> "none"]
                      ELSE [at |-> Len(p), vals |-> p, err |-> "Truncated"]
<1>1. Len(kinds) = n /\ Len(p) \in Nat /\ \A k \in 1 .. n : kinds[k] = "int"
  OBVIOUS
<1> HIDE DEF kinds
<1>2. PICK read : EntryRun(read, side, p, 0, kinds)
  <2>1. 0 \in 0 .. Len(p) /\ Len(kinds) \in Nat
    BY <1>1
  <2> QED
    BY <2>1, ReadEntryRun
<1> DEFINE P == {k \in 0 .. n : read[k] = Read(k)}
<1>3. 0 \in P
  <2>1. SubSeq(p, 1, 0) = <<>>
    OBVIOUS
  <2>2. read[0] = [at |-> 0, vals |-> <<>>, err |-> "none"]
    BY <1>2 DEF EntryRun
  <2> QED
    BY <1>1, <2>1, <2>2
<1>4. ASSUME NEW k \in 1 .. n, k - 1 \in P
      PROVE  k \in P
  <2>1. read[k] = ReadField(side, read[k - 1], p, "int")
    BY <1>1, <1>2 DEF EntryRun
  <2>2. read[k - 1] = Read(k - 1)
    BY <1>4
  <2>3. CASE k - 1 < Len(p)
    <3>1. read[k - 1] = [at |-> k - 1, vals |-> SubSeq(p, 1, k - 1), err |-> "none"]
      BY <1>1, <2>2, <2>3
    <3>2. read[k] = [at |-> k, vals |-> Append(SubSeq(p, 1, k - 1), p[k]), err |-> "none"]
      <4> DEFINE q == SubSeq(p, 1, k - 1)
                 c == [at |-> k - 1, vals |-> q, err |-> "none"]
      <4>1. c.err = "none" /\ c.at = k - 1 /\ k - 1 # Len(p) /\ k - 1 + 1 = k
        BY <1>1, <2>3
      <4> HIDE DEF q
      <4>2. ReadField(side, c, p, "int") = [c EXCEPT !.at = @ + 1, !.vals = Append(@, p[k - 1 + 1])]
        BY <4>1 DEF ReadField
      <4> QED
        BY <2>1, <3>1, <4>1, <4>2 DEF q
    <3>3. Append(SubSeq(p, 1, k - 1), p[k]) = SubSeq(p, 1, k)
      BY <1>1, <2>3, SubSeqAppend
    <3>4. k <= Len(p) /\ k \in 0 .. n
      BY <1>1, <2>3
    <3>5. read[k] = [at |-> k, vals |-> SubSeq(p, 1, k), err |-> "none"]
      BY <3>2, <3>3
    <3> QED
      BY <3>4, <3>5
  <2>4. CASE k - 1 = Len(p)
    <3>1. read[k - 1] = [at |-> k - 1, vals |-> SubSeq(p, 1, k - 1), err |-> "none"]
      BY <1>1, <2>2, <2>4
    <3>2. SubSeq(p, 1, k - 1) = p
      BY <2>4, SubSeqFull
    <3>3. read[k] = [at |-> Len(p), vals |-> p, err |-> "Truncated"]
      <4> DEFINE c == [at |-> Len(p), vals |-> p, err |-> "none"]
      <4>1. read[k - 1] = c /\ c.err = "none" /\ c.at = Len(p)
        BY <2>4, <3>1, <3>2
      <4>2. ReadField(side, c, p, "int") = [c EXCEPT !.err = "Truncated"]
        BY <4>1 DEF ReadField
      <4> QED
        BY <2>1, <4>1, <4>2
    <3> QED
      BY <1>1, <2>4, <3>3
  <2>5. CASE k - 1 > Len(p)
    <3>1. read[k - 1] = [at |-> Len(p), vals |-> p, err |-> "Truncated"]
      BY <1>1, <2>2, <2>5
    <3>2. read[k] = read[k - 1]
      BY <2>1, <3>1 DEF ReadField
    <3> QED
      BY <1>1, <2>5, <3>1, <3>2
  <2> QED
    BY <1>1, <2>3, <2>4, <2>5
<1> HIDE DEF P
<1>5. 0 .. n \subseteq P
  BY <1>3, <1>4, Induction
<1>6. read[n] = Read(n)
  <2>1. n \in P
    BY <1>5
  <2> HIDE DEF Read
  <2> QED
    BY <2>1 DEF P
<1> QED
  BY <1>1, <1>2, <1>6 DEF EntryRun, kinds

-----------------------------------------------------------------------------
(* The two sides read alike but for limits and UTF-8.                      *)

\* On a field the two decoders differ only over a string that is not UTF-8,
\* which krunc-abi refuses and the module takes.
LEMMA FieldAgree ==
    ASSUME NEW p, NEW c, NEW kind
    PROVE  \/ ReadField("abi", c, p, kind) = ReadField("kernel", c, p, kind)
           \/ ReadField("abi", c, p, kind).err = "Utf8"
<1> DEFINE n == p[c.at + 1]
           s == SubSeq(p, c.at + 2, c.at + 1 + n)
<1>1. StringError("abi", s) = StringError("kernel", s) \/ StringError("abi", s) = "Utf8"
  BY DEF StringError
<1>2. CASE \/ c.err # "none" \/ c.at = Len(p) \/ kind = "int" \/ n > MaxStr
           \/ c.at + 1 + n > Len(p)
  <2> HIDE DEF s
  <2> QED
    BY <1>2 DEF ReadField
<1>3. CASE ~(\/ c.err # "none" \/ c.at = Len(p) \/ kind = "int" \/ n > MaxStr
             \/ c.at + 1 + n > Len(p))
  <2> DEFINE x == c.at + 1 + n
             v == Append(c.vals, s)
  <2>1. /\ ReadField("abi", c, p, kind) = [at |-> x, vals |-> v, err |-> StringError("abi", s)]
        /\ ReadField("kernel", c, p, kind) = [at |-> x, vals |-> v, err |-> StringError("kernel", s)]
    BY <1>3 DEF ReadField
  <2> HIDE DEF s, n, x, v
  <2> QED
    BY <1>1, <2>1
<1> QED
  BY <1>2, <1>3

\* After an error nothing more is read.
LEMMA FieldSticky ==
    ASSUME NEW side, NEW p, NEW c, NEW kind, c.err # "none"
    PROVE  ReadField(side, c, p, kind) = c
  BY DEF ReadField

\* The same for an entry.
LEMMA EntryAgree ==
    ASSUME NEW p \in Seq(Nat), NEW start \in 0 .. Len(p), NEW kinds, Len(kinds) \in Nat
    PROVE  \/ ReadEntry("abi", p, start, kinds) = ReadEntry("kernel", p, start, kinds)
           \/ ReadEntry("abi", p, start, kinds).err = "Utf8"
<1> DEFINE n == Len(kinds)
<1>1. PICK a : EntryRun(a, "abi", p, start, kinds)
  BY ReadEntryRun
<1>2. PICK r : EntryRun(r, "kernel", p, start, kinds)
  BY ReadEntryRun
<1> DEFINE P == {k \in 0 .. n : a[k] = r[k] \/ a[k].err = "Utf8"}
<1>3. n \in Nat
  OBVIOUS
<1>4. 0 \in P
  BY <1>1, <1>2, <1>3 DEF EntryRun
<1>5. ASSUME NEW k \in 1 .. n, k - 1 \in P
      PROVE  k \in P
  <2>1. /\ a[k] = ReadField("abi", a[k - 1], p, kinds[k])
        /\ r[k] = ReadField("kernel", r[k - 1], p, kinds[k])
    BY <1>1, <1>2 DEF EntryRun
  <2>2. CASE a[k - 1] = r[k - 1]
    <3>1. a[k] = r[k] \/ a[k].err = "Utf8"
      BY <2>1, <2>2, FieldAgree
    <3> QED
      BY <1>3, <3>1
  <2>3. CASE a[k - 1].err = "Utf8"
    <3>1. a[k] = a[k - 1]
      BY <2>1, <2>3, FieldSticky
    <3> QED
      BY <1>3, <2>3, <3>1
  <2> QED
    BY <1>5, <2>2, <2>3
<1> HIDE DEF P
<1>6. n \in P
  <2> HIDE DEF n
  <2>1. 0 .. n \subseteq P
    BY <1>3, <1>4, <1>5, Induction
  <2> QED
    BY <1>3, <2>1
<1> QED
  BY <1>1, <1>2, <1>6 DEF P, EntryRun

\* The same for a list.
LEMMA EntriesAgree ==
    ASSUME NEW p \in Seq(Nat), p # <<>>, NEW kinds, Len(kinds) \in Nat
    PROVE  \/ ReadEntries("abi", p, kinds) = ReadEntries("kernel", p, kinds)
           \/ ReadEntries("abi", p, kinds).err = "Utf8"
<1> DEFINE n == p[1]
<1>1. PICK a : ListRun(a, "abi", p, kinds)
  BY ReadEntriesRun
<1>2. PICK r : ListRun(r, "kernel", p, kinds)
  BY ReadEntriesRun
<1> DEFINE P == {k \in 0 .. n : a[k] = r[k] \/ a[k].err = "Utf8"}
<1>3. n \in Nat
  OBVIOUS
<1>4. 0 \in P
  BY <1>1, <1>2, <1>3 DEF ListRun
<1>5. ASSUME NEW k \in 1 .. n, k - 1 \in P
      PROVE  k \in P
  <2>1. /\ a[k] = NextEntry("abi", a[k - 1], p, kinds)
        /\ r[k] = NextEntry("kernel", r[k - 1], p, kinds)
        /\ a[k - 1] \in ListCursors(p)
    BY <1>1, <1>2, <1>3 DEF ListRun
  <2>2. CASE a[k - 1] = r[k - 1] /\ a[k - 1].err = "none"
    <3> DEFINE start == a[k - 1].at
               ea == ReadEntry("abi", p, start, kinds)
               er == ReadEntry("kernel", p, start, kinds)
    <3>1. start \in 0 .. Len(p)
      BY <2>1 DEF ListCursors
    <3>2. ea = er \/ ea.err = "Utf8"
      BY <3>1, EntryAgree
    <3>3. /\ a[k] = [at |-> ea.at, list |-> Append(a[k - 1].list, ea.vals), err |-> ea.err]
          /\ r[k] = [at |-> er.at, list |-> Append(a[k - 1].list, er.vals), err |-> er.err]
      BY <2>1, <2>2 DEF NextEntry
    <3> HIDE DEF ea, er
    <3>4. a[k] = r[k] \/ a[k].err = "Utf8"
      <4>1. CASE ea = er
        BY <3>3, <4>1, Zenon
      <4>2. CASE ea.err = "Utf8"
        <5> DEFINE q == Append(a[k - 1].list, ea.vals)
        <5>1. a[k] = [at |-> ea.at, list |-> q, err |-> ea.err]
          BY <3>3
        <5> HIDE DEF q
        <5> QED
          BY <4>2, <5>1
      <4> QED
        BY <3>2, <4>1, <4>2
    <3> QED
      BY <1>3, <3>4
  <2>3. CASE a[k - 1].err # "none"
    <3>1. a[k] = a[k - 1] /\ (a[k - 1] = r[k - 1] => r[k] = r[k - 1])
      BY <2>1, <2>3 DEF NextEntry
    <3> QED
      BY <1>3, <1>5, <2>3, <3>1
  <2> QED
    BY <1>5, <2>2, <2>3
<1> HIDE DEF P
<1>6. n \in P
  <2> HIDE DEF n
  <2>1. 0 .. n \subseteq P
    BY <1>3, <1>4, <1>5, Induction
  <2> QED
    BY <1>3, <2>1
<1> QED
  BY <1>1, <1>2, <1>6 DEF P, ListRun

\* What the module has of a section that decode gives the value v.
Sees(t, v) == IF t \in Lists THEN Kept("kernel", t, v) ELSE v

\* The layout of an entry is a list of fields.
LEMMA LayoutLen ==
    ASSUME NEW t \in Lists
    PROVE  Len(Layout[t]) \in Nat
<1>1. Layout[t] \in {<<"str">>, <<"str", "str", "str", "int">>, <<"int", "int", "int">>}
  BY DEF Layout
<1> QED
  BY <1>1

\* A section that decode reads is read alike by krunc.ko, and one that
\* krunc.ko reads is refused by decode for a limit or for UTF-8 only.
LEMMA SectionAgree ==
    ASSUME NEW t \in Tags, NEW p \in Seq(Nat)
    PROVE  LET a == ReadSection("abi", t, p)
               r == ReadSection("kernel", t, p)
           IN /\ a.err = "none" => r.err = "none" /\ r.val = Sees(t, a.val)
              /\ r.err = "none" => a.err \in {"none", "TooLarge", "Utf8"}
<1>1. CASE t \in Lists
  <2> DEFINE c(side) == ReadEntries(side, p, Layout[t])
  <2>1. \A side : ReadSection(side, t, p) =
            IF p = <<>> THEN [err |-> "Truncated", val |-> <<>>]
            ELSE IF side = "abi" /\ p[1] > AbiMax[t] THEN [err |-> "TooLarge", val |-> <<>>]
            ELSE [err |-> c(side).err, val |-> Kept(side, t, c(side).list)]
    BY <1>1 DEF ReadSection, ReadList
  <2>2. p # <<>> => c("abi") = c("kernel") \/ c("abi").err = "Utf8"
    BY <1>1, LayoutLen, EntriesAgree
  <2>3. \A list : Kept("abi", t, list) = list
    BY DEF Kept
  <2> HIDE DEF c
  <2> QED
    BY <1>1, <2>1, <2>2, <2>3 DEF Sees
<1>2. CASE t \in Strings
  <2>1. t \notin Lists
    BY <1>2 DEF Strings, Lists, StrVecs, ROOTFS, HOSTNAME, ARGV, ENV, MASKEDPATHS, ROPATHS, SYSCTLS,
                UIDMAPS, GIDMAPS, RLIMITS, MOUNTS
  <2> QED
    BY <1>2, <2>1 DEF ReadSection, ReadString, StringError, Sees
<1>3. CASE t \notin Lists \cup Strings
  <2>1. Ints[t] \in Nat
    BY <1>3 DEF Tags, Ints
  <2>2. ReadEntry("abi", p, 0, [k \in 1 .. Ints[t] |-> "int"]) =
            ReadEntry("kernel", p, 0, [k \in 1 .. Ints[t] |-> "int"])
    BY <2>1, ReadIntsCells
  <2>3. ReadInts("abi", t, p) = ReadInts("kernel", t, p)
    BY <2>2 DEF ReadInts
  <2> QED
    BY <1>3, <2>3 DEF ReadSection, Sees
<1> QED
  BY <1>1, <1>2, <1>3

-----------------------------------------------------------------------------
(* krunc-abi's decode, section by section.                                 *)

\* The specs decode may have read so far, and the states of its loop.
DecodedSpecs ==
    {s \in [Tags -> Seq(Int) \cup Seq(Seq(Val))] : \A t \in Lists : s[t] \in Seq(Seq(Val))}

AbiStates(b) == [at : 0 .. Len(b), seen : SUBSET Nat, err : Errors, spec : DecodedSpecs]

\* Neither decoder drops all of a list that is not empty.
LEMMA KeptType ==
    ASSUME NEW T, NEW t \in Lists, NEW list \in Seq(T), NEW side
    PROVE  /\ Kept(side, t, list) \in Seq(T)
           /\ Kept(side, t, list) = <<>> <=> list = <<>>
<1>1. KernelKeep[t] \in Nat \ {0}
  BY CodecAssumption
<1> DEFINE m == KernelKeep[t]
<1>2. m \in Nat /\ m # 0
  BY <1>1
<1> HIDE DEF m
<1>3. CASE Len(list) > m
  <2>1. SubSeq(list, 1, m) \in Seq(T) /\ SubSeq(list, 1, m) # <<>> /\ list # <<>>
    BY <1>2, <1>3
  <2> QED
    BY <2>1 DEF Kept, m
<1>4. CASE ~(Len(list) > m)
  BY <1>4 DEF Kept, m
<1> QED
  BY <1>3, <1>4

\* What a section is read as, for any payload.
LEMMA ReadSectionType ==
    ASSUME NEW side, NEW t \in Tags, NEW p \in Seq(Nat)
    PROVE  LET r == ReadSection(side, t, p)
           IN /\ r.err \in Errors
              /\ r.val \in Seq(Int) \cup Seq(Seq(Val))
              /\ t \in Lists => r.val \in Seq(Seq(Val))
<1>1. CASE t \in Lists
  <2> DEFINE c == ReadEntries(side, p, Layout[t])
  <2>1. ReadSection(side, t, p) =
            IF p = <<>> THEN [err |-> "Truncated", val |-> <<>>]
            ELSE IF side = "abi" /\ p[1] > AbiMax[t] THEN [err |-> "TooLarge", val |-> <<>>]
            ELSE [err |-> c.err, val |-> Kept(side, t, c.list)]
    BY <1>1 DEF ReadSection, ReadList
  <2>2. ASSUME p # <<>>
        PROVE  c.err \in Errors /\ Kept(side, t, c.list) \in Seq(Seq(Val))
    <3>1. PICK read : ListRun(read, side, p, Layout[t])
      BY <1>1, <2>2, LayoutLen, ReadEntriesRun
    <3>2. p[1] \in Nat
      BY <2>2
    <3>3. p[1] \in 0 .. p[1]
      BY <3>2
    <3>4. c \in ListCursors(p)
      BY <3>1, <3>3 DEF ListRun
    <3> HIDE DEF c
    <3>5. c.err \in Errors /\ c.list \in Seq(Seq(Val))
      BY <3>4 DEF ListCursors
    <3> QED
      BY <1>1, <3>5, KeptType
  <2> HIDE DEF c
  <2>3. <<>> \in Seq(Seq(Val)) /\ "Truncated" \in Errors /\ "TooLarge" \in Errors
    BY EmptySeq DEF Errors
  <2> DEFINE v == Kept(side, t, c.list)
  <2>4. v \in Seq(Seq(Val)) \/ p = <<>>
    BY <2>2
  <2> HIDE DEF v
  <2>5. ReadSection(side, t, p).val \in Seq(Seq(Val)) /\ ReadSection(side, t, p).err \in Errors
    BY <2>1, <2>2, <2>3, <2>4 DEF v
  <2> QED
    BY <2>5
<1>2. CASE t \in Strings
  <2>1. ReadSection(side, t, p) = ReadString(side, p) /\ t \notin Lists
    BY <1>2 DEF ReadSection, Strings, Lists, StrVecs, ROOTFS, HOSTNAME, ARGV, ENV, MASKEDPATHS,
                ROPATHS, SYSCTLS, UIDMAPS, GIDMAPS, RLIMITS, MOUNTS
  <2>2. ReadString(side, p).err \in Errors /\ ReadString(side, p).val = p
    BY DEF ReadString, StringError, Errors
  <2>3. p \in Seq(Int)
    OBVIOUS
  <2> QED
    BY <2>1, <2>2, <2>3
<1>3. CASE t \notin Lists \cup Strings
  <2> DEFINE n == Ints[t]
             e == ReadEntry(side, p, 0, [k \in 1 .. n |-> "int"])
  <2>1. n \in Nat
    BY <1>3 DEF Tags, Ints
  <2>2. e.err \in Errors /\ e.vals \in Seq(Nat)
    <3> HIDE DEF n
    <3>1. e = IF n <= Len(p) THEN [at |-> n, vals |-> SubSeq(p, 1, n), err |-> "none"]
              ELSE [at |-> Len(p), vals |-> p, err |-> "Truncated"]
      BY <2>1, ReadIntsCells
    <3> HIDE DEF e
    <3>2. CASE n <= Len(p)
      <4>1. SubSeq(p, 1, n) \in Seq(Nat)
        BY <2>1, <3>2
      <4> QED
        BY <3>1, <3>2, <4>1 DEF Errors
    <3>3. CASE ~(n <= Len(p))
      BY <3>1, <3>3 DEF Errors
    <3> QED
      BY <3>2, <3>3
  <2>3. ReadSection(side, t, p) =
            [err |-> e.err,
             val |-> IF t = OOMSCOREADJ THEN [k \in DOMAIN e.vals |-> AsI32(e.vals[k])] ELSE e.vals]
    BY <1>3 DEF ReadSection, ReadInts
  <2> DEFINE q == e.vals
             v == IF t = OOMSCOREADJ THEN [k \in DOMAIN q |-> AsI32(q[k])] ELSE q
  <2>4. q \in Seq(Nat)
    BY <2>2
  <2> HIDE DEF q
  <2>5. v \in Seq(Int)
    <3>1. HalfWord \in Nat
      BY CodecAssumption
    <3>2. \A k \in DOMAIN q : AsI32(q[k]) \in Int
      BY <2>4, <3>1 DEF AsI32
    <3>3. DOMAIN q = 1 .. Len(q) /\ Len(q) \in Nat /\ q \in Seq(Int)
      BY <2>4
    <3>4. [k \in 1 .. Len(q) |-> AsI32(q[k])] \in Seq(Int)
      BY <3>2, <3>3, SMTT(30)
    <3> QED
      BY <3>3, <3>4
  <2>6. ReadSection(side, t, p) = [err |-> e.err, val |-> v]
    BY <2>3 DEF q
  <2> HIDE DEF v, e
  <2> QED
    BY <1>3, <2>2, <2>5, <2>6
<1> QED
  BY <1>1, <1>2, <1>3

\* The spec both decoders start from is one they may have read.
LEMMA DefaultType ==
    /\ DefaultSpec \in DecodedSpecs
    /\ \A t \in Lists \cup Strings : Default(t) = <<>>
<1>1. \A t \in Lists \cup Strings : t \notin DOMAIN Ints
  BY DEF Strings, Lists, StrVecs, Ints, ROOTFS, HOSTNAME, ARGV, ENV, MASKEDPATHS, ROPATHS, SYSCTLS,
         UIDMAPS, GIDMAPS, RLIMITS, MOUNTS, NAMESPACES, FLAGS, CAPBOUNDING, OOMSCOREADJ, CAPSETS, USER
<1>2. \A t \in Lists \cup Strings : Default(t) = <<>>
  BY <1>1 DEF Default
<1>3. \A t \in Tags : Default(t) \in Seq(Int)
  <2> SUFFICES ASSUME NEW t \in Tags PROVE Default(t) \in Seq(Int)
    OBVIOUS
  <2>1. CASE t \in DOMAIN Ints \ Optional
    <3>1. Ints[t] \in Nat
      BY <2>1 DEF Ints
    <3> QED
      BY <2>1, <3>1 DEF Default
  <2>2. CASE t \notin DOMAIN Ints \ Optional
    BY <2>2, EmptySeq DEF Default
  <2> QED
    BY <2>1, <2>2
<1>4. \A t \in Lists : t \in Tags /\ Default(t) \in Seq(Seq(Val))
  BY <1>2, EmptySeq DEF Tags
<1> QED
  BY <1>2, <1>3, <1>4 DEF DefaultSpec, DecodedSpecs

\* A step of decode's loop stays within the buffer.
LEMMA AbiSectionType ==
    ASSUME NEW b \in Seq(Nat), NEW d \in AbiStates(b), NEW known \in SUBSET Tags
    PROVE  AbiSection(d, b, known) \in AbiStates(b)
<1> DEFINE t == b[d.at + 1]
           next == d.at + 2 + b[d.at + 2]
           p == SubSeq(b, d.at + 3, next)
           r == ReadSection("abi", t, p)
<1>1. /\ d.at \in 0 .. Len(b) /\ d.seen \in SUBSET Nat /\ d.err \in Errors /\ d.spec \in DecodedSpecs
      /\ d = [at |-> d.at, seen |-> d.seen, err |-> d.err, spec |-> d.spec] /\ Len(b) \in Nat
  BY DEF AbiStates
<1>2. CASE d.err # "none"
  BY <1>2 DEF AbiSection
<1>3. CASE d.err = "none" /\ (d.at + 2 > Len(b) \/ next > Len(b))
  <2>1. AbiSection(d, b, known) = [d EXCEPT !.err = "Truncated"]
    BY <1>3 DEF AbiSection
  <2> QED
    BY <1>1, <2>1 DEF AbiStates, Errors
<1>4. CASE d.err = "none" /\ ~(d.at + 2 > Len(b)) /\ ~(next > Len(b))
  <2>1. d.at + 1 \in 1 .. Len(b) /\ d.at + 2 \in 1 .. Len(b)
    BY <1>1, <1>4
  <2>2. t \in Nat /\ b[d.at + 2] \in Nat
    BY <2>1
  <2>3. next \in 0 .. Len(b)
    <3> DEFINE x == b[d.at + 2]
    <3>1. x \in Nat /\ next = d.at + 2 + x /\ ~(next > Len(b))
      BY <1>4, <2>2
    <3> HIDE DEF x, next
    <3> QED
      BY <1>1, <3>1
  <2>4. p \in Seq(Nat)
    <3>1. \A i \in d.at + 3 .. next : b[i] \in Nat
      <4> SUFFICES ASSUME NEW i \in d.at + 3 .. next PROVE b[i] \in Nat
        OBVIOUS
      <4> HIDE DEF next
      <4>1. i \in 1 .. Len(b)
        BY <1>1, <2>3
      <4> QED
        BY <4>1, ElementOfSeq
    <3>2. d.at + 3 \in Int /\ next \in Int
      BY <1>1, <2>3
    <3> HIDE DEF next
    <3> QED
      BY <3>1, <3>2, SubSeqProperties
  <2>5. CASE t < 64 /\ t \in d.seen
    <3>1. AbiSection(d, b, known) = [d EXCEPT !.err = "Duplicate"]
      BY <1>4, <2>5 DEF AbiSection
    <3> QED
      BY <1>1, <3>1 DEF AbiStates, Errors
  <2>6. CASE ~(t < 64 /\ t \in d.seen) /\ t \notin known
    <3>1. AbiSection(d, b, known) = [d EXCEPT !.at = next, !.seen = @ \cup {t}]
      BY <1>4, <2>6 DEF AbiSection
    <3>2. d.seen \cup {t} \in SUBSET Nat
      BY <1>1, <2>2
    <3> HIDE DEF t, next
    <3> QED
      BY <1>1, <2>3, <3>1, <3>2 DEF AbiStates
  <2>7. CASE ~(t < 64 /\ t \in d.seen) /\ t \in known
    <3>1. AbiSection(d, b, known) =
              [at |-> next, seen |-> d.seen \cup {t}, err |-> r.err,
               spec |-> [d.spec EXCEPT ![t] = r.val]]
      BY <1>4, <2>7 DEF AbiSection
    <3>2. d.seen \cup {t} \in SUBSET Nat /\ t \in Tags
      BY <1>1, <2>2, <2>7
    <3> HIDE DEF t, next, p
    <3>3. /\ r.err \in Errors
          /\ r.val \in Seq(Int) \cup Seq(Seq(Val))
          /\ t \in Lists => r.val \in Seq(Seq(Val))
      BY <2>4, <3>2, ReadSectionType
    <3> HIDE DEF r
    <3> DEFINE v == r.val
               V == Seq(Int) \cup Seq(Seq(Val))
               W == Seq(Seq(Val))
    <3>4. [d.spec EXCEPT ![t] = v] \in DecodedSpecs
      <4>1. v \in V /\ (t \in Lists => v \in W)
        BY <3>3
      <4>2. d.spec \in {s \in [Tags -> V] : \A u \in Lists : s[u] \in W}
        BY <1>1 DEF DecodedSpecs
      <4>3. Lists \subseteq Tags
        BY DEF Tags
      <4> HIDE DEF v, V, W
      <4>4. [d.spec EXCEPT ![t] = v] \in {s \in [Tags -> V] : \A u \in Lists : s[u] \in W}
        BY <3>2, <4>1, <4>2, <4>3
      <4> QED
        BY <4>4 DEF DecodedSpecs, V, W
    <3> QED
      BY <2>3, <3>1, <3>2, <3>3, <3>4 DEF AbiStates
  <2> QED
    BY <2>5, <2>6, <2>7
<1> QED
  BY <1>2, <1>3, <1>4

\* The states of decode's loop on buffer b.
AbiRun(b, known) ==
    CHOOSE d : d = [k \in 0 .. b[4] |->
        IF k = 0 THEN [at |-> 4, seen |-> {}, err |-> "none", spec |-> DefaultSpec]
        ELSE AbiSection(d[k - 1], b, known)]

\* decode's loop, as the states it goes through.
LEMMA AbiRunSteps ==
    ASSUME NEW b \in Seq(Nat), Len(b) >= 4, NEW known \in SUBSET Tags
    PROVE  /\ AbiSections(b, known) = AbiRun(b, known)[b[4]]
           /\ AbiRun(b, known)[0] = [at |-> 4, seen |-> {}, err |-> "none", spec |-> DefaultSpec]
           /\ \A k \in 1 .. b[4] : AbiRun(b, known)[k] = AbiSection(AbiRun(b, known)[k - 1], b, known)
           /\ \A k \in 0 .. b[4] : AbiRun(b, known)[k] \in AbiStates(b)
<1> DEFINE n == b[4]
           a == [at |-> 4, seen |-> {}, err |-> "none", spec |-> DefaultSpec]
           S == AbiStates(b)
           g == [x \in S \X (1 .. n) |-> AbiSection(x[1], b, known)]
           Body(f) == [k \in 0 .. n |-> IF k = 0 THEN a ELSE AbiSection(f[k - 1], b, known)]
           c == CHOOSE f : f = Body(f)
<1>1. n \in Nat
  OBVIOUS
<1>2. a \in S
  <2>1. 4 \in 0 .. Len(b) /\ {} \in SUBSET Nat /\ "none" \in Errors
    BY DEF Errors
  <2> QED
    BY <2>1, DefaultType DEF AbiStates
<1>3. \A x \in S : AbiSection(x, b, known) \in S
  BY AbiSectionType
<1>4. AbiSections(b, known) = c[n] /\ AbiRun(b, known) = c
  BY Zenon DEF AbiSections, AbiRun
<1> HIDE DEF n, a, S
<1>5. g \in [S \X (1 .. n) -> S]
  BY <1>3
<1>6. PICK h : Recursive(h, S, a, n, g)
  <2> HIDE DEF g
  <2> QED
    BY <1>1, <1>2, <1>5, RecursionExists
<1>7. h \in [0 .. n -> S] /\ h[0] = a
  BY <1>6 DEF Recursive
<1>8. ASSUME NEW k \in 1 .. n
      PROVE  h[k] = AbiSection(h[k - 1], b, known)
  <2>1. k - 1 \in 0 .. n /\ h[k] = g[<<h[k - 1], k>>]
    <3> HIDE DEF g
    <3> QED
      BY <1>1, <1>6 DEF Recursive
  <2>2. h[k - 1] \in S
    BY <1>7, <2>1
  <2> QED
    BY <2>1, <2>2
<1>9. h = Body(h)
  BY <1>1, <1>7, <1>8
<1>10. c = Body(c)
  <2> HIDE DEF Body
  <2> QED
    BY <1>9
<1> HIDE DEF c, g
<1>11. c[0] = a /\ \A k \in 1 .. n : c[k] = AbiSection(c[k - 1], b, known)
  BY <1>1, <1>10
<1> DEFINE P == {k \in 0 .. n : c[k] \in S}
<1>12. 0 \in P
  BY <1>1, <1>2, <1>11
<1>13. ASSUME NEW k \in 1 .. n, k - 1 \in P
       PROVE  k \in P
  BY <1>1, <1>3, <1>11, <1>13
<1> HIDE DEF P
<1>14. 0 .. n \subseteq P
  BY <1>1, <1>12, <1>13, Induction
<1>15. \A k \in 0 .. n : c[k] \in S
  BY <1>14 DEF P
<1> QED
  BY <1>4, <1>11, <1>15 DEF n, a, S

\* The first error ends the loop's work.
LEMMA AbiSticky ==
    ASSUME NEW b \in Seq(Nat), Len(b) >= 4, NEW known \in SUBSET Tags, NEW j \in 0 .. b[4]
    PROVE  AbiRun(b, known)[b[4]].err = "none" => AbiRun(b, known)[j].err = "none"
<1> DEFINE n == b[4]
           d == AbiRun(b, known)
           P == {k \in 0 .. n : k >= j => d[k].err = d[j].err \/ d[j].err = "none"}
<1>1. n \in Nat /\ j \in 0 .. n
  OBVIOUS
<1>2. \A k \in 1 .. n : d[k - 1].err # "none" => d[k].err = d[k - 1].err
  BY AbiRunSteps DEF AbiSection
<1> HIDE DEF n, d
<1>3. 0 \in P
  BY <1>1
<1>4. ASSUME NEW k \in 1 .. n, k - 1 \in P
      PROVE  k \in P
  BY <1>1, <1>2, <1>4
<1> HIDE DEF P
<1>5. 0 .. n \subseteq P
  BY <1>1, <1>3, <1>4, Induction
<1>6. d[n].err = d[j].err \/ d[j].err = "none"
  BY <1>1, <1>5 DEF P
<1> QED
  BY <1>6 DEF n, d

\* Each section takes two cells at least.
LEMMA AbiAdvance ==
    ASSUME NEW b \in Seq(Nat), Len(b) >= 4, NEW known \in SUBSET Tags, NEW j \in 0 .. b[4]
    PROVE  AbiRun(b, known)[j].err = "none" => AbiRun(b, known)[j].at >= 4 + 2 * j
<1> DEFINE n == b[4]
           d == AbiRun(b, known)
           P == {k \in 0 .. n : d[k].err = "none" => d[k].at >= 4 + 2 * k}
<1>1. n \in Nat /\ j \in 0 .. n /\ Len(b) \in Nat
  OBVIOUS
<1>2. /\ d[0] = [at |-> 4, seen |-> {}, err |-> "none", spec |-> DefaultSpec]
      /\ \A k \in 1 .. n : d[k] = AbiSection(d[k - 1], b, known)
      /\ \A k \in 0 .. n : d[k] \in AbiStates(b)
  BY AbiRunSteps
<1> HIDE DEF n, d
<1>3. 0 \in P
  BY <1>1, <1>2
<1>4. ASSUME NEW k \in 1 .. n, k - 1 \in P, d[k].err = "none"
      PROVE  d[k].at >= 4 + 2 * k
  <2> DEFINE e == d[k - 1]
             x == b[e.at + 2]
  <2>1. e \in AbiStates(b) /\ d[k] = AbiSection(e, b, known)
    BY <1>1, <1>2
  <2>2. e.err = "none" => e.at >= 4 + 2 * (k - 1)
    BY <1>4
  <2> HIDE DEF e
  <2>3. e.at \in 0 .. Len(b)
    BY <2>1 DEF AbiStates
  <2>4. e.err = "none" /\ ~(e.at + 2 > Len(b)) /\ d[k].at = e.at + 2 + x
    <3> DEFINE next == e.at + 2 + b[e.at + 2]
               t == b[e.at + 1]
               r == ReadSection("abi", t, SubSeq(b, e.at + 3, next))
    <3>1. AbiSection(e, b, known) =
              IF e.err # "none" THEN e
              ELSE IF e.at + 2 > Len(b) THEN [e EXCEPT !.err = "Truncated"]
              ELSE IF next > Len(b) THEN [e EXCEPT !.err = "Truncated"]
              ELSE IF t < 64 /\ t \in e.seen THEN [e EXCEPT !.err = "Duplicate"]
              ELSE IF t \notin known THEN [e EXCEPT !.at = next, !.seen = @ \cup {t}]
              ELSE [at |-> next, seen |-> e.seen \cup {t}, err |-> r.err,
                    spec |-> [e.spec EXCEPT ![t] = r.val]]
      BY DEF AbiSection
    <3>2. e = [at |-> e.at, seen |-> e.seen, err |-> e.err, spec |-> e.spec]
      BY <2>1 DEF AbiStates
    <3> HIDE DEF r, t, next
    <3>3. e.err = "none" /\ ~(e.at + 2 > Len(b)) /\ d[k].at = next
      BY <1>4, <2>1, <3>1, <3>2
    <3> QED
      BY <3>3 DEF next
  <2>5. x \in Nat
    BY <1>1, <2>3, <2>4, SMTT(30)
  <2> HIDE DEF x
  <2> QED
    BY <2>2, <2>3, <2>4, <2>5
<1>5. ASSUME NEW k \in 1 .. n, k - 1 \in P
      PROVE  k \in P
  <2>1. d[k].err = "none" => d[k].at >= 4 + 2 * k
    BY <1>4, <1>5
  <2>2. k \in 0 .. n
    BY <1>1
  <2> QED
    BY <2>1, <2>2
<1> HIDE DEF P
<1>6. 0 .. n \subseteq P
  BY <1>1, <1>3, <1>5, Induction
<1> QED
  BY <1>1, <1>6 DEF P, n, d

\* What decode has checked of a buffer it accepts.
LEMMA DecodeNone ==
    ASSUME NEW b \in Seq(Nat), NEW known \in SUBSET Tags, DecodeKnowing(b, known).err = "none"
    PROVE  /\ Len(b) >= 4 /\ b[1] = MAGIC /\ b[2] = ABIVERSION
           /\ AbiSections(b, known).err = "none"
           /\ AbiSections(b, known).at = Len(b)
           /\ DecodeKnowing(b, known).spec = AbiSections(b, known).spec
<1> DEFINE d == AbiSections(b, known)
           D == DecodeKnowing(b, known)
           Error(e) == [err |-> e, spec |-> DefaultSpec]
<1>1. D = IF Len(b) > AbiMaxSpec THEN Error("TooLarge")
          ELSE IF Len(b) < 1 THEN Error("Truncated")
          ELSE IF b[1] # MAGIC THEN Error("BadMagic")
          ELSE IF Len(b) < 2 THEN Error("Truncated")
          ELSE IF b[2] # ABIVERSION THEN Error("UnsupportedVersion")
          ELSE IF Len(b) < 3 THEN Error("Truncated")
          ELSE IF b[3] \notin Ops THEN Error("BadOp")
          ELSE IF Len(b) < 4 THEN Error("Truncated")
          ELSE IF b[4] > AbiMaxSpec \div 2 THEN Error("TooLarge")
          ELSE IF d.err # "none" THEN Error(d.err)
          ELSE IF d.at # Len(b) THEN Error("TrailingBytes")
          ELSE IF b[3] = CREATE /\ (d.spec[ROOTFS] = <<>> \/ d.spec[ARGV] = <<>>)
          THEN Error("Missing")
          ELSE [err |-> "none", spec |-> d.spec]
  BY DEF DecodeKnowing
<1>2. D.err = "none" /\ Len(b) \in Nat
  OBVIOUS
<1> HIDE DEF d, D
<1> QED
  BY <1>1, <1>2 DEF d, D

\* The errors left to decode on a buffer whose header krunc.ko takes.
LEMMA DecodeErrors ==
    ASSUME NEW b \in Seq(Nat), NEW known \in SUBSET Tags,
           Len(b) >= 4, b[1] = MAGIC, b[2] = ABIVERSION
    PROVE  LET d == AbiSections(b, known)
               e == DecodeKnowing(b, known).err
           IN \/ e \in {"none", "TooLarge", "BadOp"}
              \/ d.err # "none" /\ e = d.err
              \/ d.err = "none" /\ d.at # Len(b)
              \/ d.err = "none" /\ (d.spec[ROOTFS] = <<>> \/ d.spec[ARGV] = <<>>)
<1> DEFINE d == AbiSections(b, known)
           D == DecodeKnowing(b, known)
           Error(e) == [err |-> e, spec |-> DefaultSpec]
<1>1. D = IF Len(b) > AbiMaxSpec THEN Error("TooLarge")
          ELSE IF b[3] \notin Ops THEN Error("BadOp")
          ELSE IF b[4] > AbiMaxSpec \div 2 THEN Error("TooLarge")
          ELSE IF d.err # "none" THEN Error(d.err)
          ELSE IF d.at # Len(b) THEN Error("TrailingBytes")
          ELSE IF b[3] = CREATE /\ (d.spec[ROOTFS] = <<>> \/ d.spec[ARGV] = <<>>)
          THEN Error("Missing")
          ELSE [err |-> "none", spec |-> d.spec]
  <2>1. ~(Len(b) < 1) /\ ~(Len(b) < 2) /\ ~(Len(b) < 3) /\ ~(Len(b) < 4)
    OBVIOUS
  <2> QED
    BY <2>1 DEF DecodeKnowing
<1> HIDE DEF d, D
<1>2. \/ D.err \in {"none", "TooLarge", "BadOp"}
      \/ d.err # "none" /\ D.err = d.err
      \/ d.err = "none" /\ d.at # Len(b)
      \/ d.err = "none" /\ (d.spec[ROOTFS] = <<>> \/ d.spec[ARGV] = <<>>)
  BY <1>1
<1> QED
  BY <1>2 DEF d, D

-----------------------------------------------------------------------------
(* decode_spec in step with decode.                                        *)

\* How many turns decode_spec's loop has made.
Turns == buf[4] - left

\* While decode has met no error it is where decode_spec is.
InStep(known) ==
    LET d == AbiRun(buf, known)[Turns]
    IN d.err = "none" =>
           d.at = pos /\ d.seen = seen /\ \A t \in KernelTags : out[t] = Sees(t, d.spec[t])

\* decode_spec in its loop.
Decoding ==
    /\ Len(buf) \in 4 .. KernelMaxSpec /\ buf[1] = MAGIC /\ buf[2] = ABIVERSION
    /\ left \in 0 .. buf[4]
    /\ pos \in 4 .. Len(buf)
    /\ seen \subseteq Nat
    /\ out \in DecodedSpecs
    /\ InStep(KernelTags) /\ InStep(Tags)
    /\ AbiRun(buf, KernelTags)[Turns].err \in {"none", "TooLarge", "Utf8"}

\* The tags the module knows are tags of the format.
LEMMA KnownTags == KernelTags \in SUBSET Tags /\ Tags \in SUBSET Tags /\ Tags \subseteq Nat
  BY DEF KernelTags, Tags, Strings, Lists, StrVecs, Ints, ROOTFS, HOSTNAME, ARGV, ENV, MASKEDPATHS,
         ROPATHS, SYSCTLS, UIDMAPS, GIDMAPS, RLIMITS, MOUNTS, NAMESPACES, FLAGS, CAPBOUNDING,
         OOMSCOREADJ, CAPSETS, USER

\* The header of the section at the cursor.
LEMMA SectionCells ==
    ASSUME buf \in Seq(Nat), pos \in 4 .. Len(buf), SectionFits
    PROVE  /\ buf[pos + 1] \in Nat /\ buf[pos + 2] \in Nat
           /\ SectionEnd \in pos .. Len(buf)
           /\ SubSeq(buf, pos + 3, SectionEnd) \in Seq(Nat)
<1>1. pos + 1 \in 1 .. Len(buf) /\ pos + 2 \in 1 .. Len(buf) /\ Len(buf) \in Nat
  BY DEF SectionFits
<1>2. buf[pos + 1] \in Nat /\ buf[pos + 2] \in Nat
  BY <1>1
<1> DEFINE x == buf[pos + 2]
<1>3. SectionEnd \in pos .. Len(buf)
  <2>1. x \in Nat /\ SectionEnd = pos + 2 + x /\ SectionEnd <= Len(buf)
    BY <1>2 DEF SectionEnd, SectionFits
  <2> HIDE DEF x
  <2> QED
    BY <1>1, <2>1
<1>4. \A i \in pos + 3 .. SectionEnd : buf[i] \in Nat
  <2> SUFFICES ASSUME NEW i \in pos + 3 .. SectionEnd PROVE buf[i] \in Nat
    OBVIOUS
  <2>1. i \in 1 .. Len(buf)
    BY <1>1, <1>3
  <2> QED
    BY <2>1, ElementOfSeq
<1>5. pos + 3 \in Int /\ SectionEnd \in Int
  BY <1>1, <1>3
<1> QED
  BY <1>2, <1>3, <1>4, <1>5, SubSeqProperties

\* What decode makes of the section at decode_spec's cursor, if it fits and
\* is not repeated.
LEMMA AbiTurn ==
    ASSUME buf \in Seq(Nat), pos \in 4 .. Len(buf), SectionFits,
           NEW known, NEW d \in AbiStates(buf), d.err = "none", d.at = pos, d.seen = seen,
           ~(buf[pos + 1] < 64 /\ buf[pos + 1] \in seen)
    PROVE  LET t == buf[pos + 1]
               r == ReadSection("abi", t, SubSeq(buf, pos + 3, SectionEnd))
           IN AbiSection(d, buf, known) =
                  IF t \notin known
                  THEN [at |-> SectionEnd, seen |-> seen \cup {t}, err |-> "none", spec |-> d.spec]
                  ELSE [at |-> SectionEnd, seen |-> seen \cup {t}, err |-> r.err,
                        spec |-> [d.spec EXCEPT ![t] = r.val]]
<1> DEFINE t == buf[pos + 1]
           next == pos + 2 + buf[pos + 2]
           r == ReadSection("abi", t, SubSeq(buf, pos + 3, next))
<1>1. d = [at |-> pos, seen |-> seen, err |-> "none", spec |-> d.spec]
  BY DEF AbiStates
<1>2. ~(pos + 2 > Len(buf)) /\ ~(next > Len(buf))
  <2>1. /\ buf[pos + 2] \in Nat /\ pos \in Nat /\ Len(buf) \in Nat
        /\ pos + 2 <= Len(buf) /\ next <= Len(buf)
    <3>1. buf[pos + 2] \in Nat
      BY SectionCells
    <3>2. pos \in Nat /\ Len(buf) \in Nat
      OBVIOUS
    <3>3. pos + 2 <= Len(buf) /\ next <= Len(buf)
      BY DEF SectionFits, SectionEnd
    <3> QED
      BY <3>1, <3>2, <3>3
  <2> DEFINE x == buf[pos + 2]
  <2>2. x \in Nat /\ pos + 2 + x <= Len(buf)
    BY <2>1
  <2> HIDE DEF x
  <2>3. ~(pos + 2 > Len(buf)) /\ ~(pos + 2 + x > Len(buf))
    BY <2>1, <2>2, SMTT(30)
  <2> QED
    BY <2>3 DEF x
<1>3. AbiSection(d, buf, known) =
          IF t \notin known THEN [d EXCEPT !.at = next, !.seen = @ \cup {t}]
          ELSE [at |-> next, seen |-> d.seen \cup {t}, err |-> r.err,
                spec |-> [d.spec EXCEPT ![t] = r.val]]
  BY <1>2 DEF AbiSection
<1>4. next = SectionEnd
  BY DEF SectionEnd
<1> HIDE DEF t, next, r
<1>5. AbiSection(d, buf, known) =
          IF t \notin known
          THEN [at |-> SectionEnd, seen |-> seen \cup {t}, err |-> "none", spec |-> d.spec]
          ELSE [at |-> SectionEnd, seen |-> seen \cup {t}, err |-> r.err,
                spec |-> [d.spec EXCEPT ![t] = r.val]]
  BY <1>1, <1>3, <1>4
<1> QED
  BY <1>4, <1>5 DEF t, r

\* The cursor of decode after Turns turns.
LEMMA AbiHere ==
    ASSUME buf \in Seq(Nat), Decoding, NEW known \in SUBSET Tags
    PROVE  /\ buf[4] \in Nat /\ Turns \in 0 .. buf[4]
           /\ AbiRun(buf, known)[Turns] \in AbiStates(buf)
           /\ left > 0 =>
                 /\ Turns + 1 \in 1 .. buf[4]
                 /\ AbiRun(buf, known)[Turns + 1] = AbiSection(AbiRun(buf, known)[Turns], buf, known)
<1>1. Len(buf) >= 4 /\ 4 \in 1 .. Len(buf) /\ left \in 0 .. buf[4]
  BY DEF Decoding
<1>2. buf[4] \in Nat
  BY <1>1
<1> DEFINE n == buf[4]
<1>3. n - left \in 0 .. n /\ (left > 0 => n - left + 1 \in 1 .. n) /\ n - left + 1 - 1 = n - left
  <2>1. n \in Nat /\ left \in 0 .. n
    BY <1>1, <1>2
  <2> HIDE DEF n
  <2> QED
    BY <2>1
<1>4. Turns \in 0 .. n /\ (left > 0 => Turns + 1 \in 1 .. n) /\ Turns + 1 - 1 = Turns
  BY <1>3 DEF Turns
<1>5. /\ \A k \in 1 .. n : AbiRun(buf, known)[k] = AbiSection(AbiRun(buf, known)[k - 1], buf, known)
      /\ \A k \in 0 .. n : AbiRun(buf, known)[k] \in AbiStates(buf)
  BY <1>1, AbiRunSteps
<1> HIDE DEF n
<1>6. AbiRun(buf, known)[Turns] \in AbiStates(buf)
  BY <1>4, <1>5
<1>7. left > 0 => AbiRun(buf, known)[Turns + 1] = AbiSection(AbiRun(buf, known)[Turns], buf, known)
  <2> SUFFICES ASSUME left > 0
               PROVE  AbiRun(buf, known)[Turns + 1] = AbiSection(AbiRun(buf, known)[Turns], buf, known)
    OBVIOUS
  <2> DEFINE k == Turns + 1
  <2>1. k \in 1 .. n /\ k - 1 = Turns
    BY <1>4
  <2> HIDE DEF k
  <2>2. AbiRun(buf, known)[k] = AbiSection(AbiRun(buf, known)[k - 1], buf, known)
    BY <1>5, <2>1
  <2> QED
    BY <2>1, <2>2 DEF k
<1> QED
  BY <1>2, <1>4, <1>6, <1>7 DEF n

\* One turn of both loops: what decode_spec accepts keeps them in step.
LEMMA TurnInStep ==
    ASSUME buf \in Seq(Nat), Decoding, KernelSection, pc' = "section",
           NEW known \in {KernelTags, Tags}
    PROVE  /\ InStep(known)'
           /\ known = KernelTags =>
                 AbiRun(buf, known)[Turns + 1].err \in {"none", "TooLarge", "Utf8"}
<1> DEFINE d == AbiRun(buf, known)[Turns]
           e == AbiRun(buf, known)[Turns + 1]
           t == buf[pos + 1]
           p == SubSeq(buf, pos + 3, SectionEnd)
           r == ReadSection("abi", t, p)
           q == ReadSection("kernel", t, p)
<1>1. /\ pos \in 4 .. Len(buf) /\ left > 0
      /\ SectionFits
      /\ ~(t < 64 /\ t \in seen)
      /\ t \in KernelTags => q.err = "none"
      /\ pos' = SectionEnd /\ left' = left - 1 /\ seen' = seen \cup {t} /\ buf' = buf
      /\ out' = IF t \in KernelTags THEN [out EXCEPT ![t] = q.val] ELSE out
  BY DEF Decoding, KernelSection, SectionTurn, SectionRead
<1>2. known \in SUBSET Tags /\ KernelTags \subseteq known
  BY KnownTags
<1>3. d \in AbiStates(buf) /\ e = AbiSection(d, buf, known) /\ Turns \in Nat /\ Turns' = Turns + 1
  <2>1. /\ d \in AbiStates(buf) /\ e = AbiSection(d, buf, known)
        /\ buf[4] \in Nat /\ Turns \in 0 .. buf[4]
    BY <1>1, <1>2, AbiHere
  <2>2. left \in 0 .. buf[4]
    BY DEF Decoding
  <2>3. Turns' = Turns + 1
    <3> DEFINE n == buf[4]
    <3>1. n \in Nat /\ left \in 0 .. n /\ Turns = n - left /\ Turns' = n - (left - 1)
      BY <1>1, <2>1, <2>2 DEF Turns
    <3> HIDE DEF n
    <3> QED
      BY <3>1
  <2> QED
    BY <2>1, <2>3
<1>4. p \in Seq(Nat)
  BY <1>1, SectionCells
<1>5. /\ d.err = "none" => /\ d.at = pos /\ d.seen = seen
                           /\ \A u \in KernelTags : out[u] = Sees(u, d.spec[u])
      /\ known = KernelTags => d.err \in {"none", "TooLarge", "Utf8"}
  BY DEF Decoding, InStep
<1>6. CASE d.err # "none"
  <2>1. e = d
    BY <1>3, <1>6 DEF AbiSection
  <2>2. e.err # "none" /\ (known = KernelTags => e.err \in {"none", "TooLarge", "Utf8"})
    BY <1>5, <1>6, <2>1
  <2> HIDE DEF e
  <2>3. AbiRun(buf', known)[Turns'] = e
    BY <1>1, <1>3 DEF e
  <2> QED
    BY <2>2, <2>3 DEF InStep, e
<1>7. CASE d.err = "none"
  <2>1. e = IF t \notin known
            THEN [at |-> SectionEnd, seen |-> seen \cup {t}, err |-> "none", spec |-> d.spec]
            ELSE [at |-> SectionEnd, seen |-> seen \cup {t}, err |-> r.err,
                  spec |-> [d.spec EXCEPT ![t] = r.val]]
    BY <1>1, <1>3, <1>5, <1>7, AbiTurn
  <2>2. t \in known => /\ r.err = "none" => q.err = "none" /\ q.val = Sees(t, r.val)
                       /\ q.err = "none" => r.err \in {"none", "TooLarge", "Utf8"}
    BY <1>2, <1>4, SectionAgree
  <2>3. d.spec \in DecodedSpecs /\ out \in DecodedSpecs
    BY <1>3 DEF AbiStates, Decoding
  <2> HIDE DEF d, e, t, p, r, q
  <2>4. known = KernelTags => e.err \in {"none", "TooLarge", "Utf8"}
    BY <1>1, <2>1, <2>2
  <2>5. ASSUME e.err = "none"
        PROVE  /\ e.at = pos' /\ e.seen = seen'
               /\ \A u \in KernelTags : out'[u] = Sees(u, e.spec[u])
    <3>1. e.at = pos' /\ e.seen = seen'
      BY <1>1, <2>1
    <3>2. ASSUME NEW u \in KernelTags
          PROVE  out'[u] = Sees(u, e.spec[u])
      <4>1. u \in Tags /\ out[u] = Sees(u, d.spec[u])
        BY <1>5, <1>7, KnownTags
      <4>2. CASE t \notin known
        <5>1. e.spec = d.spec /\ out' = out
          BY <1>1, <1>2, <2>1, <4>2
        <5> QED
          BY <4>1, <5>1
      <4>3. CASE t \in known /\ u # t
        <5>1. e.spec = [d.spec EXCEPT ![t] = r.val]
          BY <2>1, <4>3
        <5>2. e.spec[u] = d.spec[u] /\ out'[u] = out[u]
          BY <1>1, <2>3, <4>1, <4>3, <5>1 DEF DecodedSpecs
        <5> QED
          BY <4>1, <5>2
      <4>4. CASE t \in known /\ u = t
        <5>1. e.spec = [d.spec EXCEPT ![t] = r.val] /\ r.err = "none"
          BY <2>1, <2>5, <4>4
        <5>2. e.spec[u] = r.val /\ out'[u] = q.val
          BY <1>1, <2>3, <4>1, <4>4, <5>1 DEF DecodedSpecs
        <5> QED
          BY <2>2, <4>4, <5>1, <5>2
      <4> QED
        BY <4>2, <4>3, <4>4
    <3> QED
      BY <3>1, <3>2
  <2>6. AbiRun(buf', known)[Turns'] = e
    BY <1>1, <1>3 DEF e
  <2> QED
    BY <2>4, <2>5, <2>6 DEF InStep, e
<1> QED
  BY <1>6, <1>7

\* Everything the comparison of the two decoders needs.
DecoderInv ==
    /\ buf \in Seq(Nat)
    /\ pc \in {"config", "encode", "wire", "ioctl"} => seen = {} /\ out = DefaultSpec
    /\ pc = "section" => Decoding
    /\ NoLooser
    /\ DecodersAgree

\* A cut list is empty only if it was.
LEMMA SeesEmpty ==
    ASSUME NEW t \in Tags, NEW s \in DecodedSpecs
    PROVE  Sees(t, s[t]) = <<>> <=> s[t] = <<>>
<1>1. CASE t \in Lists
  <2>1. s[t] \in Seq(Seq(Val))
    BY <1>1 DEF DecodedSpecs
  <2> QED
    BY <1>1, <2>1, KeptType DEF Sees
<1>2. CASE t \notin Lists
  BY <1>2 DEF Sees
<1> QED
  BY <1>1, <1>2

\* The module knows the two sections it cannot do without.
LEMMA Required == ROOTFS \in KernelTags /\ ARGV \in KernelTags
  BY DEF KernelTags, Tags, Strings, Lists, StrVecs, ROOTFS, HOSTNAME, ARGV, ENV, MASKEDPATHS,
         ROPATHS, SYSCTLS, UIDMAPS, GIDMAPS, RLIMITS, MOUNTS

\* The two loops start in step, and a header that decode takes within the
\* module's size is taken by the module.
LEMMA HeaderDecoders ==
    ASSUME DecoderInv, KernelHeader
    PROVE  DecoderInv'
<1>1. buf \in Seq(Nat) /\ buf' = buf /\ seen = {} /\ seen' = {} /\ out = DefaultSpec /\ out' = out
  BY DEF DecoderInv, KernelHeader
<1>2. Len(buf) \in Nat /\ KernelMaxSpec \in Nat
  BY <1>1, CodecAssumption
<1>3. CASE pc' = "section"
  <2>1. /\ Len(buf) \in 4 .. KernelMaxSpec /\ buf[1] = MAGIC /\ buf[2] = ABIVERSION
        /\ pos' = 4 /\ left' = buf[4]
    BY <1>2, <1>3 DEF KernelHeader
  <2>2. buf[4] \in Nat /\ Turns' = 0 /\ left' \in 0 .. buf[4] /\ pos' \in 4 .. Len(buf)
    <3>1. buf[4] \in Nat
      BY <1>1, <2>1
    <3> QED
      BY <1>1, <1>2, <2>1, <3>1 DEF Turns
  <2>3. ASSUME NEW known \in {KernelTags, Tags}
        PROVE  InStep(known)' /\ AbiRun(buf, known)[0].err = "none"
    <3>1. AbiRun(buf, known)[0] = [at |-> 4, seen |-> {}, err |-> "none", spec |-> DefaultSpec]
      <4>1. Len(buf) >= 4 /\ known \in SUBSET Tags
        BY <1>2, <2>1, KnownTags
      <4> QED
        BY <1>1, <4>1, AbiRunSteps
    <3>2. ASSUME NEW t \in KernelTags
          PROVE  DefaultSpec[t] = Sees(t, DefaultSpec[t])
      <4>1. t \in Tags /\ DefaultSpec \in DecodedSpecs
        BY KnownTags, DefaultType
      <4>2. CASE t \in Lists
        <5>1. DefaultSpec[t] = <<>>
          BY <4>1, <4>2, DefaultType DEF DefaultSpec
        <5> QED
          BY <4>1, <5>1, SeesEmpty
      <4>3. CASE t \notin Lists
        BY <4>3 DEF Sees
      <4> QED
        BY <4>2, <4>3
    <3> QED
      BY <1>1, <2>1, <2>2, <3>1, <3>2 DEF InStep
  <2>4. Decoding'
    BY <1>1, <2>1, <2>2, <2>3, DefaultType DEF Decoding
  <2> QED
    BY <1>1, <1>3, <2>4 DEF DecoderInv, NoLooser, DecodersAgree
<1>4. CASE pc' = "EINVAL"
  <2>1. ~(/\ Len(buf) <= KernelMaxSpec /\ Len(buf) >= 4 /\ buf[1] = MAGIC /\ buf[2] = ABIVERSION
          /\ buf[4] <= KernelMaxSpec \div 2)
    BY <1>4 DEF KernelHeader
  <2>2. ASSUME Decode(buf).err = "none"
        PROVE  Len(buf) > KernelMaxSpec
    <3>1. /\ Len(buf) >= 4 /\ buf[1] = MAGIC /\ buf[2] = ABIVERSION
          /\ AbiSections(buf, Tags).err = "none" /\ AbiSections(buf, Tags).at = Len(buf)
      BY <1>1, <2>2, KnownTags, DecodeNone DEF Decode
    <3>2. buf[4] \in Nat /\ AbiSections(buf, Tags) = AbiRun(buf, Tags)[buf[4]]
      BY <1>1, <3>1, KnownTags, AbiRunSteps
    <3>3. Len(buf) >= 4 + 2 * buf[4]
      <4>1. buf[4] \in 0 .. buf[4] /\ Tags \in SUBSET Tags
        BY <3>2, KnownTags
      <4> QED
        BY <1>1, <3>1, <3>2, <4>1, AbiAdvance
    <3> DEFINE n == buf[4]
    <3>4. n \in Nat /\ Len(buf) >= 4 + 2 * n /\ (Len(buf) > KernelMaxSpec \/ ~(n <= KernelMaxSpec \div 2))
      BY <1>2, <2>1, <3>1, <3>2, <3>3
    <3> HIDE DEF n
    <3> QED
      BY <1>2, <3>4
  <2> QED
    BY <1>1, <1>4, <2>2 DEF DecoderInv, NoLooser, DecodersAgree
<1> QED
  BY <1>3, <1>4 DEF KernelHeader

\* A turn of decode_spec's loop is a turn of decode's, or both stop.
LEMMA SectionDecoders ==
    ASSUME DecoderInv, KernelSection
    PROVE  DecoderInv'
<1>1. buf \in Seq(Nat) /\ buf' = buf /\ pc = "section" /\ Decoding /\ left > 0
  BY DEF DecoderInv, KernelSection, SectionTurn
<1> DEFINE t == buf[pos + 1]
           p == SubSeq(buf, pos + 3, SectionEnd)
           Accepts == /\ SectionFits
                      /\ t \notin {u \in seen : u < 64}
                      /\ t \in KernelTags => ReadSection("kernel", t, p).err = "none"
<1>2. CASE Accepts
  <2>1. /\ pc' = "section" /\ pos' = SectionEnd /\ left' = left - 1 /\ seen' = seen \cup {t}
        /\ out' = IF t \in KernelTags THEN [out EXCEPT ![t] = ReadSection("kernel", t, p).val] ELSE out
    BY <1>1, <1>2 DEF KernelSection, SectionTurn, SectionRead
  <2>2. /\ Len(buf) \in 4 .. KernelMaxSpec /\ buf[1] = MAGIC /\ buf[2] = ABIVERSION
        /\ left \in 0 .. buf[4] /\ pos \in 4 .. Len(buf) /\ seen \subseteq Nat /\ out \in DecodedSpecs
    BY <1>1 DEF Decoding
  <2>3. t \in Nat /\ SectionEnd \in pos .. Len(buf) /\ p \in Seq(Nat)
    BY <1>1, <1>2, <2>2, SectionCells
  <2>4. left' \in 0 .. buf[4] /\ pos' \in 4 .. Len(buf) /\ seen' \subseteq Nat
    <3>1. left' \in 0 .. buf[4]
      <4> DEFINE n == buf[4]
      <4>1. n \in Nat /\ left \in 0 .. n /\ left' = left - 1
        BY <1>1, <2>1, <2>2
      <4> HIDE DEF n
      <4>2. left' \in 0 .. n
        BY <1>1, <4>1
      <4> QED
        BY <4>2 DEF n
    <3>2. pos' \in 4 .. Len(buf)
      BY <2>1, <2>2, <2>3
    <3>3. seen' \subseteq Nat
      BY <2>1, <2>2, <2>3
    <3> QED
      BY <3>1, <3>2, <3>3
  <2>5. out' \in DecodedSpecs
    <3>1. CASE t \in KernelTags
      <4> DEFINE v == ReadSection("kernel", t, p).val
                 V == Seq(Int) \cup Seq(Seq(Val))
                 W == Seq(Seq(Val))
      <4>1. t \in Tags
        BY <3>1, KnownTags
      <4>2. v \in V /\ (t \in Lists => v \in W)
        BY <2>3, <4>1, ReadSectionType
      <4>3. out \in {s \in [Tags -> V] : \A u \in Lists : s[u] \in W} /\ out' = [out EXCEPT ![t] = v]
        BY <2>1, <2>2, <3>1 DEF DecodedSpecs
      <4>4. Lists \subseteq Tags
        BY DEF Tags
      <4> HIDE DEF v, V, W, t
      <4>5. out' \in {s \in [Tags -> V] : \A u \in Lists : s[u] \in W}
        BY <4>1, <4>2, <4>3, <4>4
      <4> QED
        BY <4>5 DEF DecodedSpecs, V, W
    <3>2. CASE t \notin KernelTags
      BY <2>1, <2>2, <3>2
    <3> QED
      BY <3>1, <3>2
  <2>6. InStep(KernelTags)' /\ InStep(Tags)'
    BY <1>1, <2>1, TurnInStep
  <2>7. AbiRun(buf, KernelTags)[Turns + 1].err \in {"none", "TooLarge", "Utf8"}
    BY <1>1, <2>1, TurnInStep
  <2>8. Turns' = Turns + 1
    <3> DEFINE n == buf[4]
    <3>1. n \in Nat /\ left \in 0 .. n /\ Turns = n - left /\ Turns' = n - (left - 1)
      BY <1>1, <2>1, <2>2 DEF Turns
    <3> HIDE DEF n
    <3> QED
      BY <3>1
  <2>9. Decoding'
    BY <1>1, <2>2, <2>4, <2>5, <2>6, <2>7, <2>8 DEF Decoding
  <2> QED
    BY <1>1, <2>1, <2>9 DEF DecoderInv, NoLooser, DecodersAgree
<1>3. CASE ~Accepts
  <2>1. pc' = "EINVAL"
    BY <1>1, <1>3 DEF KernelSection, SectionTurn, SectionRead
  <2>2. ASSUME Decode(buf).err = "none"
        PROVE  FALSE
    <3> DEFINE d == AbiRun(buf, Tags)[Turns]
               e == AbiRun(buf, Tags)[Turns + 1]
               r == ReadSection("abi", t, p)
               next == pos + 2 + buf[pos + 2]
    <3>1. /\ buf[4] \in Nat /\ Turns \in 0 .. buf[4] /\ Turns + 1 \in 1 .. buf[4]
          /\ d \in AbiStates(buf) /\ e = AbiSection(d, buf, Tags)
      BY <1>1, KnownTags, AbiHere
    <3>2. Len(buf) >= 4 /\ AbiRun(buf, Tags)[buf[4]].err = "none"
      BY <1>1, <2>2, KnownTags, DecodeNone, AbiRunSteps DEF Decode
    <3>3. d.err = "none"
      BY <1>1, <3>1, <3>2, KnownTags, AbiSticky
    <3>4. e.err = "none"
      <4>1. Turns + 1 \in 0 .. buf[4]
        BY <3>1
      <4> QED
        BY <1>1, <3>2, <4>1, KnownTags, AbiSticky
    <3>5. d.at = pos /\ d.seen = seen
      BY <1>1, <3>3 DEF Decoding, InStep
    <3>6. pos \in 4 .. Len(buf)
      BY <1>1 DEF Decoding
    <3>7. e = IF pos + 2 > Len(buf) THEN [d EXCEPT !.err = "Truncated"]
              ELSE IF next > Len(buf) THEN [d EXCEPT !.err = "Truncated"]
              ELSE IF t < 64 /\ t \in seen THEN [d EXCEPT !.err = "Duplicate"]
              ELSE AbiSection(d, buf, Tags)
      BY <3>1, <3>3, <3>5 DEF AbiSection
    <3>8. d = [at |-> d.at, seen |-> d.seen, err |-> d.err, spec |-> d.spec]
      BY <3>1 DEF AbiStates
    <3>9. ~(pos + 2 > Len(buf)) /\ ~(next > Len(buf)) /\ ~(t < 64 /\ t \in seen)
      <4> HIDE DEF d, e, t, next
      <4> QED
        BY <3>4, <3>7, <3>8
    <3>10. SectionFits
      <4>1. pos + 2 \in 1 .. Len(buf) /\ Len(buf) \in Nat /\ pos \in Nat
        BY <1>1, <3>6, <3>9
      <4>2. buf[pos + 2] \in Nat
        BY <1>1, <4>1
      <4> DEFINE x == buf[pos + 2]
      <4>3. x \in Nat /\ ~(pos + 2 + x > Len(buf))
        BY <3>9, <4>2
      <4> HIDE DEF x
      <4>4. pos + 2 <= Len(buf) /\ pos + 2 + x <= Len(buf)
        BY <4>1, <4>3
      <4> QED
        BY <4>4 DEF SectionFits, SectionEnd, x
    <3>11. e = IF t \notin Tags
               THEN [at |-> SectionEnd, seen |-> seen \cup {t}, err |-> "none", spec |-> d.spec]
               ELSE [at |-> SectionEnd, seen |-> seen \cup {t}, err |-> r.err,
                     spec |-> [d.spec EXCEPT ![t] = r.val]]
      <4> HIDE DEF d
      <4>1. /\ d \in AbiStates(buf) /\ d.err = "none" /\ d.at = pos /\ d.seen = seen
            /\ ~(buf[pos + 1] < 64 /\ buf[pos + 1] \in seen)
        BY <3>1, <3>3, <3>5, <3>9
      <4>2. AbiSection(d, buf, Tags) =
                IF t \notin Tags
                THEN [at |-> SectionEnd, seen |-> seen \cup {t}, err |-> "none", spec |-> d.spec]
                ELSE [at |-> SectionEnd, seen |-> seen \cup {t}, err |-> r.err,
                      spec |-> [d.spec EXCEPT ![t] = r.val]]
        BY <1>1, <3>6, <3>10, <4>1, AbiTurn
      <4> QED
        BY <3>1, <4>2
    <3>12. t \in Tags => r.err = "none"
      <4> HIDE DEF d, e, t, r
      <4> QED
        BY <3>4, <3>11
    <3>13. p \in Seq(Nat)
      BY <1>1, <3>6, <3>10, SectionCells
    <3>14. t \in KernelTags => ReadSection("kernel", t, p).err = "none"
      BY <3>12, <3>13, KnownTags, SectionAgree
    <3> QED
      BY <1>3, <3>9, <3>10, <3>14
  <2> QED
    BY <1>1, <2>1, <2>2 DEF DecoderInv, NoLooser, DecodersAgree
<1> QED
  BY <1>2, <1>3

\* At the end of the sections the two decoders have read the same.
LEMMA EndDecoders ==
    ASSUME DecoderInv, KernelEnd
    PROVE  DecoderInv'
<1>1. /\ buf \in Seq(Nat) /\ buf' = buf /\ out' = out /\ pc = "section" /\ Decoding /\ left = 0
      /\ pc' = IF pos = Len(buf) /\ out[ROOTFS] # <<>> /\ out[ARGV] # <<>> THEN "spawn" ELSE "EINVAL"
  BY DEF DecoderInv, KernelEnd
<1>2. /\ Len(buf) \in Nat /\ Len(buf) >= 4 /\ buf[1] = MAGIC /\ buf[2] = ABIVERSION
      /\ buf[4] \in Nat /\ Turns = buf[4]
  <2>1. Len(buf) \in 4 .. KernelMaxSpec /\ buf[1] = MAGIC /\ buf[2] = ABIVERSION /\ KernelMaxSpec \in Nat
    BY <1>1, CodecAssumption DEF Decoding
  <2>2. Len(buf) \in Nat /\ Len(buf) >= 4
    BY <2>1
  <2>3. buf[4] \in Nat
    BY <1>1, <2>2
  <2>4. Turns = buf[4]
    BY <1>1, <2>3 DEF Turns
  <2> QED
    BY <2>1, <2>2, <2>3, <2>4
<1>3. ASSUME NEW known \in {KernelTags, Tags}
      PROVE  /\ AbiSections(buf, known) = AbiRun(buf, known)[buf[4]]
             /\ AbiSections(buf, known) \in AbiStates(buf)
             /\ AbiSections(buf, known).err = "none" =>
                   /\ AbiSections(buf, known).at = pos
                   /\ \A t \in KernelTags : out[t] = Sees(t, AbiSections(buf, known).spec[t])
                   /\ \A t \in {ROOTFS, ARGV} :
                         out[t] = <<>> <=> AbiSections(buf, known).spec[t] = <<>>
  <2> DEFINE d == AbiSections(buf, known)
  <2>1. d = AbiRun(buf, known)[buf[4]] /\ d \in AbiStates(buf)
    <3>1. buf[4] \in 0 .. buf[4]
      BY <1>2
    <3> QED
      BY <1>1, <1>2, <3>1, KnownTags, AbiRunSteps
  <2>2. d.err = "none" => d.at = pos /\ \A t \in KernelTags : out[t] = Sees(t, d.spec[t])
    BY <1>1, <1>2, <2>1 DEF Decoding, InStep
  <2>3. d.spec \in DecodedSpecs
    BY <2>1 DEF AbiStates
  <2> HIDE DEF d
  <2>4. ASSUME d.err = "none", NEW t \in {ROOTFS, ARGV}
        PROVE  out[t] = <<>> <=> d.spec[t] = <<>>
    BY <2>2, <2>3, <2>4, Required, KnownTags, SeesEmpty
  <2> QED
    BY <2>1, <2>2, <2>4 DEF d
<1>4. CASE pc' = "spawn"
  <2>1. pos = Len(buf) /\ out[ROOTFS] # <<>> /\ out[ARGV] # <<>>
    BY <1>1, <1>4
  <2>2. DecodeKnowing(buf, KernelTags).err \in {"none", "TooLarge", "BadOp", "Utf8"}
    <3> DEFINE d == AbiSections(buf, KernelTags)
               e == DecodeKnowing(buf, KernelTags).err
    <3>1. \/ e \in {"none", "TooLarge", "BadOp"}
          \/ d.err # "none" /\ e = d.err
          \/ d.err = "none" /\ d.at # Len(buf)
          \/ d.err = "none" /\ (d.spec[ROOTFS] = <<>> \/ d.spec[ARGV] = <<>>)
      BY <1>1, <1>2, KnownTags, DecodeErrors
    <3>2. d.err \in {"none", "TooLarge", "Utf8"}
      BY <1>1, <1>2, <1>3 DEF Decoding
    <3>3. d.err = "none" => d.at = pos /\ d.spec[ROOTFS] # <<>> /\ d.spec[ARGV] # <<>>
      BY <1>3, <2>1
    <3> HIDE DEF d, e
    <3>4. e \in {"none", "TooLarge", "BadOp", "Utf8"}
      BY <2>1, <3>1, <3>2, <3>3
    <3> QED
      BY <3>4 DEF e
  <2>3. ASSUME Decode(buf).err = "none"
        PROVE  \A t \in KernelTags :
                  out[t] = IF t \in Lists THEN Kept("kernel", t, Decode(buf).spec[t])
                           ELSE Decode(buf).spec[t]
    <3>1. /\ AbiSections(buf, Tags).err = "none"
          /\ Decode(buf).spec = AbiSections(buf, Tags).spec
      BY <1>1, <2>3, KnownTags, DecodeNone DEF Decode
    <3> QED
      BY <1>3, <3>1 DEF Sees
  <2> QED
    BY <1>1, <1>4, <2>2, <2>3 DEF DecoderInv, NoLooser, DecodersAgree
<1>5. CASE pc' = "EINVAL"
  <2>1. ASSUME Decode(buf).err = "none"
        PROVE  ~Named(Received(Decode(buf).spec))
    <3> DEFINE s == AbiSections(buf, Tags).spec
    <3>1. /\ AbiSections(buf, Tags).err = "none" /\ AbiSections(buf, Tags).at = Len(buf)
          /\ Decode(buf).spec = s
      BY <1>1, <2>1, KnownTags, DecodeNone DEF Decode
    <3>2. pos = Len(buf) /\ \A t \in {ROOTFS, ARGV} : out[t] = <<>> <=> s[t] = <<>>
      BY <1>3, <3>1
    <3>3. out[ROOTFS] = <<>> \/ out[ARGV] = <<>>
      BY <1>1, <1>5, <3>2
    <3>4. s[ROOTFS] = <<>> \/ s[ARGV] = <<>>
      BY <3>2, <3>3
    <3> HIDE DEF s
    <3>5. Received(s)[ROOTFS] = s[ROOTFS] /\ Received(s)[ARGV] = s[ARGV]
      BY Required, KnownTags DEF Received
    <3> QED
      BY <3>1, <3>4, <3>5 DEF Named
  <2> QED
    BY <1>1, <1>5, <2>1 DEF DecoderInv, NoLooser, DecodersAgree
<1> QED
  BY <1>1, <1>4, <1>5

\* A damaged buffer is a buffer.
LEMMA DamagedType ==
    ASSUME buf \in Seq(Nat), NEW b \in Damaged
    PROVE  b \in Seq(Nat)
<1>1. Cells \subseteq Nat
  BY CodecAssumption
<1>2. ASSUME NEW k \in DOMAIN buf, NEW c \in Cells, b = [buf EXCEPT ![k] = c]
      PROVE  b \in Seq(Nat)
  BY <1>1, <1>2
<1>3. ASSUME NEW k \in 0 .. Len(buf), b = SubSeq(buf, 1, k)
      PROVE  b \in Seq(Nat)
  BY <1>3
<1>4. ASSUME NEW c \in Cells, b = Append(buf, c)
      PROVE  b \in Seq(Nat)
  BY <1>1, <1>4
<1> QED
  BY <1>2, <1>3, <1>4 DEF Damaged

\* Every step of the codec keeps the two decoders comparable.
LEMMA CodecDecoders ==
    ASSUME DecoderInv, CodecNext, pc = "encode" => Encode(spec) \in Seq(Nat)
    PROVE  DecoderInv'
<1>1. CASE EncodeSpec
  BY <1>1 DEF EncodeSpec, DecoderInv, NoLooser, DecodersAgree
<1>2. CASE Deliver
  <2>1. buf' \in Seq(Nat)
    BY <1>2, DamagedType DEF Deliver, DecoderInv
  <2> QED
    BY <1>2, <2>1 DEF Deliver, DecoderInv, NoLooser, DecodersAgree
<1>3. CASE KernelNoMemory
  BY <1>3 DEF KernelNoMemory, DecoderInv, NoLooser, DecodersAgree
<1> QED
  BY <1>1, <1>2, <1>3, HeaderDecoders, SectionDecoders, EndDecoders DEF CodecNext

-----------------------------------------------------------------------------
(* What encode writes, read back.                                          *)

\* The entries of list t, and the specs there are: of the types of DomainSpec,
\* with no capability set but with the bounding set.
Field(kind) == IF kind = "str" THEN Seq(Nat) ELSE Nat

\* The entries of a list section, and the specs the CLI's types allow: each
\* section has the shape its Rust field has.
Entries(t) ==
    {e \in Seq(Val) : Len(e) = Len(Layout[t]) /\ \A k \in DOMAIN Layout[t] : e[k] \in Field(Layout[t][k])}

Typed(s) ==
    /\ \A t \in Strings : s[t] \in Seq(Nat)
    /\ \A t \in Lists : s[t] \in Seq(Entries(t))
    /\ \A t \in DOMAIN Ints \ {OOMSCOREADJ} : s[t] \in Seq(Nat)
    /\ \A t \in DOMAIN Ints \ Optional : Len(s[t]) = Ints[t]
    /\ \A t \in Optional : Len(s[t]) <= 1
    /\ s[OOMSCOREADJ] \in Seq((-HalfWord) .. (HalfWord - 1))
    /\ s[CAPBOUNDING] = <<>> => s[CAPSETS] = Default(CAPSETS)

\* The parts of an entry and of a list, which WriteEntry and Payload flatten.
Fields(t, e) == [k \in DOMAIN Layout[t] |-> WriteField(Layout[t][k], e[k])]
Written(t, list) == [k \in DOMAIN list |-> WriteEntry(t, list[k])]

\* A field of an entry is a string or an integer.
LEMMA LayoutKinds ==
    ASSUME NEW t \in Lists
    PROVE  /\ Len(Layout[t]) \in Nat /\ DOMAIN Layout[t] = 1 .. Len(Layout[t])
           /\ \A k \in 1 .. Len(Layout[t]) : Layout[t][k] \in {"str", "int"}
<1>1. Layout[t] \in {<<"str">>, <<"str", "str", "str", "int">>, <<"int", "int", "int">>}
  BY DEF Layout
<1>2. CASE Layout[t] = <<"str">>
  BY <1>2
<1>3. CASE Layout[t] = <<"str", "str", "str", "int">>
  BY <1>3
<1>4. CASE Layout[t] = <<"int", "int", "int">>
  BY <1>4
<1> QED
  BY <1>1, <1>2, <1>3, <1>4

\* A written field is a run of cells.
LEMMA WriteFieldType ==
    ASSUME NEW kind \in {"str", "int"}, NEW v \in Field(kind)
    PROVE  WriteField(kind, v) \in Seq(Nat)
<1>1. CASE kind = "str"
  BY <1>1 DEF WriteField, Field
<1>2. CASE kind = "int"
  BY <1>2 DEF WriteField, Field
<1> QED
  BY <1>1, <1>2

\* A written entry is its fields laid end to end.
LEMMA FieldsType ==
    ASSUME NEW t \in Lists, NEW e \in Entries(t)
    PROVE  /\ Fields(t, e) \in Seq(Seq(Nat)) /\ Len(Fields(t, e)) = Len(Layout[t])
           /\ \A k \in 1 .. Len(Layout[t]) : Fields(t, e)[k] = WriteField(Layout[t][k], e[k])
           /\ WriteEntry(t, e) = FlattenSeq(Fields(t, e)) /\ WriteEntry(t, e) \in Seq(Nat)
<1>1. \A k \in 1 .. Len(Layout[t]) : WriteField(Layout[t][k], e[k]) \in Seq(Nat)
  BY LayoutKinds, WriteFieldType DEF Entries
<1>2. Fields(t, e) \in Seq(Seq(Nat)) /\ Len(Fields(t, e)) = Len(Layout[t])
  <2> DEFINE n == Len(Layout[t])
             S == Seq(Nat)
             w(k) == WriteField(Layout[t][k], e[k])
  <2>1. n \in Nat /\ Fields(t, e) = [k \in 1 .. n |-> w(k)]
    BY LayoutKinds DEF Fields
  <2>2. \A k \in 1 .. n : w(k) \in S
    BY <1>1
  <2> HIDE DEF n, S, w
  <2>3. [k \in 1 .. n |-> w(k)] \in Seq(S) /\ Len([k \in 1 .. n |-> w(k)]) = n
    BY <2>1, <2>2
  <2> QED
    BY <2>1, <2>3 DEF n, S
<1>3. WriteEntry(t, e) = FlattenSeq(Fields(t, e))
  BY DEF WriteEntry, Fields
<1>4. FlattenSeq(Fields(t, e)) \in Seq(Nat)
  BY <1>2, Flatten
<1>5. \A k \in 1 .. Len(Layout[t]) : Fields(t, e)[k] = WriteField(Layout[t][k], e[k])
  BY LayoutKinds DEF Fields
<1> QED
  BY <1>2, <1>3, <1>4, <1>5

\* A written list is its entries laid end to end.
LEMMA WrittenType ==
    ASSUME NEW t \in Lists, NEW list \in Seq(Entries(t))
    PROVE  /\ Written(t, list) \in Seq(Seq(Nat)) /\ Len(Written(t, list)) = Len(list)
           /\ \A k \in 1 .. Len(list) : Written(t, list)[k] = WriteEntry(t, list[k])
           /\ FlattenSeq(Written(t, list)) \in Seq(Nat)
<1> DEFINE n == Len(list)
           S == Seq(Nat)
           E == Entries(t)
           w(k) == WriteEntry(t, list[k])
<1>1. \A e \in E : WriteEntry(t, e) \in S
  BY FieldsType
<1>2. n \in Nat /\ DOMAIN list = 1 .. n /\ \A k \in 1 .. n : list[k] \in E
  OBVIOUS
<1>3. Written(t, list) = [k \in 1 .. n |-> w(k)] /\ \A k \in 1 .. n : w(k) \in S
  BY <1>1, <1>2 DEF Written
<1> HIDE DEF n, S, w
<1>4. [k \in 1 .. n |-> w(k)] \in Seq(S) /\ Len([k \in 1 .. n |-> w(k)]) = n
  BY <1>2, <1>3
<1>5. \A k \in 1 .. n : Written(t, list)[k] = w(k)
  BY <1>3
<1>6. Written(t, list) \in Seq(Seq(Nat))
  BY <1>3, <1>4 DEF S
<1> QED
  BY <1>3, <1>4, <1>5, <1>6, Flatten DEF n, w

\* A field that is where the cursor is.
LEMMA FieldReadBack ==
    ASSUME NEW p \in Seq(Nat), NEW a \in Nat, NEW vs, NEW kind \in {"str", "int"},
           NEW v \in Field(kind), kind = "str" => Len(v) <= MaxStr,
           a + Len(WriteField(kind, v)) <= Len(p),
           \A i \in 1 .. Len(WriteField(kind, v)) : p[a + i] = WriteField(kind, v)[i]
    PROVE  ReadField("kernel", [at |-> a, vals |-> vs, err |-> "none"], p, kind) =
               [at |-> a + Len(WriteField(kind, v)), vals |-> Append(vs, v), err |-> "none"]
<1> DEFINE c == [at |-> a, vals |-> vs, err |-> "none"]
           w == WriteField(kind, v)
<1>1. c.at = a /\ c.vals = vs /\ c.err = "none" /\ Len(p) \in Nat
  OBVIOUS
<1>2. CASE kind = "int"
  <2>1. w = <<v>> /\ Len(w) = 1 /\ w[1] = v
    BY <1>2 DEF WriteField
  <2>2. p[a + 1] = v /\ a # Len(p) /\ a + Len(w) = a + 1
    BY <1>1, <2>1
  <2> HIDE DEF w
  <2>3. ReadField("kernel", c, p, kind) = [c EXCEPT !.at = @ + 1, !.vals = Append(@, p[a + 1])]
    BY <1>1, <1>2, <2>2 DEF ReadField
  <2> QED
    BY <2>2, <2>3 DEF w
<1>3. CASE kind = "str"
  <2> DEFINE n == Len(v)
             s == SubSeq(p, a + 2, a + 1 + n)
  <2>1. v \in Seq(Nat) /\ n \in Nat /\ w = <<n>> \o v /\ n <= MaxStr
    BY <1>3 DEF Field, WriteField
  <2>2. Len(w) = n + 1 /\ w[1] = n /\ \A i \in 1 .. n : w[i + 1] = v[i]
    <3>1. <<n>> \in Seq(Nat) /\ Len(<<n>>) = 1 /\ <<n>>[1] = n
      BY <2>1
    <3>2. /\ Len(<<n>> \o v) = Len(<<n>>) + Len(v)
          /\ \A i \in 1 .. Len(<<n>>) : (<<n>> \o v)[i] = <<n>>[i]
          /\ \A i \in 1 .. Len(v) : (<<n>> \o v)[Len(<<n>>) + i] = v[i]
      BY <2>1, <3>1, ConcatCells
    <3> HIDE DEF w
    <3>3. Len(w) = 1 + n /\ w[1] = n /\ \A i \in 1 .. n : w[1 + i] = v[i]
      BY <2>1, <3>1, <3>2
    <3> HIDE DEF n
    <3>4. 1 + n = n + 1 /\ \A i \in 1 .. n : 1 + i = i + 1
      BY <2>1
    <3> QED
      BY <3>3, <3>4
  <2>3. p[a + 1] = n
    BY <2>1, <2>2
  <2>4. a # Len(p) /\ ~(n > MaxStr) /\ ~(a + 1 + n > Len(p)) /\ a + Len(w) = a + 1 + n
    <3> HIDE DEF w, n
    <3>1. a + (n + 1) <= Len(p)
      BY <2>2 DEF w
    <3>2. MaxStr \in Nat
      BY CodecAssumption
    <3> QED
      BY <1>1, <2>1, <2>2, <3>1, <3>2
  <2>5. s = v
    <3>1. \A i \in 1 .. n : p[a + 1 + i] = v[i]
      <4> SUFFICES ASSUME NEW i \in 1 .. n PROVE p[a + 1 + i] = v[i]
        OBVIOUS
      <4> HIDE DEF n, w
      <4>1. i + 1 \in 1 .. Len(w) /\ a + (i + 1) = a + 1 + i
        <5>1. n \in Nat /\ Len(w) = n + 1
          BY <2>1, <2>2
        <5> QED
          BY <5>1
      <4>2. p[a + (i + 1)] = w[i + 1]
        BY <4>1 DEF w
      <4> QED
        BY <2>2, <4>1, <4>2
    <3> HIDE DEF n, w
    <3>2. a + 1 \in Nat /\ a + 2 = a + 1 + 1 /\ a + 1 + n = a + 1 + Len(v) /\ a + 1 + Len(v) <= Len(p)
      <4>1. n = Len(v)
        BY DEF n
      <4>2. a + 1 \in Nat /\ a + 2 = a + 1 + 1 /\ a + 1 + n <= Len(p)
        BY <1>1, <2>1, <2>4, SMTT(30)
      <4> QED
        BY <4>1, <4>2
    <3>3. \A i \in 1 .. Len(v) : p[a + 1 + i] = v[i]
      BY <3>1 DEF n
    <3> DEFINE b == a + 1
               lo == a + 2
               hi == a + 1 + n
    <3>4. b \in Nat /\ lo = b + 1 /\ hi = b + Len(v) /\ b + Len(v) <= Len(p)
      BY <3>2
    <3>5. p \in Seq(Nat) /\ v \in Seq(Nat)
      BY <2>1
    <3>6. \A i \in 1 .. Len(v) : p[b + i] = v[i]
      BY <3>3
    <3> HIDE DEF b, lo, hi
    <3>7. Stands(v, p, b, lo, hi)
      BY <3>4, <3>5, <3>6 DEF Stands
    <3>8. SubSeq(p, lo, hi) = v
      BY <3>7, SubSeqIs, Zenon
    <3> QED
      BY <3>8 DEF lo, hi
  <2>6. StringError("kernel", s) = "none"
    BY DEF StringError
  <2>7. ReadField("kernel", c, p, kind) =
            [at |-> a + 1 + n, vals |-> Append(vs, s), err |-> StringError("kernel", s)]
    <3> HIDE DEF n
    <3> QED
      BY <1>1, <1>3, <2>3, <2>4 DEF ReadField
  <2> HIDE DEF s, n, w
  <2> QED
    BY <2>4, <2>5, <2>6, <2>7 DEF w
<1> QED
  BY <1>2, <1>3

\* A string that is too long is an error where it is met.
LEMMA FieldTooLong ==
    ASSUME NEW p \in Seq(Nat), NEW a \in Nat, NEW vs, NEW v \in Seq(Nat), ~(Len(v) <= MaxStr),
           a + Len(WriteField("str", v)) <= Len(p),
           \A i \in 1 .. Len(WriteField("str", v)) : p[a + i] = WriteField("str", v)[i]
    PROVE  ReadField("kernel", [at |-> a, vals |-> vs, err |-> "none"], p, "str").err # "none"
<1> DEFINE c == [at |-> a, vals |-> vs, err |-> "none"]
           n == Len(v)
           w == WriteField("str", v)
<1>1. c.at = a /\ c.err = "none" /\ Len(p) \in Nat /\ n \in Nat
  OBVIOUS
<1>2. w = <<n>> \o v
  BY DEF WriteField
<1>3. Len(w) = 1 + n /\ w[1] = n
  <2>1. <<n>> \in Seq(Nat) /\ Len(<<n>>) = 1 /\ <<n>>[1] = n
    BY <1>1
  <2>2. /\ Len(<<n>> \o v) = Len(<<n>>) + Len(v)
        /\ \A i \in 1 .. Len(<<n>>) : (<<n>> \o v)[i] = <<n>>[i]
    BY <2>1, ConcatCells
  <2> HIDE DEF w
  <2> QED
    BY <1>2, <2>1, <2>2
<1>4. a + Len(w) <= Len(p) /\ \A i \in 1 .. Len(w) : p[a + i] = w[i]
  OBVIOUS
<1>5. ~(n <= MaxStr) /\ MaxStr \in Nat
  BY CodecAssumption
<1> HIDE DEF w, n
<1>6. 1 \in 1 .. Len(w)
  BY <1>1, <1>3
<1>7. p[a + 1] = n
  BY <1>3, <1>4, <1>6
<1>8. a # Len(p) /\ n > MaxStr
  BY <1>1, <1>3, <1>4, <1>5
<1>9. ReadField("kernel", c, p, "str") = [c EXCEPT !.err = "TooLarge"]
  BY <1>1, <1>7, <1>8 DEF ReadField
<1> QED
  BY <1>9

\* The strings of an entry and of a list are within the limit.
Short(t, e) == \A f \in DOMAIN Layout[t] : Layout[t][f] = "str" => Len(e[f]) <= MaxStr

\* No string of the list is too long for the module.
AllShort(t, list) == \A k \in DOMAIN list : Short(t, list[k])

\* An entry that is where the cursor is: read as written, or refused for a
\* string that is too long.
LEMMA EntryReadBack ==
    ASSUME NEW p \in Seq(Nat), NEW start \in Nat, NEW t \in Lists, NEW e \in Entries(t),
           start + Len(WriteEntry(t, e)) <= Len(p),
           \A i \in 1 .. Len(WriteEntry(t, e)) : p[start + i] = WriteEntry(t, e)[i]
    PROVE  \/ ReadEntry("kernel", p, start, Layout[t]) =
                  [at |-> start + Len(WriteEntry(t, e)), vals |-> e, err |-> "none"]
           \/ ReadEntry("kernel", p, start, Layout[t]).err # "none" /\ ~Short(t, e)
<1> DEFINE n == Len(Layout[t])
           w == Fields(t, e)
           at == Offsets(w)
           whole == WriteEntry(t, e)
<1>1. n \in Nat /\ DOMAIN Layout[t] = 1 .. n /\ \A k \in 1 .. n : Layout[t][k] \in {"str", "int"}
  BY LayoutKinds
<1>2. /\ w \in Seq(Seq(Nat)) /\ Len(w) = n /\ whole = FlattenSeq(w) /\ whole \in Seq(Nat)
      /\ \A k \in 1 .. n : w[k] = WriteField(Layout[t][k], e[k])
  BY FieldsType
<1>3. e \in Seq(Val) /\ Len(e) = n /\ \A k \in 1 .. n : e[k] \in Field(Layout[t][k])
  BY <1>1 DEF Entries
<1>4. /\ at[0] = 0 /\ Len(whole) = at[n]
      /\ \A k \in 1 .. n : \A i \in 1 .. Len(w[k]) : whole[at[k - 1] + i] = w[k][i]
  <2>1. at[0] = 0
    BY <1>2, OffsetsType
  <2>2. /\ Len(FlattenSeq(w)) = at[Len(w)]
        /\ \A k \in 1 .. Len(w) : \A i \in 1 .. Len(w[k]) : FlattenSeq(w)[at[k - 1] + i] = w[k][i]
    BY <1>2, Flatten
  <2>3. Len(w) = n /\ whole = FlattenSeq(w)
    BY <1>2
  <2> HIDE DEF at, w, n, whole
  <2> QED
    BY <2>1, <2>2, <2>3
<1>5. ASSUME NEW k \in 1 .. n
      PROVE  /\ w[k] \in Seq(Nat) /\ Len(w[k]) \in Nat
             /\ at[k] \in Nat /\ at[k - 1] \in Nat /\ at[k] = at[k - 1] + Len(w[k])
             /\ at[k] <= at[n]
  <2>1. k \in 0 .. n /\ n \in k .. n
    BY <1>1
  <2> QED
    BY <1>2, <2>1, OffsetsStep, OffsetsMonotonic
<1>6. Len(p) \in Nat /\ start \in 0 .. Len(p) /\ start + at[n] <= Len(p) /\ at[n] \in Nat
  <2>1. Len(whole) \in Nat /\ Len(p) \in Nat
    BY <1>2
  <2>2. start + Len(whole) <= Len(p)
    OBVIOUS
  <2> HIDE DEF whole
  <2> QED
    BY <1>4, <2>1, <2>2
<1>7. \A i \in 1 .. at[n] : p[start + i] = whole[i]
  BY <1>4
<1>8. PICK read : EntryRun(read, "kernel", p, start, Layout[t])
  BY <1>1, <1>6, ReadEntryRun
<1>9. /\ read[0] = [at |-> start, vals |-> <<>>, err |-> "none"]
      /\ \A k \in 1 .. n : read[k] = ReadField("kernel", read[k - 1], p, Layout[t][k])
      /\ ReadEntry("kernel", p, start, Layout[t]) = read[n]
  BY <1>8 DEF EntryRun
<1>10. \A k \in 1 .. n : Layout[t][k] = "str" /\ ~(Len(e[k]) <= MaxStr) => ~Short(t, e)
  BY <1>1 DEF Short
<1> HIDE DEF n, w, at, whole
<1> DEFINE Read(k) == [at |-> start + at[k], vals |-> SubSeq(e, 1, k), err |-> "none"]
           P == {k \in 0 .. n : read[k] = Read(k) \/ (read[k].err # "none" /\ ~Short(t, e))}
<1>11. 0 \in P
  <2>1. SubSeq(e, 1, 0) = <<>> /\ start + at[0] = start
    BY <1>3, <1>4
  <2> QED
    BY <1>1, <1>9, <2>1
<1>12. ASSUME NEW k \in 1 .. n, k - 1 \in P
       PROVE  k \in P
  <2>0. CASE read[k - 1].err # "none" /\ ~Short(t, e)
    <3>1. read[k] = read[k - 1]
      BY <1>9, <2>0, FieldSticky
    <3> QED
      BY <1>1, <2>0, <3>1
  <2>20. SUFFICES ASSUME read[k - 1] = Read(k - 1)
         PROVE  read[k] = Read(k) \/ (read[k].err # "none" /\ ~Short(t, e))
    BY <1>1, <1>12, <2>0
  <2> DEFINE a == start + at[k - 1]
             kind == Layout[t][k]
             v == e[k]
             q == SubSeq(e, 1, k - 1)
  <2>1. read[k - 1] = [at |-> a, vals |-> q, err |-> "none"]
    BY <2>20
  <2>2. /\ w[k] \in Seq(Nat) /\ Len(w[k]) \in Nat
        /\ at[k] \in Nat /\ at[k - 1] \in Nat /\ at[k] = at[k - 1] + Len(w[k]) /\ at[k] <= at[n]
    BY <1>5
  <2>3. a \in Nat /\ kind \in {"str", "int"} /\ v \in Field(kind) /\ w[k] = WriteField(kind, v)
    BY <1>1, <1>2, <1>3, <2>2, SMTT(60)
  <2>4. a + Len(w[k]) = start + at[k] /\ a + Len(w[k]) <= Len(p)
    <3> DEFINE b == at[k - 1]
               l == Len(w[k])
               f == at[k]
               m == Len(p)
               y == at[n]
    <3>1. b \in Nat /\ l \in Nat /\ f \in Nat /\ m \in Nat /\ y \in Nat
      BY <1>6, <2>2
    <3>2. f = b + l /\ f <= y /\ start + y <= m /\ a = start + b
      BY <1>6, <2>2
    <3> HIDE DEF b, l, f, m, y, a
    <3>3. a + l = start + f /\ a + l <= m
      BY <3>1, <3>2
    <3> QED
      BY <3>3 DEF l, f, m
  <2>5. ASSUME NEW i \in 1 .. Len(w[k])
        PROVE  p[a + i] = w[k][i]
    <3>1. at[k - 1] + i \in 1 .. at[n]
      BY <1>6, <2>2, InPart
    <3>2. a + i = start + (at[k - 1] + i)
      BY <2>2
    <3>3. p[start + (at[k - 1] + i)] = whole[at[k - 1] + i]
      BY <1>7, <3>1
    <3>4. whole[at[k - 1] + i] = w[k][i]
      BY <1>4
    <3> QED
      BY <3>2, <3>3, <3>4
  <2> HIDE DEF a, kind, v, q
  <2>10. a + Len(WriteField(kind, v)) <= Len(p)
    BY <2>3, <2>4
  <2>11. \A i \in 1 .. Len(WriteField(kind, v)) : p[a + i] = WriteField(kind, v)[i]
    BY <2>3, <2>5
  <2>6. CASE kind = "str" /\ ~(Len(v) <= MaxStr)
    <3>1. v \in Seq(Nat)
      BY <2>3, <2>6 DEF Field
    <3>2. ReadField("kernel", [at |-> a, vals |-> q, err |-> "none"], p, "str").err # "none"
      BY <2>3, <2>6, <2>10, <2>11, <3>1, FieldTooLong
    <3>3. ~Short(t, e)
      BY <1>10, <2>6 DEF kind, v
    <3> QED
      BY <1>9, <2>1, <2>6, <3>2, <3>3 DEF kind
  <2> SUFFICES ASSUME kind = "str" => Len(v) <= MaxStr
               PROVE  read[k] = Read(k)
    BY <2>6
  <2>7. ReadField("kernel", [at |-> a, vals |-> q, err |-> "none"], p, kind) =
            [at |-> a + Len(WriteField(kind, v)), vals |-> Append(q, v), err |-> "none"]
    BY <2>3, <2>10, <2>11, FieldReadBack, ZenonT(30)
  <2>8. Append(q, v) = SubSeq(e, 1, k)
    <3>1. k \in 1 .. Len(e)
      BY <1>3
    <3> QED
      BY <1>3, <3>1, SubSeqAppend DEF q, v
  <2>9. read[k] = Read(k)
    BY <1>9, <2>1, <2>3, <2>4, <2>7, <2>8 DEF kind
  <2> QED
    BY <2>9
<1> HIDE DEF P
<1>13. 0 .. n \subseteq P
  BY <1>1, <1>11, <1>12, Induction
<1>14. read[n] = Read(n) \/ (read[n].err # "none" /\ ~Short(t, e))
  BY <1>1, <1>13, SMTT(30) DEF P
<1>15. SubSeq(e, 1, n) = e
  BY <1>3, SubSeqFull
<1> QED
  BY <1>4, <1>9, <1>14, <1>15 DEF whole

\* A list behind its count.
LEMMA ListReadBack ==
    ASSUME NEW t \in Lists, NEW list \in Seq(Entries(t))
    PROVE  LET p == <<Len(list)>> \o FlattenSeq(Written(t, list))
               r == ReadEntries("kernel", p, Layout[t])
           IN /\ p \in Seq(Nat) /\ p # <<>> /\ p[1] = Len(list)
              /\ \/ r.err = "none" /\ r.list = list
                 \/ r.err # "none" /\ ~AllShort(t, list)
<1> DEFINE n == Len(list)
           w == Written(t, list)
           at == Offsets(w)
           whole == FlattenSeq(w)
           p == <<n>> \o whole
           kinds == Layout[t]
           E == Entries(t)
<1>1. n \in Nat /\ DOMAIN list = 1 .. n /\ \A k \in 1 .. n : list[k] \in E
  OBVIOUS
<1>2. /\ w \in Seq(Seq(Nat)) /\ Len(w) = n /\ whole \in Seq(Nat)
      /\ \A k \in 1 .. n : w[k] = WriteEntry(t, list[k])
  BY WrittenType
<1>3. /\ at[0] = 0 /\ Len(whole) = at[n]
      /\ \A k \in 1 .. n : \A i \in 1 .. Len(w[k]) : whole[at[k - 1] + i] = w[k][i]
  <2>1. at[0] = 0
    BY <1>2, OffsetsType
  <2>2. /\ Len(FlattenSeq(w)) = at[Len(w)]
        /\ \A k \in 1 .. Len(w) : \A i \in 1 .. Len(w[k]) : FlattenSeq(w)[at[k - 1] + i] = w[k][i]
    BY <1>2, Flatten
  <2>3. Len(w) = n /\ whole = FlattenSeq(w)
    BY <1>2
  <2> HIDE DEF at, w, n, whole
  <2> QED
    BY <2>1, <2>2, <2>3
<1>4. /\ p \in Seq(Nat) /\ Len(p) = 1 + at[n] /\ at[n] \in Nat /\ p[1] = n /\ p # <<>>
      /\ \A i \in 1 .. at[n] : p[1 + i] = whole[i]
  <2>1. <<n>> \in Seq(Nat) /\ Len(<<n>>) = 1 /\ <<n>>[1] = n
    BY <1>1
  <2>2. Len(whole) \in Nat
    BY <1>2
  <2>3. /\ p \in Seq(Nat) /\ Len(p) = Len(<<n>>) + Len(whole)
        /\ \A i \in 1 .. Len(<<n>>) : p[i] = <<n>>[i]
        /\ \A i \in 1 .. Len(whole) : p[Len(<<n>>) + i] = whole[i]
    BY <1>2, <2>1, ConcatCells
  <2> HIDE DEF p, whole, n, w, at
  <2>4. Len(p) = 1 + Len(whole) /\ p[1] = n
    BY <2>1, <2>3
  <2>5. p # <<>>
    BY <2>2, <2>3, <2>4
  <2> QED
    BY <1>3, <2>1, <2>2, <2>3, <2>4, <2>5
<1>5. ASSUME NEW k \in 1 .. n
      PROVE  /\ w[k] \in Seq(Nat) /\ Len(w[k]) \in Nat
             /\ at[k] \in Nat /\ at[k - 1] \in Nat /\ at[k] = at[k - 1] + Len(w[k])
             /\ at[k] <= at[n]
  <2>1. k \in 0 .. n /\ n \in k .. n
    BY <1>1
  <2> QED
    BY <1>2, <2>1, OffsetsStep, OffsetsMonotonic
<1>6. Len(kinds) \in Nat
  BY LayoutLen
<1>7. PICK read : ListRun(read, "kernel", p, kinds)
  <2> HIDE DEF p, kinds
  <2> QED
    BY <1>4, <1>6, ReadEntriesRun
<1>8. /\ read[0] = [at |-> 1, list |-> <<>>, err |-> "none"]
      /\ \A k \in 1 .. n : read[k] = NextEntry("kernel", read[k - 1], p, kinds)
      /\ ReadEntries("kernel", p, kinds) = read[n]
  <2> HIDE DEF p
  <2> QED
    BY <1>4, <1>7 DEF ListRun
<1>9. \A k \in 1 .. n : ~Short(t, list[k]) => ~AllShort(t, list)
  BY <1>1 DEF AllShort
<1>10. list \in Seq(E)
  OBVIOUS
<1> HIDE DEF n, w, at, whole, p, E
<1> DEFINE Read(k) == [at |-> 1 + at[k], list |-> SubSeq(list, 1, k), err |-> "none"]
           P == {k \in 0 .. n : read[k] = Read(k) \/ (read[k].err # "none" /\ ~AllShort(t, list))}
<1>11. 0 \in P
  <2>1. SubSeq(list, 1, 0) = <<>> /\ 1 + at[0] = 1
    BY <1>3, <1>10
  <2> QED
    BY <1>1, <1>8, <2>1
<1>12. ASSUME NEW k \in 1 .. n, k - 1 \in P
       PROVE  k \in P
  <2>0. CASE read[k - 1].err # "none" /\ ~AllShort(t, list)
    <3>1. read[k] = read[k - 1]
      BY <1>8, <2>0 DEF NextEntry
    <3> QED
      BY <1>1, <2>0, <3>1
  <2>20. SUFFICES ASSUME read[k - 1] = Read(k - 1)
         PROVE  read[k] = Read(k) \/ (read[k].err # "none" /\ ~AllShort(t, list))
    BY <1>1, <1>12, <2>0
  <2> DEFINE a == 1 + at[k - 1]
             e == list[k]
             q == SubSeq(list, 1, k - 1)
             wrote == WriteEntry(t, e)
  <2>1. read[k - 1] = [at |-> a, list |-> q, err |-> "none"]
    BY <2>20
  <2>2. /\ w[k] \in Seq(Nat) /\ Len(w[k]) \in Nat
        /\ at[k] \in Nat /\ at[k - 1] \in Nat /\ at[k] = at[k - 1] + Len(w[k]) /\ at[k] <= at[n]
    BY <1>5
  <2>3. a \in Nat /\ e \in Entries(t) /\ w[k] = wrote
    BY <1>1, <1>2, <2>2 DEF E
  <2>4. a + Len(w[k]) = 1 + at[k] /\ a + Len(w[k]) <= Len(p)
    <3> DEFINE b == at[k - 1]
               l == Len(w[k])
               f == at[k]
               m == Len(p)
               y == at[n]
    <3>1. b \in Nat /\ l \in Nat /\ f \in Nat /\ y \in Nat
      BY <1>4, <2>2
    <3>2. f = b + l /\ f <= y /\ m = 1 + y /\ a = 1 + b
      BY <1>4, <2>2
    <3> HIDE DEF b, l, f, m, y, a
    <3>3. a + l = 1 + f /\ a + l <= m
      BY <3>1, <3>2
    <3> QED
      BY <3>3 DEF l, f, m
  <2>5. ASSUME NEW i \in 1 .. Len(w[k])
        PROVE  p[a + i] = w[k][i]
    <3>1. at[k - 1] + i \in 1 .. at[n]
      BY <1>4, <2>2, InPart
    <3>2. a + i = 1 + (at[k - 1] + i)
      BY <2>2
    <3>3. p[1 + (at[k - 1] + i)] = whole[at[k - 1] + i]
      BY <1>4, <3>1
    <3>4. whole[at[k - 1] + i] = w[k][i]
      BY <1>3
    <3> QED
      BY <3>2, <3>3, <3>4
  <2>6. ~Short(t, e) => ~AllShort(t, list)
    BY <1>9
  <2> HIDE DEF a, e, q, wrote
  <2>7. a + Len(wrote) <= Len(p) /\ \A i \in 1 .. Len(wrote) : p[a + i] = wrote[i]
    BY <2>3, <2>4, <2>5
  <2>12. \/ ReadEntry("kernel", p, a, kinds) = [at |-> a + Len(wrote), vals |-> e, err |-> "none"]
         \/ ReadEntry("kernel", p, a, kinds).err # "none" /\ ~Short(t, e)
    BY <1>4, <2>3, <2>7, EntryReadBack DEF wrote
  <2>13. CASE ReadEntry("kernel", p, a, kinds).err # "none" /\ ~Short(t, e)
    <3> DEFINE c == read[k - 1]
               r == ReadEntry("kernel", p, a, kinds)
    <3>1. c.at = a /\ c.err = "none"
      BY <2>1
    <3> HIDE DEF c, r, kinds
    <3>2. NextEntry("kernel", c, p, kinds) = [at |-> r.at, list |-> Append(c.list, r.vals), err |-> r.err]
      BY <3>1 DEF NextEntry, r
    <3> QED
      BY <1>8, <2>6, <2>13, <3>2 DEF c, r
  <2> SUFFICES ASSUME ReadEntry("kernel", p, a, kinds) = [at |-> a + Len(wrote), vals |-> e, err |-> "none"]
               PROVE  read[k] = Read(k)
    BY <2>12, <2>13
  <2>8. ReadEntry("kernel", p, a, kinds) = [at |-> a + Len(wrote), vals |-> e, err |-> "none"]
    OBVIOUS
  <2>9. Append(q, e) = SubSeq(list, 1, k)
    <3>1. k \in 1 .. Len(list)
      BY <1>1 DEF n
    <3> QED
      BY <1>10, <3>1, SubSeqAppend DEF q, e
  <2>10. NextEntry("kernel", read[k - 1], p, kinds) =
             [at |-> a + Len(wrote), list |-> Append(q, e), err |-> "none"]
    <3> DEFINE c == read[k - 1]
               r == ReadEntry("kernel", p, a, kinds)
    <3>1. c.at = a /\ c.list = q /\ c.err = "none"
      BY <2>1
    <3>2. r.at = a + Len(wrote) /\ r.vals = e /\ r.err = "none"
      BY <2>8
    <3> HIDE DEF c, r, kinds
    <3>3. NextEntry("kernel", c, p, kinds) = [at |-> r.at, list |-> Append(c.list, r.vals), err |-> r.err]
      BY <3>1 DEF NextEntry, r
    <3> QED
      BY <3>1, <3>2, <3>3 DEF c
  <2>11. read[k] = Read(k)
    BY <1>8, <2>3, <2>4, <2>9, <2>10
  <2> QED
    BY <2>11
<1> HIDE DEF P
<1>13. 0 .. n \subseteq P
  BY <1>1, <1>11, <1>12, Induction
<1>14. read[n] = Read(n) \/ (read[n].err # "none" /\ ~AllShort(t, list))
  BY <1>1, <1>13 DEF P
<1>15. SubSeq(list, 1, n) = list
  BY <1>10, SubSeqFull DEF n
<1>16. \/ ReadEntries("kernel", p, kinds).err = "none" /\ ReadEntries("kernel", p, kinds).list = list
       \/ ReadEntries("kernel", p, kinds).err # "none" /\ ~AllShort(t, list)
  <2> DEFINE r == read[n]
  <2>1. (r.err = "none" /\ r.list = list) \/ (r.err # "none" /\ ~AllShort(t, list))
    <3>1. CASE r = Read(n)
      <4> HIDE DEF r
      <4>1. r.err = "none" /\ r.list = SubSeq(list, 1, n)
        BY <3>1
      <4> QED
        BY <1>15, <4>1
    <3>2. CASE r.err # "none" /\ ~AllShort(t, list)
      BY <3>2
    <3> QED
      BY <1>14, <3>1, <3>2
  <2>2. ReadEntries("kernel", p, kinds) = r
    BY <1>8
  <2> HIDE DEF r
  <2> QED
    BY <2>1, <2>2
<1> QED
  BY <1>4, <1>16 DEF p, n, whole, w

\* An i32 survives its passage as a u32.
LEMMA IntReadBack ==
    ASSUME NEW v \in (-HalfWord) .. (HalfWord - 1)
    PROVE  AsU32(v) \in Nat /\ AsI32(AsU32(v)) = v
<1>1. HalfWord \in Nat /\ HalfWord > 0
  BY CodecAssumption
<1> DEFINE m == 2 * HalfWord
<1>2. m \in Nat /\ m > 0 /\ m = HalfWord + HalfWord
  BY <1>1
<1>3. v \in Int /\ -HalfWord <= v /\ v < HalfWord
  BY <1>1
<1> HIDE DEF m
<1>4. v % m = IF v >= 0 THEN v ELSE v + m
  <2> DEFINE r == v % m
             q == v \div m
  <2>1. r \in 0 .. (m - 1) /\ q \in Int /\ v = m * q + r
    BY <1>2, <1>3
  <2> HIDE DEF r, q
  <2>2. q = IF v >= 0 THEN 0 ELSE -1
    BY <1>1, <1>2, <1>3, <2>1
  <2> QED
    BY <1>2, <1>3, <2>1, <2>2 DEF r
<1>5. AsU32(v) = v % m
  BY DEF AsU32, m
<1> QED
  BY <1>1, <1>2, <1>3, <1>4, <1>5 DEF AsI32, m

\* The sections of integers.
LEMMA IntsFacts ==
    /\ DOMAIN Ints = {NAMESPACES, FLAGS, CAPBOUNDING, OOMSCOREADJ, CAPSETS, USER}
    /\ \A t \in DOMAIN Ints : Ints[t] \in Nat
    /\ \A t \in Optional : t \in DOMAIN Ints /\ Ints[t] = 1
    /\ OOMSCOREADJ \in Optional /\ CAPBOUNDING \in Optional /\ CAPSETS \in DOMAIN Ints \ Optional
    /\ \A t \in DOMAIN Ints : t \notin Lists /\ t \notin Strings
    /\ \A t \in Tags : t \in Lists \/ t \in Strings \/ t \in DOMAIN Ints
    /\ \A t \in Optional : Default(t) = <<>>
    /\ \A t \in Strings : t # OOMSCOREADJ /\ t \notin Lists
  BY DEF Ints, Optional, NAMESPACES, FLAGS, CAPBOUNDING, OOMSCOREADJ, CAPSETS, USER, Lists, StrVecs,
         Strings, Tags, ARGV, ENV, MASKEDPATHS, ROPATHS, SYSCTLS, UIDMAPS, GIDMAPS, RLIMITS, MOUNTS,
         ROOTFS, HOSTNAME, Default

\* The payload of every section is a run of cells.
LEMMA PayloadType ==
    ASSUME NEW s, Typed(s), NEW t \in Tags
    PROVE  Payload(s, t) \in Seq(Nat)
<1>1. CASE t \in Lists
  <2>1. s[t] \in Seq(Entries(t))
    BY <1>1 DEF Typed
  <2>2. Payload(s, t) = <<Len(s[t])>> \o FlattenSeq(Written(t, s[t]))
    BY <1>1 DEF Payload, Written
  <2>3. FlattenSeq(Written(t, s[t])) \in Seq(Nat)
    BY <1>1, <2>1, WrittenType
  <2>4. <<Len(s[t])>> \in Seq(Nat)
    BY <2>1
  <2> QED
    BY <2>2, <2>3, <2>4, ConcatCells
<1>2. CASE t = OOMSCOREADJ
  <2> DEFINE x == s[t]
             n == Len(x)
  <2>1. x \in Seq((-HalfWord) .. (HalfWord - 1)) /\ t \notin Lists
    BY <1>2, IntsFacts DEF Typed
  <2>2. n \in Nat /\ DOMAIN x = 1 .. n /\ \A k \in 1 .. n : AsU32(x[k]) \in Nat
    <3> DEFINE I == (-HalfWord) .. (HalfWord - 1)
    <3>1. \A i \in I : AsU32(i) \in Nat
      BY IntReadBack
    <3>2. x \in Seq(I)
      BY <2>1
    <3> HIDE DEF I, x
    <3> QED
      BY <3>1, <3>2
  <2>3. Payload(s, t) = [k \in 1 .. n |-> AsU32(x[k])]
    BY <1>2, <2>1, <2>2 DEF Payload
  <2> HIDE DEF n, x
  <2> QED
    BY <2>2, <2>3
<1>3. CASE t \notin Lists /\ t # OOMSCOREADJ
  <2>1. Payload(s, t) = s[t]
    BY <1>3 DEF Payload
  <2> QED
    BY <1>3, <2>1, IntsFacts DEF Typed
<1> QED
  BY <1>1, <1>2, <1>3

\* What the module reads of an emitted section within its limits is the section.
LEMMA SectionReadBack ==
    ASSUME NEW s, Typed(s), NEW t \in KernelTags, Emitted(s, t)
    PROVE  LET r == ReadSection("kernel", t, Payload(s, t))
           IN \/ r.err = "none" /\ r.val = Sees(t, s[t])
              \/ r.err # "none" /\ t \in Lists /\ ~AllShort(t, s[t])
<1> DEFINE p == Payload(s, t)
<1>1. t \in Tags
  BY KnownTags
<1>2. CASE t \in Lists
  <2> DEFINE list == s[t]
             c == ReadEntries("kernel", p, Layout[t])
  <2>1. list \in Seq(Entries(t))
    BY <1>2 DEF Typed
  <2>2. p = <<Len(list)>> \o FlattenSeq(Written(t, list))
    BY <1>2 DEF Payload, Written
  <2>3. p # <<>> /\ ((c.err = "none" /\ c.list = list) \/ (c.err # "none" /\ ~AllShort(t, list)))
    <3> HIDE DEF p, list
    <3> QED
      BY <1>2, <2>1, <2>2, ListReadBack
  <2>4. Sees(t, list) = Kept("kernel", t, list)
    BY <1>2 DEF Sees
  <2>5. ReadList("kernel", t, p) = [err |-> c.err, val |-> Kept("kernel", t, c.list)]
    <3> HIDE DEF p
    <3> QED
      BY <2>3 DEF ReadList
  <2> HIDE DEF p, c, list
  <2> DEFINE r == ReadList("kernel", t, p)
  <2>6. r.err = c.err /\ r.val = Kept("kernel", t, c.list)
    BY <2>5
  <2>7. ReadSection("kernel", t, p) = r
    BY <1>2 DEF ReadSection
  <2> HIDE DEF r
  <2> QED
    BY <1>2, <2>3, <2>4, <2>6, <2>7 DEF p, list
<1>3. CASE t \in Strings
  <2>1. t \notin Lists /\ p = s[t]
    BY <1>3, IntsFacts DEF Payload
  <2> QED
    BY <1>3, <2>1 DEF ReadSection, ReadString, StringError, Sees
<1>4. CASE t \in DOMAIN Ints
  <2> DEFINE n == Ints[t]
             v == s[t]
             e == ReadEntry("kernel", p, 0, [k \in 1 .. n |-> "int"])
  <2>1. n \in Nat /\ t \notin Lists /\ t \notin Strings /\ Sees(t, v) = v
    BY <1>4, IntsFacts DEF Sees
  <2>2. Len(v) = n
    <3>1. CASE t \in Optional
      <4>1. n = 1 /\ v # <<>> /\ Len(v) <= 1
        <5>1. t # CAPSETS /\ Default(t) = <<>> /\ n = 1
          BY <3>1, IntsFacts
        <5> QED
          BY <3>1, <5>1 DEF Emitted, Typed
      <4>2. v \in Seq(Nat) \/ v \in Seq((-HalfWord) .. (HalfWord - 1))
        BY <1>4 DEF Typed
      <4>3. Len(v) \in Nat /\ Len(v) # 0
        BY <4>1, <4>2, EmptySeq
      <4> QED
        <5> DEFINE l == Len(v)
        <5>1. l \in Nat /\ l # 0 /\ l <= 1 /\ n = 1
          BY <4>1, <4>3
        <5> HIDE DEF l, n
        <5>2. l = n
          BY <5>1
        <5> QED
          BY <5>2 DEF l
    <3>2. CASE t \notin Optional
      BY <1>4, <3>2 DEF Typed
    <3> QED
      BY <3>1, <3>2
  <2>3. p \in Seq(Nat)
    BY <1>1, PayloadType
  <2>4. CASE t # OOMSCOREADJ
    <3>1. p = v
      BY <2>1, <2>4 DEF Payload
    <3>2. SubSeq(p, 1, n) = p /\ n <= Len(p)
      BY <2>1, <2>2, <2>3, <3>1, SubSeqFull
    <3>3. e = [at |-> n, vals |-> p, err |-> "none"]
      <4> HIDE DEF n, p
      <4> QED
        BY <2>1, <2>3, <3>2, ReadIntsCells
    <3>4. ReadInts("kernel", t, p) = [err |-> e.err, val |-> e.vals]
      BY <2>4 DEF ReadInts
    <3> HIDE DEF e, p, n
    <3> QED
      BY <2>1, <3>1, <3>3, <3>4 DEF ReadSection, p, v
  <2>5. CASE t = OOMSCOREADJ
    <3>1. v \in Seq((-HalfWord) .. (HalfWord - 1)) /\ DOMAIN v = 1 .. n
      BY <2>2, <2>5 DEF Typed
    <3>2. p = [k \in 1 .. n |-> AsU32(v[k])]
      BY <2>1, <2>5, <3>1 DEF Payload
    <3>3. Len(p) = n
      BY <2>1, <3>2
    <3>4. SubSeq(p, 1, n) = p /\ n <= Len(p)
      <4> HIDE DEF p, n
      <4> QED
        BY <2>1, <2>3, <3>3, SubSeqFull
    <3>5. e = [at |-> n, vals |-> p, err |-> "none"]
      <4> HIDE DEF n, p
      <4> QED
        BY <2>1, <2>3, <3>4, ReadIntsCells
    <3>6. ReadInts("kernel", t, p) =
              [err |-> e.err, val |-> [k \in DOMAIN e.vals |-> AsI32(e.vals[k])]]
      BY <2>5 DEF ReadInts
    <3>7. [k \in DOMAIN p |-> AsI32(p[k])] = v
      <4> HIDE DEF p, n, v
      <4>1. DOMAIN p = 1 .. n /\ \A k \in 1 .. n : p[k] = AsU32(v[k])
        BY <3>2
      <4>2. \A k \in 1 .. n : AsI32(AsU32(v[k])) = v[k]
        <5> DEFINE I == (-HalfWord) .. (HalfWord - 1)
        <5>1. \A i \in I : AsI32(AsU32(i)) = i
          BY IntReadBack
        <5>2. v \in Seq(I)
          BY <3>1
        <5> HIDE DEF I
        <5> QED
          BY <2>2, <5>1, <5>2
      <4>3. v = [k \in 1 .. n |-> v[k]]
        BY <3>1
      <4> QED
        BY <4>1, <4>2, <4>3
    <3> HIDE DEF e, p, n
    <3>8. ReadInts("kernel", t, p) = [err |-> "none", val |-> v]
      BY <3>5, <3>6, <3>7
    <3> QED
      BY <2>1, <3>8 DEF ReadSection, p, v
  <2> QED
    BY <2>4, <2>5
<1> QED
  BY <1>1, <1>2, <1>3, <1>4, IntsFacts

-----------------------------------------------------------------------------
(* The parts that are not empty, counted.                                  *)

\* How many of the first j numbers are in P.
Upto(P, j) == {k \in 1 .. j : k \in P}
Rank(P, j) == Cardinality(Upto(P, j))

\* Each place adds one if it is in P.
LEMMA RankStep ==
    ASSUME NEW P, NEW k \in Nat
    PROVE  /\ Rank(P, 0) = 0 /\ Rank(P, k) \in Nat
           /\ k > 0 => Rank(P, k) = Rank(P, k - 1) + (IF k \in P THEN 1 ELSE 0)
<1>1. \A j \in Nat : IsFiniteSet(Upto(P, j))
  <2> SUFFICES ASSUME NEW j \in Nat PROVE IsFiniteSet(Upto(P, j))
    OBVIOUS
  <2>1. IsFiniteSet(1 .. j)
    BY FS_Interval
  <2> QED
    BY <2>1, FS_Subset DEF Upto
<1>2. Rank(P, 0) = 0
  <2>1. Upto(P, 0) = {}
    BY DEF Upto
  <2> QED
    BY <2>1, FS_EmptySet DEF Rank
<1>3. Rank(P, k) \in Nat
  BY <1>1, FS_CardinalityType DEF Rank
<1>4. ASSUME k > 0
      PROVE  Rank(P, k) = Rank(P, k - 1) + (IF k \in P THEN 1 ELSE 0)
  <2>1. k - 1 \in Nat /\ k \notin 1 .. k - 1 /\ 1 .. k = (1 .. k - 1) \cup {k}
    BY <1>4
  <2>2. IsFiniteSet(Upto(P, k - 1)) /\ k \notin Upto(P, k - 1)
    BY <1>1, <2>1 DEF Upto
  <2>3. CASE k \in P
    <3>1. Upto(P, k) = Upto(P, k - 1) \cup {k}
      BY <2>1, <2>3 DEF Upto
    <3> QED
      BY <2>2, <2>3, <3>1, FS_AddElement DEF Rank
  <2>4. CASE k \notin P
    <3>1. Upto(P, k) = Upto(P, k - 1)
      BY <2>1, <2>4 DEF Upto
    <3>2. Rank(P, k - 1) \in Nat
      BY <2>2, FS_CardinalityType DEF Rank
    <3>3. Rank(P, k) = Rank(P, k - 1)
      BY <3>1 DEF Rank
    <3> QED
      BY <2>4, <3>2, <3>3
  <2> QED
    BY <2>3, <2>4
<1> QED
  BY <1>2, <1>3, <1>4

\* Ranks do not decrease.
LEMMA RankMonotonic ==
    ASSUME NEW P, NEW i \in Nat, NEW m \in Nat, i <= m
    PROVE  Rank(P, i) <= Rank(P, m)
<1>1. Upto(P, i) \subseteq Upto(P, m)
  BY DEF Upto
<1>2. IsFiniteSet(Upto(P, m))
  <2>1. IsFiniteSet(1 .. m)
    BY FS_Interval
  <2> QED
    BY <2>1, FS_Subset DEF Upto
<1> QED
  BY <1>1, <1>2, FS_Subset DEF Rank

\* Nothing is counted, and no cell is passed, between i and m.
LEMMA NoneBetween ==
    ASSUME NEW T, NEW w \in Seq(Seq(T)), NEW P, \A k \in 1 .. Len(w) : k \notin P => w[k] = <<>>,
           NEW i \in 0 .. Len(w), NEW m \in i .. Len(w), \A k \in i + 1 .. m : k \notin P
    PROVE  Offsets(w)[m] = Offsets(w)[i] /\ Rank(P, m) = Rank(P, i)
<1> DEFINE n == Len(w)
           at == Offsets(w)
           Q == {x \in 0 .. m : x >= i => at[x] = at[i] /\ Rank(P, x) = Rank(P, i)}
<1>1. n \in Nat /\ m \in Nat /\ m <= n /\ i \in Nat /\ i <= m
  OBVIOUS
<1>2. 0 \in Q
  <2>1. CASE i = 0
    BY <1>1, <2>1
  <2>2. CASE i # 0
    BY <1>1, <2>2
  <2> QED
    BY <2>1, <2>2
<1>3. ASSUME NEW x \in 1 .. m, x - 1 \in Q
      PROVE  x \in Q
  <2>1. x \in Nat /\ x \in 1 .. n /\ x \in 0 .. m /\ x > 0
    BY <1>1
  <2>2. CASE x - 1 >= i
    <3>1. at[x - 1] = at[i] /\ Rank(P, x - 1) = Rank(P, i)
      BY <1>3, <2>2
    <3>2. x \notin P
      <4>1. x \in i + 1 .. m
        BY <1>1, <2>2
      <4> QED
        BY <4>1
    <3>3. w[x] = <<>>
      BY <2>1, <3>2
    <3>4. at[x] = at[x - 1] + Len(w[x]) /\ at[x - 1] \in Nat
      BY <2>1, OffsetsStep
    <3>5. Len(w[x]) = 0
      BY <3>3
    <3>6. Rank(P, x) = Rank(P, x - 1) + 0 /\ Rank(P, i) \in Nat
      BY <1>1, <2>1, <3>2, RankStep
    <3> HIDE DEF at
    <3>7. at[x] = at[i] /\ Rank(P, x) = Rank(P, i)
      BY <3>1, <3>4, <3>5, <3>6
    <3> QED
      BY <2>1, <3>7
  <2>3. CASE ~(x - 1 >= i)
    <3>1. x >= i => x = i
      BY <1>1, <2>1, <2>3
    <3> QED
      BY <2>1, <3>1
  <2> QED
    BY <2>2, <2>3
<1> HIDE DEF Q
<1>4. 0 .. m \subseteq Q
  BY <1>1, <1>2, <1>3, Induction
<1>5. m \in Q
  BY <1>1, <1>4
<1> QED
  BY <1>1, <1>5 DEF Q, at

\* What is counted next after i, if anything is.
LEMMA NextCounted ==
    ASSUME NEW T, NEW w \in Seq(Seq(T)), NEW P, \A k \in 1 .. Len(w) : k \notin P => w[k] = <<>>,
           NEW i \in 0 .. Len(w)
    PROVE  /\ Rank(P, i) < Rank(P, Len(w)) =>
                \E k \in i + 1 .. Len(w) :
                    /\ k \in P /\ \A x \in i + 1 .. k - 1 : x \notin P
                    /\ Offsets(w)[k - 1] = Offsets(w)[i]
                    /\ Rank(P, k) = Rank(P, i) + 1
           /\ ~(Rank(P, i) < Rank(P, Len(w))) =>
                /\ \A k \in i + 1 .. Len(w) : k \notin P
                /\ Offsets(w)[Len(w)] = Offsets(w)[i]
<1> DEFINE n == Len(w)
           at == Offsets(w)
           A == {k \in i + 1 .. n : k \in P}
<1>1. n \in Nat /\ i \in Nat /\ i <= n /\ Rank(P, i) \in Nat /\ Rank(P, n) \in Nat
  BY RankStep
<1>2. ASSUME A = {}
      PROVE  at[n] = at[i] /\ Rank(P, n) = Rank(P, i)
  <2>1. n \in i .. n /\ \A k \in i + 1 .. n : k \notin P
    <3>1. n \in i .. n
      BY <1>1
    <3>2. \A k \in i + 1 .. n : k \notin P
      <4> HIDE DEF n
      <4> QED
        BY <1>2
    <3> QED
      BY <3>1, <3>2
  <2> QED
    BY <2>1, NoneBetween
<1>3. ASSUME Rank(P, i) < Rank(P, n)
      PROVE  \E k \in i + 1 .. n :
                    /\ k \in P /\ \A x \in i + 1 .. k - 1 : x \notin P
                    /\ at[k - 1] = at[i]
                    /\ Rank(P, k) = Rank(P, i) + 1
  <2>1. A # {} /\ A \subseteq Nat
    <3> HIDE DEF A
    <3>1. A # {}
      BY <1>1, <1>2, <1>3
    <3> QED
      BY <1>1, <3>1 DEF A
  <2>2. PICK k \in A : \A x \in A : k <= x
    <3> HIDE DEF A
    <3> QED
      BY <2>1, LeastNatural
  <2>3. k \in i + 1 .. n /\ k \in P /\ k \in Nat /\ k > 0 /\ k - 1 \in i .. n /\ k - 1 \in Nat
    BY <1>1
  <2>4. \A x \in i + 1 .. k - 1 : x \notin P
    BY <1>1, <2>2, <2>3
  <2>5. at[k - 1] = at[i] /\ Rank(P, k - 1) = Rank(P, i)
    BY <2>3, <2>4, NoneBetween, ZenonT(60)
  <2>6. Rank(P, k) = Rank(P, k - 1) + 1
    BY <2>3, RankStep
  <2> QED
    BY <2>3, <2>4, <2>5, <2>6
<1>4. ASSUME ~(Rank(P, i) < Rank(P, n))
      PROVE  (\A k \in i + 1 .. n : k \notin P) /\ at[n] = at[i]
  <2>1. ASSUME NEW k \in i + 1 .. n, k \in P
        PROVE  FALSE
    <3>1. k \in Nat /\ k > 0 /\ k - 1 \in Nat /\ i <= k - 1 /\ k <= n
      BY <1>1
    <3>2. Rank(P, k) = Rank(P, k - 1) + 1 /\ Rank(P, k - 1) \in Nat
      BY <2>1, <3>1, RankStep
    <3>3. Rank(P, i) <= Rank(P, k - 1) /\ Rank(P, k) <= Rank(P, n)
      BY <1>1, <3>1, RankMonotonic
    <3> QED
      BY <1>1, <1>4, <3>2, <3>3
  <2>2. A = {}
    BY <2>1
  <2> QED
    BY <1>2, <2>1, <2>2
<1> QED
  BY <1>3, <1>4

-----------------------------------------------------------------------------
(* Where encode puts each section.                                         *)

\* The sections in the order encode emits them, empty where it emits none, and
\* the places where it emits one.
Parts(s) == [k \in DOMAIN EmitOrder |-> Section(s, EmitOrder[k])]
Emits(s) == {k \in DOMAIN EmitOrder : Emitted(s, EmitOrder[k])}

\* encode writes each tag once.
LEMMA EmitFacts ==
    /\ DOMAIN EmitOrder = 1 .. 17
    /\ \A k \in 1 .. 17 : EmitOrder[k] \in Tags
    /\ \A j, k \in 1 .. 17 : EmitOrder[j] = EmitOrder[k] => j = k
    /\ \A t \in Tags : \E k \in 1 .. 17 : EmitOrder[k] = t
<1>1. DOMAIN EmitOrder = 1 .. 17
  BY DEF EmitOrder
<1>2. 1 .. 17 = {1, 2, 3, 4, 5, 6, 7, 8, 9, 10, 11, 12, 13, 14, 15, 16, 17}
  OBVIOUS
<1>3. \A k \in 1 .. 17 : EmitOrder[k] =
          IF k <= 9 THEN k ELSE IF k = 10 THEN 15 ELSE IF k <= 14 THEN k ELSE IF k = 15 THEN 16
          ELSE IF k = 16 THEN 17 ELSE 18
  BY <1>2 DEF EmitOrder, ROOTFS, HOSTNAME, ARGV, ENV, NAMESPACES, UIDMAPS, GIDMAPS, FLAGS,
              CAPBOUNDING, CAPSETS, MASKEDPATHS, ROPATHS, RLIMITS, OOMSCOREADJ, USER, MOUNTS, SYSCTLS
<1>4. Tags = (1 .. 18) \ {10}
  BY DEF Tags, Strings, Lists, StrVecs, Ints, ROOTFS, HOSTNAME, ARGV, ENV, NAMESPACES, UIDMAPS, GIDMAPS, FLAGS,
         CAPBOUNDING, CAPSETS, MASKEDPATHS, ROPATHS, RLIMITS, OOMSCOREADJ, USER, MOUNTS, SYSCTLS
<1>5. \A k \in 1 .. 17 : EmitOrder[k] \in Tags
  BY <1>3, <1>4
<1>6. \A j, k \in 1 .. 17 : EmitOrder[j] = EmitOrder[k] => j = k
  BY <1>3
<1>7. \A t \in Tags : \E k \in 1 .. 17 : EmitOrder[k] = t
  <2> HIDE DEF EmitOrder
  <2> SUFFICES ASSUME NEW t \in Tags PROVE \E k \in 1 .. 17 : EmitOrder[k] = t
    OBVIOUS
  <2>1. EmitOrder[IF t <= 9 THEN t ELSE IF t = 15 THEN 10 ELSE IF t <= 14 THEN t ELSE t - 1] = t
    BY <1>3, <1>4
  <2> QED
    BY <1>4, <2>1
<1> QED
  BY <1>1, <1>5, <1>6, <1>7

\* An emitted section is its tag, its length and its payload.
LEMMA SectionCellsWritten ==
    ASSUME NEW s, Typed(s), NEW t \in Tags, Emitted(s, t)
    PROVE  /\ Payload(s, t) \in Seq(Nat) /\ Len(Payload(s, t)) \in Nat
           /\ Section(s, t) \in Seq(Nat)
           /\ Len(Section(s, t)) = 2 + Len(Payload(s, t))
           /\ Section(s, t)[1] = t /\ Section(s, t)[2] = Len(Payload(s, t))
           /\ \A i \in 1 .. Len(Payload(s, t)) : Section(s, t)[2 + i] = Payload(s, t)[i]
<1> DEFINE p == Payload(s, t)
           h == <<t, Len(p)>>
<1>1. p \in Seq(Nat) /\ Len(p) \in Nat /\ t \in Nat
  BY PayloadType, KnownTags
<1>2. Section(s, t) = h \o p
  BY DEF Section
<1> HIDE DEF p
<1>3. h \in Seq(Nat) /\ Len(h) = 2 /\ h[1] = t /\ h[2] = Len(p)
  BY <1>1
<1> HIDE DEF h
<1>4. /\ h \o p \in Seq(Nat) /\ Len(h \o p) = Len(h) + Len(p)
      /\ \A i \in 1 .. Len(h) : (h \o p)[i] = h[i]
      /\ \A i \in 1 .. Len(p) : (h \o p)[Len(h) + i] = p[i]
  <2>1. h \in Seq(Nat) /\ p \in Seq(Nat)
    BY <1>1, <1>3
  <2> QED
    BY <2>1, ConcatCells
<1> DEFINE w == h \o p
<1>5. Section(s, t) = w
  BY <1>2
<1> HIDE DEF w
<1>6. /\ w \in Seq(Nat) /\ Len(w) = 2 + Len(p) /\ w[1] = t /\ w[2] = Len(p)
      /\ \A i \in 1 .. Len(p) : w[2 + i] = p[i]
  BY <1>3, <1>4 DEF w
<1> QED
  BY <1>1, <1>5, <1>6 DEF p

\* Parts is what the buffer after its header is made of.
LEMMA PartsType ==
    ASSUME NEW s, Typed(s)
    PROVE  /\ Parts(s) \in Seq(Seq(Nat)) /\ Len(Parts(s)) = 17
           /\ \A k \in 1 .. 17 : Parts(s)[k] = Section(s, EmitOrder[k])
           /\ \A k \in 1 .. 17 : k \notin Emits(s) => Parts(s)[k] = <<>>
           /\ \A k \in 1 .. 17 : k \in Emits(s) <=> Emitted(s, EmitOrder[k])
<1> DEFINE S == Seq(Nat)
           w(k) == Section(s, EmitOrder[k])
<1>1. ASSUME NEW k \in 1 .. 17
      PROVE  w(k) \in S /\ (k \notin Emits(s) => w(k) = <<>>) /\ (k \in Emits(s) <=> Emitted(s, EmitOrder[k]))
  <2>1. CASE Emitted(s, EmitOrder[k])
    BY <2>1, EmitFacts, SectionCellsWritten DEF Emits
  <2>2. CASE ~Emitted(s, EmitOrder[k])
    <3>1. w(k) = <<>> /\ k \notin Emits(s)
      BY <2>2 DEF Section, Emits
    <3> QED
      BY <2>2, <3>1
  <2> QED
    BY <2>1, <2>2
<1>2. Parts(s) = [k \in 1 .. 17 |-> w(k)]
  BY EmitFacts DEF Parts
<1> HIDE DEF S, w
<1>3. [k \in 1 .. 17 |-> w(k)] \in Seq(S) /\ Len([k \in 1 .. 17 |-> w(k)]) = 17
  BY <1>1
<1>4. \A k \in 1 .. 17 : Parts(s)[k] = w(k)
  BY <1>2
<1>5. Parts(s) \in Seq(S) /\ Len(Parts(s)) = 17
  BY <1>2, <1>3
<1> QED
  BY <1>1, <1>4, <1>5 DEF S, w

\* The header and the sections in the buffer.
LEMMA EncodeShape ==
    ASSUME NEW s, Typed(s)
    PROVE  LET at == Offsets(Parts(s))
               b == Encode(s)
           IN /\ b \in Seq(Nat) /\ Len(b) = 4 + at[17] /\ at[17] \in Nat
              /\ b[1] = MAGIC /\ b[2] = ABIVERSION /\ b[3] = CREATE /\ b[4] = Rank(Emits(s), 17)
              /\ \A k \in 1 .. 17 : \A i \in 1 .. Len(Parts(s)[k]) :
                    b[4 + at[k - 1] + i] = Parts(s)[k][i]
<1> DEFINE w == Parts(s)
           at == Offsets(w)
           body == FlattenSeq(w)
           count == Rank(Emits(s), 17)
           h == <<MAGIC, ABIVERSION, CREATE, count>>
           b == Encode(s)
<1>1. w \in Seq(Seq(Nat)) /\ Len(w) = 17
  BY PartsType
<1>2. count \in Nat /\ count = Cardinality(Emits(s))
  <2>1. count \in Nat
    BY RankStep
  <2>2. Upto(Emits(s), 17) = Emits(s)
    BY EmitFacts DEF Upto, Emits
  <2> QED
    BY <2>1, <2>2 DEF Rank
<1>3. b = h \o body
  BY <1>2 DEF Encode, Emits, Parts
<1>4. /\ body \in Seq(Nat) /\ Len(body) = at[17]
      /\ \A k \in 1 .. 17 : \A i \in 1 .. Len(w[k]) : body[at[k - 1] + i] = w[k][i]
  <2> HIDE DEF w
  <2>1. w \in Seq(Seq(Nat))
    BY <1>1
  <2>2. /\ body \in Seq(Nat) /\ Len(body) = at[Len(w)]
        /\ \A k \in 1 .. Len(w) : \A i \in 1 .. Len(w[k]) : body[at[k - 1] + i] = w[k][i]
    BY <2>1, Flatten
  <2> HIDE DEF at, body
  <2> QED
    BY <1>1, <2>2
<1>5. Len(body) \in Nat
  BY <1>4
<1>6. ASSUME NEW k \in 1 .. 17
      PROVE  /\ Len(w[k]) \in Nat /\ at[k] \in Nat /\ at[k - 1] \in Nat
             /\ at[k] = at[k - 1] + Len(w[k]) /\ at[k] <= at[17]
  <2>1. k \in 0 .. 17 /\ 17 \in k .. 17
    OBVIOUS
  <2> QED
    BY <1>1, <2>1, OffsetsStep, OffsetsMonotonic
<1> HIDE DEF w, at, body, count
<1>7. h \in Seq(Nat) /\ Len(h) = 4 /\ h[1] = MAGIC /\ h[2] = ABIVERSION /\ h[3] = CREATE /\ h[4] = count
  BY <1>2 DEF MAGIC, ABIVERSION, CREATE
<1> HIDE DEF h, b
<1>8. /\ b \in Seq(Nat) /\ Len(b) = Len(h) + Len(body)
      /\ \A i \in 1 .. Len(h) : b[i] = h[i]
      /\ \A i \in 1 .. Len(body) : b[Len(h) + i] = body[i]
  <2>1. h \in Seq(Nat) /\ body \in Seq(Nat)
    BY <1>4, <1>7
  <2>2. /\ h \o body \in Seq(Nat) /\ Len(h \o body) = Len(h) + Len(body)
        /\ \A i \in 1 .. Len(h) : (h \o body)[i] = h[i]
        /\ \A i \in 1 .. Len(body) : (h \o body)[Len(h) + i] = body[i]
    BY <2>1, ConcatCells
  <2> QED
    BY <1>3, <2>2
<1>9. Len(b) = 4 + at[17] /\ at[17] \in Nat
  BY <1>4, <1>5, <1>7, <1>8
<1>10. b[1] = MAGIC /\ b[2] = ABIVERSION /\ b[3] = CREATE /\ b[4] = count
  BY <1>7, <1>8
<1>11. ASSUME NEW k \in 1 .. 17, NEW i \in 1 .. Len(w[k])
       PROVE  b[4 + at[k - 1] + i] = w[k][i]
  <2>1. at[k - 1] + i \in 1 .. at[17]
    BY <1>6, <1>9, InPart, ZenonT(30)
  <2>2. b[4 + (at[k - 1] + i)] = body[at[k - 1] + i]
    BY <1>4, <1>7, <1>8, <2>1
  <2>3. body[at[k - 1] + i] = w[k][i]
    BY <1>4
  <2>4. 4 + (at[k - 1] + i) = 4 + at[k - 1] + i
    <3> DEFINE a == at[k - 1]
    <3>1. a \in Nat /\ i \in Int
      <4>1. Len(w[k]) \in Nat /\ at[k - 1] \in Nat
        BY <1>6
      <4> QED
        BY <4>1
    <3> HIDE DEF a
    <3>2. 4 + (a + i) = 4 + a + i
      BY <3>1
    <3> QED
      BY <3>2 DEF a
  <2> QED
    BY <2>2, <2>3, <2>4
<1> QED
  BY <1>8, <1>9, <1>10, <1>11 DEF w, at, count, b

\* A section takes at least the cells of its header.
LEMMA SectionsFit ==
    ASSUME NEW s, Typed(s)
    PROVE  2 * Rank(Emits(s), 17) <= Offsets(Parts(s))[17]
<1> DEFINE w == Parts(s)
           at == Offsets(w)
           E == Emits(s)
           P == {k \in 0 .. 17 : 2 * Rank(E, k) <= at[k]}
<1>1. w \in Seq(Seq(Nat)) /\ Len(w) = 17
  BY PartsType
<1>2. 0 \in P
  <2>1. at[0] = 0 /\ Rank(E, 0) = 0
    BY <1>1, OffsetsType, RankStep
  <2> HIDE DEF at, E
  <2> QED
    BY <2>1
<1>3. ASSUME NEW k \in 1 .. 17, k - 1 \in P
      PROVE  k \in P
  <2> DEFINE x == Rank(E, k - 1)
             y == at[k - 1]
             l == Len(w[k])
  <2>1. l \in Nat /\ y \in Nat /\ at[k] = y + l
    BY <1>1, OffsetsStep
  <2>2. x \in Nat /\ Rank(E, k) = x + (IF k \in E THEN 1 ELSE 0)
    <3>1. k \in Nat /\ k - 1 \in Nat /\ k > 0
      OBVIOUS
    <3> QED
      BY <3>1, RankStep
  <2>3. k \in E => l >= 2
    <3>1. ASSUME k \in E
          PROVE  l >= 2
      <4>1. EmitOrder[k] \in Tags /\ Emitted(s, EmitOrder[k]) /\ w[k] = Section(s, EmitOrder[k])
        BY <3>1, EmitFacts, PartsType
      <4>2. Len(Payload(s, EmitOrder[k])) \in Nat /\ l = 2 + Len(Payload(s, EmitOrder[k]))
        BY <4>1, SectionCellsWritten
      <4> HIDE DEF l
      <4> QED
        BY <4>2
    <3> QED
      BY <3>1
  <2>4. 2 * x <= y
    BY <1>3
  <2> HIDE DEF x, y, l
  <2>5. 2 * Rank(E, k) <= at[k]
    BY <2>1, <2>2, <2>3, <2>4
  <2> QED
    BY <2>5
<1> HIDE DEF P
<1>4. 0 .. 17 \subseteq P
  BY <1>2, <1>3, Induction
<1> QED
  BY <1>4 DEF P, at, w, E

\* decode_spec, in the middle of an unchanged buffer: the first j sections have
\* been read, and what has been read is what was sent.
Read(j) ==
    /\ pos = 4 + Offsets(Parts(spec))[j]
    /\ left = Rank(Emits(spec), 17) - Rank(Emits(spec), j)
    /\ seen = {EmitOrder[k] : k \in Upto(Emits(spec), j)}
    /\ out = [t \in Tags |-> IF t \in KernelTags /\ t \in seen THEN Sees(t, spec[t]) ELSE Default(t)]

\* What the module is left with of a spec it reads to the end: the first
\* entries of a list that is too long for it.
Passed(s) == [t \in Tags |-> IF t \in KernelTags THEN Sees(t, s[t]) ELSE Default(t)]

\* The round trip as an induction.  While the module reads what the CLI sent,
\* it stands at the start of some section and holds exactly what the sections
\* before it say; the end of the buffer is then the end of the spec.
RoundInv ==
    /\ pc \in {"encode", "wire", "ioctl", "section"} => Typed(spec)
    /\ pc \in {"wire", "ioctl", "section", "spawn"} => sent = Encode(spec)
    /\ buf = sent =>
        /\ pc = "section" => \E j \in 0 .. 17 : Read(j)
        /\ pc = "spawn" => out = Passed(spec) /\ (WithinLimits(spec) => out = Received(spec))
    /\ RoundTrip

\* Nothing is left out of a spec within the limits.
LEMMA PassedWithin ==
    ASSUME NEW s, Typed(s), WithinLimits(s)
    PROVE  Passed(s) = Received(s)
<1> SUFFICES ASSUME NEW t \in KernelTags PROVE Sees(t, s[t]) = s[t]
  BY DEF Passed, Received
<1>1. CASE t \in Lists
  <2>1. Len(s[t]) <= KernelKeep[t]
    BY <1>1 DEF WithinLimits, KernelTags
  <2>2. Len(s[t]) \in Nat /\ KernelKeep[t] \in Nat
    BY <1>1, CodecAssumption DEF Typed
  <2>3. ~(Len(s[t]) > KernelKeep[t])
    BY <2>1, <2>2
  <2> QED
    BY <1>1, <2>3 DEF Sees, Kept
<1>2. CASE t \notin Lists
  BY <1>2 DEF Sees
<1> QED
  BY <1>1, <1>2

\* decode_spec's header check starts the reading at the first section.
LEMMA HeaderRound ==
    ASSUME DecoderInv, RoundInv, KernelHeader
    PROVE  RoundInv'
<1>1. pc = "ioctl" /\ Typed(spec) /\ sent = Encode(spec)
  BY DEF KernelHeader, RoundInv
<1>2. UNCHANGED <<spec, sent, buf, seen, out>> /\ pc' \in {"section", "EINVAL"}
  BY DEF KernelHeader
<1>3. seen = {} /\ out = DefaultSpec
  BY <1>1 DEF DecoderInv
<1>4. ASSUME buf = sent
      PROVE  /\ WithinLimits(spec) => pc' = "section"
             /\ pc' = "section" => Read(0)'
  <2> DEFINE at == Offsets(Parts(spec))
             count == Rank(Emits(spec), 17)
  <2>1. /\ Len(buf) = 4 + at[17] /\ at[17] \in Nat
        /\ buf[1] = MAGIC /\ buf[2] = ABIVERSION /\ buf[4] = count
    BY <1>1, <1>4, EncodeShape
  <2>2. (WithinLimits(spec) => Len(buf) <= KernelMaxSpec) /\ KernelMaxSpec \in Nat
    BY <1>1, <1>4, CodecAssumption DEF WithinLimits
  <2>3. 2 * count <= at[17] /\ count \in Nat /\ Rank(Emits(spec), 0) = 0
    BY <1>1, SectionsFit, RankStep
  <2>4. at[0] = 0
    BY <1>1, PartsType, OffsetsType
  <2> HIDE DEF at, count
  <2>5. Len(buf) >= 4 /\ (WithinLimits(spec) => count <= KernelMaxSpec \div 2)
    BY <2>1, <2>2, <2>3
  <2>10. WithinLimits(spec) => pc' = "section"
    BY <2>1, <2>2, <2>5 DEF KernelHeader
  <2>11. SUFFICES ASSUME pc' = "section" PROVE Read(0)'
    BY <2>10
  <2>6. pos' = 4 /\ left' = count
    BY <2>1, <2>11 DEF KernelHeader
  <2>7. {EmitOrder[k] : k \in Upto(Emits(spec), 0)} = {}
    BY DEF Upto
  <2>8. out = [t \in Tags |-> IF t \in KernelTags /\ t \in seen THEN Sees(t, spec[t]) ELSE Default(t)]
    BY <1>3 DEF DefaultSpec
  <2>9. pos' = 4 + at[0] /\ left' = count - 0
    BY <2>3, <2>4, <2>6
  <2> QED
    BY <1>2, <1>3, <2>3, <2>6, <2>7, <2>8, <2>9 DEF Read, at, count
<1>5. (WithinLimits(spec))' = WithinLimits(spec) /\ (Named(spec))' = Named(spec) /\ Typed(spec)' = Typed(spec)
  BY <1>2
<1>6. 0 \in 0 .. 17
  OBVIOUS
<1> QED
  BY <1>1, <1>2, <1>4, <1>5, <1>6 DEF RoundInv, RoundTrip

\* The section decode_spec finds at the cursor of an unchanged buffer.
LEMMA NextSection ==
    ASSUME Typed(spec), buf = Encode(spec), NEW j \in 0 .. 17, Read(j), left > 0
    PROVE  \E k \in j + 1 .. 17 :
             LET t == EmitOrder[k]
                 p == Payload(spec, t)
             IN /\ k \in Emits(spec) /\ \A x \in j + 1 .. k - 1 : x \notin Emits(spec)
                /\ Rank(Emits(spec), k) = Rank(Emits(spec), j) + 1
                /\ SectionFits /\ buf[pos + 1] = t
                /\ SubSeq(buf, pos + 3, SectionEnd) = p
                /\ SectionEnd = 4 + Offsets(Parts(spec))[k]
<1> DEFINE w == Parts(spec)
           at == Offsets(w)
           E == Emits(spec)
<1>1. /\ w \in Seq(Seq(Nat)) /\ Len(w) = 17
      /\ \A k \in 1 .. 17 : w[k] = Section(spec, EmitOrder[k])
      /\ \A k \in 1 .. 17 : k \notin E => w[k] = <<>>
      /\ \A k \in 1 .. 17 : k \in E <=> Emitted(spec, EmitOrder[k])
  BY PartsType
<1>2. /\ buf \in Seq(Nat) /\ Len(buf) = 4 + at[17] /\ at[17] \in Nat
      /\ \A k \in 1 .. 17 : \A i \in 1 .. Len(w[k]) : buf[4 + at[k - 1] + i] = w[k][i]
  BY EncodeShape
<1>3. Rank(E, j) < Rank(E, 17)
  <2>1. Rank(E, j) \in Nat /\ Rank(E, 17) \in Nat
    BY RankStep
  <2> QED
    BY <2>1 DEF Read
<1>4. PICK k \in j + 1 .. 17 :
          /\ k \in E /\ \A x \in j + 1 .. k - 1 : x \notin E
          /\ at[k - 1] = at[j]
          /\ Rank(E, k) = Rank(E, j) + 1
  <2> HIDE DEF w, E
  <2>1. /\ w \in Seq(Seq(Nat)) /\ j \in 0 .. Len(w) /\ Rank(E, j) < Rank(E, Len(w))
        /\ \A k \in 1 .. Len(w) : k \notin E => w[k] = <<>>
    BY <1>1, <1>3
  <2>2. \E k \in j + 1 .. Len(w) :
            /\ k \in E /\ \A x \in j + 1 .. k - 1 : x \notin E
            /\ at[k - 1] = at[j]
            /\ Rank(E, k) = Rank(E, j) + 1
    BY <2>1, NextCounted
  <2> QED
    BY <1>1, <2>2
<1> DEFINE t == EmitOrder[k]
           p == Payload(spec, t)
           l == Len(p)
<1>5. k \in 1 .. 17 /\ k \in 0 .. 17 /\ 17 \in k .. 17
  OBVIOUS
<1>6. t \in Tags /\ Emitted(spec, t) /\ w[k] = Section(spec, t)
  BY <1>1, <1>4, <1>5, EmitFacts
<1>7. /\ p \in Seq(Nat) /\ l \in Nat /\ Len(w[k]) = 2 + l /\ w[k][1] = t /\ w[k][2] = l
      /\ \A i \in 1 .. l : w[k][2 + i] = p[i]
  <2> DEFINE c == Section(spec, t)
  <2> HIDE DEF t
  <2>1. /\ p \in Seq(Nat) /\ l \in Nat /\ Len(c) = 2 + l /\ c[1] = t /\ c[2] = l
        /\ \A i \in 1 .. l : c[2 + i] = p[i]
    BY <1>6, SectionCellsWritten
  <2> HIDE DEF c, p, l, w
  <2> QED
    BY <1>6, <2>1 DEF c
<1>8. /\ at[k] \in Nat /\ at[k - 1] \in Nat /\ at[k] = at[k - 1] + Len(w[k]) /\ at[k] <= at[17]
  BY <1>1, <1>5, OffsetsStep, OffsetsMonotonic
<1>9. pos = 4 + at[k - 1]
  BY <1>4 DEF Read
<1>10. \A i \in 1 .. 2 + l : buf[pos + i] = w[k][i]
  BY <1>2, <1>5, <1>7, <1>9
<1> DEFINE a == at[k - 1]
           e == at[k]
           n == at[17]
<1>11. a \in Nat /\ e \in Nat /\ n \in Nat /\ e = a + (2 + l) /\ e <= n /\ pos = 4 + a /\ Len(buf) = 4 + n
  BY <1>2, <1>7, <1>8, <1>9
<1> HIDE DEF w, at, E, l, p, t, a, e, n
<1>12. buf[pos + 1] = t /\ buf[pos + 2] = l
  <2>1. 1 \in 1 .. 2 + l /\ 2 \in 1 .. 2 + l
    BY <1>7
  <2> QED
    BY <1>7, <1>10, <2>1
<1>13. SectionEnd = 4 + e /\ SectionFits
  BY <1>7, <1>11, <1>12 DEF SectionEnd, SectionFits
<1>14. SubSeq(buf, pos + 3, SectionEnd) = p
  <2> DEFINE c == pos + 2
             lo == pos + 3
             hi == SectionEnd
  <2>1. c \in Nat /\ lo = c + 1 /\ hi = c + l /\ c + l <= Len(buf)
    BY <1>7, <1>11, <1>13
  <2>2. \A i \in 1 .. l : buf[c + i] = p[i]
    <3> SUFFICES ASSUME NEW i \in 1 .. l PROVE buf[c + i] = p[i]
      OBVIOUS
    <3>1. 2 + i \in 1 .. 2 + l /\ pos + (2 + i) = c + i
      BY <1>7, <1>11
    <3>2. buf[pos + (2 + i)] = w[k][2 + i]
      BY <1>10, <3>1
    <3> QED
      BY <1>7, <3>1, <3>2
  <2>3. l = Len(p)
    BY DEF l
  <2>4. hi = c + Len(p) /\ c + Len(p) <= Len(buf) /\ \A i \in 1 .. Len(p) : buf[c + i] = p[i]
    BY <2>1, <2>2, <2>3
  <2>5. p \in Seq(Nat) /\ buf \in Seq(Nat) /\ c \in Nat /\ lo = c + 1
    BY <1>2, <1>7, <2>1
  <2> HIDE DEF c, lo, hi
  <2>7. Stands(p, buf, c, lo, hi)
    BY <2>4, <2>5 DEF Stands
  <2>6. SubSeq(buf, lo, hi) = p
    BY <2>7, SubSeqIs
  <2> QED
    BY <2>6 DEF lo, hi
<1> QED
  BY <1>4, <1>12, <1>13, <1>14 DEF w, at, E, p, t, e

\* decode_spec's loop moves the reading on by one emitted section, or refuses.
LEMMA SectionRound ==
    ASSUME DecoderInv, RoundInv, KernelSection
    PROVE  RoundInv'
<1>1. pc = "section" /\ Typed(spec) /\ sent = Encode(spec) /\ left > 0
  BY DEF KernelSection, SectionTurn, RoundInv
<1>2. UNCHANGED <<spec, sent, buf>> /\ pc' \in {"section", "EINVAL"}
  BY <1>1 DEF KernelSection, SectionTurn
<1>3. ASSUME buf = sent
      PROVE  /\ WithinLimits(spec) => pc' = "section"
             /\ pc' = "section" => \E k \in 0 .. 17 : Read(k)'
  <2> DEFINE E == Emits(spec)
  <2>1. PICK j \in 0 .. 17 : Read(j)
    BY <1>1, <1>3 DEF RoundInv
  <2>2. PICK k \in j + 1 .. 17 :
             /\ k \in E /\ \A x \in j + 1 .. k - 1 : x \notin E
             /\ Rank(E, k) = Rank(E, j) + 1
             /\ SectionFits /\ buf[pos + 1] = EmitOrder[k]
             /\ SubSeq(buf, pos + 3, SectionEnd) = Payload(spec, EmitOrder[k])
             /\ SectionEnd = 4 + Offsets(Parts(spec))[k]
    BY <1>1, <1>3, <2>1, NextSection
  <2> DEFINE t == EmitOrder[k]
             p == Payload(spec, t)
  <2>3. k \in 1 .. 17 /\ k \in 0 .. 17 /\ t \in Tags /\ Emitted(spec, t)
    BY <2>2, EmitFacts, SMTT(30) DEF Emits
  <2>4. t \notin seen
    <3> SUFFICES ASSUME t \in seen PROVE FALSE
      OBVIOUS
    <3>1. PICK x \in Upto(E, j) : t = EmitOrder[x]
      BY <2>1 DEF Read
    <3>2. x \in 1 .. 17 /\ x # k
      BY DEF Upto
    <3> QED
      BY <2>3, <3>1, <3>2, EmitFacts
  <2>5. ASSUME t \in KernelTags
        PROVE  /\ WithinLimits(spec) => SectionRead.err = "none"
               /\ SectionRead.err = "none" => SectionRead.val = Sees(t, spec[t])
    <3>1. WithinLimits(spec) /\ t \in Lists => AllShort(t, spec[t])
      BY DEF WithinLimits, AllShort, Short
    <3> DEFINE r == ReadSection("kernel", t, p)
    <3>2. \/ r.err = "none" /\ r.val = Sees(t, spec[t])
          \/ r.err # "none" /\ t \in Lists /\ ~AllShort(t, spec[t])
      <4> HIDE DEF t
      <4> QED
        BY <1>1, <2>3, <2>5, SectionReadBack
    <3>3. SectionRead = r
      BY <2>2 DEF SectionRead
    <3> HIDE DEF r
    <3> QED
      BY <3>1, <3>2, <3>3
  <2> HIDE DEF t
  <2>6. buf[pos + 1] = t /\ t \notin {x \in seen : x < 64}
    BY <2>2, <2>4 DEF t
  <2>14. WithinLimits(spec) => pc' = "section"
    BY <1>1, <2>2, <2>5, <2>6 DEF KernelSection, SectionTurn
  <2>15. SUFFICES ASSUME pc' = "section" PROVE \E x \in 0 .. 17 : Read(x)'
    BY <2>14
  <2>7. /\ pos' = SectionEnd
        /\ left' = left - 1
        /\ seen' = seen \cup {t}
        /\ out' = IF t \in KernelTags THEN [out EXCEPT ![t] = SectionRead.val] ELSE out
        /\ t \in KernelTags => SectionRead.err = "none"
    BY <2>2, <2>6, <2>15 DEF KernelSection, SectionTurn
  <2>8. Upto(E, k) = Upto(E, j) \cup {k}
    BY <2>2 DEF Upto
  <2>9. seen' = {EmitOrder[x] : x \in Upto(E, k)}
    <3>1. seen = {EmitOrder[x] : x \in Upto(E, j)}
      BY <2>1 DEF Read
    <3>2. {EmitOrder[x] : x \in Upto(E, j) \cup {k}} = {EmitOrder[x] : x \in Upto(E, j)} \cup {t}
      BY DEF t
    <3> QED
      BY <2>7, <2>8, <3>1, <3>2
  <2>10. left' = Rank(E, 17) - Rank(E, k)
    <3>1. Rank(E, 17) \in Nat /\ Rank(E, j) \in Nat /\ left = Rank(E, 17) - Rank(E, j)
      BY <2>1, RankStep DEF Read
    <3> QED
      BY <2>2, <2>7, <3>1
  <2>11. out' = [x \in Tags |->
             IF x \in KernelTags /\ x \in seen' THEN Sees(x, spec[x]) ELSE Default(x)]
    <3>1. out = [x \in Tags |->
              IF x \in KernelTags /\ x \in seen THEN Sees(x, spec[x]) ELSE Default(x)]
      BY <2>1 DEF Read
    <3>2. CASE t \in KernelTags
      <4>1. out' = [out EXCEPT ![t] = Sees(t, spec[t])]
        BY <2>5, <2>7, <3>2 DEF t
      <4> QED
        BY <2>7, <3>1, <3>2, <4>1
    <3>3. CASE t \notin KernelTags
      <4>1. out' = out
        BY <2>7, <3>3
      <4> QED
        BY <2>7, <3>1, <3>3, <4>1
    <3> QED
      BY <3>2, <3>3
  <2>12. pos' = 4 + Offsets(Parts(spec))[k]
    BY <2>2, <2>7
  <2>13. Read(k)'
    BY <1>2, <2>9, <2>10, <2>11, <2>12 DEF Read
  <2> QED
    BY <2>3, <2>13
<1>4. (WithinLimits(spec))' = WithinLimits(spec) /\ (Named(spec))' = Named(spec) /\ Typed(spec)' = Typed(spec)
  BY <1>2
<1> QED
  BY <1>1, <1>2, <1>3, <1>4 DEF RoundInv, RoundTrip

\* A section that is not emitted is the default one.
LEMMA NotEmitted ==
    ASSUME NEW s, Typed(s), NEW t \in Tags, ~Emitted(s, t)
    PROVE  s[t] = Default(t) /\ Sees(t, s[t]) = Default(t)
<1>1. s[t] = Default(t)
  BY DEF Emitted, Typed
<1>2. CASE t \in Lists
  <2>1. s[t] = <<>>
    BY <1>1, <1>2, DefaultType
  <2>2. Kept("kernel", t, <<>>) = <<>>
    BY <1>2, CodecAssumption DEF Kept
  <2> QED
    BY <1>1, <1>2, <2>1, <2>2 DEF Sees
<1>3. CASE t \notin Lists
  BY <1>1, <1>3 DEF Sees
<1> QED
  BY <1>1, <1>2, <1>3

\* The end of decode_spec's loop is the end of the spec.
LEMMA EndRound ==
    ASSUME DecoderInv, RoundInv, KernelEnd
    PROVE  RoundInv'
<1>1. pc = "section" /\ Typed(spec) /\ sent = Encode(spec) /\ left = 0
  BY DEF KernelEnd, RoundInv
<1>2. UNCHANGED <<spec, sent, buf, pos, left, seen, out>> /\ pc' \in {"spawn", "EINVAL"}
  BY DEF KernelEnd
<1>3. ASSUME buf = sent
      PROVE  pos = Len(buf) /\ out = Passed(spec)
  <2> DEFINE w == Parts(spec)
             at == Offsets(w)
             E == Emits(spec)
  <2>1. PICK j \in 0 .. 17 : Read(j)
    BY <1>1, <1>3 DEF RoundInv
  <2>2. /\ w \in Seq(Seq(Nat)) /\ Len(w) = 17
        /\ \A k \in 1 .. 17 : k \notin E => w[k] = <<>>
        /\ \A k \in 1 .. 17 : k \in E <=> Emitted(spec, EmitOrder[k])
    BY <1>1, PartsType
  <2>3. ~(Rank(E, j) < Rank(E, 17))
    <3>1. Rank(E, j) \in Nat /\ Rank(E, 17) \in Nat
      BY RankStep
    <3> QED
      BY <1>1, <2>1, <3>1 DEF Read
  <2>4. (\A k \in j + 1 .. 17 : k \notin E) /\ at[17] = at[j]
    <3> HIDE DEF w, E
    <3>1. /\ w \in Seq(Seq(Nat)) /\ j \in 0 .. Len(w) /\ ~(Rank(E, j) < Rank(E, Len(w)))
          /\ \A k \in 1 .. Len(w) : k \notin E => w[k] = <<>>
      BY <2>2, <2>3
    <3>2. (\A k \in j + 1 .. Len(w) : k \notin E) /\ at[Len(w)] = at[j]
      BY <3>1, NextCounted
    <3> QED
      BY <2>2, <3>2
  <2>5. pos = Len(buf)
    BY <1>1, <1>3, <2>1, <2>4, EncodeShape DEF Read
  <2>6. ASSUME NEW t \in Tags
        PROVE  out[t] = IF t \in KernelTags THEN Sees(t, spec[t]) ELSE Default(t)
    <3>1. out[t] = IF t \in KernelTags /\ t \in seen THEN Sees(t, spec[t]) ELSE Default(t)
      BY <2>1 DEF Read
    <3>2. CASE t \in seen
      BY <3>1, <3>2
    <3>3. CASE t \notin seen
      <4>1. PICK k \in 1 .. 17 : EmitOrder[k] = t
        BY EmitFacts
      <4>2. k \notin E
        <5> SUFFICES ASSUME k \in E PROVE FALSE
          OBVIOUS
        <5>1. k \in Upto(E, j)
          BY <2>4 DEF Upto
        <5> QED
          BY <2>1, <3>3, <4>1, <5>1 DEF Read
      <4>3. Sees(t, spec[t]) = Default(t)
        BY <1>1, <2>2, <4>1, <4>2, NotEmitted
      <4> QED
        BY <3>1, <4>3
    <3> QED
      BY <3>2, <3>3
  <2>7. out = Passed(spec)
    <3>1. out = [t \in Tags |-> out[t]]
      BY <2>1 DEF Read
    <3> QED
      BY <2>6, <3>1 DEF Passed
  <2> QED
    BY <2>5, <2>7
<1>4. ASSUME buf = sent, WithinLimits(spec), Named(spec)
      PROVE  pc' = "spawn"
  <2>1. pos = Len(buf) /\ out = Received(spec)
    BY <1>1, <1>3, <1>4, PassedWithin
  <2>2. ROOTFS \in Tags /\ ARGV \in Tags
    BY Required, KnownTags
  <2>3. out[ROOTFS] # <<>> /\ out[ARGV] # <<>>
    BY <1>4, <2>1, <2>2, Required DEF Received, Named
  <2> QED
    BY <2>1, <2>3 DEF KernelEnd
<1>5. /\ (WithinLimits(spec))' = WithinLimits(spec) /\ (Named(spec))' = Named(spec)
      /\ Received(spec)' = Received(spec) /\ Passed(spec)' = Passed(spec)
  BY <1>2
<1>6. buf = sent /\ WithinLimits(spec) => out = Received(spec)
  BY <1>1, <1>3, PassedWithin
<1> QED
  BY <1>1, <1>2, <1>3, <1>4, <1>5, <1>6 DEF RoundInv, RoundTrip

\* The steps of the codec keep the round trip.
LEMMA CodecRound ==
    ASSUME DecoderInv, RoundInv, CodecNext
    PROVE  RoundInv'
<1>1. CASE EncodeSpec
  <2>1. (WithinLimits(spec))' = WithinLimits(spec) /\ Typed(spec)' = Typed(spec) /\ pc' \in {"wire", "InvalidInput"}
    BY <1>1 DEF EncodeSpec
  <2>2. pc' = "wire" => sent' = Encode(spec)'
    BY <1>1 DEF EncodeSpec
  <2> QED
    BY <1>1, <2>1, <2>2 DEF EncodeSpec, RoundInv, RoundTrip
<1>2. CASE Deliver
  BY <1>2 DEF Deliver, RoundInv, RoundTrip
<1>3. CASE KernelNoMemory
  BY <1>3 DEF KernelNoMemory, RoundInv, RoundTrip
<1> QED
  BY <1>1, <1>2, <1>3, HeaderRound, SectionRound, EndRound DEF CodecNext
=============================================================================
