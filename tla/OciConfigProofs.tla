-------------------------- MODULE OciConfigProofs --------------------------
(***************************************************************************)
(* From config.json to the init, for every config: what krunc-oci makes of *)
(* it, what reaches spawn_container through the codec, and what the init   *)
(* and the cgroup are then given.                                          *)
(*                                                                         *)
(* OciInv is inductive: it carries the codec's own invariants (DecoderInv, *)
(* RoundInv) together with the fact that the spec is the translation of    *)
(* the accepted config.  Each property is then a fact about the operators: *)
(* reading back what the translation wrote, sorting, splitting, masks.     *)
(***************************************************************************)
EXTENDS OciConfig, SpecCodecProofs

-----------------------------------------------------------------------------
(* Masks of bits.                                                          *)

\* The values Mask and Bit go through.
MaskRun(high, B) ==
    /\ high[0] = 0
    /\ \A k \in 1 .. 64 : high[k] = 2 * high[k - 1] + (IF 64 - k \in B THEN 1 ELSE 0)
    /\ \A k \in 0 .. 64 : high[k] \in Nat
    /\ Mask(B) = high[64]

\* The recursive function Mask is defined by exists.
LEMMA MaskRunExists ==
    ASSUME NEW B
    PROVE  \E high : MaskRun(high, B)
<1> DEFINE D(k) == IF 64 - k \in B THEN 1 ELSE 0
           g == [x \in Nat \X (1 .. 64) |-> 2 * x[1] + D(x[2])]
           Body(f) == [k \in 0 .. 64 |-> IF k = 0 THEN 0 ELSE 2 * f[k - 1] + D(k)]
           c == CHOOSE f : f = Body(f)
<1>1. Mask(B) = c[64]
  BY Zenon DEF Mask
<1>2. \A k : D(k) \in Nat
  OBVIOUS
<1> HIDE DEF D
<1>3. g \in [Nat \X (1 .. 64) -> Nat] /\ 0 \in Nat /\ 64 \in Nat
  BY <1>2
<1>4. PICK h : Recursive(h, Nat, 0, 64, g)
  <2> HIDE DEF g
  <2> QED
    BY <1>3, RecursionExists
<1>5. h \in [0 .. 64 -> Nat] /\ h[0] = 0
  BY <1>4 DEF Recursive
<1>6. ASSUME NEW k \in 1 .. 64
      PROVE  h[k] = 2 * h[k - 1] + D(k)
  <2>1. k - 1 \in 0 .. 64 /\ h[k] = g[<<h[k - 1], k>>]
    <3> HIDE DEF g
    <3>1. \A i \in 1 .. 64 : h[i] = g[<<h[i - 1], i>>]
      BY <1>4 DEF Recursive
    <3>2. h[k] = g[<<h[k - 1], k>>]
      BY <3>1, Zenon
    <3> QED
      BY <3>2
  <2>2. h[k - 1] \in Nat
    BY <1>5, <2>1
  <2> QED
    BY <2>1, <2>2
<1>7. h = Body(h)
  BY <1>5, <1>6
<1>8. c = Body(c)
  <2> HIDE DEF Body
  <2> QED
    BY <1>7
<1> HIDE DEF c, g
<1>9. c[0] = 0 /\ \A k \in 1 .. 64 : c[k] = 2 * c[k - 1] + D(k)
  BY <1>8
<1> DEFINE P == {k \in 0 .. 64 : c[k] \in Nat}
<1>10. 0 \in P
  BY <1>9
<1>11. ASSUME NEW k \in 1 .. 64, k - 1 \in P
       PROVE  k \in P
  BY <1>2, <1>9, <1>11
<1> HIDE DEF P
<1>12. 0 .. 64 \subseteq P
  BY <1>10, <1>11, Induction
<1>13. \A k \in 0 .. 64 : c[k] \in Nat
  BY <1>12 DEF P
<1> QED
  BY <1>1, <1>9, <1>13 DEF MaskRun, D

\* A mask is a natural.
LEMMA MaskType ==
    ASSUME NEW B
    PROVE  Mask(B) \in Nat
<1>1. PICK high : MaskRun(high, B)
  BY MaskRunExists
<1> QED
  BY <1>1 DEF MaskRun

\* The values Bit shifts a mask through.
BitRun(shifted, mask, b) ==
    /\ shifted[0] = mask
    /\ \A k \in 1 .. b : shifted[k] = shifted[k - 1] \div 2
    /\ Bit(mask, b) <=> shifted[b] % 2 = 1

\* The recursive function Bit is defined by exists.
LEMMA BitRunExists ==
    ASSUME NEW mask \in Nat, NEW b \in Nat
    PROVE  \E shifted : BitRun(shifted, mask, b)
<1> DEFINE g == [x \in Nat \X (1 .. b) |-> x[1] \div 2]
           Body(f) == [k \in 0 .. b |-> IF k = 0 THEN mask ELSE f[k - 1] \div 2]
           c == CHOOSE f : f = Body(f)
<1>1. Bit(mask, b) <=> c[b] % 2 = 1
  BY Zenon DEF Bit
<1>2. g \in [Nat \X (1 .. b) -> Nat]
  OBVIOUS
<1>3. PICK h : Recursive(h, Nat, mask, b, g)
  <2> HIDE DEF g
  <2> QED
    BY <1>2, RecursionExists
<1>4. h \in [0 .. b -> Nat] /\ h[0] = mask
  BY <1>3 DEF Recursive
<1>5. ASSUME NEW k \in 1 .. b
      PROVE  h[k] = h[k - 1] \div 2
  <2>1. k - 1 \in 0 .. b /\ h[k] = g[<<h[k - 1], k>>]
    <3> HIDE DEF g
    <3> QED
      BY <1>3 DEF Recursive
  <2>2. h[k - 1] \in Nat
    BY <1>4, <2>1
  <2> QED
    BY <2>1, <2>2
<1>6. h = Body(h)
  BY <1>4, <1>5
<1>7. c = Body(c)
  <2> HIDE DEF Body
  <2> QED
    BY <1>6
<1> HIDE DEF c, g
<1>8. c[0] = mask /\ \A k \in 1 .. b : c[k] = c[k - 1] \div 2
  BY <1>7
<1> QED
  BY <1>1, <1>8 DEF BitRun

\* The bits of a mask are those it was made of.
LEMMA MaskBit ==
    ASSUME NEW B, NEW b \in 0 .. 63
    PROVE  Bit(Mask(B), b) <=> b \in B
<1>1. PICK high : MaskRun(high, B)
  BY MaskRunExists
<1>2. PICK shifted : BitRun(shifted, Mask(B), b)
  <2>1. Mask(B) \in Nat /\ b \in Nat
    BY MaskType
  <2> QED
    BY <2>1, BitRunExists
<1> DEFINE P == {k \in 0 .. b : shifted[k] = high[64 - k]}
<1>3. 0 \in P
  BY <1>1, <1>2 DEF MaskRun, BitRun
<1>4. ASSUME NEW k \in 1 .. b, k - 1 \in P
      PROVE  k \in P
  <2> DEFINE m == 65 - k
             x == high[m - 1]
             d == IF 64 - m \in B THEN 1 ELSE 0
  <2>1. m \in 1 .. 64 /\ m - 1 \in 0 .. 64 /\ 64 - (k - 1) = m /\ 64 - k = m - 1 /\ k \in 0 .. b
    OBVIOUS
  <2>2. high[m] = 2 * x + d /\ x \in Nat
    BY <1>1, <2>1 DEF MaskRun
  <2>3. shifted[k] = shifted[k - 1] \div 2
    BY <1>2 DEF BitRun
  <2>4. shifted[k - 1] = high[m]
    BY <1>4, <2>1
  <2>5. d \in {0, 1}
    OBVIOUS
  <2> HIDE DEF d, x, m
  <2>6. (2 * x + d) \div 2 = x
    BY <2>2, <2>5
  <2>7. shifted[k] = x
    BY <2>2, <2>3, <2>4, <2>6
  <2> QED
    BY <2>1, <2>7 DEF x
<1> HIDE DEF P
<1>5. 0 .. b \subseteq P
  <2>1. b \in Nat
    OBVIOUS
  <2> QED
    BY <1>3, <1>4, <2>1, Induction
<1>6. shifted[b] = high[64 - b]
  <2>1. b \in 0 .. b
    OBVIOUS
  <2> QED
    BY <1>5, <2>1 DEF P
<1> DEFINE m == 64 - b
           x == high[m - 1]
           d == IF b \in B THEN 1 ELSE 0
<1>7. m \in 1 .. 64 /\ m - 1 \in 0 .. 64 /\ 64 - m = b
  OBVIOUS
<1>8. high[m] = 2 * x + d /\ x \in Nat
  BY <1>1, <1>7 DEF MaskRun
<1>9. d \in {0, 1} /\ (d = 1 <=> b \in B)
  OBVIOUS
<1> HIDE DEF d, x
<1>10. (2 * x + d) % 2 = d
  BY <1>8, <1>9
<1>11. Bit(Mask(B), b) <=> shifted[b] % 2 = 1
  BY <1>2 DEF BitRun
<1> HIDE DEF m
<1>12. shifted[b] % 2 = d
  BY <1>6, <1>8, <1>10 DEF m
<1> QED
  BY <1>9, <1>11, <1>12

\* The fields of a config, one by one.
LEMMA ConfigTypes ==
    ASSUME NEW c \in Configs
    PROVE  /\ c.args \in Seq(Str) /\ c.env \in Seq(Str)
           /\ c.rootPath \in Str /\ c.hostname \in Str
           /\ c.uid \in Nat /\ c.gid \in Nat
           /\ c.caps \in Seq(Seq(STRING)) /\ Len(c.caps) \in {0, 5}
           /\ c.rlimits \in Seq([type : STRING, soft : Nat, hard : Nat])
           /\ c.oomScoreAdj \in Seq((-HalfWord) .. (HalfWord - 1)) /\ Len(c.oomScoreAdj) <= 1
           /\ c.noNewPrivs \in BOOLEAN /\ c.readonly \in BOOLEAN
           /\ c.namespaces \in Seq([type : STRING, joins : BOOLEAN])
           /\ c.uidMaps \in Seq(Nat \X Nat \X Nat) /\ c.gidMaps \in Seq(Nat \X Nat \X Nat)
           /\ c.masked \in Seq(Str) /\ c.readonlyPaths \in Seq(Str)
           /\ c.sysctl \in SUBSET [name : Str, value : Str] /\ IsFiniteSet(c.sysctl)
           /\ c.pids \in Opt(Int) /\ c.memory \in Opt(Int) /\ c.quota \in Opt(Int)
           /\ c.period \in Opt(Nat) /\ c.shares \in Opt(Nat)
           /\ c.mounts \in Seq([dest : Str, type : Str, source : Str, options : Seq(STRING)])
<1>1. c \in Config /\ IsFiniteSet(c.sysctl)
  BY ConfigAssumption
<1>2. /\ c.args \in Seq(Str) /\ c.env \in Seq(Str)
      /\ c.rootPath \in Str /\ c.hostname \in Str
      /\ c.uid \in Nat /\ c.gid \in Nat
  BY <1>1 DEF Config
<1>3. c.caps \in Seq(Seq(STRING)) /\ Len(c.caps) \in {0, 5}
  BY <1>1 DEF Config
<1>4. c.oomScoreAdj \in Opt((-HalfWord) .. (HalfWord - 1))
  BY <1>1 DEF Config
<1>5. c.oomScoreAdj \in Seq((-HalfWord) .. (HalfWord - 1)) /\ Len(c.oomScoreAdj) <= 1
  BY <1>4 DEF Opt
<1>6. /\ c.rlimits \in Seq([type : STRING, soft : Nat, hard : Nat])
      /\ c.noNewPrivs \in BOOLEAN /\ c.readonly \in BOOLEAN
      /\ c.namespaces \in Seq([type : STRING, joins : BOOLEAN])
  BY <1>1 DEF Config
<1>7. /\ c.uidMaps \in Seq(Nat \X Nat \X Nat) /\ c.gidMaps \in Seq(Nat \X Nat \X Nat)
      /\ c.masked \in Seq(Str) /\ c.readonlyPaths \in Seq(Str)
      /\ c.sysctl \in SUBSET [name : Str, value : Str]
      /\ c.mounts \in Seq([dest : Str, type : Str, source : Str, options : Seq(STRING)])
  BY <1>1 DEF Config
<1>8. /\ c.pids \in Opt(Int) /\ c.memory \in Opt(Int) /\ c.quota \in Opt(Int)
      /\ c.period \in Opt(Nat) /\ c.shares \in Opt(Nat)
  BY <1>1 DEF Config
<1> QED
  BY <1>1, <1>2, <1>3, <1>5, <1>6, <1>7, <1>8

\* The first of a set of positions, as SelectInSeq has it.
First(I) == IF I # {} THEN Min(I) ELSE 0

\* First picks the least of a set of places, or 0.
LEMMA FirstOf ==
    ASSUME NEW n, NEW I, I \subseteq 1 .. n
    PROVE  /\ First(I) \in Nat /\ (First(I) = 0 <=> I = {})
           /\ I # {} => First(I) \in I /\ First(I) \in 1 .. n /\ \A y \in I : First(I) <= y
<1>1. CASE I = {}
  BY <1>1 DEF First
<1>2. CASE I # {}
  <2>1. I \subseteq Nat /\ 0 \notin I
    OBVIOUS
  <2>2. \E x \in I : \A y \in I : x <= y
    BY <1>2, <2>1, LeastNatural
  <2>3. Min(I) \in I /\ \A y \in I : Min(I) <= y
    BY <2>2, Zenon DEF Min
  <2>4. First(I) = Min(I)
    BY <1>2 DEF First
  <2> QED
    BY <1>2, <2>1, <2>3, <2>4
<1> QED
  BY <1>1, <1>2

\* PATH, given or default, is a string.
LEMMA SearchPathType ==
    ASSUME NEW env \in Seq(Str)
    PROVE  SearchPath(env) \in Str
<1> DEFINE I == {i \in 1 .. Len(env) : IsPrefix(<<PATH, EQUALS>>, env[i])}
           k == First(I)
<1>1. SearchPath(env) = IF k = 0 THEN DefaultPath ELSE SubSeq(env[k], 3, Len(env[k]))
  BY DEF SearchPath, SelectInSeq, First
<1>2. k # 0 => k \in 1 .. Len(env)
  <2>1. I \subseteq 1 .. Len(env)
    OBVIOUS
  <2> HIDE DEF I
  <2> QED
    BY <2>1, FirstOf
<1>3. DefaultPath \in Str
  BY DEF DefaultPath, Str
<1> HIDE DEF k
<1>4. CASE k # 0
  <2> DEFINE e == env[k]
  <2>1. e \in Seq(Nat) /\ Len(e) \in Nat
    BY <1>2, <1>4 DEF Str
  <2> HIDE DEF e
  <2>2. SubSeq(e, 3, Len(e)) \in Seq(Nat)
    BY <2>1
  <2> QED
    BY <1>1, <1>4, <2>2 DEF e, Str
<1> QED
  BY <1>1, <1>3, <1>4

\* The program name stays a string when it is looked up on PATH.
LEMMA ResolveType ==
    ASSUME NEW arg0 \in Str, NEW env \in Seq(Str)
    PROVE  Resolve(arg0, env) \in Str
<1> DEFINE dirs == SearchPath(env)
           I == {i \in 1 .. Len(dirs) : dirs[i] # COLON /\ <<dirs[i], arg0>> \in Programs}
           k == First(I)
<1>1. Resolve(arg0, env) = IF SLASH \in ToSet(arg0) \/ k = 0 THEN arg0 ELSE <<dirs[k], SLASH>> \o arg0
  BY DEF Resolve, SelectInSeq, First
<1>2. dirs \in Seq(Nat) /\ arg0 \in Seq(Nat)
  BY SearchPathType DEF Str
<1> HIDE DEF dirs
<1>3. k # 0 => k \in 1 .. Len(dirs)
  <2>1. I \subseteq 1 .. Len(dirs)
    OBVIOUS
  <2> HIDE DEF I
  <2> QED
    BY <2>1, FirstOf
<1> HIDE DEF k
<1>4. CASE k # 0
  <2>1. dirs[k] \in Nat
    BY <1>2, <1>3, <1>4
  <2>2. <<dirs[k], SLASH>> \in Seq(Nat)
    BY <2>1 DEF SLASH
  <2>3. <<dirs[k], SLASH>> \o arg0 \in Seq(Nat)
    BY <1>2, <2>2, ConcatCells
  <2> QED
    BY <1>1, <1>2, <2>3 DEF Str
<1> QED
  BY <1>1, <1>4

\* So does the path of the root made absolute.
LEMMA ResolveRootfsType ==
    ASSUME NEW path \in Str
    PROVE  resolve_rootfs(path) \in Str
<1>1. Bundle \in Seq(Nat) /\ path \in Seq(Nat) /\ <<SLASH>> \in Seq(Nat)
  BY ConfigAssumption DEF Str, SLASH
<1>2. Bundle \o <<SLASH>> \in Seq(Nat)
  BY <1>1, ConcatCells
<1>3. Bundle \o <<SLASH>> \o path \in Seq(Nat)
  BY <1>1, <1>2, ConcatCells
<1> QED
  BY <1>3 DEF resolve_rootfs, Str

\* A list made entry by entry.
LEMMA StrVecType ==
    ASSUME NEW t \in StrVecs, NEW list \in Seq(Str)
    PROVE  /\ StrVec(list) \in Seq(Entries(t)) /\ Len(StrVec(list)) = Len(list)
           /\ \A k \in 1 .. Len(list) : StrVec(list)[k] = <<list[k]>>
<1> DEFINE n == Len(list)
           E == Entries(t)
<1>1. \A s \in Str : <<s>> \in E
  <2> SUFFICES ASSUME NEW s \in Seq(Nat) PROVE <<s>> \in E
    BY DEF Str
  <2>1. Layout[t] = <<"str">>
    BY DEF Layout, Lists
  <2>2. <<s>> \in Seq(Val) /\ Len(<<s>>) = 1 /\ <<s>>[1] = s
    BY DEF Val
  <2>3. DOMAIN Layout[t] = {1} /\ Layout[t][1] = "str" /\ Len(Layout[t]) = 1
    BY <2>1
  <2> QED
    BY <2>2, <2>3 DEF Entries, Field
<1>2. n \in Nat /\ DOMAIN list = 1 .. n /\ \A k \in 1 .. n : list[k] \in Str
  OBVIOUS
<1>3. StrVec(list) = [k \in 1 .. n |-> <<list[k]>>]
  BY <1>2 DEF StrVec
<1> HIDE DEF n, E
<1>4. \A k \in 1 .. n : <<list[k]>> \in E
  BY <1>1, <1>2
<1> DEFINE w(k) == <<list[k]>>
<1> HIDE DEF w
<1>5. StrVec(list) = [k \in 1 .. n |-> w(k)] /\ \A k \in 1 .. n : w(k) \in E
  BY <1>3, <1>4 DEF w
<1>6. StrVec(list) \in Seq(E) /\ Len(StrVec(list)) = n /\ \A k \in 1 .. n : StrVec(list)[k] = w(k)
  BY <1>2, <1>5
<1> QED
  BY <1>6 DEF n, E, w

\* Looking up the program changes the first argument only.
LEMMA PreparedArgsType ==
    ASSUME NEW c \in Configs
    PROVE  PreparedArgs(c) \in Seq(Str) /\ Len(PreparedArgs(c)) = Len(c.args)
<1> DEFINE n == Len(c.args)
           w(k) == IF k = 1 THEN Resolve(c.args[1], c.env) ELSE c.args[k]
<1>1. c.args \in Seq(Str) /\ c.env \in Seq(Str)
  BY ConfigTypes
<1>2. n \in Nat /\ DOMAIN c.args = 1 .. n /\ \A k \in 1 .. n : c.args[k] \in Str
  BY <1>1
<1>3. \A k \in 1 .. n : w(k) \in Str
  BY <1>1, <1>2, ResolveType
<1>4. PreparedArgs(c) = [k \in 1 .. n |-> w(k)]
  BY <1>2 DEF PreparedArgs
<1> HIDE DEF n, w
<1> QED
  BY <1>2, <1>3, <1>4 DEF n

-----------------------------------------------------------------------------
(* Sorting.                                                                *)

\* R is irreflexive and transitive on S.
StrictOrder(S, R) ==
    /\ \A x \in S : <<x, x>> \notin R
    /\ \A x, y, z \in S : <<x, y>> \in R /\ <<y, z>> \in R => <<x, z>> \in R

\* A finite set has an element that comes before no other.
LEMMA LastElement ==
    ASSUME NEW S, NEW R, IsFiniteSet(S), S # {}, StrictOrder(S, R)
    PROVE  \E z \in S : \A x \in S : <<z, x>> \notin R
<1> DEFINE After(z) == {x \in S : <<z, x>> \in R}
           A == {Cardinality(After(z)) : z \in S}
<1>1. \A z \in S : IsFiniteSet(After(z)) /\ Cardinality(After(z)) \in Nat
  BY FS_Subset, FS_CardinalityType
<1>2. A \subseteq Nat /\ A # {}
  <2> HIDE DEF After
  <2> QED
    BY <1>1
<1>3. PICK m \in A : \A y \in A : m <= y
  <2> HIDE DEF A
  <2> QED
    BY <1>2, LeastNatural
<1>4. PICK z \in S : m = Cardinality(After(z))
  <2> HIDE DEF After
  <2> QED
    OBVIOUS
<1>5. ASSUME NEW x \in S, <<z, x>> \in R
      PROVE  FALSE
  <2>1. After(x) \subseteq After(z) /\ x \in After(z) /\ x \notin After(x)
    BY <1>5 DEF StrictOrder
  <2> HIDE DEF After
  <2>2. IsFiniteSet(After(z)) /\ IsFiniteSet(After(x))
    BY <1>1
  <2>3. /\ Cardinality(After(x)) <= Cardinality(After(z))
        /\ Cardinality(After(x)) = Cardinality(After(z)) => After(x) = After(z)
    BY <2>1, <2>2, FS_Subset
  <2>4. Cardinality(After(x)) # Cardinality(After(z))
    BY <2>1, <2>3
  <2>5. m <= Cardinality(After(x))
    BY <1>3
  <2>6. Cardinality(After(x)) \in Nat /\ Cardinality(After(z)) \in Nat
    BY <1>1
  <2> QED
    BY <1>4, <2>3, <2>4, <2>5, <2>6
<1> QED
  BY <1>5

\* No member of q has a smaller one after it.
Sorted(q, R) == \A i, j \in DOMAIN q : i < j => <<q[j], q[i]>> \notin R

\* A finite set with a strict order can be listed in that order: the CHOOSE of
\* SortedSysctls has something to choose.
LEMMA SortExists ==
    ASSUME NEW S, NEW R, IsFiniteSet(S), StrictOrder(S, R)
    PROVE  \E q \in SetToSeqs(S) : Sorted(q, R)
<1> DEFINE N == Cardinality(S)
           P == {n \in 0 .. N : \A T \in SUBSET S :
                    Cardinality(T) = n => \E q \in SetToSeqs(T) : Sorted(q, R)}
<1>1. N \in Nat
  BY FS_CardinalityType
<1>2. 0 \in P
  <2> SUFFICES ASSUME NEW T \in SUBSET S, Cardinality(T) = 0
               PROVE  \E q \in SetToSeqs(T) : Sorted(q, R)
    BY <1>1
  <2> DEFINE q == [i \in 1 .. 0 |-> i]
  <2>1. q \in SetToSeqs(T) /\ Sorted(q, R)
    BY DEF SetToSeqs, Sorted
  <2> QED
    BY <2>1
<1>3. ASSUME NEW n \in 1 .. N, n - 1 \in P
      PROVE  n \in P
  <2> SUFFICES ASSUME NEW T \in SUBSET S, Cardinality(T) = n
               PROVE  \E q \in SetToSeqs(T) : Sorted(q, R)
    BY <1>1
  <2>1. IsFiniteSet(T) /\ T # {}
    <3>1. IsFiniteSet(T)
      BY FS_Subset
    <3>2. n # 0
      BY <1>1
    <3> QED
      BY <3>1, <3>2, FS_EmptySet
  <2>2. PICK z \in T : \A x \in T : <<z, x>> \notin R
    <3>1. StrictOrder(T, R)
      BY DEF StrictOrder
    <3> QED
      BY <2>1, <3>1, LastElement
  <2> DEFINE U == T \ {z}
  <2>3. Cardinality(U) = n - 1 /\ U \in SUBSET S
    <3>1. Cardinality(T \ {z}) = Cardinality(T) - 1
      BY <2>1, <2>2, FS_RemoveElement
    <3> QED
      BY <3>1
  <2>4. PICK p \in SetToSeqs(U) : Sorted(p, R)
    BY <1>3, <2>3
  <2>5. /\ p \in [1 .. n - 1 -> U] /\ \A i, j \in 1 .. n - 1 : i # j => p[i] # p[j]
    BY <2>3, <2>4 DEF SetToSeqs
  <2> DEFINE q == [i \in 1 .. n |-> IF i = n THEN z ELSE p[i]]
  <2>6. n \in Nat /\ \A i \in 1 .. n : i # n => i \in 1 .. n - 1
    BY <1>1
  <2>7. \A i \in 1 .. n : q[i] \in T /\ (i # n => q[i] = p[i] /\ q[i] # z) /\ (i = n => q[i] = z)
    BY <2>5, <2>6
  <2>8. DOMAIN q = 1 .. n /\ q \in [1 .. n -> T]
    BY <2>7
  <2> HIDE DEF q, U
  <2>9. \A i, j \in 1 .. n : i # j => q[i] # q[j]
    BY <2>5, <2>6, <2>7
  <2>10. q \in SetToSeqs(T)
    BY <2>8, <2>9 DEF SetToSeqs
  <2>11. ASSUME NEW i \in 1 .. n, NEW j \in 1 .. n, i < j
         PROVE  <<q[j], q[i]>> \notin R
    <3>1. CASE j = n
      BY <2>2, <2>7, <3>1
    <3>2. CASE j # n
      <4>1. i # n /\ i \in 1 .. n - 1 /\ j \in 1 .. n - 1 /\ DOMAIN p = 1 .. n - 1
        BY <2>5, <2>6, <2>11, <3>2
      <4>2. <<p[j], p[i]>> \notin R
        BY <2>4, <2>11, <4>1 DEF Sorted
      <4> QED
        BY <2>7, <3>2, <4>1, <4>2
    <3> QED
      BY <3>1, <3>2
  <2>12. Sorted(q, R)
    BY <2>8, <2>11 DEF Sorted
  <2> QED
    BY <2>10, <2>12
<1> HIDE DEF P
<1>4. 0 .. N \subseteq P
  BY <1>1, <1>2, <1>3, Induction
<1>5. N \in P
  BY <1>1, <1>4
<1> QED
  BY <1>5 DEF P

\* Cells are compared from the first on.
LEMMA BeforeCells ==
    ASSUME NEW a \in Str, NEW b \in Str
    PROVE  Before(a, b) <=> \E k \in 0 .. Len(a) :
               /\ k < Len(b) /\ (\A i \in 1 .. k : a[i] = b[i])
               /\ k = Len(a) \/ a[k + 1] < b[k + 1]
<1>1. a \in Seq(Nat) /\ b \in Seq(Nat) /\ Len(a) \in Nat /\ Len(b) \in Nat
  BY DEF Str
<1>2. ASSUME NEW k \in 0 .. Len(a), k < Len(b)
      PROVE  IsPrefix(SubSeq(a, 1, k), b) <=> \A i \in 1 .. k : a[i] = b[i]
  <2> DEFINE u == SubSeq(a, 1, k)
             v == SubSeq(b, 1, k)
  <2>1. u \in Seq(Nat) /\ Len(u) = k /\ \A i \in 1 .. k : u[i] = a[i]
    BY <1>1
  <2>2. v \in Seq(Nat) /\ Len(v) = k /\ \A i \in 1 .. k : v[i] = b[i]
    BY <1>1, <1>2
  <2>3. SubSeq(u, 1, k) = u
    <3> HIDE DEF u
    <3> QED
      BY <2>1, SubSeqFull
  <2>4. IsPrefix(u, b) <=> u = v
    <3> HIDE DEF u
    <3>1. Len(u) <= Len(b)
      BY <1>1, <1>2, <2>1
    <3> QED
      BY <2>1, <2>3, <3>1 DEF IsPrefix
  <2> HIDE DEF u, v
  <2>5. u = v <=> \A i \in 1 .. k : a[i] = b[i]
    <3>1. ASSUME \A i \in 1 .. k : a[i] = b[i] PROVE u = v
      BY <2>1, <2>2, <3>1, SeqEqual
    <3>2. ASSUME u = v PROVE \A i \in 1 .. k : a[i] = b[i]
      BY <2>1, <2>2, <3>2
    <3> QED
      BY <3>1, <3>2
  <2> QED
    BY <2>4, <2>5 DEF u
<1> QED
  BY <1>2, Zenon DEF Before

\* The byte order of strings is strict.
LEMMA BeforeOrder ==
    /\ \A a \in Str : ~Before(a, a)
    /\ \A a, b, c \in Str : Before(a, b) /\ Before(b, c) => Before(a, c)
<1>1. ASSUME NEW a \in Str, Before(a, a)
      PROVE  FALSE
  <2>1. PICK k \in 0 .. Len(a) : k < Len(a) /\ (k = Len(a) \/ a[k + 1] < a[k + 1])
    BY <1>1, BeforeCells
  <2>2. Len(a) \in Nat /\ k + 1 \in 1 .. Len(a)
    BY <2>1 DEF Str
  <2>3. a[k + 1] \in Nat
    BY <2>2 DEF Str
  <2> QED
    BY <2>1, <2>2, <2>3
<1>2. ASSUME NEW a \in Str, NEW b \in Str, NEW c \in Str, Before(a, b), Before(b, c)
      PROVE  Before(a, c)
  <2>1. PICK k \in 0 .. Len(a) :
               /\ k < Len(b) /\ (\A i \in 1 .. k : a[i] = b[i])
               /\ k = Len(a) \/ a[k + 1] < b[k + 1]
    BY <1>2, BeforeCells
  <2>2. PICK m \in 0 .. Len(b) :
               /\ m < Len(c) /\ (\A i \in 1 .. m : b[i] = c[i])
               /\ m = Len(b) \/ b[m + 1] < c[m + 1]
    BY <1>2, BeforeCells
  <2>3. /\ Len(a) \in Nat /\ Len(b) \in Nat /\ Len(c) \in Nat
        /\ \A i \in 1 .. Len(a) : a[i] \in Nat
        /\ \A i \in 1 .. Len(b) : b[i] \in Nat
        /\ \A i \in 1 .. Len(c) : c[i] \in Nat
    BY DEF Str
  <2> DEFINE n == IF k <= m THEN k ELSE m
  <2>4. n \in 0 .. Len(a) /\ n < Len(c) /\ n <= k /\ n <= m
    BY <2>1, <2>2, <2>3
  <2>5. \A i \in 1 .. n : a[i] = c[i]
    BY <2>1, <2>2, <2>3, <2>4
  <2>6. n = Len(a) \/ a[n + 1] < c[n + 1]
    <3>1. CASE k < m
      <4>1. n = k /\ k + 1 \in 1 .. m
        BY <2>3, <3>1
      <4>2. b[k + 1] = c[k + 1]
        BY <2>2, <4>1
      <4> QED
        BY <2>1, <4>1, <4>2
    <3>2. CASE k = m
      <4>1. n = k /\ n = m /\ m # Len(b)
        BY <2>1, <3>2
      <4>2. CASE k = Len(a)
        BY <4>1, <4>2
      <4>3. CASE k # Len(a)
        <5>1. a[n + 1] < b[n + 1] /\ b[n + 1] < c[n + 1]
          BY <2>1, <2>2, <4>1, <4>3
        <5>2. n + 1 \in 1 .. Len(a) /\ n + 1 \in 1 .. Len(b) /\ n + 1 \in 1 .. Len(c)
          BY <2>1, <2>2, <2>3, <4>1, <4>3
        <5> DEFINE x == a[n + 1]
                   y == b[n + 1]
                   z == c[n + 1]
        <5>3. x \in Nat /\ y \in Nat /\ z \in Nat /\ x < y /\ y < z
          BY <2>3, <5>1, <5>2
        <5> HIDE DEF x, y, z
        <5>4. x < z
          BY <5>3
        <5> QED
          BY <5>4 DEF x, z
      <4> QED
        BY <4>2, <4>3
    <3>3. CASE m < k
      <4>1. n = m /\ m + 1 \in 1 .. k /\ m # Len(b)
        BY <2>1, <2>3, <3>3
      <4>2. a[m + 1] = b[m + 1]
        BY <2>1, <4>1
      <4> QED
        BY <2>2, <4>1, <4>2
    <3> QED
      BY <2>3, <3>1, <3>2, <3>3
  <2> HIDE DEF n
  <2> QED
    BY <2>4, <2>5, <2>6, BeforeCells
<1> QED
  BY <1>1, <1>2

\* A sysctl name becomes a path character by character.
LEMMA RelpathType ==
    ASSUME NEW name \in Str
    PROVE  /\ RelpathOf(name) \in Str /\ Len(RelpathOf(name)) = Len(name)
           /\ RelpathOf(name) = [j \in DOMAIN name |-> IF name[j] = DOT THEN SLASH ELSE name[j]]
<1> DEFINE n == Len(name)
           w(j) == IF name[j] = DOT THEN SLASH ELSE name[j]
<1>1. n \in Nat /\ DOMAIN name = 1 .. n /\ \A j \in 1 .. n : w(j) \in Nat
  BY DEF Str, SLASH
<1>2. RelpathOf(name) = [j \in 1 .. n |-> w(j)]
  BY DEF RelpathOf, ReplaceAll
<1>3. [j \in DOMAIN name |-> w(j)] = [j \in 1 .. n |-> w(j)]
  BY <1>1
<1> HIDE DEF n, w
<1>4. [j \in 1 .. n |-> w(j)] \in Seq(Nat) /\ Len([j \in 1 .. n |-> w(j)]) = n
  BY <1>1
<1> QED
  BY <1>2, <1>3, <1>4 DEF n, w, Str

\* The entries of the sysctl map.
SysctlRecords == [name : Str, value : Str]

\* The order the entries are sorted in is strict.
LEMMA SysctlOrder ==
    ASSUME NEW S \in SUBSET SysctlRecords
    PROVE  StrictOrder(S, {x \in S \X S : SysctlLess(x[1], x[2])})
<1> DEFINE R == {x \in S \X S : SysctlLess(x[1], x[2])}
           p(s) == RelpathOf(s.name)
           v(s) == s.value
<1>1. \A s \in S : p(s) \in Str /\ v(s) \in Str
  <2> SUFFICES ASSUME NEW s \in S PROVE p(s) \in Str /\ v(s) \in Str
    OBVIOUS
  <2>1. s.name \in Str /\ s.value \in Str
    BY DEF SysctlRecords
  <2> QED
    BY <2>1, RelpathType
<1>2. \A s, t : SysctlLess(s, t) <=> Before(p(s), p(t)) \/ (p(s) = p(t) /\ Before(v(s), v(t)))
  BY DEF SysctlLess
<1>3. \A s, t \in S : <<s, t>> \in R <=> SysctlLess(s, t)
  OBVIOUS
<1> HIDE DEF R, p, v
<1>4. \A s \in S : <<s, s>> \notin R
  BY <1>1, <1>2, <1>3, BeforeOrder
<1>5. ASSUME NEW x \in S, NEW y \in S, NEW z \in S, <<x, y>> \in R, <<y, z>> \in R
      PROVE  <<x, z>> \in R
  <2>1. p(x) \in Str /\ p(y) \in Str /\ p(z) \in Str /\ v(x) \in Str /\ v(y) \in Str /\ v(z) \in Str
    BY <1>1
  <2>2. Before(p(x), p(y)) \/ (p(x) = p(y) /\ Before(v(x), v(y)))
    BY <1>2, <1>3, <1>5
  <2>3. Before(p(y), p(z)) \/ (p(y) = p(z) /\ Before(v(y), v(z)))
    BY <1>2, <1>3, <1>5
  <2>4. Before(p(x), p(z)) \/ (p(x) = p(z) /\ Before(v(x), v(z)))
    BY <2>1, <2>2, <2>3, BeforeOrder
  <2> QED
    BY <1>2, <1>3, <2>4
<1> QED
  BY <1>4, <1>5 DEF StrictOrder, R

\* The sorted entries of the config, as records.
SortedSysctls(c) ==
    CHOOSE q \in SetToSeqs(c.sysctl) : \A i, j \in DOMAIN q : i < j => ~SysctlLess(q[j], q[i])

\* Sorting lists every sysctl once.
LEMMA SortedSysctlsType ==
    ASSUME NEW c \in Configs
    PROVE  LET n == Cardinality(c.sysctl)
               q == SortedSysctls(c)
           IN /\ n \in Nat /\ q \in [1 .. n -> c.sysctl]
              /\ \A i, j \in 1 .. n : q[i] = q[j] => i = j
<1> DEFINE S == c.sysctl
           R == {x \in S \X S : SysctlLess(x[1], x[2])}
           n == Cardinality(S)
           Good(q) == \A i, j \in DOMAIN q : i < j => ~SysctlLess(q[j], q[i])
<1>1. S \in SUBSET SysctlRecords /\ IsFiniteSet(S)
  BY ConfigTypes DEF SysctlRecords
<1>2. n \in Nat
  BY <1>1, FS_CardinalityType
<1>3. PICK q \in SetToSeqs(S) : Sorted(q, R)
  <2>1. StrictOrder(S, R)
    BY <1>1, SysctlOrder
  <2> HIDE DEF R, S
  <2> QED
    BY <1>1, <2>1, SortExists
<1>4. Good(q)
  <2> SUFFICES ASSUME NEW i \in DOMAIN q, NEW j \in DOMAIN q, i < j
               PROVE  ~SysctlLess(q[j], q[i])
    OBVIOUS
  <2>1. q \in [1 .. n -> S]
    BY <1>3 DEF SetToSeqs
  <2>2. q[j] \in S /\ q[i] \in S
    BY <2>1
  <2>3. <<q[j], q[i]>> \notin R
    BY <1>3 DEF Sorted
  <2> QED
    BY <2>2, <2>3
<1> DEFINE s == SortedSysctls(c)
<1>5. s \in SetToSeqs(S)
  <2>1. s = CHOOSE x \in SetToSeqs(S) : Good(x)
    BY DEF SortedSysctls
  <2> HIDE DEF Good, S
  <2>2. \E x \in SetToSeqs(S) : Good(x)
    BY <1>3, <1>4
  <2>3. (CHOOSE x \in SetToSeqs(S) : Good(x)) \in SetToSeqs(S)
    BY <2>2
  <2> HIDE DEF s
  <2> QED
    BY <2>1, <2>3
<1> HIDE DEF s
<1>6. s \in [1 .. n -> S] /\ \A i, j \in 1 .. n : i # j => s[i] # s[j]
  BY <1>5 DEF SetToSeqs
<1> QED
  BY <1>2, <1>6 DEF s

\* An entry "<path>=<value>".
SysctlEntry(s) == <<RelpathOf(s.name) \o <<EQUALS>> \o s.value>>

\* The section has one entry for each.
LEMMA SysctlsType ==
    ASSUME NEW c \in Configs
    PROVE  LET n == Cardinality(c.sysctl)
           IN /\ Sysctls(c) \in Seq(Entries(SYSCTLS)) /\ Len(Sysctls(c)) = n
              /\ \A k \in 1 .. n : Sysctls(c)[k] = SysctlEntry(SortedSysctls(c)[k])
<1> DEFINE n == Cardinality(c.sysctl)
           q == SortedSysctls(c)
           E == Entries(SYSCTLS)
           w(k) == SysctlEntry(q[k])
<1>1. n \in Nat /\ q \in [1 .. n -> c.sysctl]
  BY SortedSysctlsType
<1>2. Sysctls(c) = [k \in DOMAIN q |-> SysctlEntry(q[k])]
  BY DEF Sysctls, SortedSysctls, SysctlEntry
<1> HIDE DEF q, n
<1>3. Sysctls(c) = [k \in 1 .. n |-> w(k)]
  BY <1>1, <1>2
<1>4. ASSUME NEW k \in 1 .. n
      PROVE  w(k) \in E
  <2> DEFINE s == q[k]
             e == RelpathOf(s.name) \o <<EQUALS>> \o s.value
  <2>1. s \in SysctlRecords
    BY <1>1, ConfigTypes DEF SysctlRecords
  <2>2. s.name \in Str /\ s.value \in Str
    BY <2>1 DEF SysctlRecords
  <2>3. RelpathOf(s.name) \in Seq(Nat) /\ s.value \in Seq(Nat) /\ <<EQUALS>> \in Seq(Nat)
    BY <2>2, RelpathType DEF Str, EQUALS
  <2>4. RelpathOf(s.name) \o <<EQUALS>> \in Seq(Nat)
    BY <2>3, ConcatCells
  <2>5. e \in Seq(Nat)
    BY <2>3, <2>4, ConcatCells
  <2>6. w(k) = <<e>>
    BY DEF SysctlEntry
  <2> HIDE DEF e, w
  <2>7. Layout[SYSCTLS] = <<"str">>
    BY DEF Layout, Lists, StrVecs
  <2>8. DOMAIN Layout[SYSCTLS] = {1} /\ Layout[SYSCTLS][1] = "str" /\ Len(Layout[SYSCTLS]) = 1
    BY <2>7
  <2>9. <<e>> \in Seq(Val) /\ Len(<<e>>) = 1 /\ <<e>>[1] = e
    BY <2>5 DEF Val
  <2> QED
    BY <2>5, <2>6, <2>8, <2>9 DEF Entries, Field
<1> HIDE DEF E, w
<1>5. [k \in 1 .. n |-> w(k)] \in Seq(E) /\ Len([k \in 1 .. n |-> w(k)]) = n
  BY <1>1, <1>4
<1>6. \A k \in 1 .. n : Sysctls(c)[k] = w(k)
  BY <1>3
<1> QED
  BY <1>3, <1>5, <1>6 DEF n, w, q, E

\* The rlimit and mount sections of a config.
RlimitEntries(c) == [k \in DOMAIN c.rlimits |-> Rlimit(c.rlimits[k])]
MountEntries(c) == [k \in DOMAIN c.mounts |-> MountSpec(c.mounts[k])]

\* The sections of the spec of a config.
LEMMA SpecSections ==
    ASSUME NEW c
    PROVE  LET s == SpecOf(c)
           IN /\ DOMAIN s = Tags
              /\ s[ROOTFS] = resolve_rootfs(c.rootPath)
              /\ s[HOSTNAME] = c.hostname
              /\ s[ARGV] = StrVec(PreparedArgs(c))
              /\ s[ENV] = StrVec(c.env)
              /\ s[NAMESPACES] = <<Mask({NsBit[n] : n \in NsTypes(c)})>>
              /\ s[UIDMAPS] = c.uidMaps
              /\ s[GIDMAPS] = c.gidMaps
              /\ s[FLAGS] = <<(IF c.noNewPrivs THEN 1 ELSE 0) + (IF c.readonly THEN 2 ELSE 0)>>
              /\ s[CAPBOUNDING] = (IF c.caps = <<>> THEN <<>> ELSE <<CapMasks(c)[1]>>)
              /\ s[CAPSETS] = CapSets(c)
              /\ s[MASKEDPATHS] = StrVec(c.masked)
              /\ s[ROPATHS] = StrVec(c.readonlyPaths)
              /\ s[RLIMITS] = RlimitEntries(c)
              /\ s[OOMSCOREADJ] = c.oomScoreAdj
              /\ s[USER] = <<c.uid, c.gid>>
              /\ s[MOUNTS] = MountEntries(c)
              /\ s[SYSCTLS] = Sysctls(c)
<1>1. Tags = (1 .. 18) \ {10}
  BY DEF Tags, Strings, Lists, StrVecs, Ints, ROOTFS, HOSTNAME, ARGV, ENV, NAMESPACES, UIDMAPS, GIDMAPS, FLAGS,
         CAPBOUNDING, CAPSETS, MASKEDPATHS, ROPATHS, RLIMITS, OOMSCOREADJ, USER, MOUNTS, SYSCTLS
<1> QED
  BY <1>1 DEF SpecOf, RlimitEntries, MountEntries, ROOTFS, HOSTNAME, ARGV, ENV, NAMESPACES, UIDMAPS,
              GIDMAPS, FLAGS, CAPBOUNDING, CAPSETS, MASKEDPATHS, ROPATHS, RLIMITS, OOMSCOREADJ, USER,
              MOUNTS, SYSCTLS

\* A name of a table and its number.
LEMMA NumberOf ==
    ASSUME NEW table, NEW n \in Nat, Len(table) = n, DOMAIN table = 1 .. n,
           NEW name, name \in ToSet(table)
    PROVE  /\ Number(table, name) \in 0 .. (n - 1)
           /\ table[Number(table, name) + 1] = name
<1> DEFINE I == {i \in 1 .. Len(table) : table[i] = name}
<1>1. Number(table, name) = First(I) - 1
  BY DEF Number, SelectInSeq, First
<1>2. I \subseteq 1 .. n
  OBVIOUS
<1>3. I # {}
  BY DEF ToSet
<1>4. First(I) \in I /\ First(I) \in 1 .. n
  <2> HIDE DEF I
  <2> QED
    BY <1>2, <1>3, FirstOf
<1>5. table[First(I)] = name
  BY <1>4
<1> HIDE DEF I
<1>6. First(I) - 1 + 1 = First(I) /\ First(I) - 1 \in 0 .. (n - 1)
  BY <1>4
<1> QED
  BY <1>1, <1>5, <1>6

\* The tables of rlimit types and capabilities.
LEMMA TableSizes ==
    /\ Len(RLIMITTYPES) = 16 /\ DOMAIN RLIMITTYPES = 1 .. 16
    /\ Len(CAPS) = 41 /\ DOMAIN CAPS = 1 .. 41
  BY DEF RLIMITTYPES, CAPS

\* The entries of the list of id maps, of resource limits and of mounts.
LEMMA TripleEntries ==
    ASSUME NEW t \in {UIDMAPS, GIDMAPS, RLIMITS}, NEW a \in Nat, NEW b \in Nat, NEW c \in Nat
    PROVE  <<a, b, c>> \in Entries(t)
<1>1. Layout[t] = <<"int", "int", "int">>
  BY DEF Layout, Lists, StrVecs, UIDMAPS, GIDMAPS, RLIMITS, ARGV, ENV, MASKEDPATHS, ROPATHS, SYSCTLS, MOUNTS
<1> DEFINE e == <<a, b, c>>
<1>2. e \in Seq(Val) /\ Len(e) = 3 /\ e[1] = a /\ e[2] = b /\ e[3] = c
  BY DEF Val
<1>3. /\ DOMAIN Layout[t] = {1, 2, 3} /\ Len(Layout[t]) = 3
      /\ Layout[t][1] = "int" /\ Layout[t][2] = "int" /\ Layout[t][3] = "int"
  BY <1>1
<1> HIDE DEF e
<1>4. e \in Entries(t)
  BY <1>2, <1>3 DEF Entries, Field
<1> QED
  BY <1>4 DEF e

\* Three strings and a word are an entry of the mount section.
LEMMA MountEntry ==
    ASSUME NEW a \in Str, NEW b \in Str, NEW c \in Str, NEW f \in Nat
    PROVE  <<a, b, c, f>> \in Entries(MOUNTS)
<1>1. Layout[MOUNTS] = <<"str", "str", "str", "int">>
  BY DEF Layout, Lists, StrVecs, UIDMAPS, GIDMAPS, RLIMITS, ARGV, ENV, MASKEDPATHS, ROPATHS, SYSCTLS, MOUNTS
<1> DEFINE e == <<a, b, c, f>>
<1>2. e \in Seq(Val) /\ Len(e) = 4 /\ e[1] = a /\ e[2] = b /\ e[3] = c /\ e[4] = f
  BY DEF Val, Str
<1>3. /\ DOMAIN Layout[MOUNTS] = {1, 2, 3, 4} /\ Len(Layout[MOUNTS]) = 4
      /\ Layout[MOUNTS][1] = "str" /\ Layout[MOUNTS][2] = "str" /\ Layout[MOUNTS][3] = "str"
      /\ Layout[MOUNTS][4] = "int"
  BY <1>1
<1> HIDE DEF e
<1>4. e \in Entries(MOUNTS)
  BY <1>2, <1>3 DEF Entries, Field, Str
<1> QED
  BY <1>4 DEF e

\* Id mappings are entries of their sections as they are.
LEMMA MapsType ==
    ASSUME NEW t \in {UIDMAPS, GIDMAPS}, NEW maps \in Seq(Nat \X Nat \X Nat)
    PROVE  maps \in Seq(Entries(t))
<1> DEFINE n == Len(maps)
           E == Entries(t)
<1>1. \A m \in Nat \X Nat \X Nat : m \in E
  <2> SUFFICES ASSUME NEW m \in Nat \X Nat \X Nat PROVE m \in E
    OBVIOUS
  <2>1. PICK a \in Nat, b \in Nat, c \in Nat : m = <<a, b, c>>
    OBVIOUS
  <2> QED
    BY <2>1, TripleEntries
<1> DEFINE T == Nat \X Nat \X Nat
<1>2. maps \in Seq(T) /\ \A m \in T : m \in E
  BY <1>1
<1> HIDE DEF E, T
<1> QED
  BY <1>2 DEF E

\* An accepted rlimit has a type of the table, hence a number.
LEMMA RlimitsType ==
    ASSUME NEW c \in Configs, \A r \in ToSet(c.rlimits) : r.type \in ToSet(RLIMITTYPES)
    PROVE  /\ RlimitEntries(c) \in Seq(Entries(RLIMITS)) /\ Len(RlimitEntries(c)) = Len(c.rlimits)
           /\ \A k \in 1 .. Len(c.rlimits) : RlimitEntries(c)[k] = Rlimit(c.rlimits[k])
<1> DEFINE n == Len(c.rlimits)
           E == Entries(RLIMITS)
           w(k) == Rlimit(c.rlimits[k])
<1>1. c.rlimits \in Seq([type : STRING, soft : Nat, hard : Nat])
  BY ConfigTypes
<1>2. n \in Nat /\ DOMAIN c.rlimits = 1 .. n
  BY <1>1
<1>3. ASSUME NEW k \in 1 .. n
      PROVE  w(k) \in E
  <2> DEFINE r == c.rlimits[k]
             a == Number(RLIMITTYPES, r.type)
  <2>1. r.soft \in Nat /\ r.hard \in Nat /\ r \in ToSet(c.rlimits)
    <3> DEFINE T == [type : STRING, soft : Nat, hard : Nat]
    <3>1. r \in T
      <4>1. c.rlimits \in Seq(T) /\ k \in 1 .. Len(c.rlimits)
        BY <1>1
      <4> HIDE DEF T
      <4> QED
        BY <4>1, ElementOfSeq
    <3>2. r \in ToSet(c.rlimits)
      BY <1>2 DEF ToSet
    <3> QED
      BY <3>1, <3>2
  <2>2. r.type \in ToSet(RLIMITTYPES)
    BY <2>1
  <2>3. a \in 0 .. 15
    <3>1. 16 \in Nat /\ Len(RLIMITTYPES) = 16 /\ DOMAIN RLIMITTYPES = 1 .. 16
      BY TableSizes
    <3> HIDE DEF r
    <3>2. Number(RLIMITTYPES, r.type) \in 0 .. (16 - 1)
      BY <2>2, <3>1, NumberOf
    <3> QED
      BY <3>2
  <2> HIDE DEF a, r
  <2>4. <<a, r.soft, r.hard>> \in E
    BY <2>1, <2>3, TripleEntries, SMTT(30)
  <2> QED
    BY <2>4 DEF Rlimit, a, r
<1>4. RlimitEntries(c) = [k \in 1 .. n |-> w(k)]
  BY <1>2 DEF RlimitEntries
<1> HIDE DEF n, E, w
<1>5. [k \in 1 .. n |-> w(k)] \in Seq(E) /\ Len([k \in 1 .. n |-> w(k)]) = n
  BY <1>2, <1>3
<1>6. \A k \in 1 .. n : RlimitEntries(c)[k] = w(k)
  BY <1>4
<1> QED
  BY <1>4, <1>5, <1>6 DEF n, E, w

\* Each mount has its entry, at its place.
LEMMA MountsType ==
    ASSUME NEW c \in Configs
    PROVE  /\ MountEntries(c) \in Seq(Entries(MOUNTS)) /\ Len(MountEntries(c)) = Len(c.mounts)
           /\ \A k \in 1 .. Len(c.mounts) : MountEntries(c)[k] = MountSpec(c.mounts[k])
<1> DEFINE n == Len(c.mounts)
           E == Entries(MOUNTS)
           w(k) == MountSpec(c.mounts[k])
<1>1. c.mounts \in Seq([dest : Str, type : Str, source : Str, options : Seq(STRING)])
  BY ConfigTypes
<1>2. n \in Nat /\ DOMAIN c.mounts = 1 .. n
  BY <1>1
<1>3. ASSUME NEW k \in 1 .. n
      PROVE  w(k) \in E
  <2> DEFINE m == c.mounts[k]
             f == Mask(mount_flags(m.options))
             y == IF BIND \in mount_flags(m.options) THEN <<>> ELSE m.type
  <2>1. m.dest \in Str /\ m.type \in Str /\ m.source \in Str
    <3> DEFINE T == [dest : Str, type : Str, source : Str, options : Seq(STRING)]
    <3>1. m \in T
      <4>1. c.mounts \in Seq(T) /\ k \in 1 .. Len(c.mounts)
        BY <1>1
      <4> HIDE DEF T
      <4> QED
        BY <4>1, ElementOfSeq
    <3> QED
      BY <3>1
  <2>2. f \in Nat
    BY MaskType
  <2>3. y \in Str
    <3>1. <<>> \in Str
      BY DEF Str
    <3> QED
      BY <2>1, <3>1
  <2>4. w(k) = <<m.dest, y, m.source, f>>
    BY DEF MountSpec
  <2> HIDE DEF y, f, m, w
  <2> QED
    BY <2>1, <2>2, <2>3, <2>4, MountEntry
<1>4. MountEntries(c) = [k \in 1 .. n |-> w(k)]
  BY <1>2 DEF MountEntries
<1> HIDE DEF n, E, w
<1>5. [k \in 1 .. n |-> w(k)] \in Seq(E) /\ Len([k \in 1 .. n |-> w(k)]) = n
  BY <1>2, <1>3
<1>6. \A k \in 1 .. n : MountEntries(c)[k] = w(k)
  BY <1>4
<1> QED
  BY <1>4, <1>5, <1>6 DEF n, E, w

\* Either no capability set was given, or all five are masks.
LEMMA CapsType ==
    ASSUME NEW c \in Configs
    PROVE  \/ c.caps = <<>> /\ CapSets(c) = <<0, 0, 0, 0>>
           \/ /\ c.caps # <<>> /\ DOMAIN c.caps = 1 .. 5
              /\ \A k \in 1 .. 5 : CapMasks(c)[k] = caps_to_mask(c.caps[k]) /\ CapMasks(c)[k] \in Nat
              /\ CapSets(c) = <<CapMasks(c)[2], CapMasks(c)[3], CapMasks(c)[4], CapMasks(c)[5]>>
<1>1. c.caps \in Seq(Seq(STRING)) /\ Len(c.caps) \in {0, 5}
  BY ConfigTypes
<1>2. CASE c.caps = <<>>
  <2>1. Default(CAPSETS) = [k \in 1 .. 4 |-> 0]
    BY DEF Default, Ints, Optional, CAPSETS, CAPBOUNDING, OOMSCOREADJ, NAMESPACES, FLAGS, USER
  <2>2. [k \in 1 .. 4 |-> 0] = <<0, 0, 0, 0>>
    OBVIOUS
  <2> QED
    BY <1>2, <2>1, <2>2 DEF CapSets
<1>3. CASE c.caps # <<>>
  <2> DEFINE S == Seq(STRING)
  <2>1. DOMAIN c.caps = 1 .. 5
    <3>1. c.caps \in Seq(S)
      BY <1>1
    <3> HIDE DEF S
    <3>2. Len(c.caps) # 0
      BY <1>3, <3>1, EmptySeq
    <3>3. Len(c.caps) = 5
      BY <1>1, <3>2
    <3> QED
      BY <3>1, <3>3
  <2>2. \A k \in 1 .. 5 : CapMasks(c)[k] = caps_to_mask(c.caps[k])
    BY <2>1 DEF CapMasks
  <2>3. \A k \in 1 .. 5 : CapMasks(c)[k] \in Nat
    BY <2>2, MaskType DEF caps_to_mask
  <2>4. CapSets(c) = <<CapMasks(c)[2], CapMasks(c)[3], CapMasks(c)[4], CapMasks(c)[5]>>
    BY <1>3 DEF CapSets
  <2> QED
    BY <1>3, <2>1, <2>2, <2>3, <2>4
<1> QED
  BY <1>2, <1>3

\* What config_to_spec makes of a config it does not refuse is a spec.
LEMMA SpecTyped ==
    ASSUME NEW c \in Configs, ~Rejected(c)
    PROVE  Typed(SpecOf(c))
<1> DEFINE s == SpecOf(c)
<1>1. /\ s[ROOTFS] = resolve_rootfs(c.rootPath)
      /\ s[HOSTNAME] = c.hostname
      /\ s[ARGV] = StrVec(PreparedArgs(c))
      /\ s[ENV] = StrVec(c.env)
      /\ s[NAMESPACES] = <<Mask({NsBit[n] : n \in NsTypes(c)})>>
      /\ s[UIDMAPS] = c.uidMaps
      /\ s[GIDMAPS] = c.gidMaps
      /\ s[FLAGS] = <<(IF c.noNewPrivs THEN 1 ELSE 0) + (IF c.readonly THEN 2 ELSE 0)>>
      /\ s[CAPBOUNDING] = (IF c.caps = <<>> THEN <<>> ELSE <<CapMasks(c)[1]>>)
      /\ s[CAPSETS] = CapSets(c)
      /\ s[MASKEDPATHS] = StrVec(c.masked)
      /\ s[ROPATHS] = StrVec(c.readonlyPaths)
      /\ s[RLIMITS] = RlimitEntries(c)
      /\ s[OOMSCOREADJ] = c.oomScoreAdj
      /\ s[USER] = <<c.uid, c.gid>>
      /\ s[MOUNTS] = MountEntries(c)
      /\ s[SYSCTLS] = Sysctls(c)
  BY SpecSections, Zenon
<1> HIDE DEF s
<1>2. \A t \in Strings : s[t] \in Seq(Nat)
  <2>1. resolve_rootfs(c.rootPath) \in Seq(Nat) /\ c.hostname \in Seq(Nat)
    BY ConfigTypes, ResolveRootfsType DEF Str
  <2> QED
    BY <1>1, <2>1 DEF Strings
<1>3. \A t \in Lists : s[t] \in Seq(Entries(t))
  <2>1. \A t \in StrVecs : StrVec(PreparedArgs(c)) \in Seq(Entries(t)) /\ StrVec(c.env) \in Seq(Entries(t))
                           /\ StrVec(c.masked) \in Seq(Entries(t)) /\ StrVec(c.readonlyPaths) \in Seq(Entries(t))
    BY ConfigTypes, PreparedArgsType, StrVecType
  <2>2. Sysctls(c) \in Seq(Entries(SYSCTLS))
    BY SysctlsType
  <2>3. \A t \in {UIDMAPS, GIDMAPS} : c.uidMaps \in Seq(Entries(t)) /\ c.gidMaps \in Seq(Entries(t))
    BY ConfigTypes, MapsType
  <2>4. RlimitEntries(c) \in Seq(Entries(RLIMITS))
    <3>1. \A r \in ToSet(c.rlimits) : r.type \in ToSet(RLIMITTYPES)
      BY DEF Rejected
    <3> QED
      BY <3>1, RlimitsType
  <2>5. MountEntries(c) \in Seq(Entries(MOUNTS))
    BY MountsType
  <2>6. ARGV \in StrVecs /\ ENV \in StrVecs /\ MASKEDPATHS \in StrVecs /\ ROPATHS \in StrVecs
    BY DEF StrVecs
  <2>7. Lists = {ARGV, ENV, MASKEDPATHS, ROPATHS, SYSCTLS, UIDMAPS, GIDMAPS, RLIMITS, MOUNTS}
    BY DEF Lists, StrVecs
  <2> QED
    BY <1>1, <2>1, <2>2, <2>3, <2>4, <2>5, <2>6, <2>7
<1>4. s[NAMESPACES] \in Seq(Nat) /\ Len(s[NAMESPACES]) = 1
  <2> DEFINE m == Mask({NsBit[n] : n \in NsTypes(c)})
  <2>1. m \in Nat
    BY MaskType
  <2> HIDE DEF m
  <2>2. <<m>> \in Seq(Nat) /\ Len(<<m>>) = 1
    BY <2>1
  <2> QED
    BY <1>1, <2>2 DEF m
<1>5. s[FLAGS] \in Seq(Nat) /\ Len(s[FLAGS]) = 1
  <2> DEFINE m == (IF c.noNewPrivs THEN 1 ELSE 0) + (IF c.readonly THEN 2 ELSE 0)
  <2>1. m \in Nat
    OBVIOUS
  <2> HIDE DEF m
  <2>2. <<m>> \in Seq(Nat) /\ Len(<<m>>) = 1
    BY <2>1
  <2> QED
    BY <1>1, <2>2 DEF m
<1>6. s[USER] \in Seq(Nat) /\ Len(s[USER]) = 2
  <2>1. c.uid \in Nat /\ c.gid \in Nat
    BY ConfigTypes
  <2>2. <<c.uid, c.gid>> \in Seq(Nat) /\ Len(<<c.uid, c.gid>>) = 2
    BY <2>1
  <2> QED
    BY <1>1, <2>2
<1>7. /\ s[CAPBOUNDING] \in Seq(Nat) /\ Len(s[CAPBOUNDING]) <= 1
      /\ s[CAPSETS] \in Seq(Nat) /\ Len(s[CAPSETS]) = 4
      /\ s[CAPBOUNDING] = <<>> => s[CAPSETS] = Default(CAPSETS)
  <2>1. CASE c.caps = <<>>
    <3>1. CapSets(c) = <<0, 0, 0, 0>> /\ CapSets(c) = Default(CAPSETS)
      BY <2>1, CapsType DEF CapSets
    <3>2. s[CAPBOUNDING] = <<>> /\ s[CAPSETS] = <<0, 0, 0, 0>>
      BY <1>1, <2>1, <3>1
    <3>3. <<0, 0, 0, 0>> \in Seq(Nat) /\ Len(<<0, 0, 0, 0>>) = 4
      OBVIOUS
    <3>4. <<>> \in Seq(Nat) /\ Len(<<>>) <= 1
      OBVIOUS
    <3>5. s[CAPSETS] = Default(CAPSETS)
      BY <1>1, <3>1
    <3> QED
      BY <3>2, <3>3, <3>4, <3>5
  <2>2. CASE c.caps # <<>>
    <3> DEFINE m == CapMasks(c)
    <3>1. (\A k \in 1 .. 5 : m[k] \in Nat) /\ CapSets(c) = <<m[2], m[3], m[4], m[5]>>
      BY <2>2, CapsType
    <3> HIDE DEF m
    <3>2. s[CAPBOUNDING] = <<m[1]>> /\ s[CAPSETS] = <<m[2], m[3], m[4], m[5]>>
      BY <1>1, <2>2, <3>1 DEF m
    <3>3. m[1] \in Nat /\ m[2] \in Nat /\ m[3] \in Nat /\ m[4] \in Nat /\ m[5] \in Nat
      BY <3>1
    <3>4. <<m[1]>> \in Seq(Nat) /\ Len(<<m[1]>>) = 1 /\ <<m[1]>> # <<>>
      BY <3>3
    <3>5. <<m[2], m[3], m[4], m[5]>> \in Seq(Nat) /\ Len(<<m[2], m[3], m[4], m[5]>>) = 4
      BY <3>3
    <3> QED
      BY <3>2, <3>4, <3>5
  <2> QED
    BY <2>1, <2>2
<1>8. s[OOMSCOREADJ] \in Seq((-HalfWord) .. (HalfWord - 1)) /\ Len(s[OOMSCOREADJ]) <= 1
  BY <1>1, ConfigTypes
<1>9. DOMAIN Ints \ {OOMSCOREADJ} = {NAMESPACES, FLAGS, CAPBOUNDING, CAPSETS, USER}
  BY DEF Ints, NAMESPACES, FLAGS, CAPBOUNDING, CAPSETS, USER, OOMSCOREADJ
<1>10. /\ DOMAIN Ints \ Optional = {NAMESPACES, FLAGS, CAPSETS, USER}
       /\ Ints[NAMESPACES] = 1 /\ Ints[FLAGS] = 1 /\ Ints[CAPSETS] = 4 /\ Ints[USER] = 2
  BY DEF Ints, Optional, NAMESPACES, FLAGS, CAPBOUNDING, CAPSETS, USER, OOMSCOREADJ
<1>11. \A t \in DOMAIN Ints \ {OOMSCOREADJ} : s[t] \in Seq(Nat)
  BY <1>4, <1>5, <1>6, <1>7, <1>9
<1>12. \A t \in DOMAIN Ints \ Optional : Len(s[t]) = Ints[t]
  BY <1>4, <1>5, <1>6, <1>7, <1>10
<1>13. \A t \in Optional : Len(s[t]) <= 1
  BY <1>7, <1>8 DEF Optional
<1>14. Typed(s)
  BY <1>2, <1>3, <1>7, <1>8, <1>11, <1>12, <1>13 DEF Typed
<1> QED
  BY <1>14 DEF s

-----------------------------------------------------------------------------
(* The codec in its context.                                               *)

\* What the properties of the codec rest on once it is used: the spec is the
\* accepted config's translation, so it is of the shape encode expects, and what
\* the module has taken is that spec cut to its limits.
OciInv ==
    /\ cfg \in Configs
    /\ pc \notin {"config", "rejected"} => ~Rejected(cfg) /\ spec = SpecOf(cfg)
    /\ DecoderInv
    /\ RoundInv
    /\ pc \in {"created", "applied"} =>
        out = Passed(spec) /\ (WithinLimits(spec) => out = Received(spec))

\* OciInv holds when the CLI is started.
LEMMA OciInitial == OciInit => OciInv
<1> SUFFICES ASSUME OciInit PROVE OciInv
  OBVIOUS
<1>1. pc = "config" /\ buf = <<>> /\ seen = {} /\ out = DefaultSpec /\ cfg \in Configs
  BY DEF OciInit, WireInit
<1>2. buf \in Seq(Nat)
  BY <1>1
<1>3. DecoderInv
  BY <1>1, <1>2 DEF DecoderInv, NoLooser, DecodersAgree
<1>4. RoundInv
  BY <1>1 DEF RoundInv, RoundTrip
<1> QED
  BY <1>1, <1>3, <1>4 DEF OciInv

\* Every step of the CLI, the wire, the module and the init keeps OciInv.
LEMMA OciStep ==
    ASSUME OciInv, [OciNext]_allVars
    PROVE  OciInv'
<1>1. CASE Translate
  <2>1. UNCHANGED <<sent, buf, pos, left, seen, out, cfg>> /\ pc = "config" /\ pc' \in {"rejected", "encode"}
    BY <1>1 DEF Translate, ociVars
  <2>2. seen = {} /\ out = DefaultSpec
    BY <2>1 DEF OciInv, DecoderInv
  <2>3. DecoderInv'
    BY <2>1, <2>2 DEF OciInv, DecoderInv, NoLooser, DecodersAgree
  <2>4. pc' = "encode" => ~Rejected(cfg) /\ spec' = SpecOf(cfg)
    BY <1>1, <2>1 DEF Translate
  <2>5. (cfg \in Configs)' /\ (~Rejected(cfg) <=> ~Rejected(cfg)') /\ SpecOf(cfg)' = SpecOf(cfg)
    BY <2>1 DEF OciInv
  <2>6. pc' = "encode" => Typed(spec')
    BY <2>4, SpecTyped DEF OciInv
  <2>7. Typed(spec)' <=> Typed(spec')
    OBVIOUS
  <2>8. RoundInv'
    BY <2>1, <2>6, <2>7 DEF RoundInv, RoundTrip
  <2> QED
    BY <2>1, <2>3, <2>4, <2>5, <2>8 DEF OciInv
<1>2. CASE CodecNext /\ UNCHANGED ociVars
  <2>1. cfg' = cfg /\ spec' = spec /\ pc \notin {"config", "rejected", "created", "applied"}
    BY <1>2 DEF CodecNext, ociVars, EncodeSpec, Deliver, KernelHeader, KernelSection, SectionTurn,
               KernelNoMemory, KernelEnd
  <2>2. pc = "encode" => Encode(spec) \in Seq(Nat)
    BY EncodeShape DEF OciInv, RoundInv
  <2>3. DecoderInv'
    BY <1>2, <2>2, CodecDecoders DEF OciInv
  <2>4. RoundInv'
    BY <1>2, CodecRound DEF OciInv
  <2>5. pc' \notin {"created", "applied"}
    BY <1>2 DEF CodecNext, EncodeSpec, Deliver, KernelHeader, KernelSection, SectionTurn,
               KernelNoMemory, KernelEnd
  <2>6. ~Rejected(cfg) /\ spec = SpecOf(cfg) /\ (Rejected(cfg)' <=> Rejected(cfg)) /\ SpecOf(cfg)' = SpecOf(cfg)
    BY <2>1 DEF OciInv
  <2> QED
    BY <2>1, <2>3, <2>4, <2>5, <2>6 DEF OciInv
<1>3. CASE SetLimits
  <2>1. UNCHANGED <<spec, sent, buf, pos, left, seen, out, cfg>> /\ pc = "spawn" /\ pc' = "created" /\ buf = sent
    BY <1>3 DEF SetLimits
  <2>2. DecoderInv'
    BY <2>1 DEF OciInv, DecoderInv, NoLooser, DecodersAgree
  <2>3. RoundInv'
    BY <2>1 DEF RoundInv, RoundTrip
  <2>4. out = Passed(spec) /\ (WithinLimits(spec) => out = Received(spec))
    BY <2>1 DEF OciInv, RoundInv
  <2>5. /\ (Rejected(cfg)' <=> Rejected(cfg)) /\ SpecOf(cfg)' = SpecOf(cfg)
        /\ (WithinLimits(spec)' <=> WithinLimits(spec)) /\ Received(spec)' = Received(spec)
        /\ Passed(spec)' = Passed(spec)
    BY <2>1
  <2> QED
    BY <2>1, <2>2, <2>3, <2>4, <2>5 DEF OciInv
<1>4. CASE Apply
  <2>1. UNCHANGED <<spec, sent, buf, pos, left, seen, out, cfg>> /\ pc = "created" /\ pc' = "applied"
    BY <1>4 DEF Apply
  <2>2. DecoderInv'
    BY <2>1 DEF OciInv, DecoderInv, NoLooser, DecodersAgree
  <2>3. RoundInv'
    BY <2>1 DEF RoundInv, RoundTrip
  <2>4. /\ (Rejected(cfg)' <=> Rejected(cfg)) /\ SpecOf(cfg)' = SpecOf(cfg)
        /\ (WithinLimits(spec)' <=> WithinLimits(spec)) /\ Received(spec)' = Received(spec)
        /\ Passed(spec)' = Passed(spec)
    BY <2>1
  <2> QED
    BY <2>1, <2>2, <2>3, <2>4 DEF OciInv
<1>5. CASE UNCHANGED allVars
  <2>1. UNCHANGED codecVars /\ cfg' = cfg
    BY <1>5 DEF allVars, ociVars
  <2>2. DecoderInv'
    BY <2>1 DEF codecVars, OciInv, DecoderInv, Decoding, InStep, Turns, NoLooser, DecodersAgree
  <2>3. RoundInv'
    BY <2>1 DEF codecVars, OciInv, RoundInv, Read, RoundTrip
  <2>4. /\ (Rejected(cfg)' <=> Rejected(cfg)) /\ SpecOf(cfg)' = SpecOf(cfg)
        /\ (WithinLimits(spec)' <=> WithinLimits(spec)) /\ Received(spec)' = Received(spec)
        /\ Passed(spec)' = Passed(spec)
    BY <2>1 DEF codecVars
  <2> QED
    BY <2>1, <2>2, <2>3, <2>4 DEF OciInv, codecVars
<1> QED
  BY <1>1, <1>2, <1>3, <1>4, <1>5 DEF OciNext

\* The invariant holds in every state: the spec on its way to the module is
\* the translation of an accepted config, and the two decoders and the round
\* trip are as DecoderInv and RoundInv say.
THEOREM OciInvariant == OciSpec => []OciInv
  BY OciInitial, OciStep, PTL DEF OciSpec

\* A spec within both sides' limits that reaches the module undamaged is not
\* refused, and spawn_container gets exactly that spec: what DomainSpec::encode
\* writes, decode_spec reads back, for every accepted config.
THEOREM RoundTripHolds == OciSpec => []RoundTrip
<1>1. OciInv => RoundTrip
  BY DEF OciInv, RoundInv
<1> QED
  BY <1>1, OciInvariant, PTL

\* decode_spec spawns from no buffer, intact or damaged, that krunc-abi's decode
\* refuses for its structure: whatever the buffer, only limits, the op and UTF-8
\* separate the two decoders.
THEOREM NoLooserHolds == OciSpec => []NoLooser
<1>1. OciInv => NoLooser
  BY DEF OciInv, DecoderInv
<1> QED
  BY <1>1, OciInvariant, PTL

\* On a buffer both take, decode_spec and decode agree on every section up to the
\* entries the module keeps; and decode_spec refuses no buffer of legal size
\* that decode takes for a create.
THEOREM DecodersAgreeHold == OciSpec => []DecodersAgree
<1>1. OciInv => DecodersAgree
  BY DEF OciInv, DecoderInv
<1> QED
  BY <1>1, OciInvariant, PTL

-----------------------------------------------------------------------------
(* The limits.                                                             *)

\* Appending joins the members.
LEMMA ConcatRange ==
    ASSUME NEW T, NEW u \in Seq(T), NEW v \in Seq(T)
    PROVE  u \o v \in Seq(T) /\ ToSet(u \o v) = ToSet(u) \cup ToSet(v)
<1> DEFINE w == u \o v
           m == Len(u)
           n == Len(v)
<1>1. /\ w \in Seq(T) /\ Len(w) = m + n /\ m \in Nat /\ n \in Nat
      /\ \A i \in 1 .. m : w[i] = u[i]
      /\ \A i \in 1 .. n : w[m + i] = v[i]
  BY ConcatCells
<1>2. DOMAIN w = 1 .. (m + n) /\ DOMAIN u = 1 .. m /\ DOMAIN v = 1 .. n
  BY <1>1
<1> HIDE DEF w, m, n
<1>3. ASSUME NEW i \in 1 .. (m + n)
      PROVE  w[i] \in ToSet(u) \cup ToSet(v)
  <2>1. CASE i <= m
    <3>1. i \in 1 .. m
      BY <1>1, <2>1
    <3> QED
      BY <1>1, <1>2, <3>1 DEF ToSet
  <2>2. CASE ~(i <= m)
    <3>1. i - m \in 1 .. n /\ m + (i - m) = i
      BY <1>1, <2>2
    <3>2. w[i] = v[i - m]
      BY <1>1, <3>1
    <3> QED
      BY <1>2, <3>1, <3>2 DEF ToSet
  <2> QED
    BY <2>1, <2>2
<1>4. ToSet(w) \subseteq ToSet(u) \cup ToSet(v)
  BY <1>2, <1>3 DEF ToSet
<1>5. ASSUME NEW i \in 1 .. m
      PROVE  u[i] \in ToSet(w)
  <2>1. i \in 1 .. (m + n)
    BY <1>1
  <2> QED
    BY <1>1, <1>2, <2>1 DEF ToSet
<1>6. ASSUME NEW i \in 1 .. n
      PROVE  v[i] \in ToSet(w)
  <2>1. m + i \in 1 .. (m + n)
    BY <1>1
  <2> QED
    BY <1>1, <1>2, <2>1 DEF ToSet
<1>7. ToSet(u) \cup ToSet(v) \subseteq ToSet(w)
  BY <1>2, <1>5, <1>6 DEF ToSet
<1> QED
  BY <1>1, <1>4, <1>7 DEF w

\* The limit files of cgroup_config, and when each is among those to write.
LimitFile(c, f) ==
    CASE f = "pids.max" -> [file |-> f, of |-> "pids", value |-> c.pids]
      [] f = "memory.max" -> [file |-> f, of |-> "memory", value |-> c.memory]
      [] f = "cpu.max" -> [file |-> f, of |-> "cpu",
                           value |-> c.quota \o (IF c.period = <<>> THEN <<DEFAULTPERIOD>> ELSE c.period)]
      [] f = "cpu.weight" -> [file |-> f, of |-> "cpu",
                              value |-> [k \in DOMAIN c.shares |-> SharesToWeight(c.shares[k])]]

\* The cgroup files krunc-oci may write, and when it writes each.
FileNames == {"pids.max", "memory.max", "cpu.max", "cpu.weight"}

FileSet(c, f) ==
    CASE f = "pids.max" -> c.pids # <<>>
      [] f = "memory.max" -> \E k \in DOMAIN c.memory : c.memory[k] >= 0
      [] f = "cpu.max" -> \E k \in DOMAIN c.quota : c.quota[k] > 0
      [] f = "cpu.weight" -> c.shares \notin {<<>>, <<0>>}

\* cgroup_config lists a file for each limit the config sets and no other.
LEMMA WantedFiles ==
    ASSUME NEW c
    PROVE  /\ cgroup_config(c) \in Seq({LimitFile(c, f) : f \in FileNames})
           /\ ToSet(cgroup_config(c)) = {LimitFile(c, f) : f \in {g \in FileNames : FileSet(c, g)}}
<1> DEFINE r1 == LimitFile(c, "pids.max")
           r2 == LimitFile(c, "memory.max")
           r3 == LimitFile(c, "cpu.max")
           r4 == LimitFile(c, "cpu.weight")
           b1 == FileSet(c, "pids.max")
           b2 == FileSet(c, "memory.max")
           b3 == FileSet(c, "cpu.max")
           b4 == FileSet(c, "cpu.weight")
           One(b, r) == IF b THEN <<r>> ELSE <<>>
           T == {LimitFile(c, f) : f \in FileNames}
<1>1. /\ r1 = [file |-> "pids.max", of |-> "pids", value |-> c.pids]
      /\ r2 = [file |-> "memory.max", of |-> "memory", value |-> c.memory]
      /\ r3 = [file |-> "cpu.max", of |-> "cpu",
               value |-> c.quota \o (IF c.period = <<>> THEN <<DEFAULTPERIOD>> ELSE c.period)]
      /\ r4 = [file |-> "cpu.weight", of |-> "cpu",
               value |-> [k \in DOMAIN c.shares |-> SharesToWeight(c.shares[k])]]
  BY DEF LimitFile
<1>2. /\ b1 <=> c.pids # <<>>
      /\ b2 <=> \E k \in DOMAIN c.memory : c.memory[k] >= 0
      /\ b3 <=> \E k \in DOMAIN c.quota : c.quota[k] > 0
      /\ b4 <=> c.shares \notin {<<>>, <<0>>}
  BY DEF FileSet
<1>3. cgroup_config(c) = One(b1, r1) \o One(b2, r2) \o One(b3, r3) \o One(b4, r4)
  <2> HIDE DEF r1, r2, r3, r4, b1, b2, b3, b4
  <2> QED
    BY <1>1, <1>2 DEF cgroup_config
<1>4. T = {r1, r2, r3, r4}
  BY DEF FileNames
<1>5. {LimitFile(c, f) : f \in {g \in FileNames : FileSet(c, g)}} =
        ToSet(One(b1, r1)) \cup ToSet(One(b2, r2)) \cup ToSet(One(b3, r3)) \cup ToSet(One(b4, r4))
  <2>1. \A b \in BOOLEAN : \A r : ToSet(One(b, r)) = {x \in {r} : b}
    BY DEF ToSet
  <2>2. b1 \in BOOLEAN /\ b2 \in BOOLEAN /\ b3 \in BOOLEAN /\ b4 \in BOOLEAN
    BY DEF FileSet
  <2>3. \A x : x \in {LimitFile(c, f) : f \in {g \in FileNames : FileSet(c, g)}} <=>
            (x = r1 /\ b1) \/ (x = r2 /\ b2) \/ (x = r3 /\ b3) \/ (x = r4 /\ b4)
    BY Zenon DEF FileNames
  <2> HIDE DEF r1, r2, r3, r4, b1, b2, b3, b4, One
  <2> QED
    BY <2>1, <2>2, <2>3
<1> HIDE DEF r1, r2, r3, r4, b1, b2, b3, b4
<1>6. One(b1, r1) \in Seq(T) /\ One(b2, r2) \in Seq(T) /\ One(b3, r3) \in Seq(T) /\ One(b4, r4) \in Seq(T)
  <2> HIDE DEF T
  <2>1. r1 \in T /\ r2 \in T /\ r3 \in T /\ r4 \in T
    BY <1>4
  <2> QED
    BY <2>1
<1> HIDE DEF One, T
<1> DEFINE u2 == One(b1, r1) \o One(b2, r2)
           u3 == u2 \o One(b3, r3)
           u4 == u3 \o One(b4, r4)
<1>7. u2 \in Seq(T) /\ ToSet(u2) = ToSet(One(b1, r1)) \cup ToSet(One(b2, r2))
  BY <1>6, ConcatRange
<1>8. u3 \in Seq(T) /\ ToSet(u3) = ToSet(u2) \cup ToSet(One(b3, r3))
  <2> HIDE DEF u2
  <2> QED
    BY <1>6, <1>7, ConcatRange
<1>9. u4 \in Seq(T) /\ ToSet(u4) = ToSet(u3) \cup ToSet(One(b4, r4))
  <2> HIDE DEF u3
  <2> QED
    BY <1>6, <1>8, ConcatRange
<1>10. cgroup_config(c) = u4
  BY <1>3
<1> HIDE DEF u2, u3, u4
<1> QED
  BY <1>5, <1>7, <1>8, <1>9, <1>10 DEF T

\* An optional value.
LEMMA OptCases ==
    ASSUME NEW S, NEW o \in Opt(S)
    PROVE  o = <<>> \/ (o # <<>> /\ DOMAIN o = {1} /\ o[1] \in S /\ Len(o) = 1 /\ o = <<o[1]>>)
<1>1. o \in Seq(S) /\ Len(o) \in Nat /\ Len(o) <= 1
  BY DEF Opt
<1>2. CASE Len(o) = 0
  BY <1>1, <1>2, EmptySeq
<1>3. CASE Len(o) = 1
  BY <1>1, <1>3
<1> DEFINE l == Len(o)
<1>4. l \in Nat /\ l <= 1
  BY <1>1
<1> HIDE DEF l
<1>5. l = 0 \/ l = 1
  BY <1>4
<1> QED
  BY <1>2, <1>3, <1>5 DEF l

\* Shares map to a weight the kernel takes.
LEMMA WeightInRange ==
    ASSUME NEW shares \in Nat
    PROVE  SharesToWeight(shares) \in 1 .. MaxWeight
<1>1. MaxShares \in Nat /\ MaxShares > 2 /\ MaxWeight \in Nat /\ MaxWeight > 1
  BY ConfigAssumption
<1> DEFINE x == Clamp(shares, 2, MaxShares)
           y == (x - 2) * (MaxWeight - 1)
           z == y \div (MaxShares - 2)
<1>2. x \in Int
  BY <1>1 DEF Clamp
<1> HIDE DEF x
<1>3. y \in Int
  BY <1>1, <1>2
<1> HIDE DEF y
<1>4. z \in Int
  BY <1>1, <1>3
<1>5. SharesToWeight(shares) = Clamp(1 + z, 1, MaxWeight)
  BY DEF SharesToWeight, x, y
<1> HIDE DEF z
<1> QED
  BY <1>1, <1>4, <1>5 DEF Clamp

\* The property's set of files is the one cgroup_config works on.
LEMMA WantedAsConfigured ==
    ASSUME cfg \in Configs
    PROVE  LimitFiles = {f \in FileNames : FileSet(cfg, f)}
<1>1. /\ cfg.pids \in Opt(Int) /\ cfg.memory \in Opt(Int) /\ cfg.quota \in Opt(Int)
      /\ cfg.shares \in Opt(Nat)
  BY ConfigTypes
<1>2. (\E k \in DOMAIN cfg.memory : cfg.memory[k] >= 0) <=> cfg.memory # <<>> /\ cfg.memory[1] >= 0
  BY <1>1, OptCases
<1>3. (\E k \in DOMAIN cfg.quota : cfg.quota[k] > 0) <=> cfg.quota # <<>> /\ cfg.quota[1] > 0
  BY <1>1, OptCases
<1>4. cfg.shares \notin {<<>>, <<0>>} <=> cfg.shares # <<>> /\ cfg.shares[1] # 0
  BY <1>1, OptCases
<1> QED
  BY <1>2, <1>3, <1>4 DEF LimitFiles, FileSet, FileNames

\* The default period is one the kernel takes.
LEMMA PeriodBounds ==
    DEFAULTPERIOD \in MINPERIOD .. MAXPERIOD /\ DEFAULTPERIOD \in Nat
<1>1. MINPERIOD <= DEFAULTPERIOD
  BY SMT DEF DEFAULTPERIOD, MINPERIOD
<1>2. DEFAULTPERIOD <= MAXPERIOD
  BY SMT DEF DEFAULTPERIOD, MAXPERIOD
<1>3. DEFAULTPERIOD \in Nat
  BY SMT DEF DEFAULTPERIOD
<1>4. MINPERIOD \in Nat
  BY SMT DEF MINPERIOD
<1>5. MAXPERIOD \in Nat
  BY SMT DEF MAXPERIOD
<1> QED
  BY <1>1, <1>2, <1>3, <1>4, <1>5

\* Why a limit is not taken.
LEMMA NotTaken ==
    ASSUME cfg \in Configs, NEW f \in FileNames, FileSet(cfg, f), ~KernelTakes(LimitFile(cfg, f))
    PROVE  \/ ~({"pids", "memory", "cpu"} \subseteq present)
           \/ cfg.pids # <<>> /\ cfg.pids[1] \notin 0 .. MAXPIDS
           \/ "cpu.max" \in LimitFiles /\
                   ~(/\ cfg.quota[1] \in MINPERIOD .. MaxQuota
                     /\ cfg.period = <<>> \/ cfg.period[1] \in MINPERIOD .. MAXPERIOD)
<1> SUFFICES ASSUME {"pids", "memory", "cpu"} \subseteq present
             PROVE  \/ cfg.pids # <<>> /\ cfg.pids[1] \notin 0 .. MAXPIDS
                    \/ "cpu.max" \in LimitFiles /\
                            ~(/\ cfg.quota[1] \in MINPERIOD .. MaxQuota
                              /\ cfg.period = <<>> \/ cfg.period[1] \in MINPERIOD .. MAXPERIOD)
  OBVIOUS
<1>1. /\ cfg.pids \in Opt(Int) /\ cfg.quota \in Opt(Int)
      /\ cfg.period \in Opt(Nat) /\ cfg.shares \in Opt(Nat)
  BY ConfigTypes
<1>2. CASE f = "pids.max"
  <2> DEFINE l == LimitFile(cfg, f)
  <2>1. l.file = "pids.max" /\ l.of = "pids" /\ l.value = cfg.pids
    BY <1>2 DEF LimitFile
  <2>2. cfg.pids # <<>>
    BY <1>2 DEF FileSet
  <2>3. cfg.pids[1] \in Int
    BY <1>1, <2>2, OptCases
  <2> HIDE DEF l
  <2>4. l.value[1] \notin 0 .. MAXPIDS
    BY <2>1 DEF KernelTakes, l
  <2> QED
    BY <2>1, <2>2, <2>3, <2>4
<1>3. CASE f = "memory.max"
  <2> DEFINE l == LimitFile(cfg, f)
  <2>1. l.file = "memory.max" /\ l.of = "memory"
    BY <1>3 DEF LimitFile
  <2> HIDE DEF l
  <2> QED
    BY <2>1 DEF KernelTakes, l
<1>4. CASE f = "cpu.max"
  <2> DEFINE l == LimitFile(cfg, f)
             period == IF cfg.period = <<>> THEN <<DEFAULTPERIOD>> ELSE cfg.period
  <2>1. l.file = "cpu.max" /\ l.of = "cpu" /\ l.value = cfg.quota \o period
    BY <1>4 DEF LimitFile
  <2>2. "cpu.max" \in LimitFiles
    BY <1>4, WantedAsConfigured
  <2>3. cfg.quota # <<>>
    BY <2>2 DEF LimitFiles
  <2>4. cfg.quota[1] \in Int /\ cfg.quota = <<cfg.quota[1]>>
    BY <1>1, <2>3, OptCases
  <2>5. /\ period = <<period[1]>> /\ period[1] \in Nat
        /\ period[1] = IF cfg.period = <<>> THEN DEFAULTPERIOD ELSE cfg.period[1]
    BY <1>1, OptCases, PeriodBounds
  <2> DEFINE x == cfg.quota[1]
             y == period[1]
  <2>6. l.value = <<x>> \o <<y>>
    BY <2>1, <2>4, <2>5
  <2> HIDE DEF l, x, y
  <2>7. l.value[1] = x /\ l.value[2] = y
    BY <2>6
  <2>8. ~(x \in MINPERIOD .. MaxQuota /\ y \in MINPERIOD .. MAXPERIOD)
    BY <2>1, <2>7 DEF KernelTakes, l
  <2>9. cfg.period = <<>> => y \in MINPERIOD .. MAXPERIOD
    BY <2>5, PeriodBounds DEF y
  <2>10. cfg.period # <<>> => y = cfg.period[1]
    BY <2>5 DEF y
  <2> QED
    BY <2>2, <2>8, <2>9, <2>10 DEF x
<1>5. CASE f = "cpu.weight"
  <2> DEFINE l == LimitFile(cfg, f)
  <2>1. /\ l.file = "cpu.weight" /\ l.of = "cpu"
        /\ l.value = [k \in DOMAIN cfg.shares |-> SharesToWeight(cfg.shares[k])]
    BY <1>5 DEF LimitFile
  <2>2. cfg.shares # <<>>
    BY <1>5 DEF FileSet
  <2>3. 1 \in DOMAIN cfg.shares /\ cfg.shares[1] \in Nat
    BY <1>1, <2>2, OptCases
  <2>4. l.value[1] = SharesToWeight(cfg.shares[1])
    BY <2>1, <2>3
  <2>5. l.value[1] \in 1 .. MaxWeight
    BY <2>3, <2>4, WeightInRange
  <2> HIDE DEF l
  <2> QED
    BY <2>1, <2>5 DEF KernelTakes, l
<1> QED
  BY <1>2, <1>3, <1>4, <1>5 DEF FileNames

\* cgroup::create writes every limit, or fails for one of the reasons the
\* property names.
LEMMA SetLimitsKept ==
    ASSUME OciInv, SetLimits
    PROVE  LimitsKept'
<1> DEFINE w == cgroup_config(cfg)
           I == {i \in 1 .. Len(w) : ~KernelTakes(w[i])}
           bad == First(I)
           T == {LimitFile(cfg, f) : f \in FileNames}
           Wrote == /\ limits' = IF bad = 0 THEN w ELSE SubSeq(w, 1, bad - 1)
                    /\ cgroup' \in IF bad # 0 THEN {"failed"} ELSE {"placed", "unplaced"}
<1>1. UNCHANGED <<cfg, present>> /\ pc' = "created" /\ cfg \in Configs
  BY DEF SetLimits, OciInv
<1>2. LimitFiles' = LimitFiles
  BY <1>1 DEF LimitFiles
<1>3. \/ w = <<>> /\ limits' = <<>> /\ cgroup' = "none"
      \/ w # <<>> /\ limits' = <<>> /\ cgroup' = "nodir"
      \/ w # <<>> /\ Wrote
  BY DEF SetLimits, CgroupCreate, LimitsWritten, SelectInSeq, First
<1>4. w \in Seq(T) /\ ToSet(w) = {LimitFile(cfg, f) : f \in {g \in FileNames : FileSet(cfg, g)}}
  BY WantedFiles
<1>5. LimitFiles = {f \in FileNames : FileSet(cfg, f)}
  BY <1>1, WantedAsConfigured
<1>6. \A f \in FileNames : LimitFile(cfg, f).file = f
  BY DEF LimitFile, FileNames
<1>7. {w[k].file : k \in DOMAIN w} = LimitFiles
  <2> HIDE DEF w
  <2>1. {w[k].file : k \in DOMAIN w} = {r.file : r \in ToSet(w)}
    BY DEF ToSet
  <2> DEFINE G == {g \in FileNames : FileSet(cfg, g)}
  <2>2. ToSet(w) = {LimitFile(cfg, f) : f \in G}
    BY <1>4
  <2>3. G \subseteq FileNames /\ LimitFiles = G
    BY <1>5
  <2> HIDE DEF G
  <2>4. {r.file : r \in ToSet(w)} = {LimitFile(cfg, f).file : f \in G}
    BY Zenon, <2>2
  <2>5. {LimitFile(cfg, f).file : f \in G} = G
    BY Zenon, <1>6, <2>3
  <2> QED
    BY <2>1, <2>3, <2>4, <2>5
<1>8. ASSUME cgroup' = "placed"
      PROVE  {limits'[k].file : k \in DOMAIN limits'} = LimitFiles
  <2> HIDE DEF w, bad
  <2>1. bad = 0
    BY <1>3, <1>8
  <2>2. limits' = w
    BY <1>3, <1>8, <2>1
  <2> QED
    BY <1>7, <2>2
<1>9. cgroup' = "none" <=> LimitFiles = {}
  <2>1. cgroup' = "none" <=> w = <<>>
    <3> HIDE DEF w, bad
    <3> QED
      BY <1>3
  <2> HIDE DEF w
  <2>2. DOMAIN w = {} <=> w = <<>>
    <3> HIDE DEF T
    <3> QED
      BY <1>4
  <2>3. LimitFiles = {} <=> DOMAIN w = {}
    BY <1>7
  <2> QED
    BY <2>1, <2>2, <2>3
<1>10. ASSUME cgroup' = "failed"
       PROVE  \/ ~({"pids", "memory", "cpu"} \subseteq present)
              \/ cfg.pids # <<>> /\ cfg.pids[1] \notin 0 .. MAXPIDS
              \/ "cpu.max" \in LimitFiles /\
                      ~(/\ cfg.quota[1] \in MINPERIOD .. MaxQuota
                        /\ cfg.period = <<>> \/ cfg.period[1] \in MINPERIOD .. MAXPERIOD)
  <2>1. bad # 0
    <3> HIDE DEF w, bad
    <3> QED
      BY <1>3, <1>10
  <2>2. bad \in I
    <3>1. I \subseteq 1 .. Len(w)
      OBVIOUS
    <3> HIDE DEF I
    <3> QED
      BY <2>1, <3>1, FirstOf
  <2>3. bad \in 1 .. Len(w) /\ ~KernelTakes(w[bad])
    BY <2>2
  <2> HIDE DEF w, bad, T
  <2>4. w[bad] \in ToSet(w)
    <3>1. bad \in DOMAIN w
      BY <1>4, <2>3
    <3> QED
      BY <3>1 DEF ToSet
  <2>5. PICK f \in FileNames : FileSet(cfg, f) /\ w[bad] = LimitFile(cfg, f)
    BY <1>4, <2>4
  <2> QED
    BY <1>1, <2>3, <2>5, NotTaken
<1> QED
  BY <1>1, <1>2, <1>8, <1>9, <1>10 DEF LimitsKept

\* An init in the container's cgroup is under every limit of its config, and is
\* left outside only where the directory could not be made, a controller is
\* missing, the pids limit, the cpu quota or the period is out of the kernel's
\* range, or the move failed: for every config, shares map to a weight in range.
THEOREM LimitsHold == OciSpec => []LimitsKept
<1>1. OciInit => LimitsKept
  BY DEF OciInit, LimitsKept
<1>2. ASSUME OciInv, LimitsKept, [OciNext]_allVars
      PROVE  LimitsKept'
  <2>1. CASE Translate
    BY <2>1 DEF Translate, LimitsKept
  <2>2. CASE CodecNext /\ UNCHANGED ociVars
    BY <2>2 DEF CodecNext, EncodeSpec, Deliver, KernelHeader, KernelSection, SectionTurn,
               KernelNoMemory, KernelEnd, LimitsKept
  <2>3. CASE SetLimits
    BY <1>2, <2>3, SetLimitsKept
  <2>4. CASE Apply
    <3>1. /\ pc = "created" /\ pc' = "applied"
          /\ UNCHANGED <<cfg, present, limits, cgroup>>
      BY <2>4 DEF Apply
    <3>2. LimitFiles' = LimitFiles
      BY Zenon, <3>1 DEF LimitFiles
    <3> QED
      BY <1>2, <3>1, <3>2 DEF LimitsKept
  <2>5. CASE UNCHANGED allVars
    <3>1. UNCHANGED <<pc, cfg, present, limits, cgroup>>
      BY <2>5 DEF allVars, codecVars, ociVars
    <3>2. LimitFiles' = LimitFiles
      BY Zenon, <3>1 DEF LimitFiles
    <3> QED
      BY <1>2, <3>1, <3>2 DEF LimitsKept
  <2> QED
    BY <1>2, <2>1, <2>2, <2>3, <2>4, <2>5 DEF OciNext
<1> QED
  BY <1>1, <1>2, OciInvariant, PTL DEF OciSpec

\* The options set and clear bits 0 to 25 only.
LEMMA FlagBits ==
    ASSUME NEW o
    PROVE  Sets(o) \subseteq 0 .. 25
<1>1. CASE o \notin DOMAIN OptionSets
  BY <1>1 DEF Sets
<1>2. CASE o \in DOMAIN OptionSets
  <2>1. OptionSets[o] \subseteq 0 .. 25
    BY <1>2 DEF OptionSets, RDONLY, REMOUNT, BIND, REC
  <2> QED
    BY <1>2, <2>1 DEF Sets
<1> QED
  BY <1>1, <1>2

\* The bits that some of the first k options sets and no later one of them clears.
LastWord(options, k) ==
    {b \in 0 .. 25 : \E i \in 1 .. k :
        b \in Sets(options[i]) /\ \A j \in i + 1 .. k : b \notin Clears(options[j])}

\* One more option overrides those before it.
LEMMA LastWordStep ==
    ASSUME NEW options, NEW k \in Nat, k > 0
    PROVE  LastWord(options, k) = (LastWord(options, k - 1) \ Clears(options[k])) \cup Sets(options[k])
<1> DEFINE L == LastWord(options, k)
           M == LastWord(options, k - 1)
           Stays(b, i, n) == b \in Sets(options[i]) /\ \A j \in i + 1 .. n : b \notin Clears(options[j])
<1>1. \A b : b \in L <=> b \in 0 .. 25 /\ \E i \in 1 .. k : Stays(b, i, k)
  BY DEF LastWord
<1>2. \A b : b \in M <=> b \in 0 .. 25 /\ \E i \in 1 .. (k - 1) : Stays(b, i, k - 1)
  BY DEF LastWord
<1>3. \A b : \A i \in 1 .. (k - 1) : Stays(b, i, k) <=> Stays(b, i, k - 1) /\ b \notin Clears(options[k])
  OBVIOUS
<1>4. \A b : Stays(b, k, k) <=> b \in Sets(options[k])
  OBVIOUS
<1>5. \A b \in Sets(options[k]) : b \in 0 .. 25
  BY FlagBits
<1> HIDE DEF Stays, L, M
<1>6. 1 .. k = 1 .. (k - 1) \cup {k}
  OBVIOUS
<1>7. \A b : b \in L <=> (b \in M /\ b \notin Clears(options[k])) \/ b \in Sets(options[k])
  BY <1>1, <1>2, <1>3, <1>4, <1>5, <1>6, Zenon
<1> QED
  BY <1>7 DEF L, M

\* mount_flags computes what the last word on each option asks.
LEMMA MountFlags ==
    ASSUME NEW options \in Seq(STRING)
    PROVE  mount_flags(options) = Asked(options)
<1> DEFINE n == Len(options)
           Body(f) == [k \in 0 .. n |->
               IF k = 0 THEN {} ELSE (f[k - 1] \ Clears(options[k])) \cup Sets(options[k])]
           c == CHOOSE f : f = Body(f)
           h == [k \in 0 .. n |-> LastWord(options, k)]
<1>1. mount_flags(options) = c[n]
  BY Zenon DEF mount_flags
<1>2. n \in Nat /\ DOMAIN options = 1 .. n
  OBVIOUS
<1> HIDE DEF n
<1>3. LastWord(options, 0) = {}
  BY DEF LastWord
<1>4. ASSUME NEW k \in 0 .. n
      PROVE  h[k] = IF k = 0 THEN {} ELSE (h[k - 1] \ Clears(options[k])) \cup Sets(options[k])
  <2>1. CASE k = 0
    BY <1>2, <1>3, <2>1
  <2>2. CASE k # 0
    <3>1. k \in Nat /\ k > 0 /\ k - 1 \in 0 .. n
      BY <1>2, <2>2
    <3>2. h[k] = LastWord(options, k) /\ h[k - 1] = LastWord(options, k - 1)
      BY <3>1
    <3> HIDE DEF h
    <3> QED
      BY <2>2, <3>1, <3>2, LastWordStep
  <2> QED
    BY <2>1, <2>2
<1>5. h = Body(h)
  BY <1>4
<1>6. c = Body(c)
  <2> HIDE DEF Body
  <2> QED
    BY <1>5
<1> HIDE DEF c
<1> DEFINE P == {k \in 0 .. n : c[k] = LastWord(options, k)}
<1>7. 0 \in P
  BY <1>2, <1>3, <1>6
<1>8. ASSUME NEW k \in 1 .. n, k - 1 \in P
      PROVE  k \in P
  <2>1. k \in 0 .. n /\ k # 0 /\ k \in Nat /\ k > 0
    BY <1>2
  <2>2. c[k - 1] = LastWord(options, k - 1)
    BY <1>8
  <2>3. c[k] = (c[k - 1] \ Clears(options[k])) \cup Sets(options[k])
    BY <1>6, <2>1
  <2> QED
    BY <2>1, <2>2, <2>3, LastWordStep
<1> HIDE DEF P
<1>9. 0 .. n \subseteq P
  BY <1>2, <1>7, <1>8, Induction
<1>10. c[n] = LastWord(options, n)
  BY <1>2, <1>9 DEF P
<1>11. LastWord(options, n) = Asked(options)
  BY <1>2 DEF LastWord, Asked
<1> QED
  BY <1>1, <1>10, <1>11

\* Where the parts of a concatenation are that are one element long or empty.
LEMMA FlattenRanked ==
    ASSUME NEW T, NEW s \in Seq(Seq(T)), NEW P,
           \A k \in 1 .. Len(s) : IF k \in P THEN Len(s[k]) = 1 ELSE s[k] = <<>>
    PROVE  /\ FlattenSeq(s) \in Seq(T) /\ Len(FlattenSeq(s)) = Rank(P, Len(s))
           /\ \A k \in 1 .. Len(s) : k \in P =>
                 Rank(P, k) \in 1 .. Rank(P, Len(s)) /\ FlattenSeq(s)[Rank(P, k)] = s[k][1]
<1> DEFINE n == Len(s)
           Q == {k \in 0 .. n : Offsets(s)[k] = Rank(P, k)}
<1>1. n \in Nat
  OBVIOUS
<1>0. \A k \in 1 .. n : (k \in P => Len(s[k]) = 1) /\ (k \notin P => Len(s[k]) = 0)
  OBVIOUS
<1>2. 0 \in Q
  BY <1>1, OffsetsType, RankStep
<1>3. ASSUME NEW k \in 1 .. n, k - 1 \in Q
      PROVE  k \in Q
  <2>1. k \in Nat /\ k > 0 /\ k \in 0 .. n
    BY <1>1
  <2>2. Offsets(s)[k - 1] = Rank(P, k - 1) /\ Rank(P, k - 1) \in Nat
    BY <1>3, <2>1, RankStep, SMTT(30)
  <2>3. Offsets(s)[k] = Offsets(s)[k - 1] + Len(s[k])
    BY OffsetsStep
  <2>4. Rank(P, k) = Rank(P, k - 1) + (IF k \in P THEN 1 ELSE 0)
    BY <2>1, RankStep
  <2>5. Len(s[k]) = IF k \in P THEN 1 ELSE 0
    BY <1>0
  <2> QED
    BY <2>1, <2>2, <2>3, <2>4, <2>5
<1> HIDE DEF Q
<1>4. 0 .. n \subseteq Q
  BY <1>1, <1>2, <1>3, Induction
<1>5. \A k \in 0 .. n : Offsets(s)[k] = Rank(P, k)
  BY <1>4 DEF Q
<1>6. FlattenSeq(s) \in Seq(T) /\ Len(FlattenSeq(s)) = Offsets(s)[n]
  BY Flatten
<1>7. ASSUME NEW k \in 1 .. n, k \in P
      PROVE  Rank(P, k) \in 1 .. Rank(P, n) /\ FlattenSeq(s)[Rank(P, k)] = s[k][1]
  <2>1. k \in Nat /\ k > 0 /\ k - 1 \in 0 .. n /\ k <= n
    BY <1>1
  <2>2. /\ Rank(P, k) = Rank(P, k - 1) + 1 /\ Rank(P, k - 1) \in Nat
        /\ Rank(P, n) \in Nat
    <3>1. Rank(P, k) = Rank(P, k - 1) + 1
      BY <1>7, <2>1, RankStep
    <3>2. Rank(P, n) \in Nat
      BY <1>1, RankStep
    <3>3. k - 1 \in Nat
      BY <2>1
    <3>4. Rank(P, k - 1) \in Nat
      BY <3>3, RankStep
    <3> QED
      BY <3>1, <3>2, <3>4
  <2>3. Rank(P, k) <= Rank(P, n)
    BY <1>1, <2>1, RankMonotonic
  <2>4. 1 \in 1 .. Len(s[k])
    <3>1. Len(s[k]) = 1
      BY <1>0, <1>7
    <3> QED
      BY <3>1
  <2>5. FlattenSeq(s)[Offsets(s)[k - 1] + 1] = s[k][1]
    BY <2>4, Flatten
  <2>6. Offsets(s)[k - 1] = Rank(P, k - 1)
    BY <1>5, <2>1
  <2> QED
    BY <2>2, <2>3, <2>5, <2>6
<1> QED
  BY <1>1, <1>5, <1>6, <1>7

\* What the init did is what the sections it was given say.
AppliedInv ==
    /\ lost \subseteq DOMAIN out[SYSCTLS]
    /\ pc = "applied" =>
        /\ mounted = apply_mounts(out[MOUNTS])
        /\ written = apply_sysctls(out[SYSCTLS], lost)
    /\ pc # "applied" => written = <<>> /\ lost = {}

\* AppliedInv holds: apply_mounts and apply_sysctls run on the module's spec.
LEMMA AppliedInvariant == OciSpec => []AppliedInv
<1>1. OciInit => AppliedInv
  BY DEF OciInit, AppliedInv
<1>2. ASSUME AppliedInv, [OciNext]_allVars
      PROVE  AppliedInv'
  <2>1. CASE Translate
    BY <1>2, <2>1 DEF Translate, AppliedInv, ociVars
  <2>2. CASE CodecNext /\ UNCHANGED ociVars
    <3>1. pc # "applied" /\ pc' # "applied" /\ lost' = lost /\ written' = written
      BY <2>2 DEF CodecNext, EncodeSpec, Deliver, KernelHeader, KernelSection, SectionTurn,
               KernelNoMemory, KernelEnd, ociVars
    <3> QED
      BY <1>2, <3>1 DEF AppliedInv
  <2>3. CASE SetLimits
    BY <1>2, <2>3 DEF SetLimits, AppliedInv
  <2>4. CASE Apply
    BY <1>2, <2>4 DEF Apply, AppliedInv
  <2>5. CASE UNCHANGED allVars
    BY <1>2, <2>5 DEF allVars, codecVars, ociVars, AppliedInv
  <2> QED
    BY <1>2, <2>1, <2>2, <2>3, <2>4, <2>5 DEF OciNext
<1> QED
  BY <1>1, <1>2, PTL DEF OciSpec

\* A mount's call carries what the config asks of it.
LEMMA MountCall ==
    ASSUME NEW m \in [dest : Str, type : Str, source : Str, options : Seq(STRING)]
    PROVE  LET asked == Asked(m.options)
               call == MountSpec(m)
           IN /\ call[1] = m.dest /\ call[3] = m.source
              /\ call[2] = IF BIND \in asked THEN <<>> ELSE m.type
              /\ InForce(call[4]) = asked \/ NewBind(m)
<1> DEFINE asked == Asked(m.options)
           call == MountSpec(m)
<1>1. m.options \in Seq(STRING)
  OBVIOUS
<1>2. mount_flags(m.options) = asked
  BY <1>1, MountFlags
<1>3. call = <<m.dest, IF BIND \in asked THEN <<>> ELSE m.type, m.source, Mask(asked)>>
  BY <1>2 DEF MountSpec
<1>4. {b \in 0 .. 25 : Bit(Mask(asked), b)} = asked
  <2>1. asked \subseteq 0 .. 25
    BY DEF Asked
  <2>2. \A b \in 0 .. 25 : b \in 0 .. 63
    OBVIOUS
  <2> HIDE DEF asked
  <2>3. \A b \in 0 .. 25 : Bit(Mask(asked), b) <=> b \in asked
    BY <2>2, MaskBit
  <2> QED
    BY <2>1, <2>3
<1>5. InForce(Mask(asked)) = asked \/ (BIND \in asked /\ REMOUNT \notin asked)
  <2> HIDE DEF asked
  <2> QED
    BY <1>4 DEF InForce
<1> QED
  BY <1>3, <1>5 DEF NewBind

\* What is delivered of a config within the limits.
LEMMA Delivered ==
    ASSUME OciInv, pc \in {"created", "applied"}, WithinLimits(spec)
    PROVE  /\ out[MOUNTS] = MountEntries(cfg) /\ out[SYSCTLS] = Sysctls(cfg)
<1>1. out = Received(spec) /\ spec = SpecOf(cfg)
  BY DEF OciInv
<1>2. {MOUNTS, SYSCTLS} \subseteq KernelTags /\ {MOUNTS, SYSCTLS} \subseteq Tags
  BY DEF KernelTags, Tags, Lists, StrVecs, MOUNTS, SYSCTLS, UIDMAPS, GIDMAPS
<1>3. out[MOUNTS] = spec[MOUNTS] /\ out[SYSCTLS] = spec[SYSCTLS]
  BY <1>1, <1>2 DEF Received
<1> QED
  BY <1>1, <1>3, SpecSections

\* The calls are those of the config, in its order.
LEMMA MountsDone ==
    ASSUME OciInv, AppliedInv
    PROVE  MountsAsAsked
<1> SUFFICES ASSUME pc = "applied", WithinLimits(spec)
             PROVE  MountsMatch(NewBind)
  BY DEF MountsAsAsked
<1> DEFINE R == [dest : Str, type : Str, source : Str, options : Seq(STRING)]
           ms == cfg.mounts
           n == Len(ms)
           list == MountEntries(cfg)
           s == [k \in DOMAIN list |-> IF list[k][1] = <<>> THEN <<>> ELSE <<list[k]>>]
           placed == {k \in DOMAIN ms : ms[k].dest # <<>>}
<1>1. ms \in Seq(R) /\ n \in Nat /\ DOMAIN ms = 1 .. n
  <2>1. ms \in Seq(R)
    BY ConfigTypes DEF OciInv
  <2> HIDE DEF ms, R
  <2> QED
    BY <2>1
<1>0. n \in Nat
  BY <1>1
<1>2. mounted = FlattenSeq(s)
  BY Delivered DEF AppliedInv, apply_mounts
<1>3. /\ list \in Seq(Entries(MOUNTS)) /\ Len(list) = n
      /\ \A k \in 1 .. n : list[k] = MountSpec(ms[k])
  BY MountsType DEF OciInv
<1> DEFINE call(k) == MountSpec(ms[k])
<1>4. ASSUME NEW k \in 1 .. n
      PROVE  /\ call(k)[1] = ms[k].dest /\ call(k)[3] = ms[k].source
             /\ call(k)[2] = IF BIND \in Asked(ms[k].options) THEN <<>> ELSE ms[k].type
             /\ InForce(call(k)[4]) = Asked(ms[k].options) \/ NewBind(ms[k])
  <2>1. ms[k] \in R
    <3> HIDE DEF R, ms, n
    <3> QED
      BY <1>1, ElementOfSeq
  <2> QED
    BY <2>1, MountCall
<1> HIDE DEF list, ms, n
<1>5. s \in Seq(Seq(Entries(MOUNTS))) /\ Len(s) = n
  <2> DEFINE T == Entries(MOUNTS)
  <2> HIDE DEF T
  <2>1. list \in Seq(T)
    BY <1>3 DEF T
  <2>2. \A k \in 1 .. n : list[k] \in T
    BY <1>3, <2>1
  <2>3. DOMAIN list = 1 .. n
    BY <1>3, <2>1
  <2>4. \A k \in 1 .. n : (IF list[k][1] = <<>> THEN <<>> ELSE <<list[k]>>) \in Seq(T)
    BY <2>2
  <2>5. s \in [1 .. n -> Seq(T)]
    BY Zenon, <2>3, <2>4
  <2> HIDE DEF s
  <2>6. s \in Seq(Seq(T)) /\ Len(s) = n
    BY <1>0, <2>5
  <2> QED
    BY <2>6 DEF T
<1>6. \A k \in 1 .. n : IF k \in placed THEN s[k] = <<list[k]>> ELSE s[k] = <<>>
  BY <1>1, <1>3, <1>4
<1> HIDE DEF s, placed
<1>7. \A k \in 1 .. Len(s) : IF k \in placed THEN Len(s[k]) = 1 ELSE s[k] = <<>>
  <2> SUFFICES ASSUME NEW k \in 1 .. n
               PROVE  IF k \in placed THEN Len(s[k]) = 1 ELSE s[k] = <<>>
    BY <1>5
  <2>1. k \in placed => s[k] = <<list[k]>>
    BY <1>6
  <2>2. k \notin placed => s[k] = <<>>
    BY <1>6
  <2> QED
    BY <2>1, <2>2
<1>8. /\ Len(mounted) = Rank(placed, n)
      /\ \A k \in 1 .. n : k \in placed => mounted[Rank(placed, k)] = s[k][1]
  BY <1>2, <1>5, <1>7, FlattenRanked
<1>9. \A k \in 1 .. n : k \in placed => mounted[Rank(placed, k)] = call(k)
  BY <1>3, <1>6, <1>8
<1>10. placed \subseteq 1 .. n
  BY <1>1 DEF placed
<1>11. \A k \in 1 .. n : {j \in placed : j <= k} = Upto(placed, k)
  <2> SUFFICES ASSUME NEW k \in 1 .. n
               PROVE  \A j : (j \in placed /\ j <= k) <=> (j \in 1 .. k /\ j \in placed)
    BY Zenon DEF Upto
  <2>1. \A j : j \in placed => j \in Nat /\ j >= 1
    BY <1>0, <1>10
  <2>2. \A j \in Nat : j >= 1 => (j \in 1 .. k <=> j <= k)
    BY <1>0
  <2>3. \A j : j \in placed => (j \in 1 .. k <=> j <= k)
    BY Zenon, <2>1, <2>2
  <2> QED
    BY Zenon, <2>3
<1>12. Upto(placed, n) = placed
  BY <1>0, <1>10 DEF Upto
<1>13. Len(mounted) = Cardinality(placed)
  BY <1>8, <1>12 DEF Rank
<1>14. \A k \in placed : mounted[Cardinality({j \in placed : j <= k})] = call(k)
  BY <1>9, <1>10, <1>11 DEF Rank
<1> HIDE DEF call
<1>15. MountsMatch(NewBind) <=>
         /\ Len(mounted) = Cardinality(placed)
         /\ \A k \in placed :
              LET m == ms[k]
                  asked == Asked(m.options)
                  done == mounted[Cardinality({j \in placed : j <= k})]
              IN /\ done[1] = m.dest
                 /\ done[3] = m.source
                 /\ done[2] = IF BIND \in asked THEN <<>> ELSE m.type
                 /\ InForce(done[4]) = asked \/ NewBind(m)
  BY Zenon DEF MountsMatch, placed, ms
<1> QED
  BY <1>4, <1>10, <1>13, <1>14, <1>15

\* An init that is through apply_mounts has made the mounts of its config that
\* have a destination and no others, in the config's order and with the flags
\* its options ask for, the last of two contradicting options winning (the
\* flags of a new bind mount apart).
THEOREM MountsHold == OciSpec => []MountsAsAsked
  BY OciInvariant, AppliedInvariant, MountsDone, PTL

\* The first '=' of an entry ends its path, for no name has one.
LEMMA NoEquals ==
    ASSUME NEW name \in Str, RelpathOk(name), NEW j \in 1 .. Len(name)
    PROVE  RelpathOf(name)[j] # EQUALS
<1>1. j \in DOMAIN name /\ name[j] \in Nat
  BY DEF Str
<1>2. name[j] \in {DOT, SLASH} \/ name[j] >= FS
  BY <1>1 DEF RelpathOk
<1>3. RelpathOf(name)[j] = IF name[j] = DOT THEN SLASH ELSE name[j]
  BY <1>1, RelpathType
<1> QED
  BY <1>1, <1>2, <1>3 DEF DOT, SLASH, FS, EQUALS

\* The init splits an entry back into the path and the value.
LEMMA EntrySplit ==
    ASSUME NEW s \in SysctlRecords, RelpathOk(s.name)
    PROVE  LET entry == SysctlEntry(s)[1]
           IN /\ EQUALS \in ToSet(entry)
              /\ SysctlWrite(entry) = <<RelpathOf(s.name), s.value>>
<1> DEFINE rel == RelpathOf(s.name)
           val == s.value
           head == rel \o <<EQUALS>>
           entry == head \o val
           n == Len(rel)
           m == Len(val)
<1>1. SysctlEntry(s)[1] = entry
  BY DEF SysctlEntry
<1>2. s.name \in Str /\ val \in Str
  BY DEF SysctlRecords
<1>3. rel \in Str /\ n = Len(s.name)
  BY <1>2, RelpathType
<1>4. \A j \in 1 .. n : rel[j] # EQUALS
  BY <1>2, <1>3, NoEquals
<1> HIDE DEF rel, val
<1>5. n \in Nat /\ m \in Nat /\ rel \in Seq(Nat) /\ val \in Seq(Nat)
  BY <1>2, <1>3 DEF Str
<1>6. <<EQUALS>> \in Seq(Nat) /\ Len(<<EQUALS>>) = 1 /\ <<EQUALS>>[1] = EQUALS
  BY DEF EQUALS
<1>7. /\ head \in Seq(Nat) /\ Len(head) = n + 1 /\ head[n + 1] = EQUALS
      /\ \A i \in 1 .. n : head[i] = rel[i]
  <2>1. /\ head \in Seq(Nat) /\ Len(head) = Len(rel) + Len(<<EQUALS>>)
        /\ \A i \in 1 .. Len(rel) : head[i] = rel[i]
        /\ \A i \in 1 .. Len(<<EQUALS>>) : head[Len(rel) + i] = <<EQUALS>>[i]
    BY <1>5, <1>6, ConcatCells
  <2> HIDE DEF head
  <2>2. 1 \in 1 .. Len(<<EQUALS>>)
    BY <1>6
  <2> QED
    BY <1>6, <2>1, <2>2
<1> HIDE DEF head
<1>8. /\ entry \in Seq(Nat) /\ Len(entry) = n + 1 + m
      /\ \A i \in 1 .. (n + 1) : entry[i] = head[i]
      /\ \A i \in 1 .. m : entry[n + 1 + i] = val[i]
  <2>1. /\ entry \in Seq(Nat) /\ Len(entry) = Len(head) + Len(val)
        /\ \A i \in 1 .. Len(head) : entry[i] = head[i]
        /\ \A i \in 1 .. Len(val) : entry[Len(head) + i] = val[i]
    <3>1. head \in Seq(Nat) /\ val \in Seq(Nat)
      BY <1>5, <1>7
    <3> QED
      BY <3>1, ConcatCells
  <2> HIDE DEF entry
  <2> QED
    BY <1>7, <2>1
<1> HIDE DEF entry, n, m
<1>9. n + 1 \in 1 .. (n + 1) /\ n + 1 \in 1 .. Len(entry)
  BY <1>5, <1>8
<1>10. entry[n + 1] = EQUALS
  BY <1>7, <1>8, <1>9
<1>11. EQUALS \in ToSet(entry)
  <2>1. n + 1 \in DOMAIN entry
    BY <1>8, <1>9
  <2> QED
    BY <1>10, <2>1 DEF ToSet
<1>12. \A i \in 1 .. n : entry[i] = rel[i] /\ entry[i] # EQUALS
  <2> SUFFICES ASSUME NEW i \in 1 .. n PROVE entry[i] = rel[i] /\ entry[i] # EQUALS
    OBVIOUS
  <2>1. i \in 1 .. (n + 1)
    BY <1>5
  <2> QED
    BY <1>4, <1>7, <1>8, <2>1
<1> DEFINE I == {i \in 1 .. Len(entry) : entry[i] = EQUALS}
           eq == First(I)
<1>13. SysctlWrite(entry) = <<SubSeq(entry, 1, eq - 1), SubSeq(entry, eq + 1, Len(entry))>>
  BY DEF SysctlWrite, SelectInSeq, First
<1>14. eq = n + 1
  <2>1. n + 1 \in I
    BY <1>9, <1>10
  <2>2. \A i \in I : i \in 1 .. Len(entry) /\ i \notin 1 .. n
    BY <1>12
  <2>3. I \subseteq 1 .. Len(entry) /\ I # {}
    BY <2>1
  <2> HIDE DEF I
  <2>4. eq \in I /\ eq <= n + 1
    BY <2>1, <2>3, FirstOf
  <2> HIDE DEF eq
  <2>5. eq \in Nat /\ eq >= 1 /\ eq \notin 1 .. n
    <3>1. eq \in 1 .. Len(entry) /\ eq \notin 1 .. n
      BY <2>2, <2>4
    <3> QED
      BY <1>5, <1>8, <3>1
  <2> QED
    BY <1>5, <2>4, <2>5
<1> HIDE DEF I, eq
<1>15. SubSeq(entry, 1, eq - 1) = rel
  <2>1. 0 \in Nat /\ 1 = 0 + 1 /\ eq - 1 = 0 + n /\ 0 + n <= Len(entry)
    BY <1>5, <1>8, <1>14
  <2>2. \A i \in 1 .. n : entry[0 + i] = rel[i]
    BY <1>5, <1>12
  <2>3. n = Len(rel)
    BY DEF n
  <2>4. eq - 1 = 0 + Len(rel) /\ 0 + Len(rel) <= Len(entry) /\ \A i \in 1 .. Len(rel) : entry[0 + i] = rel[i]
    BY <2>1, <2>2, <2>3
  <2> DEFINE hi == eq - 1
  <2> HIDE DEF hi
  <2>5. hi = 0 + Len(rel)
    BY <2>4 DEF hi
  <2>7. entry \in Seq(Nat) /\ rel \in Seq(Nat) /\ 0 \in Nat
    BY <1>5, <1>8
  <2>8. Stands(rel, entry, 0, 1, hi)
    BY <2>1, <2>4, <2>5, <2>7 DEF Stands
  <2>6. SubSeq(entry, 1, hi) = rel
    BY <2>8, SubSeqIs, Zenon
  <2> QED
    BY <2>6 DEF hi
<1>16. SubSeq(entry, eq + 1, Len(entry)) = val
  <2> DEFINE a == n + 1
             lo == eq + 1
             hi == Len(entry)
  <2>1. a \in Nat /\ lo = a + 1 /\ hi = a + m /\ a + m <= Len(entry)
    BY <1>5, <1>8, <1>14
  <2>2. \A i \in 1 .. m : entry[a + i] = val[i]
    BY <1>8
  <2>3. m = Len(val)
    BY DEF m
  <2> HIDE DEF a, lo, hi
  <2>4. hi = a + Len(val) /\ a + Len(val) <= Len(entry) /\ \A i \in 1 .. Len(val) : entry[a + i] = val[i]
    BY <2>1, <2>2, <2>3
  <2>6. entry \in Seq(Nat) /\ val \in Seq(Nat) /\ a \in Nat /\ lo = a + 1
    BY <1>5, <1>8, <2>1
  <2>5. SubSeq(entry, lo, hi) = val
    <3>1. Stands(val, entry, a, lo, hi)
      BY <2>4, <2>6 DEF Stands
    <3> QED
      BY <3>1, SubSeqIs, Zenon
  <2> QED
    BY <2>5 DEF lo, hi
<1> QED
  BY <1>1, <1>11, <1>13, <1>15, <1>16 DEF entry, head, rel, val

\* A sysctl that passes belongs to a namespace of the container.
LEMMA OwnedSysctl ==
    ASSUME NEW name \in Str, RelpathOk(name), NEW ipc, NEW net, sysctl_namespaced(name, ipc, net)
    PROVE  \/ net /\ OwnerOf(RelpathOf(name)) = "network"
           \/ ipc /\ OwnerOf(RelpathOf(name)) = "ipc"
<1> DEFINE rel == RelpathOf(name)
           n == Len(name)
           S(j) == IF name[j] = DOT THEN SLASH ELSE name[j]
<1>1. rel \in Seq(Nat) /\ Len(rel) = n /\ \A j \in 1 .. n : rel[j] = S(j)
  BY RelpathType DEF Str
<1>2. name \in Seq(Nat) /\ n \in Nat
  BY DEF Str
<1>3. rel[n] # SLASH
  BY <1>1 DEF RelpathOk
<1> HIDE DEF rel, n
<1>4. ASSUME NEW w \in Seq(Nat), IsPrefix(w, name)
      PROVE  Len(w) <= n /\ \A j \in 1 .. Len(w) : name[j] = w[j]
  <2>1. Len(w) <= Len(name) /\ SubSeq(w, 1, Len(w)) = SubSeq(name, 1, Len(w)) /\ Len(w) \in Nat
    BY <1>4 DEF IsPrefix
  <2>2. \A j \in 1 .. Len(w) : SubSeq(w, 1, Len(w))[j] = w[j] /\ SubSeq(name, 1, Len(w))[j] = name[j]
    BY <1>2, <2>1
  <2> QED
    BY <2>1, <2>2 DEF n
<1>5. CASE IsPrefix(<<NET, DOT>>, name)
  <2> DEFINE w == <<NET, DOT>>
  <2>1. w \in Seq(Nat) /\ Len(w) = 2 /\ w[1] = NET
    BY DEF NET, DOT
  <2> HIDE DEF w
  <2>2. n >= 2 /\ name[1] = NET
    <3>1. w \in Seq(Nat) /\ IsPrefix(w, name)
      BY <1>5, <2>1 DEF w
    <3>2. Len(w) <= n /\ \A j \in 1 .. Len(w) : name[j] = w[j]
      BY <1>4, <3>1
    <3>3. 1 \in 1 .. Len(w) /\ 2 \in 1 .. Len(w)
      BY <2>1
    <3> QED
      BY <2>1, <3>2, <3>3
  <2>3. rel[1] = NET
    BY <1>1, <1>2, <2>2 DEF NET, DOT
  <2> QED
    BY <1>5, <2>3 DEF sysctl_namespaced, OwnerOf, rel
<1>6. CASE ~IsPrefix(<<NET, DOT>>, name)
  <2>1. /\ ipc
        /\ \/ name = <<KERNEL, DOT, SEM>>
           \/ IsPrefix(<<KERNEL, DOT, SHM>>, name)
           \/ IsPrefix(<<KERNEL, DOT, MSG>>, name)
           \/ IsPrefix(<<FS, DOT, MQUEUE, DOT>>, name)
    BY <1>6 DEF sysctl_namespaced
  <2>2. ASSUME NEW x \in {SEM, SHM, MSG}, n >= 3, name[1] = KERNEL, name[3] = x
        PROVE  OwnerOf(rel) = "ipc"
    <3>1. rel[1] = KERNEL /\ rel[3] = x /\ Len(rel) > 2
      BY <1>1, <1>2, <2>2 DEF KERNEL, SEM, SHM, MSG, DOT
    <3>2. KERNEL # NET
      BY DEF KERNEL, NET
    <3> QED
      BY <2>2, <3>1, <3>2 DEF OwnerOf
  <2>3. CASE name = <<KERNEL, DOT, SEM>>
    BY <2>1, <2>2, <2>3 DEF n, rel
  <2>4. ASSUME NEW x \in {SHM, MSG}, IsPrefix(<<KERNEL, DOT, x>>, name)
        PROVE  OwnerOf(rel) = "ipc"
    <3> DEFINE w == <<KERNEL, DOT, x>>
    <3>1. w \in Seq(Nat) /\ Len(w) = 3 /\ w[1] = KERNEL /\ w[3] = x
      BY DEF KERNEL, DOT, SHM, MSG
    <3> HIDE DEF w
    <3>2. n >= 3 /\ name[1] = KERNEL /\ name[3] = x
      <4>1. w \in Seq(Nat) /\ IsPrefix(w, name)
        BY <2>4, <3>1 DEF w
      <4>2. Len(w) <= n /\ \A j \in 1 .. Len(w) : name[j] = w[j]
        BY <1>4, <4>1
      <4>3. 1 \in 1 .. Len(w) /\ 2 \in 1 .. Len(w) /\ 3 \in 1 .. Len(w)
        BY <3>1
      <4> QED
        BY <3>1, <4>2, <4>3
    <3> QED
      BY <2>2, <3>2
  <2>5. CASE IsPrefix(<<FS, DOT, MQUEUE, DOT>>, name)
    <3> DEFINE w == <<FS, DOT, MQUEUE, DOT>>
    <3>1. w \in Seq(Nat) /\ Len(w) = 4 /\ w[1] = FS /\ w[2] = DOT /\ w[3] = MQUEUE /\ w[4] = DOT
      BY DEF FS, DOT, MQUEUE
    <3> HIDE DEF w
    <3>2. n >= 4 /\ name[1] = FS /\ name[2] = DOT /\ name[3] = MQUEUE /\ name[4] = DOT
      <4>1. w \in Seq(Nat) /\ IsPrefix(w, name)
        BY <2>5, <3>1 DEF w
      <4>2. Len(w) <= n /\ \A j \in 1 .. Len(w) : name[j] = w[j]
        BY <1>4, <4>1
      <4>3. 1 \in 1 .. Len(w) /\ 2 \in 1 .. Len(w) /\ 3 \in 1 .. Len(w) /\ 4 \in 1 .. Len(w)
        BY <3>1
      <4> QED
        BY <3>1, <4>2, <4>3
    <3>3. rel[1] = FS /\ rel[2] = SLASH /\ rel[3] = MQUEUE /\ rel[4] = SLASH
      BY <1>1, <1>2, <3>2, SMTT(30) DEF FS, DOT, MQUEUE
    <3>4. n # 4
      BY <1>3, <3>3
    <3>5. Len(rel) > 4
      BY <1>1, <1>2, <3>2, <3>4
    <3>6. SubSeq(rel, 1, 3) = <<FS, SLASH, MQUEUE>>
      <4> DEFINE v == <<FS, SLASH, MQUEUE>>
      <4>1. v \in Seq(Nat) /\ Len(v) = 3 /\ v[1] = FS /\ v[2] = SLASH /\ v[3] = MQUEUE
        BY DEF FS, SLASH, MQUEUE
      <4> HIDE DEF v
      <4>2. 0 + Len(v) <= Len(rel) /\ 3 = 0 + Len(v) /\ 1 = 0 + 1 /\ rel \in Seq(Nat)
        BY <1>1, <1>2, <3>5, <4>1
      <4>3. \A i \in 1 .. Len(v) : rel[0 + i] = v[i]
        <5>1. \A i \in 1 .. Len(v) : 0 + i = i /\ i \in {1, 2, 3}
          BY <4>1
        <5> QED
          BY <3>3, <4>1, <5>1
      <4>5. Stands(v, rel, 0, 1, 3)
        BY <4>1, <4>2, <4>3 DEF Stands
      <4>4. SubSeq(rel, 1, 3) = v
        BY <4>5, SubSeqIs, Zenon
      <4> QED
        BY <4>4 DEF v
    <3>7. FS # NET
      BY DEF FS, NET
    <3> QED
      BY <2>1, <3>3, <3>5, <3>6, <3>7 DEF OwnerOf, rel
  <2> QED
    BY <2>1, <2>3, <2>4, <2>5 DEF rel
<1> QED
  BY <1>5, <1>6

\* The entries decode_spec kept are the first of the config's.
LEMMA KeptSysctls ==
    ASSUME OciInv, pc \in {"created", "applied"}
    PROVE  LET list == out[SYSCTLS]
               n == Cardinality(cfg.sysctl)
           IN /\ list \in Seq(Entries(SYSCTLS)) /\ Len(list) <= n /\ n \in Nat
              /\ \A k \in 1 .. Len(list) : list[k] = SysctlEntry(SortedSysctls(cfg)[k])
              /\ WithinLimits(spec) => Len(list) = n
<1> DEFINE list == out[SYSCTLS]
           all == Sysctls(cfg)
           n == Cardinality(cfg.sysctl)
           T == Entries(SYSCTLS)
           keep == KernelKeep[SYSCTLS]
<1>1. spec = SpecOf(cfg) /\ out = Passed(spec) /\ cfg \in Configs
  BY DEF OciInv
<1>2. SYSCTLS \in KernelTags /\ SYSCTLS \in Lists /\ SYSCTLS \in Tags
  BY DEF KernelTags, Tags, Lists, StrVecs, SYSCTLS, UIDMAPS, GIDMAPS
<1>3. spec[SYSCTLS] = all
  BY <1>1, SpecSections
<1>4. list = Kept("kernel", SYSCTLS, all)
  BY <1>1, <1>2, <1>3 DEF Passed, Sees
<1>5. /\ all \in Seq(T) /\ Len(all) = n
      /\ \A k \in 1 .. n : all[k] = SysctlEntry(SortedSysctls(cfg)[k])
  BY <1>1, SysctlsType
<1>6. n \in Nat
  BY <1>1, SortedSysctlsType
<1>7. keep \in Nat
  BY <1>2, CodecAssumption
<1>8. WithinLimits(spec) => list = all
  BY <1>2, <1>3, Delivered
<1> HIDE DEF all, n, T, keep
<1>9. CASE n > keep
  <2>1. list = SubSeq(all, 1, keep)
    BY <1>4, <1>5, <1>9 DEF Kept, keep
  <2>2. /\ SubSeq(all, 1, keep) \in Seq(T) /\ Len(SubSeq(all, 1, keep)) = keep
        /\ \A k \in 1 .. keep : SubSeq(all, 1, keep)[k] = all[k]
    BY <1>5, <1>6, <1>7, <1>9
  <2> HIDE DEF list
  <2>3. list \in Seq(T) /\ Len(list) = keep /\ \A k \in 1 .. keep : list[k] = all[k]
    BY <2>1, <2>2
  <2>4. \A k \in 1 .. keep : k \in 1 .. n
    BY <1>6, <1>7, <1>9
  <2>5. \A k \in 1 .. Len(list) : list[k] = SysctlEntry(SortedSysctls(cfg)[k])
    BY <1>5, <2>3, <2>4
  <2>6. Len(list) <= n
    BY <1>6, <1>7, <1>9, <2>3
  <2> QED
    BY <1>5, <1>6, <1>8, <2>3, <2>5, <2>6 DEF list, n, T, all
<1>10. CASE ~(n > keep)
  <2>1. list = all
    BY <1>4, <1>5, <1>10 DEF Kept, keep
  <2>2. Len(list) <= n
    BY <1>5, <1>6, <2>1
  <2> QED
    BY <1>5, <1>6, <2>1, <2>2 DEF list, n, T, all
<1> QED
  BY <1>9, <1>10

\* What the call for a sysctl of the config is like.
ConfiguredWrite(x) ==
    /\ \E n \in ToSet(cfg.namespaces) : n.type = OwnerOf(x[1])
    /\ \E s \in cfg.sysctl :
            x = <<[j \in DOMAIN s.name |-> IF s.name[j] = DOT THEN SLASH ELSE s.name[j]], s.value>>

\* What the init writes for an entry is what the config asks.
LEMMA WriteConfigured ==
    ASSUME cfg \in Configs, ~Rejected(cfg), NEW s \in cfg.sysctl
    PROVE  /\ EQUALS \in ToSet(SysctlEntry(s)[1])
           /\ ConfiguredWrite(SysctlWrite(SysctlEntry(s)[1]))
<1> DEFINE rel == RelpathOf(s.name)
           ipc == "ipc" \in NsTypes(cfg)
           net == "network" \in NsTypes(cfg)
           call == SysctlWrite(SysctlEntry(s)[1])
<1>1. s \in SysctlRecords
  BY ConfigTypes DEF SysctlRecords
<1>2. s.name \in Str
  BY <1>1 DEF SysctlRecords
<1>3. sysctl_namespaced(s.name, ipc, net) /\ RelpathOk(s.name)
  BY DEF Rejected
<1>4. EQUALS \in ToSet(SysctlEntry(s)[1]) /\ call = <<rel, s.value>>
  BY <1>1, <1>3, EntrySplit
<1>5. rel = [j \in DOMAIN s.name |-> IF s.name[j] = DOT THEN SLASH ELSE s.name[j]]
  BY <1>2, RelpathType
<1>6. OwnerOf(rel) \in NsTypes(cfg)
  <2> HIDE DEF ipc, net
  <2>1. (net /\ OwnerOf(rel) = "network") \/ (ipc /\ OwnerOf(rel) = "ipc")
    BY <1>2, <1>3, OwnedSysctl
  <2> HIDE DEF rel
  <2> QED
    BY <2>1 DEF ipc, net
<1>7. \E n \in ToSet(cfg.namespaces) : n.type = OwnerOf(rel)
  BY <1>6 DEF NsTypes, ToSet
<1>8. call[1] = rel
  BY <1>4
<1> HIDE DEF rel, call
<1>9. ConfiguredWrite(call)
  BY <1>4, <1>5, <1>7, <1>8 DEF ConfiguredWrite
<1> QED
  BY <1>4, <1>9 DEF call

\* The writes are those of the config.
LEMMA SysctlsDone ==
    ASSUME OciInv, AppliedInv
    PROVE  SysctlsExact
<1>1. CASE pc # "applied"
  BY <1>1 DEF AppliedInv, SysctlsExact
<1>2. CASE pc = "applied"
  <2> DEFINE list == out[SYSCTLS]
             n == Cardinality(cfg.sysctl)
             m == Len(list)
             q == SortedSysctls(cfg)
             T == {x \in {SysctlWrite(list[k][1]) : k \in 1 .. m} : ConfiguredWrite(x)}
             s == [k \in DOMAIN list |->
                      IF k \in lost \/ EQUALS \notin ToSet(list[k][1]) THEN <<>>
                      ELSE <<SysctlWrite(list[k][1])>>]
             P == (1 .. m) \ lost
  <2>1. cfg \in Configs /\ ~Rejected(cfg)
    BY <1>2 DEF OciInv
  <2>2. written = FlattenSeq(s) /\ lost \subseteq DOMAIN list
    BY <1>2 DEF AppliedInv, apply_sysctls
  <2>3. /\ m \in Nat /\ DOMAIN list = 1 .. m /\ m <= n /\ n \in Nat
        /\ \A k \in 1 .. m : list[k] = SysctlEntry(q[k])
        /\ WithinLimits(spec) => m = n
    <3>1. /\ list \in Seq(Entries(SYSCTLS)) /\ m <= n /\ n \in Nat
          /\ \A k \in 1 .. m : list[k] = SysctlEntry(q[k])
          /\ WithinLimits(spec) => m = n
      BY <1>2, KeptSysctls
    <3> HIDE DEF list, q, n
    <3> QED
      BY <3>1
  <2>4. ASSUME NEW k \in 1 .. m
        PROVE  EQUALS \in ToSet(list[k][1]) /\ ConfiguredWrite(SysctlWrite(list[k][1]))
    <3>1. q \in [1 .. n -> cfg.sysctl]
      BY <2>1, SortedSysctlsType
    <3> HIDE DEF list, q, n, m
    <3>2. k \in 1 .. n
      BY <2>3
    <3>3. q[k] \in cfg.sysctl
      BY <3>1, <3>2
    <3> QED
      BY <2>1, <2>3, <3>3, WriteConfigured
  <2> HIDE DEF list, q, n, m
  <2>5. \A k \in 1 .. m : s[k] = IF k \in lost THEN <<>> ELSE <<SysctlWrite(list[k][1])>>
    BY <2>3, <2>4
  <2>6. \A k \in 1 .. m : SysctlWrite(list[k][1]) \in T
    BY <2>4
  <2> HIDE DEF T
  <2>7. \A k \in 1 .. m : s[k] \in Seq(T)
    <3> SUFFICES ASSUME NEW k \in 1 .. m PROVE s[k] \in Seq(T)
      OBVIOUS
    <3> DEFINE x == SysctlWrite(list[k][1])
    <3>1. s[k] \in {<<>>, <<x>>} /\ x \in T
      BY <2>5, <2>6
    <3> HIDE DEF x, s
    <3>2. <<>> \in Seq(T)
      OBVIOUS
    <3>3. <<x>> \in Seq(T)
      BY <3>1
    <3> QED
      BY Zenon, <3>1, <3>2, <3>3
  <2>8. s = [k \in 1 .. m |-> s[k]]
    BY <2>3
  <2> HIDE DEF s
  <2>9. s \in Seq(Seq(T)) /\ Len(s) = m
    BY <2>3, <2>7, <2>8
  <2>10. \A k \in 1 .. Len(s) : IF k \in P THEN Len(s[k]) = 1 ELSE s[k] = <<>>
    <3> SUFFICES ASSUME NEW k \in 1 .. m
                 PROVE  IF k \in P THEN Len(s[k]) = 1 ELSE s[k] = <<>>
      BY <2>9
    <3>1. k \in lost => s[k] = <<>>
      BY <2>5
    <3>2. k \notin lost => s[k] = <<SysctlWrite(list[k][1])>>
      BY <2>5
    <3> QED
      BY <3>1, <3>2
  <2> HIDE DEF P
  <2>11. written \in Seq(T) /\ Len(written) = Rank(P, m)
    BY <2>2, <2>9, <2>10, FlattenRanked
  <2>12. \A k \in DOMAIN written : written[k] \in T
    BY <2>11
  <2>13. \A k \in DOMAIN written : ConfiguredWrite(written[k])
    BY <2>12 DEF T
  <2>14. Len(written) + Cardinality(lost) = m
    <3>1. IsFiniteSet(1 .. m) /\ Cardinality(1 .. m) = m
      BY <2>3, FS_Interval
    <3>2. P \subseteq 1 .. m /\ lost \subseteq 1 .. m /\ P \cup lost = 1 .. m /\ P \cap lost = {}
      BY <2>2, <2>3 DEF P
    <3>3. IsFiniteSet(P) /\ IsFiniteSet(lost)
      BY <3>1, <3>2, FS_Subset
    <3>4. Cardinality(P \cup lost) = Cardinality(P) + Cardinality(lost) - Cardinality(P \cap lost)
      BY <3>3, FS_Union
    <3>5. Cardinality(P \cap lost) = 0 /\ Cardinality(P) \in Nat /\ Cardinality(lost) \in Nat
      BY <3>2, <3>3, FS_EmptySet, FS_CardinalityType
    <3>6. Rank(P, m) = Cardinality(P)
      <4>1. Upto(P, m) = P
        BY <3>2 DEF Upto
      <4> QED
        BY <4>1 DEF Rank
    <3> DEFINE p == Cardinality(P)
               l == Cardinality(lost)
               b == Cardinality(P \cap lost)
    <3>7. m = p + l - b /\ b = 0 /\ p \in Nat /\ l \in Nat /\ Len(written) = p
      BY <2>11, <3>1, <3>2, <3>4, <3>5, <3>6
    <3> HIDE DEF p, l, b
    <3>8. p + l = m
      BY <3>7
    <3> QED
      BY <3>7, <3>8 DEF l
  <2> QED
    BY <1>2, <2>3, <2>13, <2>14 DEF SysctlsExact, ConfiguredWrite, n
<1> QED
  BY <1>1, <1>2

\* The init writes only sysctls of its config, each to the path of its own name,
\* with its own value and in a namespace the container has of its own, and all
\* of them but those it has no memory for: joining name and value with '=',
\* sorting, encoding and splitting at the first '=' lose and mix up nothing.
THEOREM SysctlsHold == OciSpec => []SysctlsExact
  BY OciInvariant, AppliedInvariant, SysctlsDone, PTL

\* No capability is in the table twice.
LEMMA CapsDistinct == \A i, j \in 1 .. 41 : CAPS[i] = CAPS[j] => i = j
  BY DEF CAPS

\* No two namespaces share a bit.
LEMMA NsBits ==
    /\ \A s, t \in DOMAIN NsBit : NsBit[s] = NsBit[t] => s = t
    /\ \A s \in DOMAIN NsBit : NsBit[s] \in 0 .. 63
  BY DEF NsBit

\* Wrapping strings into entries and back is the identity.
LEMMA StrsOf ==
    ASSUME NEW list \in Seq(Str)
    PROVE  Strs(StrVec(list)) = list
<1> DEFINE n == Len(list)
<1>1. n \in Nat /\ DOMAIN list = 1 .. n /\ list = [k \in 1 .. n |-> list[k]]
  <2> DEFINE T == Str
  <2>1. list \in Seq(T)
    OBVIOUS
  <2> HIDE DEF T
  <2> QED
    BY <2>1
<1> HIDE DEF n
<1> QED
  BY <1>1 DEF Strs, StrVec

\* rootfs: absolute, and what the config names below the bundle.
LEMMA RootfsCarried ==
    ASSUME NEW path \in Str, path # <<>>
    PROVE  resolve_rootfs(path)[1] = SLASH /\ IsSuffix(path, resolve_rootfs(path))
<1>1. CASE path[1] = SLASH
  <2>1. resolve_rootfs(path) = path
    BY <1>1 DEF resolve_rootfs
  <2>2. IsSuffix(path, path)
    BY DEF IsSuffix, IsPrefix, Reverse, Str
  <2> QED
    BY <1>1, <2>1, <2>2
<1>2. CASE path[1] # SLASH
  <2> DEFINE u == Bundle \o <<SLASH>>
  <2>1. resolve_rootfs(path) = u \o path
    BY <1>2 DEF resolve_rootfs
  <2>2. Bundle \in Seq(Nat) /\ Bundle # <<>> /\ Bundle[1] = SLASH /\ Len(Bundle) \in Nat
    BY ConfigAssumption DEF Str
  <2>3. Len(Bundle) >= 1
    BY <2>2, EmptySeq
  <2>4. <<SLASH>> \in Seq(Nat)
    BY DEF SLASH
  <2>5. u \in Seq(Nat) /\ Len(u) >= 1 /\ u[1] = SLASH
    BY <2>2, <2>3, <2>4
  <2>6. path \in Seq(Nat)
    BY DEF Str
  <2> HIDE DEF u
  <2>7. (u \o path)[1] = SLASH
    BY <2>5, <2>6
  <2>8. IsSuffix(path, u \o path)
    BY <2>5, <2>6, SMTT(30) DEF IsSuffix, IsPrefix, Reverse
  <2> QED
    BY <2>1, <2>7, <2>8
<1> QED
  BY <1>1, <1>2

\* argv: the program the search finds, then the arguments of the config.
LEMMA ArgsCarried ==
    ASSUME cfg \in Configs, cfg.args # <<>>
    PROVE  PreparedArgs(cfg) = <<Program>> \o Tail(cfg.args)
<1> DEFINE args == cfg.args
           arg0 == args[1]
           path == SearchPath(cfg.env)
           Test(d) == d # COLON /\ <<d, arg0>> \in Programs
           I == {i \in 1 .. Len(path) : Test(path[i])}
           has == {k \in DOMAIN path : path[k] # COLON /\ <<path[k], arg0>> \in Programs}
           n == Len(args)
<1>1. args \in Seq(Str) /\ args # <<>> /\ cfg.env \in Seq(Str)
  BY ConfigTypes
<1>2. n \in Nat /\ DOMAIN args = 1 .. n /\ n >= 1
  <2> DEFINE T == Str
  <2>1. args \in Seq(T)
    BY <1>1
  <2> HIDE DEF T, args
  <2> QED
    BY <1>1, <2>1, EmptySeq
<1>3. path \in Seq(Nat)
  BY <1>1, SearchPathType DEF Str
<1>4. has = I
  <2> HIDE DEF path
  <2> QED
    BY <1>3
<1>5. Resolve(arg0, cfg.env) =
          IF SLASH \in ToSet(arg0) \/ First(I) = 0 THEN arg0 ELSE <<path[First(I)], SLASH>> \o arg0
  <2> HIDE DEF path
  <2> QED
    BY DEF Resolve, SelectInSeq, First, path
<1>6. Program = IF SLASH \in ToSet(arg0) \/ has = {} THEN arg0 ELSE <<path[Min(has)], SLASH>> \o arg0
  BY Zenon DEF Program
<1>7. First(I) = 0 <=> I = {}
  <2>1. I \subseteq 1 .. Len(path)
    OBVIOUS
  <2> HIDE DEF I
  <2> QED
    BY <2>1, FirstOf
<1>8. I # {} => First(I) = Min(I)
  BY DEF First
<1> HIDE DEF I, has, path, arg0
<1>9. Resolve(arg0, cfg.env) = Program
  BY <1>4, <1>5, <1>6, <1>7, <1>8
<1>10. PreparedArgs(cfg) = [k \in 1 .. n |-> IF k = 1 THEN Program ELSE args[k]]
  BY <1>2, <1>9 DEF PreparedArgs, arg0
<1> HIDE DEF args, n
<1>11. /\ Len(Tail(args)) = n - 1 /\ DOMAIN Tail(args) = 1 .. (n - 1)
       /\ \A k \in 1 .. (n - 1) : Tail(args)[k] = args[k + 1]
  <2> DEFINE T == Str
  <2>1. args \in Seq(T) /\ args # <<>>
    BY <1>1
  <2> HIDE DEF T
  <2>2. Tail(args) \in Seq(T) /\ Len(Tail(args)) = Len(args) - 1 /\ \A k \in 1 .. Len(Tail(args)) : Tail(args)[k] = args[k + 1]
    BY <2>1
  <2> QED
    BY <2>2 DEF n
<1> DEFINE p == Program
           t == Tail(args)
<1> HIDE DEF p, t
<1>12. <<p>> \o t = [k \in 1 .. n |-> IF k = 1 THEN p ELSE t[k - 1]]
  <2>1. Len(<<p>>) = 1 /\ Len(t) = n - 1
    BY <1>11 DEF t
  <2> QED
    BY <1>2, <2>1
<1>13. \A k \in 1 .. n : k # 1 => t[k - 1] = args[k]
  <2> SUFFICES ASSUME NEW k \in 1 .. n, k # 1 PROVE t[k - 1] = args[k]
    OBVIOUS
  <2>1. k - 1 \in 1 .. (n - 1) /\ k - 1 + 1 = k
    BY <1>2
  <2> QED
    BY <1>11, <2>1 DEF t
<1> QED
  BY <1>10, <1>12, <1>13 DEF p, t, args

\* The mask of a set of namespaces: one bit each.
NsMask(types) == Mask({NsBit[n] : n \in types})

LEMMA NsMaskBit ==
    ASSUME NEW types \in SUBSET DOMAIN NsBit, NEW t \in DOMAIN NsBit
    PROVE  Bit(NsMask(types), NsBit[t]) <=> t \in types
<1> DEFINE B == {NsBit[n] : n \in types}
<1>1. NsBit[t] \in 0 .. 63
  BY NsBits
<1>2. Bit(Mask(B), NsBit[t]) <=> NsBit[t] \in B
  <2> HIDE DEF B
  <2> QED
    BY <1>1, MaskBit
<1>3. NsBit[t] \in B <=> t \in types
  BY NsBits
<1> QED
  BY <1>2, <1>3 DEF NsMask

\* The mask of no bits is zero.
LEMMA MaskEmpty == Mask({}) = 0
<1>1. PICK high : MaskRun(high, {})
  BY MaskRunExists
<1> DEFINE P == {k \in 0 .. 64 : high[k] = 0}
<1>2. 0 \in P
  BY <1>1 DEF MaskRun
<1>3. ASSUME NEW k \in 1 .. 64, k - 1 \in P
      PROVE  k \in P
  <2>1. high[k - 1] = 0 /\ k \in 0 .. 64
    BY <1>3
  <2>2. high[k] = 2 * high[k - 1] + 0
    BY <1>1 DEF MaskRun
  <2>3. high[k] = 0
    BY <2>1, <2>2
  <2> QED
    BY <2>1, <2>3
<1> HIDE DEF P
<1>4. 0 .. 64 \subseteq P
  BY <1>2, <1>3, Induction
<1>5. high[64] = 0
  BY <1>4 DEF P
<1> QED
  BY <1>1, <1>5 DEF MaskRun

\* ... and that of some namespaces is not.
LEMMA NsMaskZero ==
    ASSUME NEW types \in SUBSET DOMAIN NsBit
    PROVE  NsMask(types) = 0 <=> types = {}
<1>1. ASSUME types = {}
      PROVE  NsMask(types) = 0
  <2>1. {NsBit[n] : n \in types} = {}
    BY <1>1
  <2> QED
    BY <2>1, MaskEmpty DEF NsMask
<1>2. ASSUME NEW t \in types, NsMask(types) = 0
      PROVE  FALSE
  <2>1. t \in DOMAIN NsBit /\ NsBit[t] \in 0 .. 63
    BY NsBits
  <2>2. Bit(0, NsBit[t])
    BY <1>2, <2>1, NsMaskBit
  <2>3. Bit(Mask({}), NsBit[t]) <=> NsBit[t] \in {}
    BY <2>1, MaskBit
  <2> QED
    BY <2>2, <2>3, MaskEmpty
<1> QED
  BY <1>1, <1>2

\* The namespaces: those of the config, or the default.
LEMMA NamespacesGiven ==
    ASSUME cfg \in Configs, ~Rejected(cfg), NAMESPACES \in DOMAIN out,
           out[NAMESPACES] = <<NsMask(NsTypes(cfg))>>
    PROVE  Given[NAMESPACES] = <<NsMask(OwnNamespaces)>>
<1> DEFINE m == NsMask(NsTypes(cfg))
           all == NsMask(ALLNS)
<1>1. NsTypes(cfg) \subseteq DOMAIN NsBit
  BY DEF Rejected, NsTypes
<1>2. m = 0 <=> NsTypes(cfg) = {}
  BY <1>1, NsMaskZero
<1>3. NsTypes(cfg) = {} <=> cfg.namespaces = <<>>
  <2> DEFINE R == [type : STRING, joins : BOOLEAN]
             list == cfg.namespaces
  <2>1. list \in Seq(R)
    BY ConfigTypes
  <2>2. NsTypes(cfg) = {list[k].type : k \in DOMAIN list}
    BY DEF NsTypes
  <2> HIDE DEF R, list
  <2>3. NsTypes(cfg) = {} <=> DOMAIN list = {}
    BY <2>2
  <2>4. DOMAIN list = {} <=> list = <<>>
    BY <2>1
  <2> QED
    BY <2>3, <2>4 DEF list
<1>4. Given[NAMESPACES] = IF <<m>> = <<0>> THEN <<all>> ELSE <<m>>
  <2>1. HOSTNAME # NAMESPACES
    BY DEF HOSTNAME, NAMESPACES
  <2>2. all = Mask({NsBit[t] : t \in ALLNS})
    BY DEF NsMask
  <2> HIDE DEF m, all
  <2>3. out[NAMESPACES] = <<m>>
    BY DEF m
  <2> QED
    BY <2>1, <2>2, <2>3 DEF Given, Spawned
<1>5. <<m>> = <<0>> <=> m = 0
  <2> HIDE DEF m
  <2> QED
    OBVIOUS
<1> HIDE DEF m, all
<1>6. CASE cfg.namespaces = <<>>
  <2>1. OwnNamespaces = ALLNS
    BY <1>6 DEF OwnNamespaces
  <2> QED
    BY <1>2, <1>3, <1>4, <1>5, <1>6, <2>1 DEF all
<1>7. CASE cfg.namespaces # <<>>
  <2>1. OwnNamespaces = NsTypes(cfg)
    BY <1>7 DEF OwnNamespaces
  <2> QED
    BY <1>2, <1>3, <1>4, <1>5, <1>7, <2>1 DEF m
<1> QED
  BY <1>6, <1>7

\* The two flags.
LEMMA FlagsCarried ==
    ASSUME NEW a \in BOOLEAN, NEW b \in BOOLEAN
    PROVE  LET f == (IF a THEN 1 ELSE 0) + (IF b THEN 2 ELSE 0)
           IN Bit(f, 0) = a /\ Bit(f, 1) = b
<1> DEFINE f == (IF a THEN 1 ELSE 0) + (IF b THEN 2 ELSE 0)
<1>1. f \in Nat /\ f \in 0 .. 3
  OBVIOUS
<1>2. (f % 2 = 1 <=> a) /\ ((f \div 2) % 2 = 1 <=> b)
  OBVIOUS
<1> HIDE DEF f
<1>3. PICK r : BitRun(r, f, 0)
  BY <1>1, BitRunExists
<1>4. Bit(f, 0) <=> f % 2 = 1
  BY <1>3 DEF BitRun
<1>5. PICK q : BitRun(q, f, 1)
  BY <1>1, BitRunExists
<1>6. q[0] = f /\ q[1] = q[1 - 1] \div 2 /\ (Bit(f, 1) <=> q[1] % 2 = 1)
  <2>1. 1 \in 1 .. 1
    OBVIOUS
  <2> QED
    BY <1>5, <2>1 DEF BitRun
<1>7. Bit(f, 1) <=> (f \div 2) % 2 = 1
  <2>1. 1 - 1 = 0
    OBVIOUS
  <2> QED
    BY <1>6, <2>1
<1>8. (Bit(f, 0) \in BOOLEAN) /\ (Bit(f, 1) \in BOOLEAN)
  BY DEF Bit
<1> QED
  BY Zenon, <1>2, <1>4, <1>7, <1>8 DEF f

\* A capability mask has the bits of the names in its set, and no others.
LEMMA CapsCarried ==
    ASSUME cfg \in Configs, ~Rejected(cfg), NEW k \in DOMAIN cfg.caps
    PROVE  SameCaps(k, caps_to_mask(cfg.caps[k]))
<1> DEFINE names == ToSet(cfg.caps[k])
           B == {Number(CAPS, n) : n \in names}
<1>1. names \subseteq ToSet(CAPS)
  BY DEF Rejected
<1>2. caps_to_mask(cfg.caps[k]) = Mask(B)
  BY DEF caps_to_mask
<1> HIDE DEF names, B
<1>3. ASSUME NEW b \in 0 .. 40
      PROVE  Bit(Mask(B), b) <=> CAPS[b + 1] \in names
  <2>1. Bit(Mask(B), b) <=> b \in B
    BY MaskBit
  <2>2. \A n \in names : Number(CAPS, n) \in 0 .. 40 /\ CAPS[Number(CAPS, n) + 1] = n
    <3> SUFFICES ASSUME NEW n \in names
                 PROVE  Number(CAPS, n) \in 0 .. 40 /\ CAPS[Number(CAPS, n) + 1] = n
      OBVIOUS
    <3> DEFINE m == 41
    <3>1. m \in Nat /\ Len(CAPS) = m /\ DOMAIN CAPS = 1 .. m
      BY TableSizes
    <3>3. n \in ToSet(CAPS)
      BY <1>1
    <3>4. m - 1 = 40
      OBVIOUS
    <3> HIDE DEF m
    <3>2. Number(CAPS, n) \in 0 .. (m - 1) /\ CAPS[Number(CAPS, n) + 1] = n
      BY <3>1, <3>3, NumberOf
    <3> QED
      BY <3>2, <3>4
  <2>3. ASSUME b \in B PROVE CAPS[b + 1] \in names
    BY <2>2, <2>3 DEF B
  <2>4. ASSUME CAPS[b + 1] \in names PROVE b \in B
    <3> DEFINE c == Number(CAPS, CAPS[b + 1])
    <3>1. c \in 0 .. 40 /\ CAPS[c + 1] = CAPS[b + 1] /\ c \in B
      BY <2>2, <2>4 DEF B
    <3> HIDE DEF c
    <3>2. c + 1 \in 1 .. 41 /\ b + 1 \in 1 .. 41
      BY <3>1
    <3>3. c + 1 = b + 1
      BY <3>1, <3>2, CapsDistinct
    <3>4. c = b
      BY <3>1, <3>3
    <3> QED
      BY <3>1, <3>4
  <2> QED
    BY <2>1, <2>3, <2>4
<1>4. Len(CAPS) - 1 = 40
  BY TableSizes
<1>5. \A b \in 0 .. 40 : (CAPS[b + 1] \in names) = Bit(Mask(B), b)
  <2>1. \A b : Bit(Mask(B), b) \in BOOLEAN
    BY DEF Bit
  <2> SUFFICES ASSUME NEW b \in 0 .. 40 PROVE (CAPS[b + 1] \in names) = Bit(Mask(B), b)
    OBVIOUS
  <2>2. Bit(Mask(B), b) <=> CAPS[b + 1] \in names
    BY <1>3
  <2> DEFINE x == CAPS[b + 1] \in names
             y == Bit(Mask(B), b)
  <2>3. x \in BOOLEAN /\ y \in BOOLEAN /\ (y <=> x)
    BY <2>1, <2>2
  <2> HIDE DEF x, y
  <2>4. x = y
    BY <2>3
  <2> QED
    BY <2>4 DEF x, y
<1> QED
  BY <1>2, <1>4, <1>5 DEF SameCaps, names

\* The limits, with the numbers of their names.
LEMMA RlimitsCarried ==
    ASSUME cfg \in Configs, ~Rejected(cfg)
    PROVE  LET list == RlimitEntries(cfg)
           IN /\ Len(list) = Len(cfg.rlimits)
              /\ \A k \in DOMAIN cfg.rlimits :
                    /\ RLIMITTYPES[list[k][1] + 1] = cfg.rlimits[k].type
                    /\ Tail(list[k]) = <<cfg.rlimits[k].soft, cfg.rlimits[k].hard>>
<1> DEFINE list == RlimitEntries(cfg)
           R == [type : STRING, soft : Nat, hard : Nat]
           rs == cfg.rlimits
           n == Len(rs)
<1>1. \A r \in ToSet(rs) : r.type \in ToSet(RLIMITTYPES)
  BY DEF Rejected
<1>2. Len(list) = n /\ \A k \in 1 .. n : list[k] = Rlimit(rs[k])
  BY <1>1, RlimitsType
<1>3. DOMAIN rs = 1 .. n
  <2>1. rs \in Seq(R)
    BY ConfigTypes
  <2> HIDE DEF R, rs
  <2> QED
    BY <2>1
<1>4. ASSUME NEW k \in 1 .. n
      PROVE  /\ RLIMITTYPES[list[k][1] + 1] = rs[k].type
             /\ Tail(list[k]) = <<rs[k].soft, rs[k].hard>>
  <2> DEFINE r == rs[k]
             num == Number(RLIMITTYPES, r.type)
  <2>1. r.type \in ToSet(RLIMITTYPES)
    BY <1>1, <1>3 DEF ToSet
  <2>2. RLIMITTYPES[num + 1] = r.type
    <3>1. 16 \in Nat /\ Len(RLIMITTYPES) = 16 /\ DOMAIN RLIMITTYPES = 1 .. 16
      BY TableSizes
    <3> HIDE DEF r
    <3> QED
      BY <2>1, <3>1, NumberOf, ZenonT(30)
  <2>3. list[k] = <<num, r.soft, r.hard>>
    BY <1>2 DEF Rlimit
  <2> DEFINE x == r.soft
             y == r.hard
  <2> HIDE DEF r, num, list, x, y
  <2>4. list[k] = <<num, x, y>>
    BY <2>3 DEF x, y
  <2>5. list[k][1] = num /\ Tail(list[k]) = <<x, y>>
    BY <2>4
  <2> QED
    BY <2>2, <2>5 DEF r, x, y
<1> QED
  BY <1>2, <1>3, <1>4

\* Part by part, what spawn is given is what the config says.
LEMMA Carries ==
    ASSUME OciInv
    PROVE  ConfigCarried
<1> SUFFICES ASSUME pc = "spawn", buf = sent, WithinLimits(spec)
             PROVE  Carried
  BY DEF ConfigCarried
<1>1. cfg \in Configs /\ ~Rejected(cfg) /\ spec = SpecOf(cfg) /\ out = Received(spec)
  BY DEF OciInv, RoundInv
<1>2. \A t \in KernelTags : out[t] = SpecOf(cfg)[t]
  BY <1>1, KnownTags DEF Received
<1>3. {ROOTFS, HOSTNAME, ARGV, ENV, NAMESPACES, FLAGS, CAPBOUNDING, CAPSETS, MASKEDPATHS, ROPATHS,
       RLIMITS, OOMSCOREADJ, USER} \subseteq KernelTags
  BY DEF KernelTags, Tags, Strings, Lists, StrVecs, Ints, ROOTFS, HOSTNAME, ARGV, ENV, NAMESPACES,
         UIDMAPS, GIDMAPS, FLAGS, CAPBOUNDING, CAPSETS, MASKEDPATHS, ROPATHS, RLIMITS, OOMSCOREADJ,
         USER, MOUNTS, SYSCTLS
<1>0. /\ out[NAMESPACES] = <<NsMask(NsTypes(cfg))>> /\ NAMESPACES \in DOMAIN out
      /\ HOSTNAME \in DOMAIN out /\ out[HOSTNAME] = cfg.hostname
      /\ \A t \in KernelTags \ {HOSTNAME, NAMESPACES} : Given[t] = out[t]
  <2>1. DOMAIN out = Tags
    BY <1>1 DEF Received
  <2>2. /\ HOSTNAME \in Tags /\ NAMESPACES \in Tags
    BY <1>3, KnownTags
  <2>3. \A t \in KernelTags \ {HOSTNAME, NAMESPACES} : Given[t] = out[t]
    BY <2>1, KnownTags DEF Given, Spawned
  <2>4. out[NAMESPACES] = <<NsMask(NsTypes(cfg))>> /\ out[HOSTNAME] = cfg.hostname
    BY <1>2, <1>3, SpecSections DEF NsMask
  <2> QED
    BY <2>1, <2>2, <2>3, <2>4
<1>15. Given[NAMESPACES] = <<NsMask(OwnNamespaces)>>
  BY <1>0, <1>1, NamespacesGiven
<1>16. Given[HOSTNAME] = (IF cfg.hostname = <<>> THEN <<KRUNC>> ELSE cfg.hostname)
  <2>1. HOSTNAME # NAMESPACES
    BY DEF HOSTNAME, NAMESPACES
  <2> QED
    BY <1>0, <2>1 DEF Given, Spawned
<1>4. /\ Given[ROOTFS] = resolve_rootfs(cfg.rootPath)
      /\ Given[ARGV] = StrVec(PreparedArgs(cfg))
      /\ Given[ENV] = StrVec(cfg.env)
      /\ Given[FLAGS] = <<(IF cfg.noNewPrivs THEN 1 ELSE 0) + (IF cfg.readonly THEN 2 ELSE 0)>>
      /\ Given[CAPBOUNDING] = (IF cfg.caps = <<>> THEN <<>> ELSE <<CapMasks(cfg)[1]>>)
      /\ Given[CAPSETS] = CapSets(cfg)
      /\ Given[MASKEDPATHS] = StrVec(cfg.masked)
      /\ Given[ROPATHS] = StrVec(cfg.readonlyPaths)
      /\ Given[RLIMITS] = RlimitEntries(cfg)
      /\ Given[OOMSCOREADJ] = cfg.oomScoreAdj
      /\ Given[USER] = <<cfg.uid, cfg.gid>>
  <2>1. \A t \in {ROOTFS, ARGV, ENV, FLAGS, CAPBOUNDING, CAPSETS, MASKEDPATHS, ROPATHS,
               RLIMITS, OOMSCOREADJ, USER} : Given[t] = SpecOf(cfg)[t]
    <3>1. {ROOTFS, ARGV, ENV, FLAGS, CAPBOUNDING, CAPSETS, MASKEDPATHS, ROPATHS, RLIMITS,
           OOMSCOREADJ, USER} \subseteq KernelTags \ {HOSTNAME, NAMESPACES}
      BY <1>3 DEF ROOTFS, HOSTNAME, ARGV, ENV, NAMESPACES, FLAGS, CAPBOUNDING, CAPSETS, MASKEDPATHS,
                  ROPATHS, RLIMITS, OOMSCOREADJ, USER
    <3> QED
      BY <1>0, <1>2, <3>1
  <2> QED
    BY <2>1, SpecSections
<1>5. /\ cfg.absent = {} /\ cfg.extra = {} /\ cfg.moreGids = {} /\ ~cfg.terminal
      /\ cfg.rootPath # <<>> /\ cfg.args # <<>>
  BY <1>1 DEF Rejected
<1>6. Given[ROOTFS][1] = SLASH /\ IsSuffix(cfg.rootPath, Given[ROOTFS])
  BY <1>1, <1>4, <1>5, ConfigTypes, RootfsCarried
<1>7. Strs(Given[ARGV]) = <<Program>> \o Tail(cfg.args)
  <2>1. PreparedArgs(cfg) \in Seq(Str)
    BY <1>1, PreparedArgsType
  <2>2. Strs(Given[ARGV]) = PreparedArgs(cfg)
    BY <1>4, <2>1, StrsOf
  <2> QED
    BY <1>1, <1>5, <2>2, ArgsCarried
<1>8. /\ Strs(Given[ENV]) = cfg.env
      /\ Strs(Given[MASKEDPATHS]) = cfg.masked /\ Strs(Given[ROPATHS]) = cfg.readonlyPaths
  <2>1. cfg.env \in Seq(Str) /\ cfg.masked \in Seq(Str) /\ cfg.readonlyPaths \in Seq(Str)
    BY <1>1, ConfigTypes
  <2> QED
    BY <1>4, <2>1, StrsOf
<1>9. ASSUME NEW t \in DOMAIN NsBit
      PROVE  Bit(Given[NAMESPACES][1], NsBit[t]) <=> t \in OwnNamespaces
  <2> DEFINE m == NsMask(OwnNamespaces)
  <2>1. OwnNamespaces \subseteq DOMAIN NsBit
    BY <1>1 DEF OwnNamespaces, ALLNS, NsBit, Rejected, NsTypes
  <2>2. Bit(m, NsBit[t]) <=> t \in OwnNamespaces
    BY <2>1, NsMaskBit
  <2> HIDE DEF m
  <2>3. Given[NAMESPACES][1] = m
    BY <1>15 DEF m
  <2> QED
    BY <2>2, <2>3
<1>10. Bit(Given[FLAGS][1], 0) = cfg.noNewPrivs /\ Bit(Given[FLAGS][1], 1) = cfg.readonly
  <2> DEFINE f == (IF cfg.noNewPrivs THEN 1 ELSE 0) + (IF cfg.readonly THEN 2 ELSE 0)
  <2>1. cfg.noNewPrivs \in BOOLEAN /\ cfg.readonly \in BOOLEAN
    BY <1>1, ConfigTypes
  <2>2. Bit(f, 0) = cfg.noNewPrivs /\ Bit(f, 1) = cfg.readonly
    BY Zenon, <2>1, FlagsCarried
  <2>3. Given[FLAGS] = <<f>>
    BY <1>4
  <2> HIDE DEF f
  <2>4. Given[FLAGS][1] = f
    BY <2>3
  <2> QED
    BY Zenon, <2>2, <2>4
<1>11. /\ (Given[CAPBOUNDING] = <<>>) = (cfg.caps = <<>>)
       /\ cfg.caps # <<>> =>
            /\ SameCaps(1, Given[CAPBOUNDING][1])
            /\ \A k \in 2 .. 5 : SameCaps(k, Given[CAPSETS][k - 1])
  <2>1. CASE cfg.caps = <<>>
    BY <1>4, <2>1
  <2>2. CASE cfg.caps # <<>>
    <3> DEFINE m == CapMasks(cfg)
    <3>1. /\ DOMAIN cfg.caps = 1 .. 5
          /\ \A k \in 1 .. 5 : m[k] = caps_to_mask(cfg.caps[k])
          /\ Given[CAPSETS] = <<m[2], m[3], m[4], m[5]>>
      BY <1>1, <1>4, <2>2, CapsType
    <3>2. \A k \in 1 .. 5 : SameCaps(k, m[k])
      BY <1>1, <3>1, CapsCarried
    <3> HIDE DEF m
    <3>3. Given[CAPBOUNDING] = <<m[1]>>
      BY <1>4, <2>2 DEF m
    <3>4. Given[CAPBOUNDING] # <<>> /\ Given[CAPBOUNDING][1] = m[1]
      BY <3>3
    <3>5. \A k \in 2 .. 5 : Given[CAPSETS][k - 1] = m[k] /\ k \in 1 .. 5
      BY <3>1
    <3>6. \A k \in 2 .. 5 : SameCaps(k, Given[CAPSETS][k - 1])
      BY Zenon, <3>2, <3>5
    <3>7. SameCaps(1, Given[CAPBOUNDING][1])
      <4>1. 1 \in 1 .. 5
        OBVIOUS
      <4> QED
        BY Zenon, <3>2, <3>4, <4>1
    <3> QED
      BY Zenon, <2>2, <3>4, <3>6, <3>7
  <2> QED
    BY <2>1, <2>2
<1>12. /\ Len(Given[RLIMITS]) = Len(cfg.rlimits)
       /\ \A k \in DOMAIN cfg.rlimits :
            /\ RLIMITTYPES[Given[RLIMITS][k][1] + 1] = cfg.rlimits[k].type
            /\ Tail(Given[RLIMITS][k]) = <<cfg.rlimits[k].soft, cfg.rlimits[k].hard>>
  BY Zenon, <1>1, <1>4, RlimitsCarried
<1>13. cfg.absent \cup cfg.extra \cup cfg.moreGids = {}
  BY <1>5
<1>14. Given[OOMSCOREADJ] = cfg.oomScoreAdj /\ Given[USER] = <<cfg.uid, cfg.gid>>
  BY <1>4
<1> QED
  BY Zenon, <1>5, <1>6, <1>7, <1>8, <1>9, <1>10, <1>11, <1>12, <1>13, <1>14, <1>16 DEF Carried

\* What spawn is given is what config.json says, for every accepted config
\* within the module's limits: config_to_spec, the encoder and the module's
\* decoder lose, swap and invent none of the process and linux properties, a
\* bare args[0] is the program PATH leads to, and create_from_blob fills in the
\* hostname of a config without one and the namespaces of a config without any.
THEOREM ConfigHolds == OciSpec => []ConfigCarried
  BY OciInvariant, Carries, PTL

=============================================================================
