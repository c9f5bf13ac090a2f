-------------------------- MODULE H264DecoderProofs --------------------------
(***************************************************************************)
(* Proofs about the H.264 decoder as its caller sees it, for every stream, *)
(* parallelism and reorder depth, and calls mixed in every way: an exact   *)
(* seek yields no frame before its target, a frame's format has been       *)
(* announced, and what is in the decoder is bounded.                       *)
(***************************************************************************)
EXTENDS H264Decoder, FiniteSetTheorems, SequenceTheorems, WellFoundedInduction, TLAPS

----------
(* Sequences *)

\* A set of naturals has a least element.
LEMMA Minimum ==
  ASSUME NEW S \in SUBSET Nat, S # {}
  PROVE  \E m \in S : \A k \in S : m <= k
<1>1. PICK R : /\ IsWellFoundedOn(R, Nat)
               /\ \A m, k \in Nat : m < k => <<m, k>> \in R
  <2> DEFINE R == OpToRel(<, Nat)
  <2>1. IsWellFoundedOn(R, Nat)
    BY NatLessThanWellFounded
  <2>2. \A m, k \in Nat : m < k => <<m, k>> \in R
    BY DEF OpToRel
  <2> QED BY <2>1, <2>2
<1>2. PICK m \in S : \A k \in S : ~ (<<k, m>> \in R)
  <2>1. S \subseteq Nat /\ IsWellFoundedOn(R, Nat)
    BY <1>1
  <2> QED BY ONLY <2>1, S # {}, WFMin
<1>3. \A k \in S : m \in Nat /\ k \in Nat /\ ~ (k < m)
  BY <1>1, <1>2
<1> QED BY <1>3

\* How many elements are in M.
CountIn(s, M) == Cardinality({k \in DOMAIN s : s[k] \in M})

LEMMA CountType ==
  ASSUME NEW S, NEW s \in Seq(S), NEW M
  PROVE  IsFiniteSet({k \in DOMAIN s : s[k] \in M}) /\ CountIn(s, M) \in Nat
<1>1. DOMAIN s = 1 .. Len(s) /\ Len(s) \in Nat
  BY LenProperties
<1>2. IsFiniteSet(1 .. Len(s))
  BY <1>1, FS_Interval
<1>3. IsFiniteSet({k \in DOMAIN s : s[k] \in M})
  <2>1. {k \in DOMAIN s : s[k] \in M} \in SUBSET (1 .. Len(s))
    BY <1>1
  <2> QED BY <1>2, <2>1, FS_Subset
<1> QED BY <1>3, FS_CardinalityType DEF CountIn

LEMMA CountConcat ==
  ASSUME NEW S, NEW s \in Seq(S), NEW t \in Seq(S), NEW M
  PROVE  CountIn(s \o t, M) = CountIn(s, M) + CountIn(t, M)
<1> DEFINE A == {k \in DOMAIN s : s[k] \in M}
           B == {k \in DOMAIN t : t[k] \in M}
           C == {k \in DOMAIN (s \o t) : (s \o t)[k] \in M}
           n == Len(s)
           Moved == {k \in C : k > n}
<1>1. /\ DOMAIN s = 1 .. n /\ n \in Nat
      /\ DOMAIN t = 1 .. Len(t) /\ Len(t) \in Nat
      /\ DOMAIN (s \o t) = 1 .. n + Len(t)
      /\ \A i \in 1 .. n + Len(t) : (s \o t)[i] = IF i <= n THEN s[i] ELSE t[i - n]
  BY LenProperties, ConcatProperties
<1>2. IsFiniteSet(A) /\ IsFiniteSet(B) /\ IsFiniteSet(C)
  BY CountType, ConcatProperties
<1>3. C = A \cup Moved /\ A \cap Moved = {}
  BY <1>1
<1>4. IsFiniteSet(Moved)
  <2>1. Moved \in SUBSET C
    OBVIOUS
  <2> QED BY <1>2, <2>1, FS_Subset
<1>5. Cardinality(Moved) = Cardinality(B)
  <2> DEFINE f == [k \in B |-> k + n]
  <2>1. \A k \in B : k \in 1 .. Len(t) /\ t[k] \in M /\ k + n \in Moved
    BY <1>1
  <2>2. \A k \in Moved : k - n \in B /\ (k - n) + n = k
    BY <1>1
  <2>3. f \in [B -> Moved]
    BY <2>1
  <2>4. \A j, k \in B : f[j] = f[k] => j = k
    BY <1>1, <2>1
  <2>5. \A k \in Moved : \E j \in B : f[j] = k
    BY <2>2
  <2> HIDE DEF A, B, C, Moved
  <2>6. f \in Injection(B, Moved)
    BY <2>3, <2>4 DEF Injection, IsInjective
  <2>7. f \in Surjection(B, Moved)
    BY <2>3, <2>5 DEF Surjection
  <2> QED BY <1>2, <2>6, <2>7, FS_Surjection
<1>6. Cardinality(C) = Cardinality(A) + Cardinality(Moved)
  <2>1. Cardinality(C) = Cardinality(A) + Cardinality(Moved) - Cardinality(A \cap Moved)
    BY ONLY <1>2, <1>3, <1>4, FS_Union
  <2>2. Cardinality({}) = 0
    BY FS_EmptySet
  <2>3. Cardinality(A) \in Nat /\ Cardinality(Moved) \in Nat
    BY <1>2, <1>4, FS_CardinalityType
  <2>4. Cardinality(A \cap Moved) = 0
    BY <1>3, <2>2
  <2> HIDE DEF A, C, Moved
  <2> QED BY ONLY <2>1, <2>3, <2>4
<1> QED BY <1>5, <1>6 DEF CountIn

LEMMA CountEmpty ==
  ASSUME NEW M
  PROVE  CountIn(<< >>, M) = 0
<1>1. {k \in DOMAIN << >> : << >>[k] \in M} = {}
  OBVIOUS
<1> QED BY <1>1, FS_EmptySet DEF CountIn

LEMMA CountOne ==
  ASSUME NEW x, NEW M
  PROVE  CountIn(<<x>>, M) = IF x \in M THEN 1 ELSE 0
<1>1. DOMAIN <<x>> = {1} /\ <<x>>[1] = x
  OBVIOUS
<1>2. {k \in DOMAIN <<x>> : <<x>>[k] \in M} = IF x \in M THEN {1} ELSE {}
  BY <1>1
<1> QED BY <1>2, FS_EmptySet, FS_Singleton DEF CountIn

LEMMA CountTail ==
  ASSUME NEW S, NEW s \in Seq(S), s # << >>, NEW M
  PROVE  CountIn(s, M) = (IF Head(s) \in M THEN 1 ELSE 0) + CountIn(Tail(s), M)
<1>1. Head(s) \in S /\ Tail(s) \in Seq(S) /\ <<Head(s)>> \in Seq(S)
  BY HeadTailProperties
<1>2. s = <<Head(s)>> \o Tail(s)
  <2>1. Len(s) \in Nat \ {0}
    BY EmptySeq
  <2>2. SubSeq(s, 1, Len(s)) = s /\ Tail(s) = SubSeq(s, 2, Len(s))
    BY SubSeqFull, TailIsSubSeq
  <2>3. SubSeq(s, 1, Len(s)) = <<s[1]>> \o SubSeq(s, 1 + 1, Len(s))
    BY <2>1, SubSeqRecursiveFirst
  <2>4. Head(s) = s[1]
    OBVIOUS
  <2> QED BY <2>2, <2>3, <2>4
<1>3. CountIn(<<Head(s)>> \o Tail(s), M) = CountIn(<<Head(s)>>, M) + CountIn(Tail(s), M)
  BY <1>1, CountConcat
<1> QED BY <1>2, <1>3, CountOne

LEMMA CountAppend ==
  ASSUME NEW S, NEW s \in Seq(S), NEW x \in S, NEW M
  PROVE  CountIn(Append(s, x), M) = CountIn(s, M) + (IF x \in M THEN 1 ELSE 0)
<1>1. Append(s, x) = s \o <<x>> /\ <<x>> \in Seq(S)
  BY AppendIsConcat
<1>2. CountIn(s \o <<x>>, M) = CountIn(s, M) + CountIn(<<x>>, M)
  BY <1>1, CountConcat
<1> QED BY <1>1, <1>2, CountOne

\* What Retain steps through.
Retains(G, s, positions, n) ==
  /\ G[0] = << >>
  /\ \A k \in 1 .. n :
       G[k] = IF k \in positions THEN Append(G[k - 1], s[k]) ELSE G[k - 1]

LEMMA SomethingRetains ==
  ASSUME NEW S, NEW s \in Seq(S), NEW positions, NEW n \in 0 .. Len(s)
  PROVE  \E G \in [0 .. n -> Seq(S)] : Retains(G, s, positions, n)
<1> DEFINE Good(m) == \E G \in [0 .. m -> Seq(S)] : Retains(G, s, positions, m)
           Bad == {m \in 0 .. Len(s) : ~ Good(m)}
<1>1. Len(s) \in Nat
  BY LenProperties
<1>2. SUFFICES ASSUME Bad # {} PROVE FALSE
  OBVIOUS
<1>3. PICK m \in Bad : \A j \in Bad : m <= j
  <2>1. Bad \in SUBSET Nat
    BY <1>1
  <2> QED BY <1>2, <2>1, Minimum
<1>4. m \in 0 .. Len(s) /\ ~ Good(m)
  BY <1>3
<1>5. CASE m = 0
  <2> DEFINE G == [k \in 0 .. 0 |-> << >>]
  <2>1. << >> \in Seq(S)
    BY EmptySeq
  <2>2. G \in [0 .. 0 -> Seq(S)]
    BY <2>1
  <2>3. Retains(G, s, positions, 0)
    BY DEF Retains
  <2> QED BY <1>4, <1>5, <2>2, <2>3
<1>6. CASE m > 0
  <2>1. m - 1 \in 0 .. Len(s) /\ m \in 1 .. Len(s)
    BY <1>1, <1>4, <1>6
  <2>2. Good(m - 1)
    <3>1. ~ (m <= m - 1)
      BY <2>1
    <3>2. m - 1 \notin Bad
      <4> HIDE DEF Bad
      <4> QED BY <1>3, <3>1
    <3> QED BY <2>1, <3>2
  <2>3. PICK G \in [0 .. m - 1 -> Seq(S)] : Retains(G, s, positions, m - 1)
    BY <2>2
  <2> DEFINE last == IF m \in positions THEN Append(G[m - 1], s[m]) ELSE G[m - 1]
             H == [k \in 0 .. m |-> IF k = m THEN last ELSE G[k]]
  <2>4. last \in Seq(S)
    <3>1. G[m - 1] \in Seq(S) /\ s[m] \in S
      BY <2>1, <2>3, ElementOfSeq
    <3> QED BY <3>1, AppendProperties
  <2>5. H \in [0 .. m -> Seq(S)]
    <3>1. \A k \in 0 .. m : k = m \/ k \in 0 .. m - 1
      BY <2>1
    <3> QED BY <2>3, <2>4, <3>1
  <2>6. Retains(H, s, positions, m)
    <3>1. H[0] = G[0]
      BY <1>6, <2>1
    <3>2. ASSUME NEW k \in 1 .. m
          PROVE  H[k] = IF k \in positions THEN Append(H[k - 1], s[k]) ELSE H[k - 1]
      <4>1. H[k - 1] = G[k - 1]
        BY <2>1
      <4>2. CASE k = m
        BY <2>1, <4>1, <4>2
      <4>3. CASE k # m
        <5>1. k \in 1 .. m - 1 /\ H[k] = G[k]
          BY <2>1, <4>3
        <5> QED BY <2>3, <4>1, <5>1 DEF Retains
      <4> QED BY <4>2, <4>3
    <3> QED BY <2>3, <3>1, <3>2 DEF Retains
  <2> QED BY <1>4, <2>5, <2>6
<1> QED BY <1>1, <1>4, <1>5, <1>6

LEMMA RetainIs ==
  ASSUME NEW S, NEW s \in Seq(S), NEW positions
  PROVE  \E G \in [0 .. Len(s) -> Seq(S)] :
           Retains(G, s, positions, Len(s)) /\ Retain(s, positions) = G[Len(s)]
<1> DEFINE n == Len(s)
           Body(G) == [k \in 0 .. n |->
                         IF k = 0 THEN << >>
                         ELSE IF k \in positions THEN Append(G[k - 1], s[k])
                         ELSE G[k - 1]]
           F == CHOOSE G : G = Body(G)
<1>1. n \in Nat
  BY LenProperties
<1>2. PICK G \in [0 .. n -> Seq(S)] : Retains(G, s, positions, n)
  <2>1. n \in 0 .. n
    BY <1>1
  <2> QED BY <2>1, SomethingRetains
<1>3. G = Body(G)
  <2>1. \A k \in 0 .. n : G[k] = Body(G)[k]
    <3>1. \A k \in 0 .. n : k = 0 \/ k \in 1 .. n
      BY <1>1
    <3> QED BY <1>2, <3>1 DEF Retains
  <2> QED BY <1>2, <2>1
<1>4. F = Body(F)
  BY <1>3
<1>5. Retain(s, positions) = F[n]
  BY DEF Retain
<1> HIDE DEF F
<1>6. F[0] = << >> /\ DOMAIN F = 0 .. n
  BY <1>1, <1>4
<1>7. ASSUME NEW k \in 1 .. n
      PROVE  F[k] = IF k \in positions THEN Append(F[k - 1], s[k]) ELSE F[k - 1]
  <2>1. k \in 0 .. n /\ k # 0
    BY <1>1
  <2>2. F[k] = Body(F)[k]
    BY <1>4
  <2> QED BY <2>1, <2>2
<1> HIDE DEF Body
<1>8. \A k \in 0 .. n : F[k] = G[k]
  <2> DEFINE Bad == {k \in 0 .. n : F[k] # G[k]}
  <2>1. SUFFICES ASSUME Bad # {} PROVE FALSE
    OBVIOUS
  <2>2. PICK k \in Bad : \A j \in Bad : k <= j
    <3>1. Bad \in SUBSET Nat
      BY <1>1
    <3> QED BY <2>1, <3>1, Minimum
  <2>3. k \in 1 .. n
    BY <1>1, <1>2, <1>6, <2>2 DEF Retains
  <2>4. F[k - 1] = G[k - 1]
    <3>1. k - 1 \in 0 .. n /\ ~ (k <= k - 1)
      BY <1>1, <2>3
    <3> QED BY <2>2, <3>1
  <2> QED BY <1>2, <1>7, <2>2, <2>3, <2>4 DEF Retains
<1>9. F[n] = G[n]
  BY <1>1, <1>8
<1> QED BY <1>2, <1>5, <1>9

\* Induction up to n, over a set of naturals.
LEMMA UpTo ==
  ASSUME NEW n \in Nat, NEW I, 0 \in I, \A k \in 1 .. n : k - 1 \in I => k \in I
  PROVE  \A k \in 0 .. n : k \in I
<1> DEFINE Bad == {k \in 0 .. n : k \notin I}
<1>1. SUFFICES ASSUME Bad # {} PROVE FALSE
  OBVIOUS
<1>2. PICK k \in Bad : \A j \in Bad : k <= j
  <2>1. Bad \in SUBSET Nat
    OBVIOUS
  <2> QED BY <1>1, <2>1, Minimum
<1>3. k \in 1 .. n
  BY <1>2
<1>4. k - 1 \in I
  <2>1. k - 1 \in 0 .. n /\ ~ (k <= k - 1)
    BY <1>3
  <2> QED BY <1>2, <2>1
<1> QED BY <1>2, <1>3, <1>4

\* What is retained was at one of the positions.
LEMMA RetainedWas ==
  ASSUME NEW S, NEW s \in Seq(S), NEW positions
  PROVE  /\ Retain(s, positions) \in Seq(S)
         /\ \A j \in DOMAIN Retain(s, positions) : \E k \in DOMAIN s \cap positions :
              Retain(s, positions)[j] = s[k]
<1> DEFINE n == Len(s)
<1>1. n \in Nat /\ DOMAIN s = 1 .. n
  BY LenProperties
<1>2. PICK G \in [0 .. n -> Seq(S)] :
        Retains(G, s, positions, n) /\ Retain(s, positions) = G[n]
  BY RetainIs
<1> DEFINE Was(x) == \E k \in DOMAIN s \cap positions : x = s[k]
           I == {k \in 0 .. n : \A j \in DOMAIN G[k] : Was(G[k][j])}
<1>3. 0 \in I
  BY <1>1, <1>2 DEF Retains
<1>4. ASSUME NEW k \in 1 .. n, k - 1 \in I
      PROVE  k \in I
  <2>1. k \in 0 .. n /\ k - 1 \in 0 .. n
    BY <1>1
  <2>2. CASE k \notin positions
    <3>1. G[k] = G[k - 1]
      BY <1>2, <2>2 DEF Retains
    <3> QED BY <1>4, <2>1, <3>1
  <2>3. CASE k \in positions
    <3>1. G[k] = Append(G[k - 1], s[k]) /\ G[k - 1] \in Seq(S) /\ s[k] \in S
      BY <1>2, <2>1, <2>3, ElementOfSeq DEF Retains
    <3> DEFINE t == G[k - 1]
    <3>2. /\ DOMAIN t = 1 .. Len(t) /\ Len(t) \in Nat
          /\ DOMAIN G[k] = 1 .. Len(t) + 1
          /\ \A j \in 1 .. Len(t) : G[k][j] = t[j]
          /\ G[k][Len(t) + 1] = s[k]
      BY <3>1, AppendProperties, LenProperties
    <3>3. Was(s[k])
      BY <1>1, <2>3
    <3>4. \A j \in 1 .. Len(t) : Was(t[j])
      BY <1>4, <3>2
    <3>5. ASSUME NEW j \in DOMAIN G[k]
          PROVE  Was(G[k][j])
      <4>1. j \in 1 .. Len(t) \/ j = Len(t) + 1
        BY <3>2
      <4> HIDE DEF Was
      <4> QED BY <3>2, <3>3, <3>4, <4>1
    <3> QED BY <2>1, <3>5
  <2> QED BY <2>2, <2>3
<1>5. n \in I
  <2>1. \A k \in 1 .. n : k - 1 \in I => k \in I
    BY <1>4
  <2> HIDE DEF I, n
  <2>2. \A k \in 0 .. n : k \in I
    BY <1>1, <1>3, <2>1, UpTo
  <2> QED BY <1>1, <2>2
<1> QED BY <1>1, <1>2, <1>5

LEMMA RetainedFewer ==
  ASSUME NEW S, NEW s \in Seq(S), NEW positions, NEW M
  PROVE  CountIn(Retain(s, positions), M) <= CountIn(s, M)
<1> DEFINE n == Len(s)
           First(k) == SubSeq(s, 1, k)
<1>1. n \in Nat /\ DOMAIN s = 1 .. n
  BY LenProperties
<1>2. PICK G \in [0 .. n -> Seq(S)] :
        Retains(G, s, positions, n) /\ Retain(s, positions) = G[n]
  BY RetainIs
<1> DEFINE I == {k \in 0 .. n : CountIn(G[k], M) <= CountIn(First(k), M)}
<1>3. 0 \in I
  <2>1. G[0] = << >> /\ First(0) = << >>
    BY <1>2, SubSeqEmpty DEF Retains
  <2> QED BY <1>1, <2>1, CountEmpty
<1>4. ASSUME NEW k \in 1 .. n, k - 1 \in I
      PROVE  k \in I
  <2>1. k \in 0 .. n /\ k - 1 \in 0 .. n /\ s[k] \in S
    BY <1>1, ElementOfSeq
  <2>2. First(k - 1) \in Seq(S)
    <3>1. \A i \in 1 .. k - 1 : s[i] \in S
      BY <2>1, ElementOfSeq
    <3> QED BY <2>1, <3>1, SubSeqProperties
  <2>3. First(k) = Append(First(k - 1), s[k])
    <3>1. 1 \in 1 .. n /\ k \in 1 .. n
      BY <1>1
    <3>2. First(k) = First(k - 1) \o <<s[k]>>
      BY <3>1, SubSeqRecursiveSecond
    <3> QED BY <2>1, <2>2, <3>2, AppendIsConcat
  <2> DEFINE new == IF s[k] \in M THEN 1 ELSE 0
  <2>4. CountIn(First(k), M) = CountIn(First(k - 1), M) + new
    BY <2>1, <2>2, <2>3, CountAppend
  <2>5. CountIn(G[k], M) = CountIn(G[k - 1], M) + (IF k \in positions THEN new ELSE 0)
    <3>1. G[k - 1] \in Seq(S) /\ CountIn(G[k - 1], M) \in Nat
      BY <1>2, <2>1, CountType
    <3>2. CASE k \in positions
      <4>1. G[k] = Append(G[k - 1], s[k])
        BY <1>2, <3>2 DEF Retains
      <4> QED BY <2>1, <3>1, <3>2, <4>1, CountAppend
    <3>3. CASE k \notin positions
      <4>1. G[k] = G[k - 1]
        BY <1>2, <3>3 DEF Retains
      <4> QED BY <3>1, <3>3, <4>1
    <3> QED BY <3>2, <3>3
  <2>6. CountIn(G[k - 1], M) \in Nat /\ CountIn(First(k - 1), M) \in Nat
    BY <1>2, <2>1, <2>2, CountType
  <2>7. CountIn(G[k - 1], M) <= CountIn(First(k - 1), M)
    BY <1>4
  <2>8. CountIn(G[k], M) <= CountIn(First(k), M)
    <3> HIDE DEF First, new
    <3>1. new \in {0, 1}
      BY DEF new
    <3> QED BY <2>4, <2>5, <2>6, <2>7, <3>1
  <2> QED BY <2>1, <2>8
<1>5. n \in I
  <2>1. \A k \in 1 .. n : k - 1 \in I => k \in I
    BY <1>4
  <2> HIDE DEF I, n
  <2>2. \A k \in 0 .. n : k \in I
    BY <1>1, <1>3, <2>1, UpTo
  <2> QED BY <1>1, <2>2
<1>6. First(n) = s
  BY SubSeqFull
<1> QED BY <1>2, <1>5, <1>6

\* A picture to leave the reorder buffer exists.
LEMMA LowestIsThere ==
  ASSUME NEW S, \A entry \in S : entry.poc \in Int,
         NEW entries \in Seq(S), entries # << >>
  PROVE  /\ Lowest(entries) \in 1 .. Len(entries)
         /\ \A l \in 1 .. Len(entries) : entries[Lowest(entries)].poc <= entries[l].poc
<1> DEFINE n == Len(entries)
           Least(k, m) == /\ k \in 1 .. m
                          /\ \A l \in 1 .. m : \/ entries[k].poc < entries[l].poc
                                               \/ entries[k].poc = entries[l].poc /\ k <= l
           I == {m \in 0 .. n : m > 0 => \E k : Least(k, m)}
<1>1. n \in Nat /\ n > 0 /\ DOMAIN entries = 1 .. n
  BY LenProperties, EmptySeq
<1>2. \A k \in 1 .. n : entries[k].poc \in Int
  BY ElementOfSeq
<1>3. 0 \in I
  BY <1>1
<1>4. ASSUME NEW m \in 1 .. n, m - 1 \in I
      PROVE  m \in I
  <2>1. m \in 0 .. n
    BY <1>1
  <2>2. CASE m = 1
    <3>1. Least(1, 1)
      OBVIOUS
    <3> QED BY <2>1, <2>2, <3>1
  <2>3. CASE m > 1
    <3>1. PICK k : Least(k, m - 1)
      <4>1. m - 1 > 0
        BY <2>3
      <4> QED BY <1>4, <4>1
    <3>2. k \in 1 .. n /\ k < m /\ entries[k].poc \in Int /\ entries[m].poc \in Int
      BY <1>1, <1>2, <3>1
    <3>3. CASE entries[m].poc < entries[k].poc
      <4>1. \A l \in 1 .. m : l \in 1 .. m - 1 \/ l = m
        OBVIOUS
      <4>2. \A l \in 1 .. m - 1 : entries[l].poc \in Int /\ entries[m].poc < entries[l].poc
        <5>1. \A l \in 1 .. m - 1 : l \in 1 .. n
          BY <1>1
        <5> QED BY <1>2, <3>1, <3>2, <3>3, <5>1
      <4>3. Least(m, m)
        BY <3>2, <4>1, <4>2
      <4> QED BY <2>1, <4>3
    <3>4. CASE ~ (entries[m].poc < entries[k].poc)
      <4>1. Least(k, m)
        BY <3>1, <3>2, <3>4
      <4> QED BY <2>1, <4>1
    <3> QED BY <3>3, <3>4
  <2> QED BY <2>2, <2>3
<1>5. n \in I
  <2>1. \A m \in 1 .. n : m - 1 \in I => m \in I
    BY <1>4
  <2> HIDE DEF I, n
  <2>2. \A m \in 0 .. n : m \in I
    BY <1>1, <1>3, <2>1, UpTo
  <2> QED BY <1>1, <2>2
<1>6. \E k \in DOMAIN entries : Least(k, n)
  BY <1>1, <1>5
<1>7. Least(Lowest(entries), n)
  BY <1>1, <1>6 DEF Lowest
<1>8. \A l \in 1 .. n : entries[Lowest(entries)].poc <= entries[l].poc
  BY <1>2, <1>7
<1> QED BY <1>7, <1>8

LEMMA RemovedFrom ==
  ASSUME NEW S, NEW s \in Seq(S), NEW k \in 1 .. Len(s)
  PROVE  RemoveAt(s, k) \in Seq(S) /\ Len(RemoveAt(s, k)) = Len(s) - 1
<1>1. Len(s) \in Nat
  BY LenProperties
<1>2. /\ SubSeq(s, 1, k - 1) \in Seq(S)
      /\ Len(SubSeq(s, 1, k - 1)) = k - 1
  <2>1. \A i \in 1 .. k - 1 : s[i] \in S
    BY <1>1, ElementOfSeq
  <2> QED BY <1>1, <2>1, SubSeqProperties
<1>3. /\ SubSeq(s, k + 1, Len(s)) \in Seq(S)
      /\ Len(SubSeq(s, k + 1, Len(s))) = Len(s) - k
  <2>1. \A i \in k + 1 .. Len(s) : s[i] \in S
    BY <1>1, ElementOfSeq
  <2> QED BY <1>1, <2>1, SubSeqProperties
<1>4. RemoveAt(s, k) = SubSeq(s, 1, k - 1) \o SubSeq(s, k + 1, Len(s))
  BY DEF RemoveAt
<1> DEFINE a == SubSeq(s, 1, k - 1)
           b == SubSeq(s, k + 1, Len(s))
<1>5. a \o b \in Seq(S) /\ Len(a \o b) = Len(a) + Len(b)
  BY <1>2, <1>3, ConcatProperties
<1> HIDE DEF a, b
<1>6. Len(a) = k - 1 /\ Len(b) = Len(s) - k
  BY <1>2, <1>3 DEF a, b
<1>7. RemoveAt(s, k) = a \o b
  BY <1>4 DEF a, b
<1>8. Len(a) + Len(b) = Len(s) - 1
  BY <1>1, <1>6
<1> QED BY ONLY <1>5, <1>7, <1>8

LEMMA CountNone ==
  ASSUME NEW s, NEW M, \A k \in DOMAIN s : s[k] \notin M
  PROVE  CountIn(s, M) = 0
<1>1. {k \in DOMAIN s : s[k] \in M} = {}
  OBVIOUS
<1> QED BY <1>1, FS_EmptySet DEF CountIn

LEMMA CountSome ==
  ASSUME NEW S, NEW s \in Seq(S), NEW M, CountIn(s, M) = 0
  PROVE  \A k \in DOMAIN s : s[k] \notin M
<1>1. {k \in DOMAIN s : s[k] \in M} = {}
  BY CountType, FS_EmptySet DEF CountIn
<1> QED BY <1>1

LEMMA CountSingle ==
  ASSUME NEW s, NEW M, NEW i \in DOMAIN s, \A k \in DOMAIN s : s[k] \in M <=> k = i
  PROVE  CountIn(s, M) = 1
<1>1. {k \in DOMAIN s : s[k] \in M} = {i}
  OBVIOUS
<1> QED BY <1>1, FS_Singleton DEF CountIn

----------
(* What the decoder holds *)

Position == 1 .. Len(stream)
Formats == DOMAIN ReorderDepth

Frames == [kind : {"Frame"}, value : Position]
Announcements == [kind : {"FormatChanged"}, value : Formats]
Output == Frames \cup Announcements
Entry == [poc : Int, picture : Position, shown : BOOLEAN]
Completion == [picture : Position, shown : BOOLEAN, ready : BOOLEAN, failed : BOOLEAN]

\* A slice is deferred to a worker only where there are some.
Damages == {"none", "slice", "marking"}
Current ==
  {c \in [picture : Position, damage : Damages, deferred : BOOLEAN] : c.deferred => HasPool}

Workers == IF HasPool THEN PendingLimit ELSE 0

Kept ==
  {c \in [resume_time : Nat, dpb_configuration : Formats, reorder : Seq(Entry),
          max_num_reorder_frames : 0 .. MaxReorderDepth,
          position : 1 .. Len(stream) + 1, first : Nat, errors : Nat] :
     Len(c.reorder) <= c.max_num_reorder_frames}

\* Steps by what they need: nothing, a worker, a picture, a reset before them.
Plain == {"poll", "room", "join", "discard", "drain", "finish", "clear", "deliver",
          "snapshot", "end sequence", "end stream"}
Spawning == {"spawn", "spawn deferred"}
OfPicture == {"spawn", "spawn deferred", "push", "record", "start", "prepare", "guard",
              "accepted", "reset"}
Restarting == {"set start", "configure"}
StepNames == Plain \cup OfPicture \cup Restarting \cup {"restore"}

TypedStep ==
  {s \in [step : StepNames, arg : Int, damage : Damages] :
     /\ s.step \in OfPicture => s.arg \in Position
     /\ s.step \in Spawning => HasPool
     /\ s.step \in {"set start", "restore"} => s.arg \in Nat \cup {NoTime}}

\* The sets above depend on nothing that changes.
LEMMA SetsFixed ==
  ASSUME UNCHANGED fixedVars
  PROVE  /\ Position' = Position /\ Output' = Output /\ Frames' = Frames /\ Entry' = Entry
         /\ Completion' = Completion /\ Current' = Current /\ HasPool' = HasPool
         /\ Workers' = Workers /\ Kept' = Kept /\ TypedStep' = TypedStep
         /\ PendingLimit' = PendingLimit
<1>1. stream' = stream /\ parallelism' = parallelism
  BY DEF fixedVars
<1>2. Position' = Position
  BY <1>1 DEF Position
<1>3. HasPool' = HasPool /\ PendingLimit' = PendingLimit
  BY <1>1 DEF HasPool, PendingLimit
<1>4. Output' = Output /\ Frames' = Frames /\ Entry' = Entry /\ Completion' = Completion
  BY <1>2 DEF Output, Frames, Announcements, Entry, Completion
<1>5. Current' = Current /\ Workers' = Workers /\ TypedStep' = TypedStep
  BY <1>2, <1>3 DEF Current, Workers, TypedStep
<1>6. Kept' = Kept
  BY <1>1, <1>4 DEF Kept
<1> QED BY <1>2, <1>3, <1>4, <1>5, <1>6

TodoTyped == todo \in Seq(TypedStep)

CodingTyped ==
  /\ current_picture \in {NoPicture} \cup Current
  /\ current_skipped_picture \in {0} \cup Position
  /\ dpb_configuration \in {NoFormat} \cup Formats
  /\ maximum_completed_pts \in Nat \cup {NoTime}

ReorderTyped ==
  /\ reorder \in Seq(Entry)
  /\ max_num_reorder_frames \in 0 .. MaxReorderDepth
  /\ Len(reorder) <= max_num_reorder_frames

OutputsTyped == outputs \in Seq(Output) /\ announced_format \in {NoFormat} \cup Formats

PendingTyped ==
  pending_picture_completions \in Seq(Completion) /\ Len(pending_picture_completions) <= Workers

CallerTyped ==
  /\ output_start_time \in Nat \cup {NoTime} /\ draining \in BOOLEAN
  /\ next \in 1 .. Len(stream) + 1
  /\ checkpoint \in {NoCheckpoint} \cup Kept
  /\ received \in Seq(Position) /\ first \in Nat /\ errors \in Nat

Types ==
  /\ stream \in Streams /\ parallelism \in Parallelisms
  /\ TodoTyped /\ CodingTyped /\ ReorderTyped /\ OutputsTyped /\ PendingTyped /\ CallerTyped

----------
(* What the steps left of a call say of the state *)

Nothing == current_picture = NoPicture /\ current_skipped_picture = 0

\* Room is made before a picture is spawned, and the decoder is reset before it
\* gets a new start of output or is configured.
Follows(s) ==
  \A k \in 2 .. Len(s) : /\ s[k].step \in Spawning => s[k - 1].step = "room"
                         /\ s[k].step \in Restarting => s[k - 1].step = "reset"

Opens(s) == s # << >> => s[1].step \notin Spawning \cup Restarting

Starting == [step : {"start"}, arg : Int, damage : Damages]

\* The current picture is finished before another one starts.
AfterFinish(s) ==
  \A k \in DOMAIN s : s[k].step = "start" => \E j \in 1 .. k - 1 : s[j].step = "finish"

HeadReady ==
  todo # << >> =>
    /\ todo[1].step \in Spawning => Len(pending_picture_completions) < Workers
    /\ todo[1].step \in Restarting => outputs = << >> /\ received = << >>

Control ==
  /\ Follows(todo) /\ HeadReady
  /\ CountIn(todo, Starting) <= 1
  /\ Nothing \/ AfterFinish(todo)
  /\ current_picture = NoPicture \/ current_skipped_picture = 0
  /\ \A k \in DOMAIN todo : todo[k].step = "restore" => checkpoint # NoCheckpoint

LEMMA StepShape ==
  ASSUME NEW s \in Seq(TypedStep)
  PROVE  /\ DOMAIN s = 1 .. Len(s) /\ Len(s) \in Nat
         /\ \A k \in 1 .. Len(s) : s[k] \in TypedStep
         /\ \A k \in 1 .. Len(s) : s[k] \in Starting <=> s[k].step = "start"
         /\ s # << >> => Head(s) = s[1] /\ Len(s) >= 1
<1>1. /\ DOMAIN s = 1 .. Len(s) /\ Len(s) \in Nat
      /\ s # << >> => Len(s) # 0
  BY LenProperties, EmptySeq
<1>2. \A k \in 1 .. Len(s) : s[k] \in TypedStep
  BY ElementOfSeq
<1>3. \A t \in TypedStep : t \in Starting <=> t.step = "start"
  BY DEF TypedStep, Starting
<1>4. Head(s) = s[1]
  OBVIOUS
<1> QED BY <1>1, <1>2, <1>3, <1>4

\* A step is done and the others are left.
LEMMA TailLeft ==
  ASSUME TodoTyped, Control, todo # << >>, todo' = Tail(todo), UNCHANGED fixedVars
  PROVE  /\ TodoTyped' /\ Follows(todo') /\ CountIn(todo', Starting) <= 1
         /\ todo' # << >> =>
              /\ todo'[1].step \in Spawning => Head(todo).step = "room"
              /\ todo'[1].step \in Restarting => Head(todo).step = "reset"
         /\ \A k \in DOMAIN todo' : todo'[k].step = "restore" => checkpoint # NoCheckpoint
         /\ Head(todo).step # "finish" /\ AfterFinish(todo) => AfterFinish(todo')
         /\ Head(todo).step = "start" => Nothing /\ AfterFinish(todo')
<1>1. TypedStep' = TypedStep
  BY SetsFixed
<1>2. PICK s : s = todo
  OBVIOUS
<1>3. PICK t : t = Tail(s)
  OBVIOUS
<1>4. s \in Seq(TypedStep) /\ s # << >>
  BY <1>2 DEF TodoTyped
<1>5. /\ Head(s) = s[1] /\ DOMAIN s = 1 .. Len(s) /\ Len(s) \in Nat /\ Len(s) >= 1
      /\ t \in Seq(TypedStep) /\ Len(t) = Len(s) - 1 /\ DOMAIN t = 1 .. Len(t)
      /\ \A k \in 1 .. Len(t) : t[k] = s[k + 1]
  BY <1>3, <1>4, StepShape, HeadTailProperties, LenProperties
<1>6. Follows(t)
  <2>1. Follows(s)
    BY <1>2 DEF Control
  <2>2. ASSUME NEW k \in 2 .. Len(t)
        PROVE  /\ t[k].step \in Spawning => t[k - 1].step = "room"
               /\ t[k].step \in Restarting => t[k - 1].step = "reset"
    <3>1. k + 1 \in 2 .. Len(s) /\ t[k] = s[k + 1] /\ t[k - 1] = s[k]
      BY <1>5
    <3>2. (k + 1) - 1 = k
      OBVIOUS
    <3> QED BY <2>1, <3>1, <3>2 DEF Follows
  <2> QED BY <2>2 DEF Follows
<1>7. t # << >> => /\ t[1].step \in Spawning => s[1].step = "room"
                   /\ t[1].step \in Restarting => s[1].step = "reset"
  <2>1. SUFFICES ASSUME t # << >>
                 PROVE  /\ t[1].step \in Spawning => s[1].step = "room"
                        /\ t[1].step \in Restarting => s[1].step = "reset"
    OBVIOUS
  <2>2. Len(t) # 0
    BY <1>5, <2>1, EmptySeq
  <2>3. 2 \in 2 .. Len(s) /\ t[1] = s[2] /\ 2 - 1 = 1
    BY <1>5, <2>2
  <2>4. Follows(s)
    BY <1>2 DEF Control
  <2> QED BY <2>3, <2>4 DEF Follows
<1>8. \A k \in DOMAIN t : t[k].step = "restore" => checkpoint # NoCheckpoint
  <2>1. \A k \in DOMAIN t : k + 1 \in DOMAIN s /\ t[k] = s[k + 1]
    BY <1>5
  <2> QED BY <1>2, <2>1 DEF Control
<1>9. /\ CountIn(s, Starting) = (IF s[1].step = "start" THEN 1 ELSE 0) + CountIn(t, Starting)
      /\ CountIn(t, Starting) \in Nat /\ CountIn(s, Starting) <= 1
  <2>1. CountIn(s, Starting)
          = (IF Head(s) \in Starting THEN 1 ELSE 0) + CountIn(Tail(s), Starting)
    BY <1>4, CountTail
  <2>2. s[1] \in Starting <=> s[1].step = "start"
    BY <1>4, <1>5, StepShape
  <2>3. CountIn(t, Starting) \in Nat
    BY <1>5, CountType
  <2>4. CountIn(s, Starting) <= 1
    BY <1>2 DEF Control
  <2> QED BY <1>3, <1>5, <2>1, <2>2, <2>3, <2>4
<1>10. CountIn(t, Starting) <= 1
  BY <1>9
<1>11. s[1].step # "finish" /\ AfterFinish(s) => AfterFinish(t)
  <2>1. SUFFICES ASSUME s[1].step # "finish", AfterFinish(s),
                        NEW k \in DOMAIN t, t[k].step = "start"
                 PROVE  \E j \in 1 .. k - 1 : t[j].step = "finish"
    BY DEF AfterFinish
  <2>2. k + 1 \in DOMAIN s /\ s[k + 1].step = "start"
    BY <1>5, <2>1
  <2>3. PICK j \in 1 .. (k + 1) - 1 : s[j].step = "finish"
    BY <2>1, <2>2 DEF AfterFinish
  <2>4. j # 1
    BY <2>1, <2>3
  <2>5. j - 1 \in 1 .. k - 1 /\ t[j - 1] = s[j]
    <3>1. k \in 1 .. Len(t)
      BY <1>5
    <3>2. j - 1 \in 1 .. k - 1 /\ j - 1 \in 1 .. Len(t) /\ (j - 1) + 1 = j
      BY <1>5, <2>3, <2>4, <3>1
    <3> QED BY <1>5, <3>2
  <2> QED BY <2>3, <2>5
<1>12. s[1].step = "start" => Nothing /\ AfterFinish(t)
  <2>1. SUFFICES ASSUME s[1].step = "start" PROVE Nothing /\ AfterFinish(t)
    OBVIOUS
  <2>2. ~ AfterFinish(s)
    <3>1. 1 \in DOMAIN s
      BY <1>5
    <3> QED BY <2>1, <3>1 DEF AfterFinish
  <2>3. CountIn(t, Starting) = 0
    BY <1>9, <2>1
  <2>4. \A k \in DOMAIN t : t[k] \notin Starting
    BY <1>5, <2>3, CountSome
  <2>5. \A k \in DOMAIN t : t[k].step # "start"
    BY <1>5, <2>4, StepShape
  <2> QED BY <1>2, <2>2, <2>5 DEF Control, AfterFinish
<1>13. todo' = t
  BY <1>2, <1>3
<1> QED BY <1>1, <1>2, <1>5, <1>6, <1>7, <1>8, <1>10, <1>11, <1>12, <1>13 DEF TodoTyped

\* Steps take the place of the step done.
LEMMA StepsInserted ==
  ASSUME TodoTyped, Control, todo # << >>, UNCHANGED fixedVars,
         Head(todo).step \in {"finish", "prepare"},
         NEW steps \in Seq(TypedStep), steps # << >>, Follows(steps), Opens(steps),
         \A k \in DOMAIN steps : steps[k].step \notin {"start", "restore"},
         todo' = steps \o Tail(todo)
  PROVE  /\ TodoTyped' /\ Follows(todo') /\ CountIn(todo', Starting) <= 1
         /\ Opens(todo')
         /\ \A k \in DOMAIN todo' : todo'[k].step = "restore" => checkpoint # NoCheckpoint
         /\ Head(todo).step # "finish" /\ AfterFinish(todo) => AfterFinish(todo')
<1>1. TypedStep' = TypedStep
  BY SetsFixed
<1>2. PICK s : s = todo
  OBVIOUS
<1>3. PICK t : t = Tail(s)
  OBVIOUS
<1>4. PICK r : r = steps \o t
  OBVIOUS
<1>5. s \in Seq(TypedStep) /\ s # << >>
  BY <1>2 DEF TodoTyped
<1>51. PICK n : n = Len(steps)
  OBVIOUS
<1>6. /\ Head(s) = s[1] /\ DOMAIN s = 1 .. Len(s) /\ Len(s) \in Nat /\ Len(s) >= 1
      /\ t \in Seq(TypedStep) /\ Len(t) = Len(s) - 1 /\ DOMAIN t = 1 .. Len(t)
      /\ \A k \in 1 .. Len(t) : t[k] = s[k + 1]
      /\ DOMAIN steps = 1 .. n /\ n \in Nat /\ n >= 1 /\ Len(t) \in Nat
  BY <1>3, <1>5, <1>51, StepShape, HeadTailProperties, LenProperties
<1>7. /\ r \in Seq(TypedStep) /\ DOMAIN r = 1 .. Len(r) /\ Len(r) = n + Len(t)
      /\ \A i \in 1 .. Len(r) : i <= n => r[i] = steps[i]
      /\ \A i \in 1 .. Len(r) : i > n => r[i] = t[i - n]
  <2>1. /\ r \in Seq(TypedStep) /\ Len(r) = n + Len(t)
        /\ \A i \in 1 .. n + Len(t) : r[i] = IF i <= n THEN steps[i] ELSE t[i - n]
    <3>1. /\ steps \o t \in Seq(TypedStep) /\ Len(steps \o t) = Len(steps) + Len(t)
          /\ \A i \in 1 .. Len(steps) + Len(t) :
               (steps \o t)[i] = IF i <= Len(steps) THEN steps[i] ELSE t[i - Len(steps)]
      <4>1. t \in Seq(TypedStep) /\ steps \in Seq(TypedStep)
        BY <1>6
      <4> QED BY ONLY <4>1, ConcatProperties
    <3> QED BY ONLY <1>4, <1>51, <3>1
  <2>2. DOMAIN r = 1 .. Len(r)
    BY <2>1, LenProperties
  <2>3. \A i \in 1 .. n + Len(t) : i > n => ~ (i <= n)
    BY <1>6
  <2> QED BY <2>1, <2>2, <2>3
<1>8. ASSUME NEW i \in 1 .. Len(r)
      PROVE  \/ i \in 1 .. n /\ r[i] = steps[i]
             \/ /\ i > n /\ i - n \in 1 .. Len(t) /\ r[i] = t[i - n]
                /\ (i - n) + 1 \in 1 .. Len(s) /\ r[i] = s[(i - n) + 1]
  <2>1. CASE i <= n
    BY <1>6, <1>7, <2>1
  <2>2. CASE i > n
    <3>1. i - n \in 1 .. Len(t) /\ r[i] = t[i - n]
      BY <1>6, <1>7, <2>2
    <3>2. (i - n) + 1 \in 1 .. Len(s)
      BY <1>6, <3>1
    <3> QED BY <1>6, <2>2, <3>1, <3>2
  <2> QED BY <1>6, <2>1, <2>2
<1>9. s[1].step \in {"finish", "prepare"}
  BY <1>2, <1>6
<1>10. Follows(r)
  <2>1. SUFFICES ASSUME NEW k \in 2 .. Len(r)
                 PROVE  /\ r[k].step \in Spawning => r[k - 1].step = "room"
                        /\ r[k].step \in Restarting => r[k - 1].step = "reset"
    BY DEF Follows
  <2>2. k \in 1 .. Len(r) /\ k - 1 \in 1 .. Len(r)
    BY <1>6, <1>7
  <2>3. CASE k <= n
    <3>1. k \in 2 .. Len(steps) /\ r[k] = steps[k] /\ r[k - 1] = steps[k - 1]
      BY <1>51, <1>6, <1>7, <2>2, <2>3
    <3> QED BY <3>1 DEF Follows
  <2>4. CASE k = n + 1
    <3>4. k > n /\ k - n = 1 /\ 1 \in 1 .. Len(t) /\ 2 \in 2 .. Len(s) /\ 1 + 1 = 2
      BY <1>6, <1>7, <2>2, <2>4
    <3>5. r[k] = t[1]
      BY <1>7, <2>2, <3>4
    <3>1. r[k] = s[2] /\ 2 \in 2 .. Len(s)
      BY <1>6, <3>4, <3>5
    <3>2. Follows(s)
      BY <1>2 DEF Control
    <3>3. 2 - 1 = 1
      OBVIOUS
    <3> QED BY <1>9, <3>1, <3>2, <3>3 DEF Follows
  <2>5. CASE k > n + 1
    <3> DEFINE j == (k - n) + 1
    <3>1. r[k] = s[j] /\ r[k - 1] = s[j - 1] /\ j \in 2 .. Len(s)
      <4>1. r[k] = t[k - n] /\ r[k - 1] = t[(k - 1) - n]
        BY <1>6, <1>7, <2>2, <2>5
      <4>2. k - n \in 1 .. Len(t) /\ (k - 1) - n \in 1 .. Len(t) /\ ((k - 1) - n) + 1 = j - 1
        BY <1>6, <1>7, <2>2, <2>5
      <4>3. j \in 2 .. Len(s)
        BY <1>6, <4>2
      <4>4. t[k - n] = s[j] /\ t[(k - 1) - n] = s[((k - 1) - n) + 1]
        BY <1>6, <4>2
      <4> QED BY <4>1, <4>2, <4>3, <4>4
    <3>2. Follows(s)
      BY <1>2 DEF Control
    <3> QED BY <3>1, <3>2 DEF Follows
  <2> QED BY <1>6, <2>3, <2>4, <2>5
<1>11. CountIn(r, Starting) <= 1
  <2>1. CountIn(r, Starting) = CountIn(steps, Starting) + CountIn(t, Starting)
    BY <1>4, <1>6, CountConcat
  <2>2. CountIn(steps, Starting) = 0
    <3>1. \A k \in DOMAIN steps : steps[k] \notin Starting
      BY DEF Starting
    <3> QED BY <3>1, CountNone
  <2>3. /\ CountIn(s, Starting)
             = (IF Head(s) \in Starting THEN 1 ELSE 0) + CountIn(Tail(s), Starting)
        /\ CountIn(Tail(s), Starting) \in Nat
    BY <1>3, <1>5, <1>6, CountTail, CountType
  <2>4. CountIn(s, Starting) <= 1
    BY <1>2 DEF Control
  <2> QED BY <1>3, <2>1, <2>2, <2>3, <2>4
<1>12. Opens(r)
  <2>1. 1 \in 1 .. n /\ 1 \in 1 .. Len(r) /\ r[1] = steps[1]
    BY <1>6, <1>7
  <2> QED BY <2>1 DEF Opens
<1>13. \A k \in DOMAIN r : r[k].step = "restore" => checkpoint # NoCheckpoint
  <2>1. \A k \in DOMAIN s : s[k].step = "restore" => checkpoint # NoCheckpoint
    BY <1>2 DEF Control
  <2> QED BY <1>6, <1>7, <1>8, <2>1
<1>14. s[1].step # "finish" /\ AfterFinish(s) => AfterFinish(r)
  <2>1. SUFFICES ASSUME s[1].step # "finish", AfterFinish(s),
                        NEW k \in 1 .. Len(r), r[k].step = "start"
                 PROVE  \E j \in 1 .. k - 1 : r[j].step = "finish"
    BY <1>7 DEF AfterFinish
  <2> DEFINE l == (k - n) + 1
  <2>2. k > n /\ l \in 1 .. Len(s) /\ r[k] = s[l]
    BY <1>6, <1>8, <2>1
  <2>3. PICK j \in 1 .. l - 1 : s[j].step = "finish"
    BY <1>6, <2>1, <2>2 DEF AfterFinish
  <2>4. j # 1
    BY <2>1, <2>3
  <2>5. n + (j - 1) \in 1 .. k - 1 /\ r[n + (j - 1)] = s[j]
    <3>5. l \in Int /\ l <= Len(s) /\ j \in Int /\ j >= 1 /\ j <= l - 1
      BY <1>6, <2>2, <2>3
    <3> HIDE DEF l
    <3>1. j - 1 \in 1 .. Len(t) /\ (j - 1) + 1 = j
      BY <1>6, <2>4, <3>5
    <3> USE DEF l
    <3>2. n + (j - 1) \in 1 .. k - 1
      BY <1>6, <2>2, <2>3, <2>4
    <3>3. n + (j - 1) \in 1 .. Len(r) /\ n + (j - 1) > n /\ (n + (j - 1)) - n = j - 1
      BY <1>6, <1>7, <3>1
    <3>4. r[n + (j - 1)] = t[j - 1]
      BY <1>6, <1>7, <3>3
    <3> QED BY <1>6, <3>1, <3>2, <3>4
  <2> QED BY <2>3, <2>5
<1>15. todo' = r
  BY <1>2, <1>3, <1>4
<1> QED BY <1>1, <1>2, <1>6, <1>7, <1>10, <1>11, <1>12, <1>13, <1>14, <1>15 DEF TodoTyped

\* Control from what an action does to the steps left and to what they need.
LEMMA ControlAfterStep ==
  ASSUME TodoTyped, Control, todo # << >>, todo' = Tail(todo), UNCHANGED <<fixedVars, checkpoint>>,
         \/ Head(todo).step # "finish" /\ (Nothing => Nothing')
         \/ Head(todo).step = "start"
         \/ Nothing',
         (current_picture = NoPicture \/ current_skipped_picture = 0)',
         Head(todo).step = "room" => Len(pending_picture_completions') < Workers,
         Head(todo).step = "reset" => outputs' = << >> /\ received' = << >>
  PROVE  TodoTyped' /\ Control'
<1>1. UNCHANGED fixedVars
  OBVIOUS
<1>2. /\ TodoTyped' /\ Follows(todo') /\ CountIn(todo', Starting) <= 1
      /\ todo' # << >> =>
              /\ todo'[1].step \in Spawning => Head(todo).step = "room"
              /\ todo'[1].step \in Restarting => Head(todo).step = "reset"
      /\ \A k \in DOMAIN todo' : todo'[k].step = "restore" => checkpoint # NoCheckpoint
      /\ Head(todo).step # "finish" /\ AfterFinish(todo) => AfterFinish(todo')
      /\ Head(todo).step = "start" => Nothing /\ AfterFinish(todo')
  BY <1>1, TailLeft
<1>3. Workers' = Workers
  BY <1>1, SetsFixed
<1>4. HeadReady'
  BY <1>2, <1>3 DEF HeadReady
<1>5. (Nothing \/ AfterFinish(todo))'
  <2>1. Nothing \/ AfterFinish(todo)
    BY DEF Control
  <2> QED BY <1>2, <2>1 DEF AfterFinish
<1>6. (Follows(todo) /\ CountIn(todo, Starting) <= 1)'
  BY <1>2 DEF Follows, CountIn
<1> QED BY <1>2, <1>4, <1>5, <1>6 DEF Control

LEMMA ControlInserted ==
  ASSUME TodoTyped, Control, todo # << >>, UNCHANGED <<fixedVars, checkpoint>>,
         NEW steps \in Seq(TypedStep), steps # << >>, Follows(steps), Opens(steps),
         \A k \in DOMAIN steps : steps[k].step \notin {"start", "restore"},
         todo' = steps \o Tail(todo),
         \/ Head(todo).step = "finish" /\ Nothing'
         \/ Head(todo).step = "prepare" /\ UNCHANGED pictureVars,
         (current_picture = NoPicture \/ current_skipped_picture = 0)'
  PROVE  TodoTyped' /\ Control'
<1>1. UNCHANGED fixedVars /\ Head(todo).step \in {"finish", "prepare"}
  OBVIOUS
<1>2. /\ TodoTyped' /\ Follows(todo') /\ CountIn(todo', Starting) <= 1
      /\ Opens(todo')
      /\ \A k \in DOMAIN todo' : todo'[k].step = "restore" => checkpoint # NoCheckpoint
      /\ Head(todo).step # "finish" /\ AfterFinish(todo) => AfterFinish(todo')
  BY <1>1, StepsInserted
<1>3. HeadReady'
  BY <1>2 DEF HeadReady, Opens
<1>4. (Nothing \/ AfterFinish(todo))'
  <2>1. Nothing \/ AfterFinish(todo)
    BY DEF Control
  <2>2. CASE Head(todo).step = "prepare" /\ UNCHANGED pictureVars
    <3>1. Nothing => Nothing'
      BY <2>2 DEF Nothing, pictureVars
    <3> QED BY <1>2, <2>1, <2>2, <3>1 DEF AfterFinish
  <2> QED BY <2>2
<1>5. (Follows(todo) /\ CountIn(todo, Starting) <= 1)'
  BY <1>2 DEF Follows, CountIn
<1> QED BY <1>2, <1>3, <1>4, <1>5 DEF Control

LEMMA ControlBegun ==
  ASSUME UNCHANGED fixedVars,
         NEW steps \in Seq(TypedStep), Follows(steps), Opens(steps), AfterFinish(steps),
         CountIn(steps, Starting) <= 1,
         \A k \in DOMAIN steps : steps[k].step = "restore" => checkpoint' # NoCheckpoint,
         todo' = steps,
         (current_picture = NoPicture \/ current_skipped_picture = 0)'
  PROVE  TodoTyped' /\ Control'
<1>1. TodoTyped'
  BY SetsFixed DEF TodoTyped
<1>2. HeadReady'
  BY DEF HeadReady, Opens
<1>3. (Follows(todo) /\ CountIn(todo, Starting) <= 1 /\ AfterFinish(todo))'
  BY DEF Follows, CountIn, AfterFinish
<1> QED BY <1>1, <1>2, <1>3 DEF Control

\* A call that ends.
LEMMA ControlEnded ==
  ASSUME UNCHANGED fixedVars, todo' = << >>,
         (current_picture = NoPicture \/ current_skipped_picture = 0)'
  PROVE  TodoTyped' /\ Control'
<1>1. << >> \in Seq(TypedStep) /\ DOMAIN << >> = {} /\ Len(<< >>) = 0
  BY EmptySeq
<1>2. TodoTyped'
  BY <1>1, SetsFixed DEF TodoTyped
<1>3. CountIn(<< >>, Starting) = 0
  BY CountEmpty
<1>4. Follows(<< >>) /\ AfterFinish(<< >>)
  BY <1>1 DEF Follows, AfterFinish
<1>5. (Follows(todo) /\ CountIn(todo, Starting) <= 1 /\ AfterFinish(todo))'
  BY <1>3, <1>4 DEF Follows, CountIn, AfterFinish
<1>6. HeadReady'
  BY DEF HeadReady
<1> QED BY <1>1, <1>2, <1>5, <1>6 DEF Control

LEMMA ControlKept ==
  ASSUME TodoTyped, Control, UNCHANGED <<fixedVars, todo, checkpoint, pictureVars>>,
         todo # << >> =>
           \/ todo[1].step \notin Spawning \cup Restarting
           \/ UNCHANGED <<outputs, received>>
              /\ Len(pending_picture_completions') <= Len(pending_picture_completions),
         Len(pending_picture_completions) \in Nat, Len(pending_picture_completions') \in Nat,
         Workers \in Int
  PROVE  TodoTyped' /\ Control'
<1>1. Workers' = Workers /\ TypedStep' = TypedStep
  BY SetsFixed
<1>2. TodoTyped'
  BY <1>1 DEF TodoTyped
<1>3. HeadReady'
  BY <1>1 DEF HeadReady, Control
<1>4. (Follows(todo) /\ CountIn(todo, Starting) <= 1)' /\ (Nothing \/ AfterFinish(todo))'
  BY DEF Control, Follows, CountIn, AfterFinish, Nothing, pictureVars
<1> QED BY <1>2, <1>3, <1>4 DEF Control, pictureVars

----------
(* The steps of a call *)

\* What brings a picture into the decoder, or on its way.
Adding == [step : {"start", "push", "spawn", "spawn deferred"}, arg : Int, damage : Damages]

\* A sequence of steps that a call may begin or go on with.
Wellformed(s) ==
  s \in Seq(TypedStep) /\ s # << >> /\ Follows(s) /\ Opens(s)

NotStarting(s) == \A k \in DOMAIN s : s[k].step \notin {"start", "restore"}
NotAdding(s) ==
  \A k \in DOMAIN s : s[k].step \notin {"start", "push", "spawn", "spawn deferred"}

LEMMA NotAddingCounts ==
  ASSUME NEW s, NotAdding(s)
  PROVE  CountIn(s, Adding) = 0 /\ CountIn(s, Starting) = 0
<1>1. \A k \in DOMAIN s : s[k] \notin Adding
  BY DEF NotAdding, Adding
<1>2. \A k \in DOMAIN s : s[k] \notin Starting
  BY DEF NotAdding, Starting
<1> QED BY <1>1, <1>2, CountNone

LEMMA StepIs ==
  ASSUME NEW step \in StepNames, NEW i \in Int, NEW damage \in Damages,
         step \in OfPicture => i \in Position,
         step \in Spawning => HasPool,
         step \in {"set start", "restore"} => i \in Nat \cup {NoTime}
  PROVE  [step |-> step, arg |-> i, damage |-> damage] \in TypedStep
<1>1. PICK s : s = [step |-> step, arg |-> i, damage |-> damage]
  OBVIOUS
<1>2. s \in [step : StepNames, arg : Int, damage : Damages]
  BY <1>1
<1>3. s.step = step /\ s.arg = i
  BY <1>1
<1> QED BY <1>1, <1>2, <1>3 DEF TypedStep

LEMMA PlainStep ==
  ASSUME NEW step \in Plain
  PROVE  Do(step, 0) \in TypedStep /\ Do(step, 0).step = step
<1>1. step \in StepNames /\ "none" \in Damages /\ 0 \in Int
  BY DEF StepNames, Damages
<1>2. step \notin OfPicture /\ step \notin Spawning /\ step \notin {"set start", "restore"}
  BY DEF Plain, OfPicture, Spawning
<1>3. [step |-> step, arg |-> 0, damage |-> "none"] \in TypedStep
  BY <1>1, <1>2, StepIs
<1> QED BY <1>3 DEF Do

LEMMA PictureStep ==
  ASSUME NEW step \in OfPicture \ Spawning, NEW i \in Position
  PROVE  Do(step, i) \in TypedStep /\ Do(step, i).step = step
<1>1. step \in StepNames /\ "none" \in Damages /\ i \in Int
  BY DEF StepNames, Damages, Position
<1>2. step \notin Spawning /\ step \notin {"set start", "restore"}
  BY DEF OfPicture, Spawning
<1>3. [step |-> step, arg |-> i, damage |-> "none"] \in TypedStep
  BY <1>1, <1>2, StepIs
<1> QED BY <1>3 DEF Do

LEMMA SpawnStep ==
  ASSUME NEW step \in Spawning, NEW i \in Position, NEW damage \in Damages, HasPool
  PROVE  DoDamaged(step, i, damage) \in TypedStep /\ DoDamaged(step, i, damage).step = step
<1>1. step \in StepNames /\ i \in Int
  <2>1. step \in StepNames
    BY DEF Spawning, OfPicture, StepNames
  <2>2. i \in Int
    BY DEF Position
  <2> QED BY <2>1, <2>2
<1>2. step \notin {"set start", "restore"}
  BY DEF Spawning
<1>3. [step |-> step, arg |-> i, damage |-> damage] \in TypedStep
  BY <1>1, <1>2, StepIs
<1> QED BY <1>3 DEF DoDamaged

LEMMA TimeIsInt ==
  ASSUME NEW start \in Nat \cup {NoTime}
  PROVE  start \in Int
BY DEF NoTime

LEMMA TimeStep ==
  ASSUME NEW step \in {"set start", "restore"}, NEW start \in Nat \cup {NoTime}
  PROVE  Do(step, start) \in TypedStep /\ Do(step, start).step = step
<1>1. step \in StepNames /\ "none" \in Damages /\ start \in Int
  <2>1. step \in StepNames /\ "none" \in Damages
    BY DEF StepNames, Restarting, Damages
  <2> QED BY <2>1, TimeIsInt
<1>2. step \notin OfPicture /\ step \notin Spawning
  BY DEF OfPicture, Spawning
<1>3. [step |-> step, arg |-> start, damage |-> "none"] \in TypedStep
  BY <1>1, <1>2, StepIs
<1> QED BY <1>3 DEF Do

LEMMA ConfigureStep ==
  Do("configure", 0) \in TypedStep /\ Do("configure", 0).step = "configure"
<1>1. "configure" \notin OfPicture /\ "configure" \notin Spawning
      /\ "configure" \notin {"set start", "restore"}
  BY DEF OfPicture, Spawning
<1>2. "configure" \in StepNames /\ "none" \in Damages /\ 0 \in Int
  BY DEF StepNames, Restarting, Damages
<1>3. [step |-> "configure", arg |-> 0, damage |-> "none"] \in TypedStep
  BY <1>1, <1>2, StepIs
<1> QED BY <1>3 DEF Do

\* Steps that may come anywhere.
Calm(s) == \A k \in DOMAIN s : s[k].step \notin Spawning \cup Restarting

LEMMA CalmFollows ==
  ASSUME NEW s \in Seq(TypedStep), Calm(s)
  PROVE  Follows(s) /\ Opens(s)
<1>1. \A k \in 1 .. Len(s) : s[k].step \notin Spawning \cup Restarting
  BY StepShape DEF Calm
<1>2. Len(s) \in Nat /\ (s # << >> => Len(s) >= 1)
  BY StepShape
<1>3. \A k \in 2 .. Len(s) : k \in 1 .. Len(s)
  BY <1>2
<1>4. Follows(s)
  BY <1>1, <1>3 DEF Follows
<1>5. s # << >> => 1 \in 1 .. Len(s)
  BY <1>2
<1> QED BY <1>1, <1>4, <1>5 DEF Opens

LEMMA Two ==
  ASSUME NEW S, NEW a \in S, NEW b \in S
  PROVE  /\ <<a, b>> \in Seq(S) /\ Len(<<a, b>>) = 2 /\ DOMAIN <<a, b>> = 1 .. 2
         /\ <<a, b>> # << >> /\ <<a, b>>[1] = a /\ <<a, b>>[2] = b
         /\ \A k \in 1 .. 2 : k = 1 \/ k = 2
OBVIOUS

LEMMA Three ==
  ASSUME NEW S, NEW a \in S, NEW b \in S, NEW c \in S
  PROVE  /\ <<a, b, c>> \in Seq(S) /\ Len(<<a, b, c>>) = 3 /\ DOMAIN <<a, b, c>> = 1 .. 3
         /\ <<a, b, c>> # << >>
         /\ <<a, b, c>>[1] = a /\ <<a, b, c>>[2] = b /\ <<a, b, c>>[3] = c
         /\ \A k \in 1 .. 3 : k = 1 \/ k = 2 \/ k = 3
OBVIOUS

LEMMA Four ==
  ASSUME NEW S, NEW a \in S, NEW b \in S, NEW c \in S, NEW d \in S
  PROVE  /\ <<a, b, c, d>> \in Seq(S) /\ Len(<<a, b, c, d>>) = 4
         /\ DOMAIN <<a, b, c, d>> = 1 .. 4 /\ <<a, b, c, d>> # << >>
         /\ <<a, b, c, d>>[1] = a /\ <<a, b, c, d>>[2] = b
         /\ <<a, b, c, d>>[3] = c /\ <<a, b, c, d>>[4] = d
         /\ \A k \in 1 .. 4 : k = 1 \/ k = 2 \/ k = 3 \/ k = 4
         /\ <<a, b>> \o <<c, d>> = <<a, b, c, d>>
<1>1. /\ <<a, b>> \in Seq(S) /\ Len(<<a, b>>) = 2 /\ <<c, d>> \in Seq(S) /\ Len(<<c, d>>) = 2
      /\ <<a, b, c, d>> \in Seq(S) /\ Len(<<a, b, c, d>>) = 4
  OBVIOUS
<1>2. \A i \in 1 .. 4 : (<<a, b>> \o <<c, d>>)[i] = <<a, b, c, d>>[i]
  OBVIOUS
<1>3. Len(<<a, b>> \o <<c, d>>) = 4 /\ <<a, b>> \o <<c, d>> \in Seq(S)
  OBVIOUS
<1>4. <<a, b>> \o <<c, d>> = <<a, b, c, d>>
  BY <1>1, <1>2, <1>3, SeqEqual
<1> QED BY <1>4

\* Finishing a picture gives one back.
LEMMA FinishStepsTyped ==
  ASSUME NEW p \in Current
  PROVE  /\ Wellformed(FinishSteps(p)) /\ NotStarting(FinishSteps(p))
         /\ CountIn(FinishSteps(p), Adding) = 1
<1>1. PICK i \in Position : i = p.picture
  BY DEF Current
<1>2. PICK damage \in Damages : damage = p.damage
  BY DEF Current
<1>3. PICK room : room = Do("room", 0)
  OBVIOUS
<1>4. PICK poll : poll = Do("poll", 0)
  OBVIOUS
<1>5. PICK join : join = Do("join", 0)
  OBVIOUS
<1>6. PICK record : record = Do("record", i)
  OBVIOUS
<1>7. PICK push : push = Do("push", i)
  OBVIOUS
<1>8. /\ room \in TypedStep /\ room.step = "room"
      /\ poll \in TypedStep /\ poll.step = "poll"
      /\ join \in TypedStep /\ join.step = "join"
  <2>1. "room" \in Plain /\ "poll" \in Plain /\ "join" \in Plain
    BY DEF Plain
  <2> QED BY <1>3, <1>4, <1>5, <2>1, PlainStep
<1>9. /\ record \in TypedStep /\ record.step = "record"
      /\ push \in TypedStep /\ push.step = "push"
  <2>1. "record" \in OfPicture \ Spawning /\ "push" \in OfPicture \ Spawning
    BY DEF OfPicture, Spawning
  <2> QED BY <1>6, <1>7, <2>1, PictureStep
<1>10. \A t \in TypedStep :
         t \in Adding <=> t.step \in {"start", "push", "spawn", "spawn deferred"}
  BY DEF TypedStep, Adding
<1>11. ASSUME NEW spawn \in TypedStep, spawn.step \in Spawning,
              FinishSteps(p) = <<room, spawn, poll, record>>
       PROVE  /\ Wellformed(FinishSteps(p)) /\ NotStarting(FinishSteps(p))
              /\ CountIn(FinishSteps(p), Adding) = 1
  <2>1. PICK s : s = <<room, spawn, poll, record>>
    OBVIOUS
  <2>2. /\ s \in Seq(TypedStep) /\ Len(s) = 4 /\ DOMAIN s = 1 .. 4
        /\ s[1] = room /\ s[2] = spawn /\ s[3] = poll /\ s[4] = record
    BY <1>8, <1>9, <2>1
  <2>3. \A k \in 1 .. 4 : k = 1 \/ k = 2 \/ k = 3 \/ k = 4
    OBVIOUS
  <2>4. Follows(s) /\ Opens(s) /\ s # << >>
    <3>1. \A k \in 2 .. 4 : (k = 2 /\ k - 1 = 1) \/ k = 3 \/ k = 4
      OBVIOUS
    <3>2. s # << >>
      BY <2>1
    <3> QED BY <1>8, <1>9, <1>11, <2>2, <3>1, <3>2 DEF Follows, Opens, Spawning, Restarting
  <2>5. NotStarting(s)
    BY <1>8, <1>9, <1>11, <2>2, <2>3 DEF NotStarting, Spawning
  <2>6. CountIn(s, Adding) = 1
    <3>1. s[2] \in Adding /\ s[1] \notin Adding /\ s[3] \notin Adding /\ s[4] \notin Adding
      BY <1>8, <1>9, <1>10, <1>11, <2>2 DEF Spawning
    <3>2. \A k \in DOMAIN s : s[k] \in Adding <=> k = 2
      BY <2>2, <2>3, <3>1
    <3>3. 2 \in DOMAIN s
      BY <2>2
    <3> QED BY <3>2, <3>3, CountSingle
  <2> QED BY <1>11, <2>1, <2>2, <2>4, <2>5, <2>6 DEF Wellformed
<1>12. ASSUME FinishSteps(p) = <<join, push, record>>
       PROVE  /\ Wellformed(FinishSteps(p)) /\ NotStarting(FinishSteps(p))
              /\ CountIn(FinishSteps(p), Adding) = 1
  <2>1. PICK s : s = <<join, push, record>>
    OBVIOUS
  <2>2. /\ s \in Seq(TypedStep) /\ Len(s) = 3 /\ DOMAIN s = 1 .. 3
        /\ s[1] = join /\ s[2] = push /\ s[3] = record
    BY <1>8, <1>9, <2>1
  <2>3. \A k \in 1 .. 3 : k = 1 \/ k = 2 \/ k = 3
    OBVIOUS
  <2>4. Follows(s) /\ Opens(s) /\ s # << >>
    <3>1. s # << >>
      BY <2>1
    <3>2. Calm(s)
      BY <1>8, <1>9, <2>2, <2>3 DEF Calm, Spawning, Restarting
    <3> QED BY <2>2, <3>1, <3>2, CalmFollows
  <2>5. NotStarting(s)
    BY <1>8, <1>9, <2>2, <2>3 DEF NotStarting
  <2>6. CountIn(s, Adding) = 1
    <3>1. s[2] \in Adding /\ s[1] \notin Adding /\ s[3] \notin Adding
      BY <1>8, <1>9, <1>10, <2>2
    <3>2. \A k \in DOMAIN s : s[k] \in Adding <=> k = 2
      BY <2>2, <2>3, <3>1
    <3>3. 2 \in DOMAIN s
      BY <2>2
    <3> QED BY <3>2, <3>3, CountSingle
  <2> QED BY <1>12, <2>1, <2>2, <2>4, <2>5, <2>6 DEF Wellformed
<1>13. CASE p.deferred
  <2>1. HasPool
    BY <1>13 DEF Current
  <2>2. PICK spawn : spawn = DoDamaged("spawn deferred", i, damage)
    OBVIOUS
  <2>3. spawn \in TypedStep /\ spawn.step \in Spawning
    BY <2>1, <2>2, SpawnStep DEF Spawning
  <2>4. FinishSteps(p) = <<room, spawn, poll, record>>
    <3>1. FinishSteps(p) = <<room, spawn>> \o <<poll, record>>
      BY <1>1, <1>2, <1>3, <1>4, <1>6, <1>13, <2>2 DEF FinishSteps
    <3> QED BY <1>8, <1>9, <2>3, <3>1, Four
  <2> QED BY <1>11, <2>3, <2>4
<1>14. CASE ~ p.deferred /\ FinalizesAsync(p.picture)
  <2>1. HasPool
    BY <1>14 DEF FinalizesAsync
  <2>2. PICK spawn : spawn = DoDamaged("spawn", i, damage)
    OBVIOUS
  <2>3. spawn \in TypedStep /\ spawn.step \in Spawning
    BY <2>1, <2>2, SpawnStep DEF Spawning
  <2>4. FinishSteps(p) = <<room, spawn, poll, record>>
    <3>1. FinishSteps(p) = <<room, spawn>> \o <<poll, record>>
      BY <1>1, <1>2, <1>3, <1>4, <1>6, <1>14, <2>2 DEF FinishSteps
    <3> QED BY <1>8, <1>9, <2>3, <3>1, Four
  <2> QED BY <1>11, <2>3, <2>4
<1>15. CASE ~ p.deferred /\ ~ FinalizesAsync(p.picture) /\ OutputsAsync(p.picture)
  <2>1. HasPool /\ "none" \in Damages
    BY <1>15 DEF OutputsAsync, Damages
  <2>2. PICK spawn : spawn = DoDamaged("spawn", i, "none")
    OBVIOUS
  <2>3. spawn \in TypedStep /\ spawn.step \in Spawning
    BY <2>1, <2>2, SpawnStep DEF Spawning
  <2>4. FinishSteps(p) = <<room, spawn, poll, record>>
    <3>1. FinishSteps(p) = <<room, spawn>> \o <<poll, record>>
      BY <1>1, <1>3, <1>4, <1>6, <1>15, <2>2 DEF FinishSteps, Do, DoDamaged
    <3> QED BY <1>8, <1>9, <2>3, <3>1, Four
  <2> QED BY <1>11, <2>3, <2>4
<1>16. CASE ~ p.deferred /\ ~ FinalizesAsync(p.picture) /\ ~ OutputsAsync(p.picture)
  <2>1. FinishSteps(p) = <<join, push, record>>
    BY <1>1, <1>5, <1>6, <1>7, <1>16 DEF FinishSteps
  <2> QED BY <1>12, <2>1
<1> QED BY <1>13, <1>14, <1>15, <1>16

LEMMA Joined ==
  ASSUME NEW s \in Seq(TypedStep), NEW t \in Seq(TypedStep)
  PROVE  /\ s \o t \in Seq(TypedStep)
         /\ t # << >> => s \o t # << >>
         /\ Calm(s) /\ Calm(t) => Calm(s \o t)
         /\ AfterFinish(s) /\ AfterFinish(t) => AfterFinish(s \o t)
         /\ CountIn(s \o t, Adding) = CountIn(s, Adding) + CountIn(t, Adding)
         /\ CountIn(s \o t, Starting) = CountIn(s, Starting) + CountIn(t, Starting)
         /\ (\A k \in DOMAIN s : s[k].step # "restore")
              /\ (\A k \in DOMAIN t : t[k].step # "restore")
              => \A k \in DOMAIN (s \o t) : (s \o t)[k].step # "restore"
<1>1. PICK r : r = s \o t
  OBVIOUS
<1>2. PICK n : n = Len(s)
  OBVIOUS
<1>3. PICK m : m = Len(t)
  OBVIOUS
<1>4. /\ DOMAIN s = 1 .. n /\ DOMAIN t = 1 .. m /\ n \in Nat /\ m \in Nat
      /\ t # << >> => m # 0
  BY <1>2, <1>3, LenProperties, EmptySeq
<1>5. /\ r \in Seq(TypedStep) /\ DOMAIN r = 1 .. n + m /\ Len(r) = n + m
      /\ \A i \in 1 .. n + m : i <= n => r[i] = s[i]
      /\ \A i \in 1 .. n + m : i > n => r[i] = t[i - n]
  <2>1. /\ s \o t \in Seq(TypedStep) /\ Len(s \o t) = Len(s) + Len(t)
        /\ \A i \in 1 .. Len(s) + Len(t) :
             (s \o t)[i] = IF i <= Len(s) THEN s[i] ELSE t[i - Len(s)]
    <3>1. s \in Seq(TypedStep) /\ t \in Seq(TypedStep)
      OBVIOUS
    <3> QED BY ONLY <3>1, ConcatProperties
  <2>2. DOMAIN r = 1 .. Len(r)
    BY <1>1, <2>1, LenProperties
  <2>3. \A i \in 1 .. n + m : i > n => ~ (i <= n)
    BY <1>4
  <2> QED BY <1>1, <1>2, <1>3, <2>1, <2>2, <2>3
<1>6. ASSUME NEW i \in 1 .. n + m
      PROVE  \/ i \in 1 .. n /\ r[i] = s[i]
             \/ i > n /\ i - n \in 1 .. m /\ r[i] = t[i - n]
  <2>1. CASE i <= n
    BY <1>4, <1>5, <2>1
  <2>2. CASE i > n
    BY <1>4, <1>5, <2>2
  <2> QED BY <1>4, <2>1, <2>2
<1>7. t # << >> => r # << >>
  <2>1. r = << >> => Len(r) = 0
    BY EmptySeq
  <2> QED BY <1>4, <1>5, <2>1
<1>8. Calm(s) /\ Calm(t) => Calm(r)
  BY <1>4, <1>5, <1>6 DEF Calm
<1>9. AfterFinish(s) /\ AfterFinish(t) => AfterFinish(r)
  <2>1. SUFFICES ASSUME AfterFinish(s), AfterFinish(t),
                        NEW i \in 1 .. n + m, r[i].step = "start"
                 PROVE  \E j \in 1 .. i - 1 : r[j].step = "finish"
    BY <1>5 DEF AfterFinish
  <2>2. CASE i \in 1 .. n /\ r[i] = s[i]
    <3>1. PICK j \in 1 .. i - 1 : s[j].step = "finish"
      BY <1>4, <2>1, <2>2 DEF AfterFinish
    <3>2. j \in 1 .. n + m /\ j <= n
      BY <1>4, <2>2, <3>1
    <3>3. r[j] = s[j]
      BY <1>5, <3>2
    <3> QED BY <3>1, <3>3
  <2>3. CASE i > n /\ i - n \in 1 .. m /\ r[i] = t[i - n]
    <3>1. PICK l : l = i - n
      OBVIOUS
    <3>2. PICK j \in 1 .. l - 1 : t[j].step = "finish"
      BY <1>4, <2>1, <2>3, <3>1 DEF AfterFinish
    <3>3. n + j \in 1 .. i - 1 /\ n + j \in 1 .. n + m /\ n + j > n /\ (n + j) - n = j
      BY <1>4, <2>3, <3>1, <3>2
    <3>4. r[n + j] = t[(n + j) - n]
      BY <1>5, <3>3
    <3> QED BY <3>2, <3>3, <3>4
  <2> QED BY <1>6, <2>2, <2>3
<1>10. CountIn(r, Adding) = CountIn(s, Adding) + CountIn(t, Adding)
       /\ CountIn(r, Starting) = CountIn(s, Starting) + CountIn(t, Starting)
  BY <1>1, CountConcat
<1>11. (\A k \in DOMAIN s : s[k].step # "restore") /\ (\A k \in DOMAIN t : t[k].step # "restore")
         => \A k \in DOMAIN r : r[k].step # "restore"
  BY <1>4, <1>5, <1>6
<1> QED BY <1>1, <1>5, <1>7, <1>8, <1>9, <1>10, <1>11

\* Steps that bring no picture into the decoder.
Quiet(s) == Wellformed(s) /\ AfterFinish(s) /\ CountIn(s, Adding) = 0 /\ CountIn(s, Starting) = 0

\* A call's steps that bring in picture i, once.
Brings(s) == Wellformed(s) /\ AfterFinish(s) /\ CountIn(s, Adding) = 1 /\ CountIn(s, Starting) = 1

NoRestore(s) == \A k \in DOMAIN s : s[k].step # "restore"

LEMMA NotAddingFinish ==
  ASSUME NEW s, NotAdding(s)
  PROVE  AfterFinish(s) /\ CountIn(s, Adding) = 0 /\ CountIn(s, Starting) = 0
<1>1. AfterFinish(s)
  BY DEF NotAdding, AfterFinish
<1> QED BY <1>1, NotAddingCounts

LEMMA PlainSteps ==
  /\ Do("poll", 0) \in TypedStep /\ Do("poll", 0).step = "poll"
  /\ Do("join", 0) \in TypedStep /\ Do("join", 0).step = "join"
  /\ Do("discard", 0) \in TypedStep /\ Do("discard", 0).step = "discard"
  /\ Do("drain", 0) \in TypedStep /\ Do("drain", 0).step = "drain"
  /\ Do("finish", 0) \in TypedStep /\ Do("finish", 0).step = "finish"
  /\ Do("clear", 0) \in TypedStep /\ Do("clear", 0).step = "clear"
  /\ Do("deliver", 0) \in TypedStep /\ Do("deliver", 0).step = "deliver"
  /\ Do("snapshot", 0) \in TypedStep /\ Do("snapshot", 0).step = "snapshot"
  /\ Do("end sequence", 0) \in TypedStep /\ Do("end sequence", 0).step = "end sequence"
  /\ Do("end stream", 0) \in TypedStep /\ Do("end stream", 0).step = "end stream"
<1>1. /\ "poll" \in Plain /\ "join" \in Plain /\ "discard" \in Plain /\ "drain" \in Plain
      /\ "finish" \in Plain /\ "clear" \in Plain /\ "deliver" \in Plain /\ "snapshot" \in Plain
      /\ "end sequence" \in Plain /\ "end stream" \in Plain
  BY DEF Plain
<1> QED BY <1>1, PlainStep

LEMMA PictureSteps ==
  ASSUME NEW i \in Position
  PROVE  /\ Do("push", i) \in TypedStep /\ Do("push", i).step = "push"
         /\ Do("record", i) \in TypedStep /\ Do("record", i).step = "record"
         /\ Do("start", i) \in TypedStep /\ Do("start", i).step = "start"
         /\ Do("prepare", i) \in TypedStep /\ Do("prepare", i).step = "prepare"
         /\ Do("guard", i) \in TypedStep /\ Do("guard", i).step = "guard"
         /\ Do("accepted", i) \in TypedStep /\ Do("accepted", i).step = "accepted"
         /\ Do("reset", i) \in TypedStep /\ Do("reset", i).step = "reset"
<1>1. \A step \in {"push", "record", "start", "prepare", "guard", "accepted", "reset"} :
        step \in OfPicture \ Spawning
  BY DEF OfPicture, Spawning
<1> QED BY <1>1, PictureStep

LEMMA CalmPair ==
  ASSUME NEW a \in TypedStep, NEW b \in TypedStep,
         a.step \notin Spawning \cup Restarting \cup {"start", "push"},
         b.step \notin Spawning \cup Restarting \cup {"start", "push"}
  PROVE  /\ Quiet(<<a, b>>) /\ Calm(<<a, b>>)
         /\ a.step # "restore" /\ b.step # "restore" => NoRestore(<<a, b>>)
<1>1. PICK s : s = <<a, b>>
  OBVIOUS
<1>2. /\ s \in Seq(TypedStep) /\ DOMAIN s = 1 .. 2 /\ s # << >> /\ s[1] = a /\ s[2] = b
      /\ \A k \in 1 .. 2 : k = 1 \/ k = 2
  BY <1>1, Two
<1>3. Calm(s)
  BY <1>2 DEF Calm
<1>4. NotAdding(s)
  BY <1>2 DEF NotAdding, Spawning
<1>5. a.step # "restore" /\ b.step # "restore" => NoRestore(s)
  BY <1>2 DEF NoRestore
<1> QED BY <1>1, <1>2, <1>3, <1>4, <1>5, CalmFollows, NotAddingFinish DEF Quiet, Wellformed

LEMMA CalmTriple ==
  ASSUME NEW a \in TypedStep, NEW b \in TypedStep, NEW c \in TypedStep,
         a.step \notin Spawning \cup Restarting \cup {"start", "push"},
         b.step \notin Spawning \cup Restarting \cup {"start", "push"},
         c.step \notin Spawning \cup Restarting \cup {"start", "push"}
  PROVE  /\ Quiet(<<a, b, c>>) /\ Calm(<<a, b, c>>)
         /\ a.step # "restore" /\ b.step # "restore" /\ c.step # "restore"
              => NoRestore(<<a, b, c>>)
<1>1. PICK s : s = <<a, b, c>>
  OBVIOUS
<1>2. /\ s \in Seq(TypedStep) /\ DOMAIN s = 1 .. 3 /\ s # << >>
      /\ s[1] = a /\ s[2] = b /\ s[3] = c
      /\ \A k \in 1 .. 3 : k = 1 \/ k = 2 \/ k = 3
  BY <1>1, Three
<1>3. Calm(s)
  BY <1>2 DEF Calm
<1>4. NotAdding(s)
  BY <1>2 DEF NotAdding, Spawning
<1>5. a.step # "restore" /\ b.step # "restore" /\ c.step # "restore" => NoRestore(s)
  BY <1>2 DEF NoRestore
<1> QED BY <1>1, <1>2, <1>3, <1>4, <1>5, CalmFollows, NotAddingFinish DEF Quiet, Wellformed

LEMMA CalmFour ==
  ASSUME NEW a \in TypedStep, NEW b \in TypedStep, NEW c \in TypedStep, NEW d \in TypedStep,
         a.step \notin Spawning \cup Restarting \cup {"start", "push", "restore"},
         b.step \notin Spawning \cup Restarting \cup {"start", "push", "restore"},
         c.step \notin Spawning \cup Restarting \cup {"start", "push", "restore"},
         d.step \notin Spawning \cup Restarting \cup {"start", "push", "restore"}
  PROVE  Quiet(<<a, b, c, d>>) /\ Calm(<<a, b, c, d>>) /\ NoRestore(<<a, b, c, d>>)
<1>1. PICK s : s = <<a, b, c, d>>
  OBVIOUS
<1>2. /\ s \in Seq(TypedStep) /\ DOMAIN s = 1 .. 4 /\ s # << >>
      /\ s[1] = a /\ s[2] = b /\ s[3] = c /\ s[4] = d
      /\ \A k \in 1 .. 4 : k = 1 \/ k = 2 \/ k = 3 \/ k = 4
  BY <1>1, Four
<1>3. Calm(s)
  BY <1>2 DEF Calm
<1>4. NotAdding(s)
  BY <1>2 DEF NotAdding, Spawning
<1>5. NoRestore(s)
  BY <1>2 DEF NoRestore
<1> QED BY <1>1, <1>2, <1>3, <1>4, <1>5, CalmFollows, NotAddingFinish DEF Quiet, Wellformed

\* A reset, and a step that needs one.
LEMMA AfterReset ==
  ASSUME NEW a \in TypedStep, NEW b \in TypedStep, NEW c \in TypedStep,
         a.step = "discard", b.step = "reset", c.step \in Restarting
  PROVE  Quiet(<<a, b, c>>) /\ NoRestore(<<a, b, c>>)
<1>1. PICK s : s = <<a, b, c>>
  OBVIOUS
<1>2. /\ s \in Seq(TypedStep) /\ DOMAIN s = 1 .. 3 /\ s # << >> /\ Len(s) = 3
      /\ s[1] = a /\ s[2] = b /\ s[3] = c
      /\ \A k \in 1 .. 3 : k = 1 \/ k = 2 \/ k = 3
  BY <1>1, Three
<1>3. Follows(s) /\ Opens(s)
  <2>1. \A k \in 2 .. 3 : k = 2 \/ (k = 3 /\ k - 1 = 2)
    OBVIOUS
  <2>2. c.step \notin Spawning
    BY DEF Restarting, Spawning
  <2> QED BY <1>2, <2>1, <2>2 DEF Follows, Opens, Spawning, Restarting
<1>4. NotAdding(s)
  BY <1>2 DEF NotAdding, Restarting
<1>5. NoRestore(s)
  BY <1>2 DEF NoRestore, Restarting
<1> QED BY <1>1, <1>2, <1>3, <1>4, <1>5, NotAddingFinish DEF Quiet, Wellformed

\* The steps of a packet bring its picture in once, after the one before.
LEMMA EndsShape ==
  ASSUME NEW i \in Position, stream \in Streams
  PROVE  stream[i].ends \in {"nothing", "sequence", "stream"}
<1>1. stream[i] \in Picture
  BY DecoderAssumption, ElementOfSeq DEF DecoderAssumption, Position
<1> QED BY <1>1 DEF Picture

LEMMA PacketBrings ==
  ASSUME NEW i \in Position, stream \in Streams
  PROVE  Brings(PacketSteps(i)) /\ NoRestore(PacketSteps(i)) /\ Calm(PacketSteps(i))
<1>1. PICK head : head = <<Do("finish", 0), Do("prepare", i), Do("start", i)>>
  OBVIOUS
<1>2. PICK middle : middle = CASE stream[i].ends = "nothing" -> << >>
          [] stream[i].ends = "sequence" ->
               <<Do("finish", 0), Do("join", 0), Do("drain", 0), Do("end sequence", 0)>>
          [] stream[i].ends = "stream" ->
               <<Do("finish", 0), Do("join", 0), Do("drain", 0), Do("end stream", 0)>>
  OBVIOUS
<1>3. PICK last : last = <<Do("poll", 0), Do("accepted", i)>>
  OBVIOUS
<1>4. PacketSteps(i) = (head \o middle) \o last
  BY <1>1, <1>2, <1>3 DEF PacketSteps
<1>5. /\ head \in Seq(TypedStep) /\ Calm(head) /\ AfterFinish(head) /\ NoRestore(head)
      /\ CountIn(head, Adding) = 1 /\ CountIn(head, Starting) = 1 /\ head # << >>
  <2>1. PICK a : a = Do("finish", 0)
    OBVIOUS
  <2>2. PICK b : b = Do("prepare", i)
    OBVIOUS
  <2>3. PICK c : c = Do("start", i)
    OBVIOUS
  <2>4. /\ a \in TypedStep /\ a.step = "finish" /\ b \in TypedStep /\ b.step = "prepare"
        /\ c \in TypedStep /\ c.step = "start"
    BY <2>1, <2>2, <2>3, PlainSteps, PictureSteps
  <2>5. head = <<a, b, c>>
    BY <1>1, <2>1, <2>2, <2>3
  <2>6. /\ head \in Seq(TypedStep) /\ DOMAIN head = 1 .. 3 /\ head # << >>
        /\ head[1] = a /\ head[2] = b /\ head[3] = c
        /\ \A k \in 1 .. 3 : k = 1 \/ k = 2 \/ k = 3
    BY <2>4, <2>5, Three
  <2>7. Calm(head) /\ NoRestore(head)
    BY <2>4, <2>6 DEF Calm, NoRestore, Spawning, Restarting
  <2>8. AfterFinish(head)
    <3>1. \A k \in 1 .. 3 : head[k].step = "start" => k = 3 /\ 1 \in 1 .. k - 1
      BY <2>4, <2>6
    <3> QED BY <2>4, <2>6, <3>1 DEF AfterFinish
  <2>9. c \in Starting /\ c \in Adding
    BY <2>4 DEF TypedStep, Starting, Adding
  <2>10. a \notin Starting /\ b \notin Starting /\ a \notin Adding /\ b \notin Adding
    BY <2>4 DEF Starting, Adding
  <2>11. CountIn(head, Starting) = 1 /\ CountIn(head, Adding) = 1
    <3>1. 3 \in DOMAIN head
      BY <2>6
    <3>2. \A k \in DOMAIN head : head[k] \in Starting <=> k = 3
      BY <2>6, <2>9, <2>10
    <3>3. \A k \in DOMAIN head : head[k] \in Adding <=> k = 3
      BY <2>6, <2>9, <2>10
    <3> QED BY <3>1, <3>2, <3>3, CountSingle
  <2> QED BY <2>6, <2>7, <2>8, <2>11
<1>6. /\ middle \in Seq(TypedStep) /\ Calm(middle) /\ AfterFinish(middle) /\ NoRestore(middle)
      /\ CountIn(middle, Adding) = 0 /\ CountIn(middle, Starting) = 0
  <2>1. \/ middle = << >>
        \/ middle = <<Do("finish", 0), Do("join", 0), Do("drain", 0), Do("end sequence", 0)>>
        \/ middle = <<Do("finish", 0), Do("join", 0), Do("drain", 0), Do("end stream", 0)>>
    BY <1>2, EndsShape
  <2>2. CASE middle = << >>
    <3>1. << >> \in Seq(TypedStep) /\ DOMAIN << >> = {}
      BY EmptySeq
    <3>2. Calm(middle) /\ AfterFinish(middle) /\ NoRestore(middle)
      BY <2>2, <3>1 DEF Calm, AfterFinish, NoRestore
    <3> QED BY <2>2, <3>1, <3>2, CountEmpty
  <2>3. CASE middle = <<Do("finish", 0), Do("join", 0), Do("drain", 0), Do("end sequence", 0)>>
    <3>1. PICK a : a = Do("finish", 0)
      OBVIOUS
    <3>2. PICK b : b = Do("join", 0)
      OBVIOUS
    <3>3. PICK c : c = Do("drain", 0)
      OBVIOUS
    <3>4. PICK d : d = Do("end sequence", 0)
      OBVIOUS
    <3>5. /\ a \in TypedStep /\ a.step = "finish" /\ b \in TypedStep /\ b.step = "join"
          /\ c \in TypedStep /\ c.step = "drain" /\ d \in TypedStep /\ d.step = "end sequence"
      BY <3>1, <3>2, <3>3, <3>4, PlainSteps
    <3>6. Quiet(<<a, b, c, d>>) /\ Calm(<<a, b, c, d>>) /\ NoRestore(<<a, b, c, d>>)
      BY <3>5, CalmFour DEF Spawning, Restarting
    <3> QED BY <2>3, <3>1, <3>2, <3>3, <3>4, <3>6 DEF Quiet, Wellformed
  <2>4. CASE middle = <<Do("finish", 0), Do("join", 0), Do("drain", 0), Do("end stream", 0)>>
    <3>1. PICK a : a = Do("finish", 0)
      OBVIOUS
    <3>2. PICK b : b = Do("join", 0)
      OBVIOUS
    <3>3. PICK c : c = Do("drain", 0)
      OBVIOUS
    <3>4. PICK d : d = Do("end stream", 0)
      OBVIOUS
    <3>5. /\ a \in TypedStep /\ a.step = "finish" /\ b \in TypedStep /\ b.step = "join"
          /\ c \in TypedStep /\ c.step = "drain" /\ d \in TypedStep /\ d.step = "end stream"
      BY <3>1, <3>2, <3>3, <3>4, PlainSteps
    <3>6. Quiet(<<a, b, c, d>>) /\ Calm(<<a, b, c, d>>) /\ NoRestore(<<a, b, c, d>>)
      BY <3>5, CalmFour DEF Spawning, Restarting
    <3> QED BY <2>4, <3>1, <3>2, <3>3, <3>4, <3>6 DEF Quiet, Wellformed
  <2> QED BY <2>1, <2>2, <2>3, <2>4
<1>7. /\ last \in Seq(TypedStep) /\ Calm(last) /\ AfterFinish(last) /\ NoRestore(last)
      /\ CountIn(last, Adding) = 0 /\ CountIn(last, Starting) = 0 /\ last # << >>
  <2>1. /\ Do("poll", 0) \in TypedStep /\ Do("poll", 0).step = "poll"
        /\ Do("accepted", i) \in TypedStep /\ Do("accepted", i).step = "accepted"
    BY PlainSteps, PictureSteps
  <2> QED BY <1>3, <2>1, CalmPair DEF Quiet, Wellformed, Spawning, Restarting
<1>8. PICK s : s = head \o middle
  OBVIOUS
<1>9. /\ s \in Seq(TypedStep) /\ Calm(s) /\ AfterFinish(s) /\ NoRestore(s)
      /\ CountIn(s, Adding) = 1 /\ CountIn(s, Starting) = 1
  BY <1>5, <1>6, <1>8, Joined DEF NoRestore
<1>10. PICK t : t = s \o last
  OBVIOUS
<1>11. /\ t \in Seq(TypedStep) /\ Calm(t) /\ AfterFinish(t) /\ NoRestore(t) /\ t # << >>
       /\ CountIn(t, Adding) = 1 /\ CountIn(t, Starting) = 1
  BY <1>7, <1>9, <1>10, Joined DEF NoRestore
<1> QED BY <1>4, <1>8, <1>10, <1>11, CalmFollows DEF Brings, Wellformed

----------
(* What the decoder holds, counted *)

FramesHeld == CountIn(outputs, Frames)
PictureHeld == IF Nothing THEN 0 ELSE 1
StepsHeld == CountIn(todo, Adding)

Inside == FramesHeld + Len(reorder) + Len(pending_picture_completions) + PictureHeld
Held == Inside + StepsHeld

LEMMA HeldType ==
  ASSUME Types
  PROVE  /\ FramesHeld \in Nat /\ Len(reorder) \in Nat
         /\ Len(pending_picture_completions) \in Nat
         /\ PictureHeld \in {0, 1} /\ StepsHeld \in Nat
<1>1. outputs \in Seq(Output) /\ todo \in Seq(TypedStep) /\ reorder \in Seq(Entry)
      /\ pending_picture_completions \in Seq(Completion)
  BY DEF Types, OutputsTyped, TodoTyped, ReorderTyped, PendingTyped
<1>2. FramesHeld \in Nat /\ StepsHeld \in Nat
  BY <1>1, CountType DEF FramesHeld, StepsHeld
<1> QED BY <1>1, <1>2, LenProperties DEF PictureHeld

LEMMA Constants ==
  ASSUME Types
  PROVE  /\ PendingLimit \in Nat /\ Workers \in Nat /\ (Workers = IF HasPool THEN PendingLimit ELSE 0)
         /\ ~ HasPool => PendingLimit = 0
         /\ MaxReorderDepth \in Nat
         /\ \A i \in Position : /\ stream[i].pts \in Nat /\ stream[i].poc \in Int
                                /\ stream[i].format \in Formats
<1>1. parallelism \in [auto : BOOLEAN, threads : Nat \ {0}] /\ MaxReorderDepth \in Nat
  BY DecoderAssumption DEF DecoderAssumption, Types
<1>2. PICK t \in Nat \ {0} : t = parallelism.threads
  BY <1>1
<1>3. PendingLimit = t - 1 /\ (HasPool <=> t > 1)
  BY <1>2 DEF PendingLimit, HasPool
<1>4. PendingLimit \in Nat /\ Workers \in Nat /\ (Workers = IF HasPool THEN PendingLimit ELSE 0)
      /\ (~ HasPool => PendingLimit = 0)
  BY <1>3 DEF Workers
<1>5. ASSUME NEW i \in Position
      PROVE  /\ stream[i].pts \in Nat /\ stream[i].poc \in Int
             /\ stream[i].format \in Formats
  <2>1. stream[i] \in Picture
    BY DecoderAssumption, ElementOfSeq DEF DecoderAssumption, Position, Types
  <2>2. PICK p \in Picture : p = stream[i]
    BY <2>1
  <2>3. p.pts \in Nat
    BY DEF Picture
  <2>4. p.poc \in Int
    BY DEF Picture
  <2>5. p.format \in DOMAIN ReorderDepth
    BY DEF Picture
  <2> QED BY <2>2, <2>3, <2>4, <2>5 DEF Formats
<1> QED BY <1>1, <1>4, <1>5

LEMMA PartsKept ==
  ASSUME Types, UNCHANGED fixedVars
  PROVE  /\ (stream \in Streams /\ parallelism \in Parallelisms)'
         /\ UNCHANGED todo => TodoTyped'
         /\ UNCHANGED codingVars => CodingTyped'
         /\ UNCHANGED reorderVars => ReorderTyped'
         /\ UNCHANGED outputVars => OutputsTyped'
         /\ UNCHANGED pending_picture_completions => PendingTyped'
         /\ UNCHANGED <<output_start_time, draining, next, checkpoint, received, first, errors>>
              => CallerTyped'
<1>1. stream' = stream /\ parallelism' = parallelism
  BY DEF fixedVars
<1>2. UNCHANGED todo => TodoTyped'
  BY SetsFixed DEF Types, TodoTyped
<1>3. UNCHANGED codingVars => CodingTyped'
  BY SetsFixed DEF Types, CodingTyped, codingVars, pictureVars
<1>4. UNCHANGED reorderVars => ReorderTyped'
  BY SetsFixed DEF Types, ReorderTyped, reorderVars
<1>5. UNCHANGED outputVars => OutputsTyped'
  BY SetsFixed DEF Types, OutputsTyped, outputVars
<1>6. UNCHANGED pending_picture_completions => PendingTyped'
  BY SetsFixed DEF Types, PendingTyped
<1>7. UNCHANGED <<output_start_time, draining, next, checkpoint, received, first, errors>>
        => CallerTyped'
  BY <1>1, SetsFixed DEF Types, CallerTyped
<1> QED BY <1>1, <1>2, <1>3, <1>4, <1>5, <1>6, <1>7 DEF Types

\* A picture leaves the reorder buffer: one frame at most.
LEMMA QueueTyped ==
  ASSUME Types, UNCHANGED fixedVars, NEW entry \in Entry, QueueFrame(entry)
  PROVE  OutputsTyped' /\ FramesHeld' <= FramesHeld + 1
<1>1. outputs \in Seq(Output) /\ FramesHeld \in Nat
  BY HeldType DEF Types, OutputsTyped
<1>2. Output' = Output /\ Frames' = Frames
  BY SetsFixed
<1>3. CASE ~ entry.shown \/ ~ Materializes(entry.picture)
  <2>1. UNCHANGED outputVars
    BY <1>3 DEF QueueFrame
  <2>2. FramesHeld' = FramesHeld
    BY <1>2, <2>1 DEF FramesHeld, CountIn, outputVars
  <2> QED BY <1>1, <2>1, <2>2, PartsKept
<1>4. CASE entry.shown /\ Materializes(entry.picture)
  <2>1. PICK i \in Position : i = entry.picture
    BY DEF Entry
  <2>2. PICK format \in Formats : format = stream[i].format
    BY Constants
  <2>3. PICK mark \in Announcements : mark = [kind |-> "FormatChanged", value |-> format]
    BY DEF Announcements
  <2>4. PICK frame \in Frames : frame = [kind |-> "Frame", value |-> i]
    BY DEF Frames
  <2>5. PICK marks : marks = IF announced_format = format THEN << >> ELSE <<mark>>
    OBVIOUS
  <2>6. outputs' = (outputs \o marks) \o <<frame>> /\ announced_format' = format
    BY <1>4, <2>1, <2>2, <2>3, <2>4, <2>5 DEF QueueFrame
  <2>7. marks \in Seq(Output) /\ CountIn(marks, Frames) = 0
    <3>1. << >> \in Seq(Output) /\ <<mark>> \in Seq(Output)
      BY EmptySeq DEF Output
    <3>2. mark \notin Frames
      BY <2>3 DEF Frames
    <3> QED BY <2>5, <3>1, <3>2, CountEmpty, CountOne
  <2>8. <<frame>> \in Seq(Output) /\ CountIn(<<frame>>, Frames) = 1
    <3>1. <<frame>> \in Seq(Output)
      BY DEF Output
    <3> QED BY <3>1, CountOne
  <2>9. PICK q : q = outputs \o marks
    OBVIOUS
  <2>10. q \in Seq(Output) /\ CountIn(q, Frames) = CountIn(outputs, Frames)
    <3>1. CountIn(outputs, Frames) \in Nat
      BY <1>1 DEF FramesHeld
    <3>2. q \in Seq(Output)
      BY <1>1, <2>7, <2>9, ConcatProperties
    <3> QED BY <1>1, <2>7, <2>9, <3>1, <3>2, CountConcat
  <2>11. q \o <<frame>> \in Seq(Output)
         /\ CountIn(q \o <<frame>>, Frames) = CountIn(q, Frames) + 1
    <3>1. q \o <<frame>> \in Seq(Output)
      BY <2>8, <2>10, ConcatProperties
    <3>2. CountIn(q \o <<frame>>, Frames) = CountIn(q, Frames) + CountIn(<<frame>>, Frames)
      BY <2>8, <2>10, CountConcat
    <3> QED BY <2>8, <3>1, <3>2
  <2>12. FramesHeld' = FramesHeld + 1
    BY <1>2, <2>6, <2>9, <2>10, <2>11 DEF FramesHeld, CountIn
  <2>13. outputs' \in Seq(Output) /\ announced_format' \in {NoFormat} \cup Formats
    BY <2>6, <2>9, <2>11
  <2> QED BY <1>1, <1>2, <2>12, <2>13 DEF OutputsTyped
<1> QED BY <1>3, <1>4

LEMMA KeptFrames ==
  ASSUME UNCHANGED fixedVars, UNCHANGED outputs
  PROVE  FramesHeld' = FramesHeld
BY SetsFixed DEF FramesHeld, CountIn

\* A picture enters the reorder buffer, and one may leave it.
LEMMA PushTyped ==
  ASSUME Types, UNCHANGED fixedVars, NEW i \in Position, NEW shown \in BOOLEAN,
         ReorderPush(i, shown)
  PROVE  /\ ReorderTyped' /\ OutputsTyped'
         /\ FramesHeld' + Len(reorder') <= FramesHeld + Len(reorder) + 1
<1>1. /\ reorder \in Seq(Entry) /\ FramesHeld \in Nat /\ Len(reorder) \in Nat
      /\ max_num_reorder_frames \in 0 .. MaxReorderDepth /\ MaxReorderDepth \in Nat
      /\ Len(reorder) <= max_num_reorder_frames
  BY HeldType, Constants DEF Types, ReorderTyped
<1>2. Entry' = Entry
  BY SetsFixed
<1>3. PICK new : new = [poc |-> stream[i].poc, picture |-> i, shown |-> shown]
  OBVIOUS
<1>4. new \in Entry
  <2>1. stream[i].poc \in Int
    BY Constants
  <2> QED BY <1>3, <2>1 DEF Entry
<1>5. PICK grown : grown = Append(reorder, new)
  OBVIOUS
<1>6. grown \in Seq(Entry) /\ Len(grown) = Len(reorder) + 1 /\ grown # << >>
  <2>1. grown \in Seq(Entry) /\ Len(grown) = Len(reorder) + 1
    BY <1>1, <1>4, <1>5, AppendProperties
  <2>2. Len(<< >>) = 0
    BY EmptySeq
  <2> QED BY <1>1, <2>1, <2>2
<1>7. PICK lowest : lowest = Lowest(grown)
  OBVIOUS
<1>8. lowest \in 1 .. Len(grown) /\ grown[lowest] \in Entry
  <2>1. \A entry \in Entry : entry.poc \in Int
    BY DEF Entry
  <2>2. lowest \in 1 .. Len(grown)
    BY <1>6, <1>7, <2>1, LowestIsThere
  <2> QED BY <1>6, <2>2, ElementOfSeq
<1>9. /\ IF Len(grown) <= max_num_reorder_frames
         THEN reorder' = grown /\ UNCHANGED outputVars
         ELSE /\ reorder' = RemoveAt(grown, lowest)
              /\ QueueFrame(grown[lowest])
      /\ max_num_reorder_frames' = max_num_reorder_frames
  BY <1>3, <1>5, <1>7 DEF ReorderPush
<1>10. CASE Len(grown) <= max_num_reorder_frames
  <2>1. reorder' = grown /\ UNCHANGED outputVars
    BY <1>9, <1>10
  <2>2. ReorderTyped'
    BY <1>1, <1>2, <1>6, <1>9, <1>10, <2>1 DEF ReorderTyped
  <2>3. FramesHeld' = FramesHeld
    BY <2>1, KeptFrames DEF outputVars
  <2> QED BY <1>1, <1>6, <2>1, <2>2, <2>3, PartsKept
<1>11. CASE ~ (Len(grown) <= max_num_reorder_frames)
  <2>1. reorder' = RemoveAt(grown, lowest) /\ QueueFrame(grown[lowest])
    BY <1>9, <1>11
  <2>2. RemoveAt(grown, lowest) \in Seq(Entry) /\ Len(RemoveAt(grown, lowest)) = Len(grown) - 1
    BY <1>6, <1>8, RemovedFrom
  <2>3. reorder' \in Seq(Entry) /\ Len(reorder') = Len(reorder)
    BY <1>1, <1>6, <2>1, <2>2
  <2>4. ReorderTyped'
    BY <1>1, <1>2, <1>9, <2>3 DEF ReorderTyped
  <2>5. OutputsTyped' /\ FramesHeld' <= FramesHeld + 1
    BY <1>8, <2>1, QueueTyped
  <2>6. FramesHeld' \in Int
    <3>1. outputs' \in Seq(Output)
      BY <2>5, SetsFixed DEF OutputsTyped
    <3>2. CountIn(outputs', Frames) \in Nat
      BY <3>1, CountType
    <3>3. FramesHeld' = CountIn(outputs', Frames)
      BY SetsFixed DEF FramesHeld, CountIn
    <3> QED BY <3>2, <3>3
  <2> QED BY <1>1, <2>3, <2>4, <2>5, <2>6
<1> QED BY <1>10, <1>11

----------
(* Every step keeps the types, the control, and what is held *)

DInv == Types /\ Control

LEMMA QuietKept ==
  ASSUME UNCHANGED quietVars
  PROVE  UNCHANGED <<output_start_time, draining, next, discontinuous, checkpoint, faults,
                     told_format, lost_format, received, first, sent>>
BY DEF quietVars, modeVars, toldVars, spanVars

LEMMA CodingKept ==
  ASSUME UNCHANGED codingVars
  PROVE  /\ UNCHANGED pictureVars
         /\ UNCHANGED <<current_picture, current_skipped_picture, dpb_configuration,
                        maximum_completed_pts>>
         /\ Nothing' = Nothing /\ PictureHeld' = PictureHeld
BY DEF codingVars, pictureVars, Nothing, PictureHeld

Adds == {"start", "push", "spawn", "spawn deferred"}

LEMMA StepsCounted ==
  ASSUME Types, todo # << >>
  PROVE  /\ Head(todo) \in TypedStep /\ Head(todo) = todo[1]
         /\ StepsHeld \in Nat /\ (Head(todo).step \in Adds => StepsHeld >= 1)
         /\ todo' = Tail(todo) =>
              /\ StepsHeld' \in Nat
              /\ StepsHeld = (IF Head(todo).step \in Adds THEN 1 ELSE 0) + StepsHeld'
         /\ todo' = << >> => StepsHeld' = 0
         /\ \A steps \in Seq(TypedStep) : todo' = steps \o Tail(todo) =>
              StepsHeld' + (IF Head(todo).step \in Adds THEN 1 ELSE 0)
                = CountIn(steps, Adding) + StepsHeld
<1>1. todo \in Seq(TypedStep)
  BY DEF Types, TodoTyped
<1>2. Head(todo) \in TypedStep /\ Tail(todo) \in Seq(TypedStep) /\ Head(todo) = todo[1]
  BY <1>1, HeadTailProperties, StepShape
<1>3. Head(todo) \in Adding <=> Head(todo).step \in Adds
  BY <1>2 DEF TypedStep, Adding, Adds
<1>4. /\ CountIn(todo, Adding)
           = (IF Head(todo) \in Adding THEN 1 ELSE 0) + CountIn(Tail(todo), Adding)
      /\ CountIn(Tail(todo), Adding) \in Nat /\ CountIn(todo, Adding) \in Nat
  BY <1>1, <1>2, CountTail, CountType
<1>5. StepsHeld = (IF Head(todo).step \in Adds THEN 1 ELSE 0) + CountIn(Tail(todo), Adding)
  BY <1>3, <1>4 DEF StepsHeld
<1>6. todo' = Tail(todo) => StepsHeld' = CountIn(Tail(todo), Adding)
  BY DEF StepsHeld, CountIn
<1>7. todo' = << >> => StepsHeld' = 0
  <2>1. todo' = << >> => StepsHeld' = CountIn(<< >>, Adding)
    BY DEF StepsHeld, CountIn
  <2> QED BY <2>1, CountEmpty
<1>8. ASSUME NEW steps \in Seq(TypedStep), todo' = steps \o Tail(todo)
      PROVE  StepsHeld' + (IF Head(todo).step \in Adds THEN 1 ELSE 0)
                = CountIn(steps, Adding) + StepsHeld
  <2>1. StepsHeld' = CountIn(steps \o Tail(todo), Adding)
    BY <1>8 DEF StepsHeld, CountIn
  <2>2. CountIn(steps \o Tail(todo), Adding)
          = CountIn(steps, Adding) + CountIn(Tail(todo), Adding)
    BY <1>2, CountConcat
  <2>3. CountIn(steps, Adding) \in Nat
    BY CountType
  <2> QED BY <1>4, <1>5, <2>1, <2>2, <2>3
<1>9. StepsHeld \in Nat /\ (Head(todo).step \in Adds => StepsHeld >= 1)
  BY <1>4, <1>5
<1> QED BY <1>2, <1>4, <1>5, <1>6, <1>7, <1>8, <1>9

LEMMA OnePicture ==
  ASSUME Control, UNCHANGED pictureVars
  PROVE  (current_picture = NoPicture \/ current_skipped_picture = 0)' /\ (Nothing => Nothing')
BY DEF Control, pictureVars, Nothing

LEMMA TakeCompletionKeeps ==
  ASSUME DInv, todo # << >>, Head(todo).step \in {"poll", "join", "room"},
         UNCHANGED fixedVars, TakeCompletion
  PROVE  DInv' /\ Held' <= Held
<1>1. PICK p : p = pending_picture_completions
  OBVIOUS
<1>2. /\ p \in Seq(Completion) /\ Len(p) <= Workers /\ Workers \in Nat
      /\ p # << >> /\ pending_picture_completions' = Tail(p)
      /\ UNCHANGED codingVars /\ UNCHANGED quietVars
  BY <1>1, Constants DEF DInv, Types, PendingTyped, TakeCompletion, EarliestReady
<1>3. /\ Head(p) \in Completion /\ Tail(p) \in Seq(Completion) /\ Len(Tail(p)) = Len(p) - 1
      /\ Len(p) \in Nat
  BY <1>2, HeadTailProperties, LenProperties
<1>4. PendingTyped'
  BY <1>2, <1>3, SetsFixed DEF PendingTyped
<1>5. Types /\ Control
  BY DEF DInv
<1>6. CodingTyped' /\ (stream \in Streams /\ parallelism \in Parallelisms)'
  BY <1>2, <1>5, PartsKept
<1>7. PictureHeld' = PictureHeld /\ UNCHANGED pictureVars
  BY <1>2, CodingKept
<1>8. UNCHANGED <<output_start_time, draining, next, checkpoint, received, first>>
  BY <1>2, QuietKept
<1>9. /\ FramesHeld \in Nat /\ Len(reorder) \in Nat /\ PictureHeld \in {0, 1}
      /\ StepsHeld \in Nat
  BY <1>5, HeldType
<1>10. CASE Earliest.failed
  <2>1. /\ todo' = << >> /\ errors' = errors + 1
        /\ UNCHANGED reorderVars /\ UNCHANGED outputVars
    BY <1>10 DEF TakeCompletion, Fail, Return
  <2>2. ReorderTyped' /\ OutputsTyped'
    BY <1>5, <2>1, PartsKept
  <2>3. CallerTyped'
    BY <1>5, <1>8, <2>1, SetsFixed DEF Types, CallerTyped, fixedVars
  <2>4. TodoTyped' /\ Control'
    BY <1>5, <1>7, <2>1, OnePicture, ControlEnded
  <2>5. FramesHeld' = FramesHeld /\ reorder' = reorder /\ StepsHeld' = 0
    BY <1>5, <2>1, KeptFrames, StepsCounted DEF outputVars, reorderVars
  <2>6. Held' <= Held
    BY <1>1, <1>2, <1>3, <1>7, <1>9, <2>5 DEF Held, Inside
  <2> QED BY <1>4, <1>6, <2>2, <2>3, <2>4, <2>6 DEF DInv, Types
<1>11. CASE ~ Earliest.failed
  <2>1. PICK i \in Position : i = Earliest.picture
    BY <1>1, <1>3 DEF Completion, Earliest
  <2>2. PICK shown \in BOOLEAN : shown = Earliest.shown
    BY <1>1, <1>3 DEF Completion, Earliest
  <2>3. ReorderPush(i, shown) /\ todo' = todo /\ errors' = errors
    BY <1>11, <2>1, <2>2 DEF TakeCompletion
  <2>4. /\ ReorderTyped' /\ OutputsTyped'
        /\ FramesHeld' + Len(reorder') <= FramesHeld + Len(reorder) + 1
    BY <1>5, <2>3, PushTyped
  <2>5. CallerTyped'
    BY <1>5, <1>8, <2>3, PartsKept
  <2>6. todo[1].step \notin Spawning \cup Restarting
    BY <1>5, StepsCounted DEF Spawning, Restarting
  <2>7. TodoTyped' /\ Control'
    <3>1. Len(pending_picture_completions) \in Nat /\ Len(pending_picture_completions') \in Nat
      BY <1>1, <1>2, <1>3, LenProperties
    <3>2. UNCHANGED <<fixedVars, todo, checkpoint, pictureVars>>
      BY <1>7, <1>8, <2>3
    <3>3. TodoTyped
      BY <1>5 DEF Types
    <3> QED BY <1>2, <1>5, <2>6, <3>1, <3>2, <3>3, ControlKept
  <2>8. StepsHeld' = StepsHeld
    BY <2>3 DEF StepsHeld, CountIn
  <2>9. FramesHeld' \in Nat /\ Len(reorder') \in Nat
    <3>1. outputs' \in Seq(Output) /\ reorder' \in Seq(Entry)
      BY <2>4, SetsFixed DEF OutputsTyped, ReorderTyped
    <3>2. CountIn(outputs', Frames) \in Nat
      BY <3>1, CountType
    <3>3. FramesHeld' = CountIn(outputs', Frames)
      BY SetsFixed DEF FramesHeld, CountIn
    <3> QED BY <3>1, <3>2, <3>3, LenProperties
  <2>10. Held' <= Held
    BY <1>1, <1>2, <1>3, <1>7, <1>9, <2>4, <2>8, <2>9 DEF Held, Inside
  <2> QED BY <1>4, <1>6, <2>4, <2>5, <2>7, <2>10 DEF DInv, Types
<1> QED BY <1>10, <1>11

LEMMA PassesKeeps ==
  ASSUME DInv, todo # << >>, Head(todo).step \in {"poll", "join", "room", "finish"},
         Head(todo).step = "room" => Len(pending_picture_completions) < PendingLimit,
         Head(todo).step = "finish" => Nothing,
         UNCHANGED fixedVars, Passes
  PROVE  DInv' /\ Held' <= Held
<1>1. Types /\ Control
  BY DEF DInv
<1>2. /\ todo' = Tail(todo) /\ UNCHANGED codingVars /\ UNCHANGED quietVars
      /\ UNCHANGED reorderVars /\ UNCHANGED outputVars
      /\ UNCHANGED pending_picture_completions /\ UNCHANGED errors
  BY DEF Passes, Continue
<1>3. UNCHANGED <<output_start_time, draining, next, checkpoint, received, first>>
  BY <1>2, QuietKept
<1>4. /\ CodingTyped' /\ ReorderTyped' /\ OutputsTyped' /\ PendingTyped' /\ CallerTyped'
      /\ (stream \in Streams /\ parallelism \in Parallelisms)'
  BY <1>1, <1>2, <1>3, PartsKept
<1>5. UNCHANGED pictureVars /\ Nothing' = Nothing /\ PictureHeld' = PictureHeld
  BY <1>2, CodingKept
<1>6. Head(todo).step = "room" => Len(pending_picture_completions') < Workers
  <2>1. Len(pending_picture_completions) \in Nat
    BY <1>1, HeldType
  <2> QED BY <1>1, <1>2, <2>1, Constants
<1>7. TodoTyped' /\ Control'
  <2>1. UNCHANGED <<fixedVars, checkpoint>> /\ TodoTyped
    BY <1>1, <1>3 DEF Types
  <2>2. \/ Head(todo).step # "finish" /\ (Nothing => Nothing')
        \/ Nothing'
    BY <1>5
  <2>3. Head(todo).step # "reset"
    OBVIOUS
  <2> QED BY <1>1, <1>2, <1>5, <1>6, <2>1, <2>2, <2>3, OnePicture, ControlAfterStep
<1>8. Held' <= Held
  <2>1. FramesHeld' = FramesHeld /\ reorder' = reorder
    BY <1>2, KeptFrames DEF outputVars, reorderVars
  <2>2. StepsHeld' <= StepsHeld
    BY <1>1, <1>2, StepsCounted
  <2>3. StepsHeld' \in Nat
    BY <1>1, <1>2, StepsCounted
  <2> QED BY <1>1, <1>2, <1>5, <2>1, <2>2, <2>3, HeldType DEF Held, Inside
<1> QED BY <1>4, <1>7, <1>8 DEF DInv, Types

\* A call that goes on with its next step.
LEMMA Advances ==
  ASSUME DInv, todo # << >>, todo' = Tail(todo), UNCHANGED <<fixedVars, checkpoint>>,
         CodingTyped', ReorderTyped', OutputsTyped', PendingTyped', CallerTyped',
         \/ Head(todo).step # "finish" /\ (Nothing => Nothing')
         \/ Head(todo).step = "start"
         \/ Nothing',
         (current_picture = NoPicture \/ current_skipped_picture = 0)',
         Head(todo).step # "room",
         Head(todo).step = "reset" => outputs' = << >> /\ received' = << >>,
         Inside \in Int, Inside' \in Int,
         Inside' <= Inside + (IF Head(todo).step \in Adds THEN 1 ELSE 0)
  PROVE  DInv' /\ Held' <= Held
<1>1. Types /\ Control /\ TodoTyped
  BY DEF DInv, Types
<1>2. UNCHANGED fixedVars
  OBVIOUS
<1>3. (stream \in Streams /\ parallelism \in Parallelisms)'
  BY <1>1, <1>2, PartsKept
<1>4. TodoTyped' /\ Control'
  BY <1>1, ControlAfterStep
<1>5. Held' <= Held
  <2>1. /\ StepsHeld \in Nat /\ StepsHeld' \in Nat
        /\ StepsHeld = (IF Head(todo).step \in Adds THEN 1 ELSE 0) + StepsHeld'
    BY <1>1, StepsCounted
  <2> QED BY <2>1 DEF Held
<1> QED BY <1>3, <1>4, <1>5 DEF DInv, Types

\* A call that goes on with other steps first.
LEMMA Inserts ==
  ASSUME DInv, todo # << >>, UNCHANGED <<fixedVars, checkpoint>>,
         NEW steps, Wellformed(steps), NotStarting(steps),
         todo' = steps \o Tail(todo),
         CodingTyped', ReorderTyped', OutputsTyped', PendingTyped', CallerTyped',
         \/ Head(todo).step = "finish" /\ Nothing'
         \/ Head(todo).step = "prepare" /\ UNCHANGED pictureVars,
         (current_picture = NoPicture \/ current_skipped_picture = 0)',
         Inside \in Int, Inside' \in Int,
         Inside' + CountIn(steps, Adding) <= Inside
  PROVE  DInv' /\ Held' <= Held
<1>1. Types /\ Control /\ TodoTyped
  BY DEF DInv, Types
<1>2. UNCHANGED fixedVars
  OBVIOUS
<1>3. (stream \in Streams /\ parallelism \in Parallelisms)'
  BY <1>1, <1>2, PartsKept
<1>4. /\ steps \in Seq(TypedStep) /\ steps # << >> /\ Follows(steps) /\ Opens(steps)
      /\ \A k \in DOMAIN steps : steps[k].step \notin {"start", "restore"}
  BY DEF Wellformed, NotStarting
<1>5. TodoTyped' /\ Control'
  BY <1>1, <1>4, ControlInserted
<1>6. Held' <= Held
  <2>1. Head(todo).step \notin Adds
    BY DEF Adds
  <2>2. StepsHeld' + (IF Head(todo).step \in Adds THEN 1 ELSE 0)
          = CountIn(steps, Adding) + StepsHeld
        /\ StepsHeld \in Nat
    BY <1>1, <1>4, StepsCounted
  <2>3. StepsHeld' \in Nat
    <3>1. todo' \in Seq(TypedStep)
      BY <1>2, <1>5, SetsFixed DEF TodoTyped
    <3>2. CountIn(todo', Adding) \in Nat
      BY <3>1, CountType
    <3> QED BY <3>2 DEF StepsHeld, CountIn
  <2>4. CountIn(steps, Adding) \in Nat
    BY <1>4, CountType
  <2>5. StepsHeld' = CountIn(steps, Adding) + StepsHeld
    BY <2>1, <2>2, <2>3
  <2>6. Held = Inside + StepsHeld /\ Held' = Inside' + StepsHeld'
    BY DEF Held
  <2> QED BY ONLY <2>2, <2>3, <2>4, <2>5, <2>6, Inside \in Int, Inside' \in Int,
                  Inside' + CountIn(steps, Adding) <= Inside
<1> QED BY <1>3, <1>5, <1>6 DEF DInv, Types

\* A call that ends.
LEMMA Ends ==
  ASSUME DInv, todo # << >>, todo' = << >>, UNCHANGED fixedVars,
         CodingTyped', ReorderTyped', OutputsTyped', PendingTyped', CallerTyped',
         (current_picture = NoPicture \/ current_skipped_picture = 0)',
         Inside \in Int, Inside' \in Int,
         Inside' <= Inside \/ (Head(todo).step \in Adds /\ Inside' <= Inside + 1)
  PROVE  DInv' /\ Held' <= Held
<1>1. Types /\ Control
  BY DEF DInv
<1>2. (stream \in Streams /\ parallelism \in Parallelisms)'
  BY <1>1, PartsKept
<1>3. TodoTyped' /\ Control'
  BY ControlEnded
<1>4. Held' <= Held
  <2>1. StepsHeld \in Nat /\ StepsHeld' = 0 /\ (Head(todo).step \in Adds => StepsHeld >= 1)
    BY <1>1, StepsCounted
  <2>2. Inside' + StepsHeld' <= Inside + StepsHeld
    <3>1. PICK i \in Int : i = Inside
      OBVIOUS
    <3>2. PICK j \in Int : j = Inside'
      OBVIOUS
    <3>3. PICK n \in Nat : n = StepsHeld
      BY <2>1
    <3>4. j <= i \/ (n >= 1 /\ j <= i + 1)
      BY <2>1, <3>1, <3>2, <3>3
    <3>5. j + 0 <= i + n
      BY ONLY <3>4, i \in Int, j \in Int, n \in Nat
    <3> QED BY <2>1, <3>1, <3>2, <3>3, <3>5
  <2>3. Held = Inside + StepsHeld /\ Held' = Inside' + StepsHeld'
    BY DEF Held
  <2> QED BY <2>2, <2>3
<1> QED BY <1>2, <1>3, <1>4 DEF DInv, Types

LEMMA InsideType ==
  ASSUME Types
  PROVE  Inside \in Nat
BY HeldType DEF Inside

\* After a step too, by the parts that count.
LEMMA InsideNext ==
  ASSUME UNCHANGED fixedVars, ReorderTyped', OutputsTyped', PendingTyped'
  PROVE  /\ FramesHeld' \in Nat /\ Len(reorder') \in Nat
         /\ Len(pending_picture_completions') \in Nat /\ PictureHeld' \in {0, 1}
         /\ Inside' \in Nat
<1>1. /\ outputs' \in Seq(Output) /\ reorder' \in Seq(Entry)
      /\ pending_picture_completions' \in Seq(Completion)
  BY SetsFixed DEF OutputsTyped, ReorderTyped, PendingTyped
<1>2. CountIn(outputs', Frames) \in Nat
  BY <1>1, CountType
<1>3. FramesHeld' = CountIn(outputs', Frames)
  BY SetsFixed DEF FramesHeld, CountIn
<1>4. Len(reorder') \in Nat /\ Len(pending_picture_completions') \in Nat
  BY <1>1, LenProperties
<1>5. PictureHeld' \in {0, 1}
  BY DEF PictureHeld
<1>6. Inside' = FramesHeld' + Len(reorder') + Len(pending_picture_completions') + PictureHeld'
  BY DEF Inside
<1> QED BY <1>2, <1>3, <1>4, <1>5, <1>6

LEMMA InsideKept ==
  ASSUME UNCHANGED fixedVars, UNCHANGED <<outputs, reorder, pending_picture_completions>>,
         UNCHANGED pictureVars
  PROVE  Inside' = Inside
<1>1. FramesHeld' = FramesHeld
  BY KeptFrames
<1>2. PictureHeld' = PictureHeld
  BY DEF PictureHeld, Nothing, pictureVars
<1> QED BY <1>1, <1>2 DEF Inside

LEMMA NothingMoves ==
  ASSUME Types, UNCHANGED fixedVars, UNCHANGED reorderVars, UNCHANGED outputVars,
         UNCHANGED pending_picture_completions, UNCHANGED pictureVars
  PROVE  /\ Inside \in Int /\ Inside' \in Int /\ Inside' = Inside
         /\ Inside' <= Inside
<1>1. UNCHANGED <<outputs, reorder, pending_picture_completions>>
  BY DEF outputVars, reorderVars
<1>2. Inside' = Inside
  BY <1>1, InsideKept
<1>3. Inside \in Nat
  BY InsideType
<1> QED BY <1>2, <1>3

LEMMA PollKeeps ==
  ASSUME DInv, Poll
  PROVE  DInv' /\ Held' <= Held
<1>1. todo # << >> /\ Head(todo).step = "poll" /\ UNCHANGED fixedVars
  BY DEF Poll, Executes
<1>2. TakeCompletion \/ Passes
  BY DEF Poll
<1> QED BY <1>1, <1>2, TakeCompletionKeeps, PassesKeeps

LEMMA JoinKeeps ==
  ASSUME DInv, Join
  PROVE  DInv' /\ Held' <= Held
<1>1. todo # << >> /\ Head(todo).step = "join" /\ UNCHANGED fixedVars
  BY DEF Join, Executes
<1>2. TakeCompletion \/ Passes
  BY DEF Join
<1> QED BY <1>1, <1>2, TakeCompletionKeeps, PassesKeeps

LEMMA RoomKeeps ==
  ASSUME DInv, Room
  PROVE  DInv' /\ Held' <= Held
<1>1. todo # << >> /\ Head(todo).step = "room" /\ UNCHANGED fixedVars
  BY DEF Room, Executes
<1>2. CASE Len(pending_picture_completions) >= PendingLimit
  <2>1. TakeCompletion
    BY <1>2 DEF Room
  <2> QED BY <1>1, <2>1, TakeCompletionKeeps
<1>3. CASE ~ (Len(pending_picture_completions) >= PendingLimit)
  <2>1. Passes
    BY <1>3 DEF Room
  <2>2. Len(pending_picture_completions) < PendingLimit
    <3>1. Len(pending_picture_completions) \in Nat /\ PendingLimit \in Nat
      BY HeldType, Constants DEF DInv
    <3> QED BY <1>3, <3>1
  <2> QED BY <1>1, <2>1, <2>2, PassesKeeps
<1> QED BY <1>2, <1>3

LEMMA FinishNothingKeeps ==
  ASSUME DInv, FinishNothing
  PROVE  DInv' /\ Held' <= Held
<1>1. todo # << >> /\ Head(todo).step = "finish" /\ UNCHANGED fixedVars
  BY DEF FinishNothing, Executes
<1>2. Passes /\ Nothing
  BY DEF FinishNothing, Nothing
<1> QED BY <1>1, <1>2, PassesKeeps

LEMMA DiscardKeeps ==
  ASSUME DInv, Discard
  PROVE  DInv' /\ Held' <= Held
<1>1. /\ todo # << >> /\ Head(todo).step = "discard" /\ UNCHANGED fixedVars
      /\ UNCHANGED codingVars /\ UNCHANGED quietVars
      /\ UNCHANGED reorderVars /\ UNCHANGED outputVars /\ UNCHANGED errors
  BY DEF Discard, Executes
<1>2. Types /\ Control
  BY DEF DInv
<1>3. UNCHANGED <<output_start_time, draining, next, checkpoint, received, first>>
  BY <1>1, QuietKept
<1>4. CodingTyped' /\ ReorderTyped' /\ OutputsTyped' /\ CallerTyped'
      /\ (stream \in Streams /\ parallelism \in Parallelisms)'
  BY <1>1, <1>2, <1>3, PartsKept
<1>5. UNCHANGED pictureVars /\ Nothing' = Nothing /\ PictureHeld' = PictureHeld
  BY <1>1, CodingKept
<1>6. FramesHeld' = FramesHeld /\ reorder' = reorder
  BY <1>1, KeptFrames DEF outputVars, reorderVars
<1>7. CASE pending_picture_completions # << >>
  <2>1. PICK p : p = pending_picture_completions
    OBVIOUS
  <2>2. /\ p \in Seq(Completion) /\ Len(p) <= Workers /\ Workers \in Nat
        /\ p # << >> /\ pending_picture_completions' = Tail(p) /\ todo' = todo
    BY <1>2, <1>7, <2>1, Constants DEF Types, PendingTyped, Discard
  <2>3. Tail(p) \in Seq(Completion) /\ Len(Tail(p)) = Len(p) - 1 /\ Len(p) \in Nat
    BY <2>2, HeadTailProperties, LenProperties
  <2>4. PendingTyped'
    BY <2>2, <2>3, SetsFixed, <1>1 DEF PendingTyped
  <2>5. TodoTyped' /\ Control'
    <3>1. Len(pending_picture_completions) \in Nat /\ Len(pending_picture_completions') \in Nat
      BY <2>1, <2>2, <2>3, LenProperties
    <3>2. UNCHANGED <<fixedVars, todo, checkpoint, pictureVars>>
      BY <1>1, <1>3, <1>5, <2>2
    <3>3. TodoTyped /\ todo[1].step \notin Spawning \cup Restarting
      BY <1>1, <1>2, StepsCounted DEF Types, Spawning, Restarting
    <3> QED BY <1>2, <2>2, <3>1, <3>2, <3>3, ControlKept
  <2>6. StepsHeld' = StepsHeld
    BY <2>2 DEF StepsHeld, CountIn
  <2>7. Held' <= Held
    BY <1>2, <1>5, <1>6, <2>1, <2>2, <2>3, <2>6, HeldType DEF Held, Inside
  <2> QED BY <1>4, <2>4, <2>5, <2>7 DEF DInv, Types
<1>8. CASE pending_picture_completions = << >>
  <2>1. todo' = Tail(todo) /\ UNCHANGED pending_picture_completions
    BY <1>8 DEF Discard, Continue
  <2>2. PendingTyped'
    BY <1>1, <1>2, <2>1, PartsKept
  <2>3. Inside \in Int /\ Inside' = Inside
    BY <1>1, <1>2, <1>5, <1>6, <2>1, InsideType, InsideKept DEF outputVars
  <2>4. Head(todo).step \notin Adds
    BY <1>1 DEF Adds
  <2>5. UNCHANGED <<fixedVars, checkpoint>>
    BY <1>1, <1>3
  <2>6. (current_picture = NoPicture \/ current_skipped_picture = 0)'
    BY <1>2, <1>5, OnePicture
  <2>7. /\ Head(todo).step # "finish" /\ (Nothing => Nothing')
        /\ Head(todo).step # "room" /\ Head(todo).step # "reset"
    BY <1>1, <1>5
  <2>8. Inside' <= Inside + (IF Head(todo).step \in Adds THEN 1 ELSE 0) /\ Inside' \in Int
    BY <2>3, <2>4
  <2> QED BY <1>1, <1>4, <2>1, <2>2, <2>3, <2>5, <2>6, <2>7, <2>8, Advances
<1> QED BY <1>7, <1>8

LEMMA DrainReorderKeeps ==
  ASSUME DInv, DrainReorder
  PROVE  DInv' /\ Held' <= Held
<1>1. /\ todo # << >> /\ Head(todo).step = "drain" /\ UNCHANGED fixedVars
      /\ UNCHANGED codingVars /\ UNCHANGED quietVars
      /\ UNCHANGED max_num_reorder_frames
      /\ UNCHANGED pending_picture_completions /\ UNCHANGED errors
  BY DEF DrainReorder, Executes
<1>2. Types /\ Control
  BY DEF DInv
<1>3. UNCHANGED <<output_start_time, draining, next, checkpoint, received, first>>
  BY <1>1, QuietKept
<1>4. CodingTyped' /\ PendingTyped' /\ CallerTyped'
      /\ (stream \in Streams /\ parallelism \in Parallelisms)'
  BY <1>1, <1>2, <1>3, PartsKept
<1>5. UNCHANGED pictureVars /\ Nothing' = Nothing /\ PictureHeld' = PictureHeld
  BY <1>1, CodingKept
<1>6. CASE reorder # << >>
  <2>1. PICK lowest : lowest = Lowest(reorder)
    OBVIOUS
  <2>2. /\ reorder \in Seq(Entry) /\ Len(reorder) \in Nat
        /\ max_num_reorder_frames \in 0 .. MaxReorderDepth /\ MaxReorderDepth \in Nat
        /\ Len(reorder) <= max_num_reorder_frames
    BY <1>2, HeldType, Constants DEF Types, ReorderTyped
  <2>3. lowest \in 1 .. Len(reorder) /\ reorder[lowest] \in Entry
    <3>1. \A entry \in Entry : entry.poc \in Int
      BY DEF Entry
    <3>2. lowest \in 1 .. Len(reorder)
      BY <1>6, <2>1, <2>2, <3>1, LowestIsThere
    <3> QED BY <2>2, <3>2, ElementOfSeq
  <2>4. /\ reorder' = RemoveAt(reorder, lowest) /\ QueueFrame(reorder[lowest])
        /\ todo' = todo
    BY <1>6, <2>1 DEF DrainReorder
  <2>5. reorder' \in Seq(Entry) /\ Len(reorder') = Len(reorder) - 1
    <3>1. /\ RemoveAt(reorder, lowest) \in Seq(Entry)
          /\ Len(RemoveAt(reorder, lowest)) = Len(reorder) - 1
      BY <2>2, <2>3, RemovedFrom
    <3> QED BY <2>4, <3>1
  <2>6. ReorderTyped'
    <3>1. Entry' = Entry /\ max_num_reorder_frames' = max_num_reorder_frames
      BY <1>1, SetsFixed
    <3>2. Len(reorder') <= max_num_reorder_frames
      BY <2>2, <2>5
    <3> QED BY <2>2, <2>5, <3>1, <3>2 DEF ReorderTyped
  <2>7. OutputsTyped' /\ FramesHeld' <= FramesHeld + 1
    BY <1>1, <1>2, <2>3, <2>4, QueueTyped
  <2>8. TodoTyped' /\ Control'
    <3>1. Len(pending_picture_completions) \in Nat /\ Len(pending_picture_completions') \in Nat
          /\ Workers \in Nat
      BY <1>1, <1>2, HeldType, Constants
    <3>2. UNCHANGED <<fixedVars, todo, checkpoint, pictureVars>>
      BY <1>1, <1>3, <1>5, <2>4
    <3>3. TodoTyped /\ todo[1].step \notin Spawning \cup Restarting
      BY <1>1, <1>2, StepsCounted DEF Types, Spawning, Restarting
    <3> QED BY <1>2, <3>1, <3>2, <3>3, ControlKept
  <2>9. StepsHeld' = StepsHeld
    BY <2>4 DEF StepsHeld, CountIn
  <2>10. FramesHeld' \in Nat
    BY <1>1, <1>4, <2>6, <2>7, InsideNext
  <2>11. Held' <= Held
    BY <1>1, <1>2, <1>5, <2>2, <2>5, <2>7, <2>9, <2>10, HeldType DEF Held, Inside
  <2> QED BY <1>4, <2>6, <2>7, <2>8, <2>11 DEF DInv, Types
<1>7. CASE reorder = << >>
  <2>1. todo' = Tail(todo) /\ reorder' = reorder /\ UNCHANGED outputVars
    BY <1>7 DEF DrainReorder, Continue
  <2>2. ReorderTyped' /\ OutputsTyped'
    BY <1>1, <1>2, <2>1, PartsKept DEF reorderVars
  <2>3. Inside \in Int /\ Inside' = Inside
    BY <1>1, <1>2, <1>5, <2>1, InsideType, InsideKept DEF outputVars
  <2>4. Head(todo).step \notin Adds
    BY <1>1 DEF Adds
  <2>5. UNCHANGED <<fixedVars, checkpoint>>
    BY <1>1, <1>3
  <2>6. (current_picture = NoPicture \/ current_skipped_picture = 0)'
    BY <1>2, <1>5, OnePicture
  <2>7. /\ Head(todo).step # "finish" /\ (Nothing => Nothing')
        /\ Head(todo).step # "room" /\ Head(todo).step # "reset"
    BY <1>1, <1>5
  <2>8. Inside' <= Inside + (IF Head(todo).step \in Adds THEN 1 ELSE 0) /\ Inside' \in Int
    BY <2>3, <2>4
  <2> QED BY <1>1, <1>4, <2>1, <2>2, <2>3, <2>5, <2>6, <2>7, <2>8, Advances
<1> QED BY <1>6, <1>7

LEMMA FinishSkippedKeeps ==
  ASSUME DInv, FinishSkipped
  PROVE  DInv' /\ Held' <= Held
<1>1. /\ todo # << >> /\ Head(todo).step = "finish" /\ UNCHANGED fixedVars
      /\ current_skipped_picture # 0 /\ current_skipped_picture' = 0
      /\ UNCHANGED current_picture /\ UNCHANGED dpb_configuration
      /\ UNCHANGED maximum_completed_pts /\ UNCHANGED quietVars
      /\ UNCHANGED reorderVars /\ UNCHANGED outputVars
      /\ UNCHANGED pending_picture_completions /\ UNCHANGED errors
  BY DEF FinishSkipped, Executes
<1>2. Types /\ Control
  BY DEF DInv
<1>3. UNCHANGED <<output_start_time, draining, next, checkpoint, received, first>>
  BY <1>1, QuietKept
<1>4. ReorderTyped' /\ OutputsTyped' /\ PendingTyped' /\ CallerTyped'
  BY <1>1, <1>2, <1>3, PartsKept
<1>5. PICK i \in Position : i = current_skipped_picture
  BY <1>1, <1>2 DEF Types, CodingTyped
<1>6. current_picture = NoPicture
  BY <1>1, <1>2 DEF Control
<1>7. CodingTyped' /\ Nothing'
  BY <1>1, <1>2, <1>6, SetsFixed DEF Types, CodingTyped, Nothing
<1>8. PICK steps : steps = <<Do("push", i), Do("record", i)>>
  OBVIOUS
<1>9. todo' = steps \o Tail(todo)
  BY <1>5, <1>8 DEF FinishSkipped, Before
<1>10. Wellformed(steps) /\ NotStarting(steps) /\ CountIn(steps, Adding) = 1
  <2>1. PICK a : a = Do("push", i)
    OBVIOUS
  <2>2. PICK b : b = Do("record", i)
    OBVIOUS
  <2>3. a \in TypedStep /\ a.step = "push" /\ b \in TypedStep /\ b.step = "record"
    BY <2>1, <2>2, PictureSteps
  <2>4. /\ steps \in Seq(TypedStep) /\ DOMAIN steps = 1 .. 2 /\ steps # << >>
        /\ steps[1] = a /\ steps[2] = b
        /\ \A k \in 1 .. 2 : k = 1 \/ k = 2
    BY <1>8, <2>1, <2>2, <2>3, Two
  <2>5. Calm(steps)
    BY <2>3, <2>4 DEF Calm, Spawning, Restarting
  <2>6. NotStarting(steps)
    BY <2>3, <2>4 DEF NotStarting
  <2>7. a \in Adding /\ b \notin Adding
    BY <2>3 DEF TypedStep, Adding
  <2>8. CountIn(steps, Adding) = 1
    <3>1. 1 \in DOMAIN steps
      BY <2>4
    <3>2. \A k \in DOMAIN steps : steps[k] \in Adding <=> k = 1
      BY <2>4, <2>7
    <3> QED BY <3>1, <3>2, CountSingle
  <2> QED BY <2>4, <2>5, <2>6, <2>8, CalmFollows DEF Wellformed
<1>11. Inside \in Int /\ Inside' \in Int /\ Inside' + CountIn(steps, Adding) <= Inside
  <2>1. FramesHeld' = FramesHeld
    BY <1>1, KeptFrames DEF outputVars
  <2>2. PictureHeld = 1 /\ PictureHeld' = 0
    BY <1>1, <1>7 DEF PictureHeld, Nothing
  <2>3. /\ Inside = FramesHeld + Len(reorder) + Len(pending_picture_completions) + 1
        /\ Inside' = FramesHeld + Len(reorder) + Len(pending_picture_completions) + 0
    BY <1>1, <2>1, <2>2 DEF Inside, reorderVars
  <2>4. FramesHeld \in Nat /\ Len(reorder) \in Nat /\ Len(pending_picture_completions) \in Nat
    BY <1>2, HeldType
  <2> QED BY <1>10, <2>3, <2>4
<1>12. UNCHANGED <<fixedVars, checkpoint>>
       /\ (current_picture = NoPicture \/ current_skipped_picture = 0)'
  BY <1>1, <1>3
<1> QED BY <1>1, <1>4, <1>7, <1>9, <1>10, <1>11, <1>12, Inserts

LEMMA FinishCurrentKeeps ==
  ASSUME DInv, FinishCurrent
  PROVE  DInv' /\ Held' <= Held
<1>1. /\ todo # << >> /\ Head(todo).step = "finish" /\ UNCHANGED fixedVars
      /\ current_skipped_picture = 0 /\ current_picture # NoPicture
      /\ current_picture' = NoPicture /\ UNCHANGED current_skipped_picture
      /\ UNCHANGED dpb_configuration
      /\ UNCHANGED maximum_completed_pts /\ UNCHANGED quietVars
      /\ UNCHANGED reorderVars /\ UNCHANGED outputVars
      /\ UNCHANGED pending_picture_completions
  BY DEF FinishCurrent, Executes
<1>2. Types /\ Control
  BY DEF DInv
<1>3. UNCHANGED <<output_start_time, draining, next, checkpoint, received, first>>
  BY <1>1, QuietKept
<1>4. ReorderTyped' /\ OutputsTyped' /\ PendingTyped'
  BY <1>1, <1>2, PartsKept
<1>5. PICK p \in Current : p = current_picture
  BY <1>1, <1>2 DEF Types, CodingTyped
<1>6. CodingTyped' /\ Nothing'
  BY <1>1, <1>2, SetsFixed DEF Types, CodingTyped, Nothing
<1>7. Inside \in Int /\ Inside' \in Int /\ Inside' + 1 <= Inside /\ Inside' <= Inside
  <2>1. FramesHeld' = FramesHeld
    BY <1>1, KeptFrames DEF outputVars
  <2>2. PictureHeld = 1 /\ PictureHeld' = 0
    BY <1>1, <1>6 DEF PictureHeld, Nothing
  <2>3. /\ Inside = FramesHeld + Len(reorder) + Len(pending_picture_completions) + 1
        /\ Inside' = FramesHeld + Len(reorder) + Len(pending_picture_completions) + 0
    BY <1>1, <2>1, <2>2 DEF Inside, reorderVars
  <2>4. FramesHeld \in Nat /\ Len(reorder) \in Nat /\ Len(pending_picture_completions) \in Nat
    BY <1>2, HeldType
  <2> QED BY <2>3, <2>4
<1>8. (current_picture = NoPicture \/ current_skipped_picture = 0)'
  BY <1>1
<1>9. CASE FinishFails(current_picture)
  <2>1. todo' = << >> /\ errors' = errors + 1
    BY <1>9 DEF FinishCurrent, Fail, Return
  <2>2. CallerTyped'
    BY <1>1, <1>2, <1>3, <2>1, SetsFixed DEF Types, CallerTyped, fixedVars
  <2> QED BY <1>1, <1>4, <1>6, <1>7, <1>8, <2>1, <2>2, Ends
<1>10. CASE ~ FinishFails(current_picture)
  <2>1. PICK steps : steps = FinishSteps(p)
    OBVIOUS
  <2>2. todo' = steps \o Tail(todo) /\ UNCHANGED errors
    BY <1>5, <1>10, <2>1 DEF FinishCurrent, Before
  <2>3. CallerTyped'
    BY <1>1, <1>2, <1>3, <2>2, PartsKept
  <2>4. Wellformed(steps) /\ NotStarting(steps) /\ CountIn(steps, Adding) = 1
    BY <2>1, FinishStepsTyped
  <2>5. UNCHANGED <<fixedVars, checkpoint>>
    BY <1>1, <1>3
  <2>6. Inside' + CountIn(steps, Adding) <= Inside
    BY <1>7, <2>4
  <2> QED BY <1>1, <1>4, <1>6, <1>7, <1>8, <2>2, <2>3, <2>4, <2>5, <2>6, Inserts
<1> QED BY <1>9, <1>10

LEMMA SpawnKeeps ==
  ASSUME DInv, Spawn
  PROVE  DInv' /\ Held' <= Held
<1>1. /\ todo # << >> /\ Head(todo).step \in Spawning /\ UNCHANGED fixedVars
      /\ UNCHANGED codingVars /\ UNCHANGED quietVars
      /\ UNCHANGED reorderVars /\ UNCHANGED outputVars
  BY DEF Spawn, Executes, Spawning
<1>2. Types /\ Control
  BY DEF DInv
<1>3. UNCHANGED <<output_start_time, draining, next, checkpoint, received, first>>
  BY <1>1, QuietKept
<1>4. CodingTyped' /\ ReorderTyped' /\ OutputsTyped'
  BY <1>1, <1>2, PartsKept
<1>5. UNCHANGED pictureVars /\ Nothing' = Nothing /\ PictureHeld' = PictureHeld
  BY <1>1, CodingKept
<1>6. (current_picture = NoPicture \/ current_skipped_picture = 0)'
  BY <1>2, <1>5, OnePicture
<1>7. PICK p : p = pending_picture_completions
  OBVIOUS
<1>8. p \in Seq(Completion) /\ Len(p) \in Nat /\ Len(p) < Workers /\ Workers \in Nat
  <2>1. Len(pending_picture_completions) < Workers
    <3>1. Head(todo) = todo[1] /\ HeadReady
      BY <1>1, <1>2, StepsCounted DEF Control
    <3> QED BY <1>1, <3>1 DEF HeadReady
  <2> QED BY <1>2, <1>7, <2>1, HeldType, Constants DEF Types, PendingTyped
<1>9. PICK i \in Position : i = Arg
  <2>1. Head(todo) \in TypedStep
    BY <1>1, <1>2, StepsCounted
  <2> QED BY <1>1, <2>1 DEF TypedStep, Spawning, OfPicture, Arg
<1>10. PICK damaged \in BOOLEAN : damaged = (Head(todo).damage = "slice")
  OBVIOUS
<1>11. PICK deferred \in BOOLEAN : deferred = (Head(todo).step = "spawn deferred")
  OBVIOUS
<1>12. CASE damaged /\ ~ deferred
  <2>1. /\ todo' = << >> /\ errors' = errors + 1
        /\ UNCHANGED pending_picture_completions
    BY <1>10, <1>11, <1>12 DEF Spawn, Fail, Return
  <2>2. CallerTyped'
    BY <1>1, <1>2, <1>3, <2>1, SetsFixed DEF Types, CallerTyped, fixedVars
  <2>3. PendingTyped'
    BY <1>1, <1>2, <2>1, PartsKept
  <2>4. Inside \in Int /\ Inside' = Inside
    BY <1>1, <1>2, <1>5, <2>1, InsideType, InsideKept DEF outputVars, reorderVars
  <2>5. Inside' \in Int /\ Inside' <= Inside
    BY <2>4
  <2> QED BY <1>1, <1>4, <1>6, <2>1, <2>2, <2>3, <2>4, <2>5, Ends
<1>13. CASE ~ (damaged /\ ~ deferred)
  <2>1. PICK shown \in BOOLEAN : shown = Materializes(i)
    BY DEF Materializes
  <2>2. PICK new : new = [picture |-> i, shown |-> shown, ready |-> FALSE, failed |-> damaged]
    OBVIOUS
  <2>3. new \in Completion
    BY <2>2 DEF Completion
  <2>4. /\ todo' = Tail(todo) /\ UNCHANGED errors
        /\ pending_picture_completions' = Append(p, new)
    BY <1>7, <1>9, <1>10, <1>11, <1>13, <2>1, <2>2 DEF Spawn, Continue
  <2>5. Append(p, new) \in Seq(Completion) /\ Len(Append(p, new)) = Len(p) + 1
    BY <1>8, <2>3, AppendProperties
  <2>6. PendingTyped'
    <3>1. Len(p) + 1 <= Workers
      BY <1>8
    <3> QED BY <1>1, <2>4, <2>5, <3>1, SetsFixed DEF PendingTyped
  <2>7. CallerTyped'
    BY <1>1, <1>2, <1>3, <2>4, PartsKept
  <2>8. Inside \in Int /\ Inside' \in Int /\ Inside' <= Inside + 1
    <3>1. FramesHeld' = FramesHeld /\ reorder' = reorder
      BY <1>1, KeptFrames DEF outputVars, reorderVars
    <3>2. /\ Inside = FramesHeld + Len(reorder) + Len(p) + PictureHeld
          /\ Inside' = FramesHeld + Len(reorder) + (Len(p) + 1) + PictureHeld
      BY <1>5, <1>7, <2>4, <2>5, <3>1 DEF Inside
    <3>3. FramesHeld \in Nat /\ Len(reorder) \in Nat /\ PictureHeld \in {0, 1}
      BY <1>2, HeldType
    <3> QED BY <1>8, <3>2, <3>3
  <2>9. Head(todo).step \in Adds
    BY <1>1 DEF Adds, Spawning
  <2>10. UNCHANGED <<fixedVars, checkpoint>>
    BY <1>1, <1>3
  <2>11. /\ Head(todo).step # "finish" /\ (Nothing => Nothing')
         /\ Head(todo).step # "room" /\ Head(todo).step # "reset"
    BY <1>1, <1>5 DEF Spawning
  <2>12. Inside' <= Inside + (IF Head(todo).step \in Adds THEN 1 ELSE 0)
    BY <2>8, <2>9
  <2> QED BY <1>1, <1>4, <1>6, <2>4, <2>6, <2>7, <2>8, <2>10, <2>11, <2>12, Advances
<1> QED BY <1>12, <1>13

LEMMA PushKeeps ==
  ASSUME DInv, Push
  PROVE  DInv' /\ Held' <= Held
<1>1. /\ todo # << >> /\ Head(todo).step = "push" /\ UNCHANGED fixedVars
      /\ todo' = Tail(todo)
      /\ UNCHANGED codingVars /\ UNCHANGED quietVars
      /\ UNCHANGED pending_picture_completions /\ UNCHANGED errors
      /\ ReorderPush(Arg, Materializes(Arg))
  BY DEF Push, Executes, Continue
<1>2. Types /\ Control
  BY DEF DInv
<1>3. UNCHANGED <<output_start_time, draining, next, checkpoint, received, first>>
  BY <1>1, QuietKept
<1>4. CodingTyped' /\ PendingTyped' /\ CallerTyped'
  BY <1>1, <1>2, <1>3, PartsKept
<1>5. UNCHANGED pictureVars /\ Nothing' = Nothing /\ PictureHeld' = PictureHeld
  BY <1>1, CodingKept
<1>6. (current_picture = NoPicture \/ current_skipped_picture = 0)'
  BY <1>2, <1>5, OnePicture
<1>7. PICK i \in Position : i = Arg
  <2>1. Head(todo) \in TypedStep
    BY <1>1, <1>2, StepsCounted
  <2> QED BY <1>1, <2>1 DEF TypedStep, OfPicture, Arg
<1>8. PICK shown \in BOOLEAN : shown = Materializes(i)
  BY DEF Materializes
<1>9. /\ ReorderTyped' /\ OutputsTyped'
      /\ FramesHeld' + Len(reorder') <= FramesHeld + Len(reorder) + 1
  BY <1>1, <1>2, <1>7, <1>8, PushTyped
<1>10. Inside \in Int /\ Inside' \in Int /\ Inside' <= Inside + 1
  <2>1. /\ FramesHeld' \in Nat /\ Len(reorder') \in Nat /\ Inside' \in Nat
        /\ FramesHeld \in Nat /\ Len(reorder) \in Nat /\ Inside \in Nat
        /\ Len(pending_picture_completions) \in Nat /\ PictureHeld \in {0, 1}
    BY <1>1, <1>2, <1>4, <1>9, InsideNext, HeldType, InsideType
  <2>2. PICK rest \in Nat : rest = Len(pending_picture_completions) + PictureHeld
    BY <2>1
  <2>3. Inside = FramesHeld + Len(reorder) + rest /\ Inside' = FramesHeld' + Len(reorder') + rest
    BY <1>1, <1>5, <2>1, <2>2 DEF Inside
  <2> QED BY <1>9, <2>1, <2>3
<1>11. Head(todo).step \in Adds
  BY <1>1 DEF Adds
<1>12. UNCHANGED <<fixedVars, checkpoint>>
  BY <1>1, <1>3
<1>13. /\ Head(todo).step # "finish" /\ (Nothing => Nothing')
       /\ Head(todo).step # "room" /\ Head(todo).step # "reset"
  BY <1>1, <1>5
<1>14. Inside' <= Inside + (IF Head(todo).step \in Adds THEN 1 ELSE 0)
  BY <1>10, <1>11
<1> QED BY <1>1, <1>4, <1>6, <1>9, <1>10, <1>12, <1>13, <1>14, Advances

LEMMA RecordKeeps ==
  ASSUME DInv, Record
  PROVE  DInv' /\ Held' <= Held
<1>1. /\ todo # << >> /\ Head(todo).step = "record" /\ UNCHANGED fixedVars
      /\ todo' = Tail(todo)
      /\ UNCHANGED pictureVars /\ UNCHANGED dpb_configuration /\ UNCHANGED quietVars
      /\ UNCHANGED reorderVars /\ UNCHANGED outputVars
      /\ UNCHANGED pending_picture_completions /\ UNCHANGED errors
      /\ maximum_completed_pts' \in {stream[Arg].pts, maximum_completed_pts}
  BY DEF Record, Executes, Continue
<1>2. Types /\ Control
  BY DEF DInv
<1>3. UNCHANGED <<output_start_time, draining, next, checkpoint, received, first>>
  BY <1>1, QuietKept
<1>4. ReorderTyped' /\ OutputsTyped' /\ PendingTyped' /\ CallerTyped'
  BY <1>1, <1>2, <1>3, PartsKept
<1>5. PICK i \in Position : i = Arg
  <2>1. Head(todo) \in TypedStep
    BY <1>1, <1>2, StepsCounted
  <2> QED BY <1>1, <2>1 DEF TypedStep, OfPicture, Arg
<1>6. CodingTyped'
  <2>1. stream[i].pts \in Nat
    BY <1>2, Constants
  <2>2. maximum_completed_pts' \in Nat \cup {NoTime}
    BY <1>1, <1>2, <1>5, <2>1 DEF Types, CodingTyped
  <2> QED BY <1>1, <1>2, <2>2, SetsFixed DEF Types, CodingTyped, pictureVars
<1>7. (current_picture = NoPicture \/ current_skipped_picture = 0)' /\ (Nothing => Nothing')
  BY <1>1, <1>2, OnePicture
<1>8. Inside \in Int /\ Inside' = Inside
  BY <1>1, <1>2, InsideType, InsideKept DEF outputVars, reorderVars
<1>9. Head(todo).step \notin Adds
  BY <1>1 DEF Adds
<1>10. UNCHANGED <<fixedVars, checkpoint>>
  BY <1>1, <1>3
<1>11. Head(todo).step # "finish" /\ Head(todo).step # "room" /\ Head(todo).step # "reset"
  BY <1>1
<1>12. Inside' \in Int /\ Inside' <= Inside + (IF Head(todo).step \in Adds THEN 1 ELSE 0)
  BY <1>8, <1>9
<1> QED BY <1>1, <1>4, <1>6, <1>7, <1>8, <1>10, <1>11, <1>12, Advances

LEMMA FinishKeeps ==
  ASSUME DInv, Finish
  PROVE  DInv' /\ Held' <= Held
BY FinishSkippedKeeps, FinishNothingKeeps, FinishCurrentKeeps, SpawnKeeps, PushKeeps, RecordKeeps
   DEF Finish

----------
(* The steps of send_packet *)

\* Everything the decoder holds fits, whatever step a call is at.
Bounded == Held <= Workers + MaxReorderDepth + 2

\* A packet is taken only when no output waits.
LEMMA GuardKeeps ==
  ASSUME DInv, Bounded, Guard
  PROVE  DInv' /\ Bounded'
<1>1. /\ todo # << >> /\ Head(todo).step = "guard" /\ UNCHANGED fixedVars
      /\ UNCHANGED codingVars /\ UNCHANGED modeVars
      /\ UNCHANGED reorderVars /\ UNCHANGED outputVars /\ UNCHANGED checkpoint
      /\ UNCHANGED pending_picture_completions /\ UNCHANGED toldVars /\ UNCHANGED errors
      /\ UNCHANGED spanVars
  BY DEF Guard, Executes
<1>2. Types /\ Control
  BY DEF DInv
<1>3. UNCHANGED <<output_start_time, draining, checkpoint, received, first>>
  BY <1>1 DEF modeVars, toldVars, spanVars
<1>4. CodingTyped' /\ ReorderTyped' /\ OutputsTyped' /\ PendingTyped'
      /\ (stream \in Streams /\ parallelism \in Parallelisms)'
  BY <1>1, <1>2, PartsKept
<1>5. UNCHANGED pictureVars /\ Nothing' = Nothing /\ PictureHeld' = PictureHeld
  BY <1>1, CodingKept
<1>6. (current_picture = NoPicture \/ current_skipped_picture = 0)'
  BY <1>2, <1>5, OnePicture
<1>7. PICK i \in Position : i = Arg
  <2>1. Head(todo) \in TypedStep
    BY <1>1, <1>2, StepsCounted
  <2> QED BY <1>1, <2>1 DEF TypedStep, OfPicture, Arg
<1>8. Inside \in Int /\ Inside' = Inside
  BY <1>1, <1>2, <1>5, InsideType, InsideKept DEF outputVars, reorderVars
<1>9. Workers' = Workers
  BY <1>1, SetsFixed
<1>10. next' \in {next, i}
  BY <1>7 DEF Guard
<1>11. CallerTyped'
  <2>1. i \in 1 .. Len(stream) + 1
    BY <1>2 DEF Position
  <2>2. stream' = stream
    BY <1>1 DEF fixedVars
  <2> QED BY <1>1, <1>2, <1>3, <1>10, <2>1, <2>2, SetsFixed DEF Types, CallerTyped
<1>12. CASE outputs # << >>
  <2>1. todo' = << >>
    BY <1>12 DEF Guard, Return
  <2>2. Inside' \in Int /\ Inside' <= Inside
    BY <1>8
  <2>3. DInv' /\ Held' <= Held
    BY <1>1, <1>4, <1>6, <1>8, <1>11, <2>1, <2>2, Ends
  <2>4. Held \in Int /\ Held' \in Int
    <3>1. Inside \in Int /\ Inside' \in Int /\ StepsHeld \in Nat /\ StepsHeld' = 0
      BY <1>1, <1>2, <1>8, <2>1, StepsCounted
    <3> QED BY <3>1 DEF Held
  <2>5. Workers \in Nat /\ MaxReorderDepth \in Nat
    BY <1>2, Constants
  <2> QED BY <1>9, <2>3, <2>4, <2>5 DEF Bounded
<1>13. CASE outputs = << >>
  <2>1. PICK prefix : prefix = IF discontinuous THEN <<Do("discard", 0), Do("reset", i)>> ELSE << >>
    OBVIOUS
  <2>2. PICK packet : packet = PacketSteps(i)
    OBVIOUS
  <2>3. todo' = prefix \o packet
    BY <1>7, <1>13, <2>1, <2>2 DEF Guard
  <2>4. /\ prefix \in Seq(TypedStep) /\ Calm(prefix) /\ AfterFinish(prefix) /\ NoRestore(prefix)
        /\ CountIn(prefix, Adding) = 0 /\ CountIn(prefix, Starting) = 0
    <3>1. CASE discontinuous
      <4>1. /\ Do("discard", 0) \in TypedStep /\ Do("discard", 0).step = "discard"
            /\ Do("reset", i) \in TypedStep /\ Do("reset", i).step = "reset"
        BY PlainSteps, PictureSteps
      <4>2. prefix = <<Do("discard", 0), Do("reset", i)>>
        BY <2>1, <3>1
      <4> QED BY <4>1, <4>2, CalmPair DEF Quiet, Wellformed, Spawning, Restarting
    <3>2. CASE ~ discontinuous
      <4>1. prefix = << >>
        BY <2>1, <3>2
      <4>2. << >> \in Seq(TypedStep) /\ DOMAIN << >> = {}
        BY EmptySeq
      <4>3. Calm(prefix) /\ AfterFinish(prefix) /\ NoRestore(prefix)
        BY <4>1, <4>2 DEF Calm, AfterFinish, NoRestore
      <4> QED BY <4>1, <4>2, <4>3, CountEmpty
    <3> QED BY <3>1, <3>2
  <2>5. /\ packet \in Seq(TypedStep) /\ Calm(packet) /\ AfterFinish(packet) /\ NoRestore(packet)
        /\ CountIn(packet, Adding) = 1 /\ CountIn(packet, Starting) = 1
    BY <1>2, <2>2, PacketBrings DEF Brings, Wellformed, Types
  <2>6. PICK s : s = prefix \o packet
    OBVIOUS
  <2>7. /\ s \in Seq(TypedStep) /\ Calm(s) /\ AfterFinish(s) /\ NoRestore(s)
        /\ CountIn(s, Adding) = 1 /\ CountIn(s, Starting) = 1
    BY <2>4, <2>5, <2>6, Joined DEF NoRestore
  <2>8. TodoTyped' /\ Control'
    <3>1. Follows(s) /\ Opens(s)
      BY <2>7, CalmFollows
    <3>3. CountIn(s, Starting) <= 1
      BY <2>7
    <3>4. todo' = s
      BY <2>3, <2>6
    <3>2. \A k \in DOMAIN s : s[k].step = "restore" => checkpoint' # NoCheckpoint
      BY <2>7 DEF NoRestore
    <3> QED BY <1>1, <1>6, <2>7, <3>1, <3>2, <3>3, <3>4, ControlBegun
  <2>9. StepsHeld' = 1
    BY <2>3, <2>6, <2>7 DEF StepsHeld, CountIn
  <2>10. Held' <= Workers + MaxReorderDepth + 2
    <3>1. FramesHeld = 0
      BY <1>13, CountEmpty DEF FramesHeld
    <3>2. /\ Len(reorder) <= max_num_reorder_frames /\ Len(pending_picture_completions) <= Workers
          /\ max_num_reorder_frames \in 0 .. MaxReorderDepth
      BY <1>2 DEF Types, ReorderTyped, PendingTyped
    <3>3. /\ Len(reorder) \in Nat /\ Len(pending_picture_completions) \in Nat
          /\ PictureHeld \in {0, 1} /\ Workers \in Nat /\ MaxReorderDepth \in Nat
      BY <1>2, HeldType, Constants
    <3>4. Held' = FramesHeld + Len(reorder) + Len(pending_picture_completions) + PictureHeld + 1
      BY <1>8, <2>9 DEF Held, Inside
    <3> QED BY <3>1, <3>2, <3>3, <3>4
  <2> QED BY <1>4, <1>9, <1>11, <2>8, <2>10 DEF DInv, Types, Bounded
<1> QED BY <1>12, <1>13

LEMMA PrepareKeeps ==
  ASSUME DInv, Prepare
  PROVE  DInv' /\ Held' <= Held
<1>1. /\ todo # << >> /\ Head(todo).step = "prepare" /\ UNCHANGED fixedVars
      /\ UNCHANGED codingVars /\ UNCHANGED quietVars
      /\ UNCHANGED reorderVars /\ UNCHANGED outputVars
      /\ UNCHANGED pending_picture_completions /\ UNCHANGED errors
  BY DEF Prepare, Executes
<1>2. Types /\ Control
  BY DEF DInv
<1>3. UNCHANGED <<output_start_time, draining, next, checkpoint, received, first>>
  BY <1>1, QuietKept
<1>4. CodingTyped' /\ ReorderTyped' /\ OutputsTyped' /\ PendingTyped' /\ CallerTyped'
  BY <1>1, <1>2, <1>3, PartsKept
<1>5. UNCHANGED pictureVars /\ Nothing' = Nothing
  BY <1>1, CodingKept
<1>6. (current_picture = NoPicture \/ current_skipped_picture = 0)'
  BY <1>2, <1>5, OnePicture
<1>7. Inside \in Int /\ Inside' = Inside
  BY <1>1, <1>2, <1>5, InsideType, InsideKept DEF outputVars, reorderVars
<1>8. UNCHANGED <<fixedVars, checkpoint>>
  BY <1>1, <1>3
<1>9. ASSUME NEW steps, Quiet(steps), NoRestore(steps), CountIn(steps, Starting) = 0,
             NotStarting(steps), todo' = steps \o Tail(todo)
      PROVE  DInv' /\ Held' <= Held
  <2>1. Wellformed(steps) /\ CountIn(steps, Adding) = 0
    BY <1>9 DEF Quiet
  <2>2. Inside' \in Int /\ Inside' + CountIn(steps, Adding) <= Inside
    BY <1>7, <2>1
  <2> QED BY <1>1, <1>4, <1>5, <1>6, <1>7, <1>8, <1>9, <2>1, <2>2, Inserts
<1>10. ASSUME NEW steps, steps = <<Do("discard", 0), Do("clear", 0)>>
              \/ steps = <<Do("join", 0), Do("drain", 0)>>
       PROVE  Quiet(steps) /\ NoRestore(steps) /\ NotStarting(steps)
              /\ CountIn(steps, Starting) = 0
  <2>1. PICK a, b \in TypedStep : steps = <<a, b>>
                                  /\ a.step \in {"discard", "join"} /\ b.step \in {"clear", "drain"}
    BY <1>10, PlainSteps
  <2>2. Quiet(steps) /\ NoRestore(steps)
    BY <2>1, CalmPair DEF Spawning, Restarting
  <2>3. NotStarting(steps)
    BY <2>1, Two DEF NotStarting
  <2> QED BY <2>2, <2>3 DEF Quiet
<1>11. CASE ~ stream[Arg].idr
  <2>1. todo' = Tail(todo)
    BY <1>11 DEF Prepare, Continue
  <2>2. /\ Head(todo).step # "finish" /\ (Nothing => Nothing')
        /\ Head(todo).step # "room" /\ Head(todo).step # "reset"
    BY <1>1, <1>5
  <2>3. Head(todo).step \notin Adds
    BY <1>1 DEF Adds
  <2>4. Inside' <= Inside + (IF Head(todo).step \in Adds THEN 1 ELSE 0) /\ Inside' \in Int
    BY <1>7, <2>3
  <2> QED BY <1>1, <1>4, <1>6, <1>7, <1>8, <2>1, <2>2, <2>4, Advances
<1>12. CASE stream[Arg].idr
  <2>1. \/ todo' = <<Do("discard", 0), Do("clear", 0)>> \o Tail(todo)
        \/ todo' = <<Do("join", 0), Do("drain", 0)>> \o Tail(todo)
    BY <1>12 DEF Prepare, Before
  <2> QED BY <1>9, <1>10, <2>1
<1> QED BY <1>11, <1>12

LEMMA ClearReorderKeeps ==
  ASSUME DInv, ClearReorder
  PROVE  DInv' /\ Held' <= Held
<1>1. /\ todo # << >> /\ Head(todo).step = "clear" /\ UNCHANGED fixedVars
      /\ todo' = Tail(todo) /\ reorder' = << >>
      /\ UNCHANGED codingVars /\ UNCHANGED quietVars
      /\ UNCHANGED max_num_reorder_frames /\ UNCHANGED outputVars
      /\ UNCHANGED pending_picture_completions /\ UNCHANGED errors
  BY DEF ClearReorder, Executes, Continue
<1>2. Types /\ Control
  BY DEF DInv
<1>3. UNCHANGED <<output_start_time, draining, next, checkpoint, received, first>>
  BY <1>1, QuietKept
<1>4. CodingTyped' /\ OutputsTyped' /\ PendingTyped' /\ CallerTyped'
  BY <1>1, <1>2, <1>3, PartsKept
<1>5. UNCHANGED pictureVars /\ Nothing' = Nothing /\ PictureHeld' = PictureHeld
  BY <1>1, CodingKept
<1>6. (current_picture = NoPicture \/ current_skipped_picture = 0)'
  BY <1>2, <1>5, OnePicture
<1>7. ReorderTyped' /\ Len(reorder') = 0
  <2>1. << >> \in Seq(Entry) /\ Len(<< >>) = 0
    BY EmptySeq
  <2>2. max_num_reorder_frames \in 0 .. MaxReorderDepth /\ MaxReorderDepth \in Nat
    BY <1>2, Constants DEF Types, ReorderTyped
  <2> QED BY <1>1, <2>1, <2>2, SetsFixed DEF ReorderTyped
<1>8. Inside \in Int /\ Inside' \in Int /\ Inside' <= Inside
  <2>1. FramesHeld' = FramesHeld
    BY <1>1, KeptFrames DEF outputVars
  <2>2. /\ Inside = FramesHeld + Len(reorder) + Len(pending_picture_completions) + PictureHeld
        /\ Inside' = FramesHeld + 0 + Len(pending_picture_completions) + PictureHeld
    BY <1>1, <1>5, <1>7, <2>1 DEF Inside
  <2> QED BY <1>2, <2>2, HeldType
<1>9. Head(todo).step \notin Adds
  BY <1>1 DEF Adds
<1>10. UNCHANGED <<fixedVars, checkpoint>>
  BY <1>1, <1>3
<1>11. /\ Head(todo).step # "finish" /\ (Nothing => Nothing')
       /\ Head(todo).step # "room" /\ Head(todo).step # "reset"
  BY <1>1, <1>5
<1>12. Inside' <= Inside + (IF Head(todo).step \in Adds THEN 1 ELSE 0)
  BY <1>8, <1>9
<1> QED BY <1>1, <1>4, <1>6, <1>7, <1>8, <1>10, <1>11, <1>12, Advances

\* A picture starts when the one before is finished.
LEMMA StartsAfresh ==
  ASSUME DInv, todo # << >>, Head(todo).step = "start", UNCHANGED fixedVars
  PROVE  Nothing /\ Arg \in Position
<1>1. Types /\ Control
  BY DEF DInv
<1>2. Nothing
  <2>1. 1 \in DOMAIN todo /\ todo[1].step = "start"
    BY <1>1, StepsCounted, StepShape DEF Types, TodoTyped
  <2>2. ~ AfterFinish(todo)
    BY <2>1 DEF AfterFinish
  <2> QED BY <1>1, <2>2 DEF Control
<1>3. Head(todo) \in TypedStep
  BY <1>1, StepsCounted
<1> QED BY <1>2, <1>3 DEF TypedStep, OfPicture, Arg

LEMMA StartSkippedKeeps ==
  ASSUME DInv, StartSkipped
  PROVE  DInv' /\ Held' <= Held
<1>1. /\ todo # << >> /\ Head(todo).step = "start" /\ UNCHANGED fixedVars
      /\ todo' = Tail(todo) /\ current_skipped_picture' = Arg
      /\ UNCHANGED current_picture /\ UNCHANGED dpb_configuration
      /\ UNCHANGED maximum_completed_pts /\ UNCHANGED quietVars
      /\ UNCHANGED reorderVars /\ UNCHANGED outputVars
      /\ UNCHANGED pending_picture_completions /\ UNCHANGED errors
  BY DEF StartSkipped, Executes, Continue
<1>2. Types /\ Control
  BY DEF DInv
<1>3. UNCHANGED <<output_start_time, draining, next, checkpoint, received, first>>
  BY <1>1, QuietKept
<1>4. ReorderTyped' /\ OutputsTyped' /\ PendingTyped' /\ CallerTyped'
  BY <1>1, <1>2, <1>3, PartsKept
<1>5. Nothing /\ Arg \in Position
  BY <1>1, StartsAfresh
<1>6. CodingTyped'
  BY <1>1, <1>2, <1>5, SetsFixed DEF Types, CodingTyped
<1>7. (current_picture = NoPicture \/ current_skipped_picture = 0)'
  BY <1>1, <1>5 DEF Nothing
<1>8. Inside \in Int /\ Inside' \in Int /\ Inside' <= Inside + 1
  <2>1. FramesHeld' = FramesHeld
    BY <1>1, KeptFrames DEF outputVars
  <2>2. PictureHeld = 0 /\ PictureHeld' \in {0, 1}
    BY <1>5 DEF PictureHeld
  <2>3. /\ Inside = FramesHeld + Len(reorder) + Len(pending_picture_completions) + 0
        /\ Inside' = FramesHeld + Len(reorder) + Len(pending_picture_completions) + PictureHeld'
    BY <1>1, <2>1, <2>2 DEF Inside, reorderVars
  <2>4. FramesHeld \in Nat /\ Len(reorder) \in Nat /\ Len(pending_picture_completions) \in Nat
    BY <1>2, HeldType
  <2> QED BY <2>2, <2>3, <2>4
<1>9. Head(todo).step \in Adds
  BY <1>1 DEF Adds
<1>10. UNCHANGED <<fixedVars, checkpoint>>
  BY <1>1, <1>3
<1>11. Head(todo).step # "room" /\ Head(todo).step # "reset"
  BY <1>1
<1>12. Inside' <= Inside + (IF Head(todo).step \in Adds THEN 1 ELSE 0)
  BY <1>8, <1>9
<1> QED BY <1>1, <1>4, <1>6, <1>7, <1>8, <1>10, <1>11, <1>12, Advances

LEMMA StartRefusedKeeps ==
  ASSUME DInv, StartRefused
  PROVE  DInv' /\ Held' <= Held
<1>1. /\ todo # << >> /\ UNCHANGED fixedVars
      /\ todo' = << >> /\ errors' = errors + 1
      /\ UNCHANGED codingVars /\ UNCHANGED quietVars
      /\ UNCHANGED reorderVars /\ UNCHANGED outputVars
      /\ UNCHANGED pending_picture_completions
  BY DEF StartRefused, Executes, Fail, Return
<1>2. Types /\ Control
  BY DEF DInv
<1>3. UNCHANGED <<output_start_time, draining, next, checkpoint, received, first>>
  BY <1>1, QuietKept
<1>4. CodingTyped' /\ ReorderTyped' /\ OutputsTyped' /\ PendingTyped'
  BY <1>1, <1>2, PartsKept
<1>5. CallerTyped'
  BY <1>1, <1>2, <1>3, SetsFixed DEF Types, CallerTyped, fixedVars
<1>6. UNCHANGED pictureVars
  BY <1>1, CodingKept
<1>7. (current_picture = NoPicture \/ current_skipped_picture = 0)'
  BY <1>2, <1>6, OnePicture
<1>8. Inside \in Int /\ Inside' = Inside
  BY <1>1, <1>2, <1>6, InsideType, InsideKept DEF outputVars, reorderVars
<1>9. Inside' \in Int /\ Inside' <= Inside
  BY <1>8
<1> QED BY <1>1, <1>4, <1>5, <1>7, <1>8, <1>9, Ends

LEMMA StartKeeps ==
  ASSUME DInv, Start
  PROVE  DInv' /\ Held' <= Held
<1>1. /\ todo # << >> /\ Head(todo).step = "start" /\ UNCHANGED fixedVars
      /\ dpb_configuration' = stream[Arg].format
      /\ UNCHANGED current_skipped_picture
      /\ UNCHANGED maximum_completed_pts /\ UNCHANGED outputVars /\ UNCHANGED modeVars
      /\ UNCHANGED next /\ UNCHANGED checkpoint /\ UNCHANGED toldVars /\ UNCHANGED spanVars
      /\ UNCHANGED pending_picture_completions
  BY DEF Start, Executes
<1>2. Types /\ Control
  BY DEF DInv
<1>3. UNCHANGED <<output_start_time, draining, next, checkpoint, received, first>>
  BY <1>1 DEF modeVars, toldVars, spanVars
<1>4. OutputsTyped' /\ PendingTyped'
  BY <1>1, <1>2, PartsKept
<1>5. PICK i \in Position : i = Arg
  BY <1>1, StartsAfresh
<1>6. Nothing
  BY <1>1, StartsAfresh
<1>7. PICK format \in Formats : format = stream[i].format
  BY <1>2, Constants
<1>8. PICK damage \in {"none", "slice", "marking"} :
        /\ current_picture' = [picture |-> i, damage |-> damage, deferred |-> Defers(i)]
        /\ IF damage = "slice" /\ ~ Defers(i) THEN Fail
           ELSE Continue /\ UNCHANGED <<result, errors>>
  BY <1>5 DEF Start
<1>9. CodingTyped'
  <2>1. PICK deferred \in BOOLEAN : deferred = Defers(i)
    BY DEF Defers
  <2>2. deferred => HasPool
    BY <2>1 DEF Defers, FinalizesAsync
  <2>3. current_picture' \in Current
    BY <1>8, <2>1, <2>2 DEF Current, Damages
  <2> QED BY <1>1, <1>2, <1>5, <1>7, <2>3, SetsFixed DEF Types, CodingTyped
<1>10. ReorderTyped' /\ Len(reorder') \in Nat /\ Len(reorder') <= Len(reorder)
  <2>1. Len(reorder) \in Nat /\ MaxReorderDepth \in Nat
    BY <1>2, HeldType, Constants
  <2>2. CASE dpb_configuration = format
    <3>1. UNCHANGED reorderVars
      BY <1>5, <1>7, <2>2 DEF Start
    <3> QED BY <1>1, <1>2, <2>1, <3>1, PartsKept DEF reorderVars
  <2>3. CASE dpb_configuration # format
    <3>1. reorder' = << >> /\ max_num_reorder_frames' = ReorderDepth[format]
      BY <1>5, <1>7, <2>3 DEF Start
    <3>2. ReorderDepth[format] \in 0 .. MaxReorderDepth
      BY DecoderAssumption DEF DecoderAssumption, Formats
    <3>3. << >> \in Seq(Entry) /\ Len(<< >>) = 0
      BY EmptySeq
    <3> QED BY <1>1, <2>1, <3>1, <3>2, <3>3, SetsFixed DEF ReorderTyped
  <2> QED BY <2>2, <2>3
<1>11. (current_picture = NoPicture \/ current_skipped_picture = 0)'
  BY <1>1, <1>6 DEF Nothing
<1>12. Inside \in Int /\ Inside' \in Int /\ Inside' <= Inside + 1
  <2>1. FramesHeld' = FramesHeld
    BY <1>1, KeptFrames DEF outputVars
  <2>2. PictureHeld = 0 /\ PictureHeld' \in {0, 1}
    BY <1>6 DEF PictureHeld
  <2>3. /\ Inside = FramesHeld + Len(reorder) + Len(pending_picture_completions) + 0
        /\ Inside' = FramesHeld + Len(reorder') + Len(pending_picture_completions) + PictureHeld'
    BY <1>1, <2>1, <2>2 DEF Inside
  <2>4. FramesHeld \in Nat /\ Len(reorder) \in Nat /\ Len(pending_picture_completions) \in Nat
    BY <1>2, HeldType
  <2> QED BY <1>10, <2>2, <2>3, <2>4
<1>13. Head(todo).step \in Adds
  BY <1>1 DEF Adds
<1>14. CASE damage = "slice" /\ ~ Defers(i)
  <2>1. todo' = << >> /\ errors' = errors + 1
    BY <1>8, <1>14 DEF Fail, Return
  <2>2. CallerTyped'
    BY <1>1, <1>2, <1>3, <2>1, SetsFixed DEF Types, CallerTyped, fixedVars
  <2> QED BY <1>1, <1>4, <1>9, <1>10, <1>11, <1>12, <1>13, <2>1, <2>2, Ends
<1>15. CASE ~ (damage = "slice" /\ ~ Defers(i))
  <2>1. todo' = Tail(todo) /\ UNCHANGED errors
    BY <1>8, <1>15 DEF Continue
  <2>2. CallerTyped'
    BY <1>1, <1>2, <1>3, <2>1, PartsKept
  <2>3. UNCHANGED <<fixedVars, checkpoint>>
    BY <1>1, <1>3
  <2>4. Head(todo).step # "room" /\ Head(todo).step # "reset"
    BY <1>1
  <2>5. Inside' <= Inside + (IF Head(todo).step \in Adds THEN 1 ELSE 0)
    BY <1>12, <1>13
  <2> QED BY <1>1, <1>4, <1>9, <1>10, <1>11, <1>12, <2>1, <2>2, <2>3, <2>4, <2>5, Advances
<1> QED BY <1>14, <1>15

LEMMA EndSequenceKeeps ==
  ASSUME DInv, EndSequence
  PROVE  DInv' /\ Held' <= Held
<1>1. /\ todo # << >> /\ Head(todo).step = "end sequence" /\ UNCHANGED fixedVars
      /\ todo' = Tail(todo) /\ dpb_configuration' = NoFormat
      /\ UNCHANGED pictureVars /\ UNCHANGED maximum_completed_pts /\ UNCHANGED quietVars
      /\ UNCHANGED reorderVars /\ UNCHANGED outputVars
      /\ UNCHANGED pending_picture_completions /\ UNCHANGED errors
  BY DEF EndSequence, Executes, Continue
<1>2. Types /\ Control
  BY DEF DInv
<1>3. UNCHANGED <<output_start_time, draining, next, checkpoint, received, first>>
  BY <1>1, QuietKept
<1>4. ReorderTyped' /\ OutputsTyped' /\ PendingTyped' /\ CallerTyped'
  BY <1>1, <1>2, <1>3, PartsKept
<1>5. CodingTyped'
  BY <1>1, <1>2, SetsFixed DEF Types, CodingTyped, pictureVars
<1>6. (current_picture = NoPicture \/ current_skipped_picture = 0)' /\ (Nothing => Nothing')
  BY <1>1, <1>2, OnePicture
<1>7. Inside \in Int /\ Inside' = Inside
  BY <1>1, <1>2, NothingMoves
<1>8. Head(todo).step \notin Adds
  BY <1>1 DEF Adds
<1>9. UNCHANGED <<fixedVars, checkpoint>>
  BY <1>1, <1>3
<1>10. Head(todo).step # "finish" /\ Head(todo).step # "room" /\ Head(todo).step # "reset"
  BY <1>1
<1>11. Inside' \in Int /\ Inside' <= Inside + (IF Head(todo).step \in Adds THEN 1 ELSE 0)
  BY <1>7, <1>8
<1> QED BY <1>1, <1>4, <1>5, <1>6, <1>7, <1>9, <1>10, <1>11, Advances

LEMMA EndStreamKeeps ==
  ASSUME DInv, EndStream
  PROVE  DInv' /\ Held' <= Held
<1>1. /\ todo # << >> /\ Head(todo).step = "end stream" /\ UNCHANGED fixedVars
      /\ todo' = Tail(todo) /\ draining' = TRUE
      /\ UNCHANGED codingVars /\ UNCHANGED output_start_time /\ UNCHANGED next
      /\ UNCHANGED checkpoint /\ UNCHANGED toldVars
      /\ UNCHANGED reorderVars /\ UNCHANGED outputVars
      /\ UNCHANGED pending_picture_completions /\ UNCHANGED errors /\ UNCHANGED spanVars
  BY DEF EndStream, Executes, Continue
<1>2. Types /\ Control
  BY DEF DInv
<1>3. CodingTyped' /\ ReorderTyped' /\ OutputsTyped' /\ PendingTyped'
  BY <1>1, <1>2, PartsKept
<1>4. CallerTyped'
  BY <1>1, <1>2, SetsFixed DEF Types, CallerTyped, toldVars, spanVars, fixedVars
<1>5. UNCHANGED pictureVars
  BY <1>1, CodingKept
<1>6. (current_picture = NoPicture \/ current_skipped_picture = 0)' /\ (Nothing => Nothing')
  BY <1>2, <1>5, OnePicture
<1>7. Inside \in Int /\ Inside' = Inside
  BY <1>1, <1>2, <1>5, NothingMoves
<1>8. Head(todo).step \notin Adds
  BY <1>1 DEF Adds
<1>9. UNCHANGED <<fixedVars, checkpoint>>
  BY <1>1
<1>10. Head(todo).step # "finish" /\ Head(todo).step # "room" /\ Head(todo).step # "reset"
  BY <1>1
<1>11. Inside' \in Int /\ Inside' <= Inside + (IF Head(todo).step \in Adds THEN 1 ELSE 0)
  BY <1>7, <1>8
<1> QED BY <1>1, <1>3, <1>4, <1>6, <1>7, <1>9, <1>10, <1>11, Advances

LEMMA AcceptedKeeps ==
  ASSUME DInv, Accepted
  PROVE  DInv' /\ Held' <= Held
<1>1. /\ todo # << >> /\ UNCHANGED fixedVars /\ todo' = << >>
      /\ UNCHANGED codingVars /\ UNCHANGED modeVars /\ UNCHANGED next
      /\ UNCHANGED checkpoint /\ UNCHANGED toldVars
      /\ UNCHANGED reorderVars /\ UNCHANGED outputVars
      /\ UNCHANGED pending_picture_completions /\ UNCHANGED errors /\ UNCHANGED first
  BY DEF Accepted, Executes, Return
<1>2. Types /\ Control
  BY DEF DInv
<1>3. UNCHANGED <<output_start_time, draining, next, checkpoint, received, first>>
  BY <1>1 DEF modeVars, toldVars, spanVars
<1>4. CodingTyped' /\ ReorderTyped' /\ OutputsTyped' /\ PendingTyped' /\ CallerTyped'
  BY <1>1, <1>2, <1>3, PartsKept
<1>5. UNCHANGED pictureVars
  BY <1>1, CodingKept
<1>6. (current_picture = NoPicture \/ current_skipped_picture = 0)'
  BY <1>2, <1>5, OnePicture
<1>7. Inside \in Int /\ Inside' = Inside
  BY <1>1, <1>2, <1>5, NothingMoves
<1>8. Inside' \in Int /\ Inside' <= Inside
  BY <1>7
<1> QED BY <1>1, <1>4, <1>6, <1>7, <1>8, Ends

----------
(* The other calls' steps *)

LEMMA DeliverKeeps ==
  ASSUME DInv, Deliver
  PROVE  DInv' /\ Held' <= Held
<1>1. /\ todo # << >> /\ UNCHANGED fixedVars /\ todo' = << >>
      /\ UNCHANGED codingVars /\ UNCHANGED modeVars /\ UNCHANGED reorderVars
      /\ UNCHANGED announced_format /\ UNCHANGED next /\ UNCHANGED checkpoint
      /\ UNCHANGED pending_picture_completions /\ UNCHANGED errors /\ UNCHANGED first
  BY DEF Deliver, Executes, Return, spanVars
<1>2. Types /\ Control
  BY DEF DInv
<1>3. UNCHANGED <<output_start_time, draining, next, checkpoint>>
  BY <1>1 DEF modeVars
<1>4. CodingTyped' /\ ReorderTyped' /\ PendingTyped'
  BY <1>1, <1>2, PartsKept
<1>5. UNCHANGED pictureVars /\ PictureHeld' = PictureHeld
  BY <1>1, CodingKept
<1>6. (current_picture = NoPicture \/ current_skipped_picture = 0)'
  BY <1>2, <1>5, OnePicture
<1>7. /\ outputs \in Seq(Output) /\ received \in Seq(Position)
      /\ announced_format \in {NoFormat} \cup Formats /\ FramesHeld \in Nat
  BY <1>2, HeldType DEF Types, OutputsTyped, CallerTyped
<1>8. /\ outputs' \in Seq(Output) /\ received' \in Seq(Position)
      /\ CountIn(outputs', Frames) \in Nat /\ CountIn(outputs', Frames) <= CountIn(outputs, Frames)
  <2>1. CASE outputs = << >>
    <3>1. outputs' = outputs /\ received' = received
      BY <2>1 DEF Deliver, toldVars
    <3>2. CountIn(outputs, Frames) \in Nat
      BY <1>7, CountType
    <3> QED BY <1>7, <3>1, <3>2
  <2>2. CASE outputs # << >>
    <3>1. PICK out : out = Head(outputs)
      OBVIOUS
    <3>2. out \in Output /\ Tail(outputs) \in Seq(Output)
      BY <1>7, <2>2, <3>1, HeadTailProperties
    <3>3. outputs' = Tail(outputs)
      BY <2>2 DEF Deliver
    <3>4. received' \in Seq(Position)
      <4>1. CASE out.kind = "FormatChanged"
        <5>1. received' = received
          BY <2>2, <3>1, <4>1 DEF Deliver
        <5> QED BY <1>7, <5>1
      <4>2. CASE out.kind # "FormatChanged"
        <5>1. received' = Append(received, out.value)
          BY <2>2, <3>1, <4>2 DEF Deliver
        <5>2. out.value \in Position
          BY <3>2, <4>2 DEF Output, Frames, Announcements
        <5> QED BY <1>7, <5>1, <5>2, AppendProperties
      <4> QED BY <4>1, <4>2
    <3>5. CountIn(outputs, Frames)
            = (IF Head(outputs) \in Frames THEN 1 ELSE 0) + CountIn(Tail(outputs), Frames)
          /\ CountIn(Tail(outputs), Frames) \in Nat
      BY <1>7, <2>2, <3>2, CountTail, CountType
    <3> QED BY <3>2, <3>3, <3>4, <3>5
  <2> QED BY <2>1, <2>2
<1>9. OutputsTyped'
  BY <1>1, <1>7, <1>8, SetsFixed DEF OutputsTyped
<1>10. CallerTyped'
  BY <1>1, <1>2, <1>3, <1>8, SetsFixed DEF Types, CallerTyped, fixedVars
<1>11. Inside \in Int /\ Inside' \in Int /\ Inside' <= Inside
  <2>1. FramesHeld' = CountIn(outputs', Frames) /\ FramesHeld = CountIn(outputs, Frames)
    BY <1>1, SetsFixed DEF FramesHeld, CountIn
  <2>2. PICK rest \in Nat :
          rest = Len(reorder) + Len(pending_picture_completions) + PictureHeld
    BY <1>2, HeldType
  <2>3. Inside = FramesHeld + rest /\ Inside' = FramesHeld' + rest
    <3>1. reorder' = reorder
      BY <1>1 DEF reorderVars
    <3>2. /\ Inside = FramesHeld + Len(reorder) + Len(pending_picture_completions) + PictureHeld
          /\ Inside' = FramesHeld' + Len(reorder) + Len(pending_picture_completions) + PictureHeld
      BY <1>1, <1>5, <3>1 DEF Inside
    <3>3. /\ FramesHeld \in Nat /\ FramesHeld' \in Nat /\ Len(reorder) \in Nat
          /\ Len(pending_picture_completions) \in Nat /\ PictureHeld \in {0, 1}
      BY <1>2, <1>8, <2>1, HeldType
    <3> QED BY <2>2, <3>2, <3>3
  <2> QED BY <1>7, <1>8, <2>1, <2>3
<1> QED BY <1>1, <1>4, <1>6, <1>9, <1>10, <1>11, Ends

LEMMA ResetKeeps ==
  ASSUME DInv, Reset
  PROVE  DInv' /\ Held' <= Held
<1>1. /\ todo # << >> /\ Head(todo).step = "reset" /\ UNCHANGED fixedVars
      /\ todo' = Tail(todo)
      /\ current_picture' = NoPicture /\ current_skipped_picture' = 0
      /\ dpb_configuration' = NoFormat /\ outputs' = << >> /\ reorder' = << >>
      /\ maximum_completed_pts' = NoTime /\ draining' = FALSE
      /\ received' = << >> /\ first' = Arg /\ errors' = 0
      /\ UNCHANGED <<max_num_reorder_frames, announced_format, output_start_time, next,
                     checkpoint, pending_picture_completions>>
  BY DEF Reset, Executes, Continue
<1>2. Types /\ Control
  BY DEF DInv
<1>3. /\ << >> \in Seq(Entry) /\ << >> \in Seq(Output) /\ << >> \in Seq(Position)
      /\ Len(<< >>) = 0
  BY EmptySeq
<1>4. CodingTyped'
  BY <1>1 DEF CodingTyped
<1>5. ReorderTyped'
  <2>1. max_num_reorder_frames \in 0 .. MaxReorderDepth /\ MaxReorderDepth \in Nat
    BY <1>2, Constants DEF Types, ReorderTyped
  <2> QED BY <1>1, <1>3, <2>1, SetsFixed DEF ReorderTyped
<1>6. OutputsTyped' /\ CallerTyped'
  <2>1. Arg \in Position
    <3>1. Head(todo) \in TypedStep
      BY <1>1, <1>2, StepsCounted
    <3> QED BY <1>1, <3>1 DEF TypedStep, Arg, OfPicture
  <2>2. first' \in Nat
    BY <1>1, <2>1 DEF Position
  <2> QED BY <1>1, <1>2, <1>3, <2>2, SetsFixed DEF Types, OutputsTyped, CallerTyped, fixedVars
<1>7. PendingTyped'
  BY <1>1, <1>2, PartsKept
<1>8. Inside \in Int /\ Inside' \in Int /\ Inside' <= Inside
  <2>1. FramesHeld' = 0 /\ PictureHeld' = 0 /\ Len(reorder') = 0
    BY <1>1, <1>3, CountEmpty DEF FramesHeld, CountIn, PictureHeld, Nothing
  <2>2. Inside' = 0 + 0 + Len(pending_picture_completions) + 0
    BY <1>1, <2>1 DEF Inside
  <2> QED BY <1>2, <2>2, HeldType DEF Inside
<1>9. Head(todo).step \notin Adds
  BY <1>1 DEF Adds
<1>10. UNCHANGED <<fixedVars, checkpoint>> /\ Nothing'
       /\ (current_picture = NoPicture \/ current_skipped_picture = 0)'
  BY <1>1 DEF Nothing
<1>11. Head(todo).step # "room" /\ outputs' = << >> /\ received' = << >>
  BY <1>1
<1>12. Inside' <= Inside + (IF Head(todo).step \in Adds THEN 1 ELSE 0)
  BY <1>8, <1>9
<1> QED BY <1>1, <1>4, <1>5, <1>6, <1>7, <1>8, <1>10, <1>11, <1>12, Advances

LEMMA SetStartKeeps ==
  ASSUME DInv, SetStart
  PROVE  DInv' /\ Held' <= Held
<1>1. /\ todo # << >> /\ Head(todo).step = "set start" /\ UNCHANGED fixedVars
      /\ todo' = << >> /\ output_start_time' = Arg
      /\ UNCHANGED codingVars /\ UNCHANGED draining /\ UNCHANGED next
      /\ UNCHANGED checkpoint /\ UNCHANGED toldVars
      /\ UNCHANGED reorderVars /\ UNCHANGED outputVars
      /\ UNCHANGED pending_picture_completions /\ UNCHANGED errors /\ UNCHANGED first
  BY DEF SetStart, Executes, Return, spanVars
<1>2. Types /\ Control
  BY DEF DInv
<1>3. Arg \in Nat \cup {NoTime}
  <2>1. Head(todo) \in TypedStep
    BY <1>1, <1>2, StepsCounted
  <2> QED BY <1>1, <2>1 DEF TypedStep, Arg
<1>4. CodingTyped' /\ ReorderTyped' /\ OutputsTyped' /\ PendingTyped'
  BY <1>1, <1>2, PartsKept
<1>5. CallerTyped'
  BY <1>1, <1>2, <1>3, SetsFixed DEF Types, CallerTyped, fixedVars, toldVars
<1>6. UNCHANGED pictureVars
  BY <1>1, CodingKept
<1>7. (current_picture = NoPicture \/ current_skipped_picture = 0)'
  BY <1>2, <1>6, OnePicture
<1>8. Inside \in Int /\ Inside' \in Int /\ Inside' <= Inside
  BY <1>1, <1>2, <1>6, NothingMoves
<1> QED BY <1>1, <1>4, <1>5, <1>7, <1>8, Ends

LEMMA ConfigureKeeps ==
  ASSUME DInv, Configure
  PROVE  DInv' /\ Held' <= Held
<1>1. /\ todo # << >> /\ UNCHANGED fixedVars
      /\ todo' = << >> /\ output_start_time' = NoTime /\ announced_format' = NoFormat
      /\ UNCHANGED codingVars /\ UNCHANGED draining /\ UNCHANGED next
      /\ UNCHANGED checkpoint /\ UNCHANGED received
      /\ UNCHANGED reorderVars /\ UNCHANGED outputs
      /\ UNCHANGED pending_picture_completions /\ UNCHANGED errors /\ UNCHANGED first
  BY DEF Configure, Executes, Return, spanVars
<1>2. Types /\ Control
  BY DEF DInv
<1>3. CodingTyped' /\ ReorderTyped' /\ PendingTyped'
  BY <1>1, <1>2, PartsKept
<1>4. OutputsTyped' /\ CallerTyped'
  BY <1>1, <1>2, SetsFixed DEF Types, OutputsTyped, CallerTyped, fixedVars
<1>5. UNCHANGED pictureVars
  BY <1>1, CodingKept
<1>6. (current_picture = NoPicture \/ current_skipped_picture = 0)'
  BY <1>2, <1>5, OnePicture
<1>7. Inside \in Int /\ Inside' \in Int /\ Inside' <= Inside
  <2>1. UNCHANGED <<outputs, reorder, pending_picture_completions>>
    BY <1>1 DEF reorderVars
  <2>2. Inside' = Inside
    BY <1>1, <1>5, <2>1, InsideKept
  <2>3. Inside \in Nat
    BY <1>2, InsideType
  <2> QED BY <2>2, <2>3
<1> QED BY <1>1, <1>3, <1>4, <1>6, <1>7, Ends

LEMMA SnapshotKeeps ==
  ASSUME DInv, Snapshot
  PROVE  DInv' /\ Held' <= Held
<1>1. /\ todo # << >> /\ UNCHANGED fixedVars /\ todo' = << >>
      /\ UNCHANGED codingVars /\ UNCHANGED modeVars /\ UNCHANGED next
      /\ UNCHANGED toldVars /\ UNCHANGED reorderVars /\ UNCHANGED outputVars
      /\ UNCHANGED pending_picture_completions /\ UNCHANGED errors /\ UNCHANGED first
  BY DEF Snapshot, Executes, Return, spanVars
<1>2. Types /\ Control
  BY DEF DInv
<1>3. CodingTyped' /\ ReorderTyped' /\ OutputsTyped' /\ PendingTyped'
  BY <1>1, <1>2, PartsKept
<1>4. checkpoint' \in {NoCheckpoint} \cup Kept
  <2>1. CASE maximum_completed_pts = NoTime \/ dpb_configuration = NoFormat
    <3>1. checkpoint' = checkpoint
      BY <2>1 DEF Snapshot
    <3> QED BY <1>2, <3>1 DEF Types, CallerTyped
  <2>2. CASE ~ (maximum_completed_pts = NoTime \/ dpb_configuration = NoFormat)
    <3>1. checkpoint' = [resume_time |-> maximum_completed_pts,
                         dpb_configuration |-> dpb_configuration,
                         reorder |-> reorder,
                         max_num_reorder_frames |-> max_num_reorder_frames,
                         position |-> next, first |-> first, errors |-> errors]
      BY <2>2 DEF Snapshot
    <3>2. /\ maximum_completed_pts \in Nat /\ dpb_configuration \in Formats
          /\ reorder \in Seq(Entry) /\ max_num_reorder_frames \in 0 .. MaxReorderDepth
          /\ next \in 1 .. Len(stream) + 1 /\ Len(reorder) <= max_num_reorder_frames
          /\ first \in Nat /\ errors \in Nat
      BY <1>2, <2>2 DEF Types, CodingTyped, ReorderTyped, CallerTyped
    <3>3. PICK c : c = [resume_time |-> maximum_completed_pts,
                        dpb_configuration |-> dpb_configuration,
                        reorder |-> reorder,
                        max_num_reorder_frames |-> max_num_reorder_frames,
                        position |-> next, first |-> first, errors |-> errors]
      OBVIOUS
    <3>4. c \in [resume_time : Nat, dpb_configuration : Formats, reorder : Seq(Entry),
                 max_num_reorder_frames : 0 .. MaxReorderDepth,
                 position : 1 .. Len(stream) + 1, first : Nat, errors : Nat]
      BY <3>2, <3>3
    <3>5. Len(c.reorder) <= c.max_num_reorder_frames
      BY <3>2, <3>3
    <3> QED BY <3>1, <3>3, <3>4, <3>5 DEF Kept
  <2> QED BY <2>1, <2>2
<1>5. CallerTyped'
  BY <1>1, <1>2, <1>4, SetsFixed DEF Types, CallerTyped, fixedVars, toldVars, modeVars
<1>6. UNCHANGED pictureVars
  BY <1>1, CodingKept
<1>7. (current_picture = NoPicture \/ current_skipped_picture = 0)'
  BY <1>2, <1>6, OnePicture
<1>8. Inside \in Int /\ Inside' \in Int /\ Inside' <= Inside
  BY <1>1, <1>2, <1>6, NothingMoves
<1> QED BY <1>1, <1>3, <1>5, <1>7, <1>8, Ends

\* What a checkpoint brings back is bounded too.
LEMMA RestoreKeeps ==
  ASSUME DInv, Restore
  PROVE  DInv' /\ Bounded'
<1>1. /\ todo # << >> /\ Head(todo).step = "restore" /\ UNCHANGED fixedVars
      /\ todo' = << >>
      /\ current_picture' = NoPicture /\ current_skipped_picture' = 0
      /\ dpb_configuration' = checkpoint.dpb_configuration
      /\ reorder' = checkpoint.reorder
      /\ max_num_reorder_frames' = checkpoint.max_num_reorder_frames
      /\ outputs' = << >> /\ announced_format' \in {NoFormat, announced_format}
      /\ output_start_time' = Arg /\ maximum_completed_pts' = checkpoint.resume_time
      /\ draining' = FALSE /\ received' = << >>
      /\ first' = checkpoint.first /\ errors' = checkpoint.errors
      /\ UNCHANGED <<next, checkpoint, pending_picture_completions>>
  BY DEF Restore, Executes, Return
<1>2. Types /\ Control
  BY DEF DInv
<1>3. Arg \in Nat \cup {NoTime}
  <2>1. Head(todo) \in TypedStep
    BY <1>1, <1>2, StepsCounted
  <2> QED BY <1>1, <2>1 DEF TypedStep, Arg
<1>4. PICK c \in Kept : c = checkpoint
  <2>1. 1 \in DOMAIN todo /\ todo[1].step = "restore"
    BY <1>1, <1>2, StepsCounted, StepShape DEF Types, TodoTyped
  <2>2. checkpoint # NoCheckpoint
    BY <1>2, <2>1 DEF Control
  <2> QED BY <1>2, <2>2 DEF Types, CallerTyped
<1>5. /\ c.resume_time \in Nat /\ c.dpb_configuration \in Formats /\ c.reorder \in Seq(Entry)
      /\ c.max_num_reorder_frames \in 0 .. MaxReorderDepth
      /\ Len(c.reorder) <= c.max_num_reorder_frames
      /\ c.first \in Nat /\ c.errors \in Nat
  BY DEF Kept
<1>6. << >> \in Seq(Output) /\ << >> \in Seq(Position)
  BY EmptySeq
<1>7. CodingTyped'
  BY <1>1, <1>4, <1>5 DEF CodingTyped
<1>8. ReorderTyped'
  BY <1>1, <1>4, <1>5, SetsFixed DEF ReorderTyped
<1>9. OutputsTyped'
  BY <1>1, <1>2, <1>6, SetsFixed DEF Types, OutputsTyped
<1>10. PendingTyped'
  BY <1>1, <1>2, PartsKept
<1>11. CallerTyped'
  <2>1. first' \in Nat /\ errors' \in Nat
    BY <1>1, <1>4, <1>5
  <2>4. draining' \in BOOLEAN
    BY <1>1
  <2>2. next' \in 1 .. Len(stream') + 1 /\ checkpoint' \in {NoCheckpoint} \cup Kept'
    BY <1>1, <1>2, SetsFixed DEF Types, CallerTyped, fixedVars
  <2>3. received' \in Seq(Position') /\ output_start_time' \in Nat \cup {NoTime}
    BY <1>1, <1>3, <1>6, SetsFixed
  <2> QED BY <2>1, <2>2, <2>3, <2>4 DEF CallerTyped
<1>12. (stream \in Streams /\ parallelism \in Parallelisms)'
  BY <1>1, <1>2, PartsKept
<1>13. TodoTyped' /\ Control'
  BY <1>1, ControlEnded
<1>14. Bounded'
  <2>1. FramesHeld' = 0 /\ PictureHeld' = 0 /\ StepsHeld' = 0
    BY <1>1, CountEmpty DEF FramesHeld, CountIn, PictureHeld, Nothing, StepsHeld
  <2>2. /\ Len(reorder') \in Nat /\ Len(reorder') <= MaxReorderDepth
        /\ Len(pending_picture_completions') \in Nat
        /\ Len(pending_picture_completions') <= Workers
    <3>1. MaxReorderDepth \in Nat
      BY <1>2, Constants
    <3>2. Len(pending_picture_completions) \in Nat /\ Len(pending_picture_completions) <= Workers
      BY <1>2, HeldType DEF Types, PendingTyped
    <3>3. Len(c.reorder) \in Nat
      BY <1>5, LenProperties
    <3> QED BY <1>1, <1>4, <1>5, <3>1, <3>2, <3>3
  <2>3. Held' = 0 + Len(reorder') + Len(pending_picture_completions') + 0 + 0
    BY <2>1 DEF Held, Inside
  <2>4. Workers' = Workers /\ Workers \in Nat /\ MaxReorderDepth \in Nat
    BY <1>1, <1>2, SetsFixed, Constants
  <2> QED BY <2>2, <2>3, <2>4 DEF Bounded
<1> QED BY <1>7, <1>8, <1>9, <1>10, <1>11, <1>12, <1>13, <1>14 DEF DInv, Types

----------
(* The caller and the workers *)

LEMMA BeginsKeeps ==
  ASSUME DInv, NEW steps, Begins(steps), Quiet(steps) \/ steps = << >>,
         NoRestore(steps) \/ checkpoint # NoCheckpoint,
         UNCHANGED checkpoint, next' \in 1 .. Len(stream) + 1
  PROVE  DInv' /\ Held' <= Held
<1>1. /\ todo = << >> /\ todo' = steps /\ UNCHANGED fixedVars
      /\ UNCHANGED codingVars /\ UNCHANGED modeVars
      /\ UNCHANGED toldVars /\ UNCHANGED reorderVars /\ UNCHANGED outputVars
      /\ UNCHANGED pending_picture_completions /\ UNCHANGED errors /\ UNCHANGED first
  BY DEF Begins, Idle, spanVars
<1>2. Types /\ Control
  BY DEF DInv
<1>3. CodingTyped' /\ ReorderTyped' /\ OutputsTyped' /\ PendingTyped'
      /\ (stream \in Streams /\ parallelism \in Parallelisms)'
  BY <1>1, <1>2, PartsKept
<1>4. CallerTyped'
  <2>1. next' \in 1 .. Len(stream') + 1
    BY <1>1 DEF fixedVars
  <2> QED BY <1>1, <1>2, <2>1, SetsFixed DEF Types, CallerTyped, toldVars, modeVars
<1>5. UNCHANGED pictureVars
  BY <1>1, CodingKept
<1>6. (current_picture = NoPicture \/ current_skipped_picture = 0)'
  BY <1>2, <1>5, OnePicture
<1>7. TodoTyped' /\ Control'
  <2>1. CASE Quiet(steps)
    <3>1. /\ steps \in Seq(TypedStep) /\ Follows(steps) /\ Opens(steps) /\ AfterFinish(steps)
          /\ CountIn(steps, Starting) = 0
      BY <2>1 DEF Quiet, Wellformed
    <3>2. CountIn(steps, Starting) <= 1
      BY <3>1
    <3>3. \A k \in DOMAIN steps : steps[k].step = "restore" => checkpoint' # NoCheckpoint
      BY DEF NoRestore
    <3> QED BY <1>1, <1>6, <3>1, <3>2, <3>3, ControlBegun
  <2>2. CASE steps = << >>
    BY <1>1, <1>6, <2>2, ControlEnded
  <2> QED BY <2>1, <2>2
<1>8. Held' <= Held
  <2>1. StepsHeld = 0 /\ StepsHeld' = 0
    <3>1. CountIn(steps, Adding) = 0
      BY CountEmpty DEF Quiet
    <3> QED BY <1>1, <3>1, CountEmpty DEF StepsHeld, CountIn
  <2>2. Inside \in Int /\ Inside' = Inside
    BY <1>1, <1>2, <1>5, NothingMoves
  <2> QED BY <2>1, <2>2 DEF Held
<1> QED BY <1>3, <1>4, <1>7, <1>8 DEF DInv, Types

LEMMA KeyframeIsPosition ==
  ASSUME DInv, NEW k \in Keyframes
  PROVE  k \in Position /\ k \in 1 .. Len(stream) + 1
<1>1. stream \in Seq(Picture)
  BY DecoderAssumption DEF DInv, Types, DecoderAssumption
<1>2. DOMAIN stream = 1 .. Len(stream) /\ Len(stream) \in Nat
  BY <1>1, LenProperties
<1> QED BY <1>2 DEF Keyframes, Position

LEMMA SendPacketKeeps ==
  ASSUME DInv, send_packet
  PROVE  DInv' /\ Held' <= Held
<1>1. next \in DOMAIN stream /\ Begins(<<Do("poll", 0), Do("guard", next)>>)
      /\ next' = next + 1 /\ UNCHANGED checkpoint
  BY DEF send_packet
<1>2. stream \in Seq(Picture)
  BY DecoderAssumption DEF DInv, Types, DecoderAssumption
<1>3. DOMAIN stream = 1 .. Len(stream) /\ Len(stream) \in Nat
  BY <1>2, LenProperties
<1>4. PICK i \in Position : i = next
  BY <1>1, <1>3 DEF Position
<1>5. next' \in 1 .. Len(stream) + 1
  BY <1>1, <1>3
<1>6. PICK steps : steps = <<Do("poll", 0), Do("guard", i)>>
  OBVIOUS
<1>7. Quiet(steps) /\ NoRestore(steps)
  <2>1. /\ Do("poll", 0) \in TypedStep /\ Do("poll", 0).step = "poll"
        /\ Do("guard", i) \in TypedStep /\ Do("guard", i).step = "guard"
    BY PlainSteps, PictureSteps
  <2> QED BY <1>6, <2>1, CalmPair DEF Spawning, Restarting
<1>8. Begins(steps)
  BY <1>1, <1>4, <1>6
<1> QED BY <1>1, <1>5, <1>7, <1>8, BeginsKeeps

LEMMA ReceiveFrameKeeps ==
  ASSUME DInv, receive_frame
  PROVE  DInv' /\ Held' <= Held
<1>1. PICK steps : steps = <<Do("poll", 0), Do("deliver", 0)>>
  OBVIOUS
<1>2. Begins(steps) /\ UNCHANGED checkpoint /\ UNCHANGED next
  BY <1>1 DEF receive_frame, callerVars
<1>3. Quiet(steps) /\ NoRestore(steps)
  BY <1>1, PlainSteps, CalmPair DEF Spawning, Restarting
<1>4. next' \in 1 .. Len(stream) + 1
  BY <1>2 DEF DInv, Types, CallerTyped
<1> QED BY <1>2, <1>3, <1>4, BeginsKeeps

LEMMA DrainKeeps ==
  ASSUME DInv, drain
  PROVE  DInv' /\ Held' <= Held
<1>1. PICK steps : steps = <<Do("finish", 0), Do("join", 0), Do("drain", 0), Do("end stream", 0)>>
  OBVIOUS
<1>2. Begins(steps) /\ UNCHANGED checkpoint /\ UNCHANGED next
  BY <1>1 DEF drain, callerVars
<1>3. Quiet(steps) /\ NoRestore(steps)
  BY <1>1, PlainSteps, CalmFour DEF Spawning, Restarting
<1>4. next' \in 1 .. Len(stream) + 1
  BY <1>2 DEF DInv, Types, CallerTyped
<1> QED BY <1>2, <1>3, <1>4, BeginsKeeps

LEMMA CreateSeekCheckpointKeeps ==
  ASSUME DInv, create_seek_checkpoint
  PROVE  DInv' /\ Held' <= Held
<1>1. PICK steps : steps = <<Do("finish", 0), Do("join", 0), Do("snapshot", 0)>>
  OBVIOUS
<1>2. Begins(steps) /\ UNCHANGED checkpoint /\ UNCHANGED next
  BY <1>1 DEF create_seek_checkpoint, callerVars
<1>3. Quiet(steps) /\ NoRestore(steps)
  BY <1>1, PlainSteps, CalmTriple DEF Spawning, Restarting
<1>4. next' \in 1 .. Len(stream) + 1
  BY <1>2 DEF DInv, Types, CallerTyped
<1> QED BY <1>2, <1>3, <1>4, BeginsKeeps

\* A restart begins with a reset at a keyframe.
LEMMA RestartKeeps ==
  ASSUME DInv, NEW k \in Keyframes, Restarts(k), NEW last \in TypedStep,
         last.step \in Restarting, Begins(<<Do("discard", 0), Do("reset", k), last>>)
  PROVE  DInv' /\ Held' <= Held
<1>1. PICK steps : steps = <<Do("discard", 0), Do("reset", k), last>>
  OBVIOUS
<1>2. k \in Position /\ k \in 1 .. Len(stream) + 1
  BY KeyframeIsPosition
<1>3. Quiet(steps) /\ NoRestore(steps)
  <2>1. /\ Do("discard", 0) \in TypedStep /\ Do("discard", 0).step = "discard"
        /\ Do("reset", k) \in TypedStep /\ Do("reset", k).step = "reset"
    BY <1>2, PlainSteps, PictureSteps
  <2> QED BY <1>1, <2>1, AfterReset
<1>4. Begins(steps) /\ UNCHANGED checkpoint /\ next' \in 1 .. Len(stream) + 1
  BY <1>1, <1>2 DEF Restarts
<1> QED BY <1>3, <1>4, BeginsKeeps

LEMMA FlushKeeps ==
  ASSUME DInv, NEW k \in Keyframes, flush(k)
  PROVE  DInv' /\ Held' <= Held
<1>1. PICK last : last = Do("set start", NoTime)
  OBVIOUS
<1>2. last \in TypedStep /\ last.step \in Restarting
  <2>1. NoTime \in Nat \cup {NoTime} /\ "set start" \in {"set start", "restore"}
    OBVIOUS
  <2> QED BY <1>1, <2>1, TimeStep DEF Restarting
<1>3. Restarts(k) /\ Begins(<<Do("discard", 0), Do("reset", k), last>>)
  BY <1>1 DEF flush
<1> QED BY <1>2, <1>3, RestartKeeps

LEMMA FlushForSeekKeeps ==
  ASSUME DInv, NEW k \in Keyframes, NEW target \in Targets, flush_for_seek(k, target)
  PROVE  DInv' /\ Held' <= Held
<1>1. PICK last : last = Do("set start", target)
  OBVIOUS
<1>2. last \in TypedStep /\ last.step \in Restarting
  <2>1. target \in Nat \cup {NoTime} /\ "set start" \in {"set start", "restore"}
    BY DecoderAssumption DEF DecoderAssumption
  <2> QED BY <1>1, <2>1, TimeStep DEF Restarting
<1>3. Restarts(k) /\ Begins(<<Do("discard", 0), Do("reset", k), last>>)
  BY <1>1 DEF flush_for_seek
<1> QED BY <1>2, <1>3, RestartKeeps

LEMMA ConfigureCallKeeps ==
  ASSUME DInv, NEW k \in Keyframes, configure(k)
  PROVE  DInv' /\ Held' <= Held
<1>1. PICK last : last = Do("configure", 0)
  OBVIOUS
<1>2. last \in TypedStep /\ last.step \in Restarting
  BY <1>1, ConfigureStep DEF Restarting
<1>3. Restarts(k) /\ Begins(<<Do("discard", 0), Do("reset", k), last>>)
  BY <1>1 DEF configure
<1> QED BY <1>2, <1>3, RestartKeeps

LEMMA JumpKeeps ==
  ASSUME DInv, NEW k \in Keyframes, jump(k)
  PROVE  DInv' /\ Held' <= Held
<1>1. PICK steps : steps = << >>
  OBVIOUS
<1>2. Begins(steps) /\ Restarts(k)
  BY <1>1 DEF jump
<1>3. UNCHANGED checkpoint /\ next' \in 1 .. Len(stream) + 1
  BY <1>2, KeyframeIsPosition DEF Restarts
<1>4. NoRestore(steps)
  BY <1>1 DEF NoRestore
<1> QED BY <1>1, <1>2, <1>3, <1>4, BeginsKeeps

LEMMA RestoreSeekCheckpointKeeps ==
  ASSUME DInv, NEW target \in Targets, restore_seek_checkpoint(target)
  PROVE  DInv' /\ Held' <= Held
<1>1. checkpoint # NoCheckpoint /\ UNCHANGED checkpoint
  BY DEF restore_seek_checkpoint
<1>2. PICK c \in Kept : c = checkpoint
  BY <1>1 DEF DInv, Types, CallerTyped
<1>3. CASE target <= checkpoint.resume_time
  <2>1. PICK steps : steps = << >>
    OBVIOUS
  <2>2. Begins(steps) /\ next' = next
    BY <1>3, <2>1 DEF restore_seek_checkpoint
  <2>3. next' \in 1 .. Len(stream) + 1
    BY <2>2 DEF DInv, Types, CallerTyped
  <2> QED BY <1>1, <2>1, <2>2, <2>3, BeginsKeeps
<1>4. CASE ~ (target <= checkpoint.resume_time)
  <2>1. PICK steps : steps = <<Do("discard", 0), Do("restore", target)>>
    OBVIOUS
  <2>2. Begins(steps) /\ next' = checkpoint.position
    BY <1>4, <2>1 DEF restore_seek_checkpoint
  <2>3. next' \in 1 .. Len(stream) + 1
    BY <1>2, <2>2 DEF Kept
  <2>4. Quiet(steps)
    <3>1. target \in Nat \cup {NoTime} /\ "restore" \in {"set start", "restore"}
      BY DecoderAssumption DEF DecoderAssumption
    <3>2. Do("restore", target) \in TypedStep /\ Do("restore", target).step = "restore"
      BY <3>1, TimeStep
    <3>3. Do("discard", 0) \in TypedStep /\ Do("discard", 0).step = "discard"
      BY PlainSteps
    <3> QED BY <2>1, <3>2, <3>3, CalmPair DEF Spawning, Restarting
  <2> QED BY <1>1, <2>2, <2>3, <2>4, BeginsKeeps
<1> QED BY <1>3, <1>4

LEMMA RetargetKeeps ==
  ASSUME DInv, NEW target \in Targets, retarget_seek_forward(target)
  PROVE  DInv' /\ Held' <= Held
<1>1. /\ todo = << >> /\ todo' = todo /\ UNCHANGED fixedVars
      /\ UNCHANGED codingVars /\ UNCHANGED draining /\ UNCHANGED reorderVars
      /\ UNCHANGED callerVars /\ UNCHANGED pending_picture_completions /\ UNCHANGED errors
      /\ UNCHANGED first /\ output_start_time' = target /\ Retarget(target)
      /\ received' = Retain(received, {k \in DOMAIN received : NotBefore(target, received[k])})
  BY DEF retarget_seek_forward, Idle, spanVars
<1>2. Types /\ Control
  BY DEF DInv
<1>3. UNCHANGED next /\ UNCHANGED checkpoint
  BY <1>1 DEF callerVars
<1>4. CodingTyped' /\ ReorderTyped' /\ PendingTyped'
      /\ (stream \in Streams /\ parallelism \in Parallelisms)'
  BY <1>1, <1>2, PartsKept
<1>5. /\ outputs \in Seq(Output) /\ received \in Seq(Position)
      /\ announced_format \in {NoFormat} \cup Formats
  BY <1>2 DEF Types, OutputsTyped, CallerTyped
<1>6. CallerTyped'
  <2>1. received' \in Seq(Position)
    BY <1>1, <1>5, RetainedWas
  <2>2. output_start_time' \in Nat \cup {NoTime}
    BY <1>1, DecoderAssumption DEF DecoderAssumption
  <2> QED BY <1>1, <1>2, <1>3, <2>1, <2>2, SetsFixed DEF Types, CallerTyped, fixedVars
<1>7. /\ outputs' \in Seq(Output) /\ announced_format' \in {NoFormat} \cup Formats
      /\ CountIn(outputs', Frames) \in Nat /\ CountIn(outputs', Frames) <= CountIn(outputs, Frames)
  <2>1. CountIn(outputs, Frames) \in Nat
    BY <1>5, CountType
  <2>2. CASE SomeFrameFrom(target)
    <3>1. PICK kept : kept = {k \in DOMAIN outputs : IsFrame(k) => NotBefore(target, outputs[k].value)}
      OBVIOUS
    <3>2. outputs' = Retain(outputs, kept) /\ announced_format' = announced_format
      BY <1>1, <2>2, <3>1 DEF Retarget, QueuedFrom
    <3>3. Retain(outputs, kept) \in Seq(Output)
      BY <1>5, RetainedWas
    <3>4. CountIn(Retain(outputs, kept), Frames) <= CountIn(outputs, Frames)
      BY <1>5, RetainedFewer
    <3>5. CountIn(Retain(outputs, kept), Frames) \in Nat
      BY <3>3, CountType
    <3> QED BY <1>5, <3>2, <3>3, <3>4, <3>5
  <2>3. CASE ~ SomeFrameFrom(target)
    <3>1. outputs' = << >> /\ announced_format' \in {NoFormat, announced_format}
      BY <1>1, <2>3 DEF Retarget
    <3>2. << >> \in Seq(Output) /\ CountIn(<< >>, Frames) = 0
      BY EmptySeq, CountEmpty
    <3> QED BY <1>5, <2>1, <3>1, <3>2
  <2> QED BY <2>2, <2>3
<1>8. OutputsTyped'
  BY <1>1, <1>7, SetsFixed DEF OutputsTyped
<1>9. TodoTyped' /\ Control'
  <2>1. (current_picture = NoPicture \/ current_skipped_picture = 0)'
    BY <1>1, <1>2, CodingKept, OnePicture
  <2> QED BY <1>1, <2>1, ControlEnded
<1>10. Held' <= Held
  <2>1. FramesHeld' = CountIn(outputs', Frames) /\ FramesHeld = CountIn(outputs, Frames)
    BY <1>1, SetsFixed DEF FramesHeld, CountIn
  <2>2. PICK rest \in Nat :
          rest = Len(reorder) + Len(pending_picture_completions) + PictureHeld + StepsHeld
    BY <1>2, HeldType
  <2>3. Held = FramesHeld + rest /\ Held' = FramesHeld' + rest
    <3>1. reorder' = reorder /\ PictureHeld' = PictureHeld /\ StepsHeld' = StepsHeld
      BY <1>1, CodingKept DEF reorderVars, StepsHeld, CountIn
    <3>2. /\ Held = FramesHeld + Len(reorder) + Len(pending_picture_completions)
                      + PictureHeld + StepsHeld
          /\ Held' = FramesHeld' + Len(reorder) + Len(pending_picture_completions)
                       + PictureHeld + StepsHeld
      BY <1>1, <3>1 DEF Held, Inside
    <3>3. /\ FramesHeld \in Nat /\ FramesHeld' \in Nat /\ Len(reorder) \in Nat
          /\ Len(pending_picture_completions) \in Nat /\ PictureHeld \in {0, 1}
          /\ StepsHeld \in Nat
      BY <1>2, <1>7, <2>1, HeldType
    <3> QED BY ONLY <2>2, <3>2, <3>3
  <2>4. FramesHeld' \in Nat /\ FramesHeld \in Nat /\ FramesHeld' <= FramesHeld
    BY <1>2, <1>7, <2>1, HeldType
  <2> QED BY ONLY <2>2, <2>3, <2>4
<1> QED BY <1>4, <1>6, <1>8, <1>9, <1>10 DEF DInv, Types

LEMMA WorkerAnswersKeeps ==
  ASSUME DInv, WorkerAnswers
  PROVE  DInv' /\ Held' <= Held
<1>1. PICK p : p = pending_picture_completions
  OBVIOUS
<1>2. PICK k \in DOMAIN p : pending_picture_completions' = [p EXCEPT ![k].ready = TRUE]
  BY <1>1 DEF WorkerAnswers
<1>3. /\ UNCHANGED fixedVars /\ UNCHANGED todo /\ UNCHANGED codingVars /\ UNCHANGED modeVars
      /\ UNCHANGED reorderVars /\ UNCHANGED outputVars /\ UNCHANGED callerVars
      /\ UNCHANGED toldVars /\ UNCHANGED errors /\ UNCHANGED spanVars
  BY DEF WorkerAnswers
<1>4. Types /\ Control
  BY DEF DInv
<1>5. p \in Seq(Completion) /\ Len(p) <= Workers /\ Len(p) \in Nat
  BY <1>1, <1>4, HeldType DEF Types, PendingTyped
<1>6. PICK q : q = [p EXCEPT ![k].ready = TRUE]
  OBVIOUS
<1>7. q \in Seq(Completion) /\ Len(q) = Len(p)
  <2>1. DOMAIN p = 1 .. Len(p) /\ \A j \in 1 .. Len(p) : p[j] \in Completion
    BY <1>5, LenProperties, ElementOfSeq
  <2>2. PICK c \in Completion : c = p[k]
    BY <1>2, <2>1
  <2>3. [c EXCEPT !.ready = TRUE] \in Completion
    BY DEF Completion
  <2>4. DOMAIN q = 1 .. Len(p) /\ \A j \in 1 .. Len(p) : q[j] \in Completion
    BY <1>2, <1>6, <2>1, <2>2, <2>3
  <2>5. q = [j \in 1 .. Len(p) |-> q[j]]
    BY <1>6, <2>1
  <2>6. q \in [1 .. Len(p) -> Completion]
    BY <2>4, <2>5
  <2>7. q \in Seq(Completion)
    BY <1>5, <2>6, SeqDef
  <2>8. DOMAIN q = 1 .. Len(q) /\ Len(q) \in Nat
    BY <2>7, LenProperties
  <2>9. Len(q) = Len(p)
    <3>1. 1 .. Len(q) = 1 .. Len(p)
      BY <2>4, <2>8
    <3> QED BY <1>5, <2>7, <2>4, LenProperties
  <2> QED BY <2>7, <2>9
<1>8. PendingTyped'
  BY <1>2, <1>3, <1>5, <1>6, <1>7, SetsFixed DEF PendingTyped
<1>9. UNCHANGED <<output_start_time, draining, next, checkpoint, received, first>>
  BY <1>3 DEF modeVars, callerVars, toldVars, spanVars
<1>10. /\ CodingTyped' /\ ReorderTyped' /\ OutputsTyped' /\ CallerTyped'
       /\ (stream \in Streams /\ parallelism \in Parallelisms)'
  BY <1>3, <1>4, <1>9, PartsKept
<1>11. UNCHANGED pictureVars /\ PictureHeld' = PictureHeld
  BY <1>3, CodingKept
<1>12. TodoTyped' /\ Control'
  <2>1. UNCHANGED <<fixedVars, todo, checkpoint, pictureVars>> /\ TodoTyped
    BY <1>3, <1>4, <1>9, <1>11 DEF Types
  <2>2. UNCHANGED <<outputs, received>>
    BY <1>3, <1>9 DEF outputVars
  <2>3. /\ Len(pending_picture_completions) \in Nat /\ Len(pending_picture_completions') \in Nat
        /\ Len(pending_picture_completions') <= Len(pending_picture_completions)
    BY <1>1, <1>2, <1>5, <1>6, <1>7
  <2>4. Workers \in Int
    BY <1>4, Constants
  <2> QED BY <1>4, <2>1, <2>2, <2>3, <2>4, ControlKept
<1>13. Held' <= Held
  <2>1. FramesHeld' = FramesHeld /\ reorder' = reorder /\ StepsHeld' = StepsHeld
    BY <1>3, KeptFrames DEF outputVars, reorderVars, StepsHeld, CountIn
  <2>2. Len(pending_picture_completions') = Len(pending_picture_completions)
    BY <1>1, <1>2, <1>6, <1>7
  <2>3. Held' = Held
    BY <1>11, <2>1, <2>2 DEF Held, Inside
  <2>4. Held \in Nat
    BY <1>4, HeldType DEF Held, Inside
  <2> QED BY <2>3, <2>4
<1> QED BY <1>8, <1>10, <1>12, <1>13 DEF DInv, Types

----------
(* Every step of the program *)

LEMMA StepKeeps ==
  ASSUME DInv, Step, ~ Guard, ~ Restore
  PROVE  DInv' /\ Held' <= Held
<1>1. CASE Poll \/ Join \/ Room \/ Discard \/ DrainReorder \/ Finish
  BY <1>1, PollKeeps, JoinKeeps, RoomKeeps, DiscardKeeps, DrainReorderKeeps, FinishKeeps
<1>2. CASE Send
  <2>1. \/ Prepare \/ ClearReorder \/ StartSkipped \/ StartRefused \/ Start
        \/ EndSequence \/ EndStream \/ Accepted
    BY <1>2 DEF Send
  <2> QED BY <2>1, PrepareKeeps, ClearReorderKeeps, StartSkippedKeeps, StartRefusedKeeps,
             StartKeeps, EndSequenceKeeps, EndStreamKeeps, AcceptedKeeps
<1>3. CASE Reconfigure
  <2>1. Deliver \/ Reset \/ SetStart \/ Configure \/ Snapshot
    BY <1>3 DEF Reconfigure
  <2> QED BY <2>1, DeliverKeeps, ResetKeeps, SetStartKeeps, ConfigureKeeps, SnapshotKeeps
<1> QED BY <1>1, <1>2, <1>3 DEF Step

LEMMA CallKeeps ==
  ASSUME DInv, Call
  PROVE  DInv' /\ Held' <= Held
<1>1. CASE send_packet \/ receive_frame \/ drain \/ create_seek_checkpoint
  BY <1>1, SendPacketKeeps, ReceiveFrameKeeps, DrainKeeps, CreateSeekCheckpointKeeps
<1>2. ASSUME NEW k \in Keyframes, flush(k) \/ configure(k) \/ jump(k)
      PROVE  DInv' /\ Held' <= Held
  BY <1>2, FlushKeeps, ConfigureCallKeeps, JumpKeeps
<1>3. ASSUME NEW k \in Keyframes, NEW target \in Targets, flush_for_seek(k, target)
      PROVE  DInv' /\ Held' <= Held
  BY <1>3, FlushForSeekKeeps
<1>4. ASSUME NEW target \in Targets,
             restore_seek_checkpoint(target) \/ retarget_seek_forward(target)
      PROVE  DInv' /\ Held' <= Held
  BY <1>4, RestoreSeekCheckpointKeeps, RetargetKeeps
<1> QED BY <1>1, <1>2, <1>3, <1>4 DEF Call

LEMMA AlwaysFixed ==
  ASSUME [Next]_vars
  PROVE  UNCHANGED fixedVars
<1>1. CASE Step
  BY <1>1 DEF Step, Poll, Join, Room, Discard, DrainReorder, Finish, FinishSkipped,
              FinishNothing, FinishCurrent, Spawn, Push, Record, Send, Guard, Prepare,
              ClearReorder, StartSkipped, StartRefused, Start, EndSequence, EndStream,
              Accepted, Reconfigure, Deliver, Reset, SetStart, Configure, Snapshot, Restore,
              Executes
<1>2. CASE WorkerAnswers
  BY <1>2 DEF WorkerAnswers
<1>3. CASE Call
  <2>1. ASSUME NEW steps, Begins(steps)
        PROVE  UNCHANGED fixedVars
    BY <2>1 DEF Begins
  <2>2. ASSUME NEW target, restore_seek_checkpoint(target)
        PROVE  UNCHANGED fixedVars
    BY <2>1, <2>2 DEF restore_seek_checkpoint
  <2> QED BY <1>3, <2>1, <2>2 DEF Call, send_packet, receive_frame, drain,
             create_seek_checkpoint, flush, configure, jump, flush_for_seek,
             retarget_seek_forward
<1>4. CASE UNCHANGED vars
  BY <1>4 DEF vars
<1> QED BY <1>1, <1>2, <1>3, <1>4 DEF Next

LEMMA EveryStepKeeps ==
  ASSUME DInv, Bounded, [Next]_vars
  PROVE  DInv' /\ Bounded'
<1>1. CASE Guard
  BY <1>1, GuardKeeps
<1>2. CASE Restore
  BY <1>2, RestoreKeeps
<1>3. CASE UNCHANGED vars
  <2>1. Types' /\ Control' /\ Held' = Held /\ Workers' = Workers
    <3>1. /\ UNCHANGED fixedVars /\ UNCHANGED todo /\ UNCHANGED codingVars
          /\ UNCHANGED reorderVars /\ UNCHANGED outputVars
          /\ UNCHANGED pending_picture_completions
          /\ UNCHANGED <<output_start_time, draining, next, checkpoint, received, first, errors>>
          /\ UNCHANGED pictureVars
      BY <1>3 DEF vars, codingVars, modeVars, callerVars, toldVars, spanVars
    <3>2. Types'
      BY <3>1, PartsKept DEF DInv, Types
    <3>3. Workers' = Workers
      BY <3>1, SetsFixed
    <3>4. Control'
      BY <3>1, <3>3 DEF DInv, Control, HeadReady, Nothing, Follows, AfterFinish, CountIn,
                        pictureVars, outputVars
    <3>5. FramesHeld' = FramesHeld /\ PictureHeld' = PictureHeld /\ StepsHeld' = StepsHeld
          /\ reorder' = reorder
      BY <3>1, KeptFrames, CodingKept DEF StepsHeld, CountIn, outputVars, reorderVars
    <3> QED BY <3>1, <3>2, <3>3, <3>4, <3>5 DEF Held, Inside
  <2> QED BY <2>1 DEF DInv, Bounded
<1>4. CASE Next /\ ~ Guard /\ ~ Restore
  <2>1. DInv' /\ Held' <= Held
    BY <1>4, StepKeeps, CallKeeps, WorkerAnswersKeeps DEF Next
  <2>2. Held \in Int /\ Workers \in Int /\ MaxReorderDepth \in Int
    BY HeldType, Constants DEF DInv, Held, Inside
  <2>3. UNCHANGED fixedVars
    BY <1>4, AlwaysFixed
  <2>4. Workers' = Workers
    BY <2>3, SetsFixed
  <2>5. Held' \in Int
    <3>1. ReorderTyped' /\ OutputsTyped' /\ PendingTyped' /\ TodoTyped'
      BY <2>1 DEF DInv, Types
    <3>2. Inside' \in Nat
      BY <2>3, <3>1, InsideNext
    <3>3. todo' \in Seq(TypedStep)
      BY <2>3, <3>1, SetsFixed DEF TodoTyped
    <3>4. StepsHeld' = CountIn(todo', Adding) /\ CountIn(todo', Adding) \in Nat
      BY <3>3, CountType DEF StepsHeld, CountIn
    <3>5. Held' = Inside' + StepsHeld'
      BY DEF Held
    <3> QED BY <3>2, <3>4, <3>5
  <2>6. PICK bound : bound = Workers + MaxReorderDepth + 2
    OBVIOUS
  <2>7. Bounded' <=> Held' <= bound
    BY <2>4, <2>6 DEF Bounded
  <2>8. Held <= bound /\ bound \in Int
    BY <2>2, <2>6 DEF Bounded
  <2> QED BY <2>1, <2>2, <2>5, <2>7, <2>8
<1> QED BY <1>1, <1>2, <1>3, <1>4

LEMMA InitKeeps ==
  ASSUME Init
  PROVE  DInv /\ Bounded
<1>1. << >> \in Seq(TypedStep) /\ << >> \in Seq(Entry) /\ << >> \in Seq(Output)
      /\ << >> \in Seq(Completion) /\ << >> \in Seq(Position)
      /\ DOMAIN << >> = {} /\ Len(<< >>) = 0
  BY EmptySeq
<1>2. /\ stream \in Streams /\ parallelism \in Parallelisms
      /\ todo = << >> /\ current_picture = NoPicture /\ current_skipped_picture = 0
      /\ dpb_configuration = NoFormat /\ maximum_completed_pts = NoTime
      /\ reorder = << >> /\ max_num_reorder_frames = 0
      /\ outputs = << >> /\ announced_format = NoFormat
      /\ output_start_time = NoTime /\ draining = FALSE
      /\ pending_picture_completions = << >> /\ next = 1 /\ checkpoint = NoCheckpoint
      /\ received = << >> /\ first = 1 /\ errors = 0
  BY DEF Init
<1>3. MaxReorderDepth \in Nat /\ Len(stream) \in Nat
  <2>1. stream \in Seq(Picture)
    BY <1>2, DecoderAssumption DEF DecoderAssumption
  <2> QED BY <2>1, DecoderAssumption, LenProperties DEF DecoderAssumption
<1>4. Workers \in Nat
  <2>1. parallelism \in [auto : BOOLEAN, threads : Nat \ {0}]
    BY <1>2, DecoderAssumption DEF DecoderAssumption
  <2>2. PICK t \in Nat \ {0} : t = parallelism.threads
    BY <2>1
  <2> QED BY <2>2 DEF Workers, HasPool, PendingLimit
<1>5. TodoTyped /\ OutputsTyped /\ CodingTyped
  BY <1>1, <1>2 DEF TodoTyped, OutputsTyped, CodingTyped
<1>6. ReorderTyped /\ PendingTyped
  BY <1>1, <1>2, <1>3, <1>4 DEF ReorderTyped, PendingTyped
<1>7. CallerTyped
  <2>1. next \in 1 .. Len(stream) + 1
    BY <1>2, <1>3
  <2>2. output_start_time \in Nat \cup {NoTime} /\ draining \in BOOLEAN
    BY <1>2
  <2>3. received \in Seq(Position) /\ checkpoint \in {NoCheckpoint} \cup Kept
    BY <1>1, <1>2
  <2>4. first \in Nat /\ errors \in Nat
    BY <1>2
  <2> QED BY <2>1, <2>2, <2>3, <2>4 DEF CallerTyped
<1>8. Control
  <2>1. CountIn(todo, Starting) = 0
    BY <1>2, CountEmpty
  <2>2. CountIn(todo, Starting) <= 1
    BY <2>1
  <2>3. Follows(todo) /\ HeadReady /\ Nothing
    BY <1>1, <1>2 DEF Follows, HeadReady, Nothing
  <2> QED BY <1>1, <1>2, <2>2, <2>3 DEF Control
<1>9. Bounded
  <2>1. FramesHeld = 0 /\ StepsHeld = 0 /\ PictureHeld = 0
    BY <1>2, CountEmpty DEF FramesHeld, StepsHeld, PictureHeld, Nothing
  <2>2. Held = 0 + 0 + 0 + 0 + 0
    BY <1>1, <1>2, <2>1 DEF Held, Inside
  <2> QED BY <1>3, <1>4, <2>2 DEF Bounded
<1> QED BY <1>2, <1>5, <1>6, <1>7, <1>8, <1>9 DEF DInv, Types

\* The inductive invariant of the decoder's control: types, what the steps left
\* of a call say of the state, and what is held with the steps still to run.
THEOREM ControlInductive == Spec => [](DInv /\ Bounded)
<1>1. Init => DInv /\ Bounded
  BY InitKeeps
<1>2. (DInv /\ Bounded) /\ [Next]_vars => (DInv /\ Bounded)'
  BY EveryStepKeeps
<1> QED BY <1>1, <1>2, PTL DEF Spec

\* Every variable keeps its type, whatever streams, executors, reorder depths
\* and calls the program is given.
THEOREM TypeCorrect == Spec => []TypeOK
<1>1. DInv => TypeOK
  <2>1. SUFFICES ASSUME DInv PROVE TypeOK
    OBVIOUS
  <2>2. /\ current_picture \in {NoPicture} \cup Current
        /\ current_skipped_picture \in {0} \cup Position
        /\ dpb_configuration \in {NoFormat} \cup Formats
        /\ maximum_completed_pts \in Nat \cup {NoTime}
        /\ reorder \in Seq(Entry) /\ max_num_reorder_frames \in 0 .. MaxReorderDepth
        /\ outputs \in Seq(Output) /\ announced_format \in {NoFormat} \cup Formats
        /\ pending_picture_completions \in Seq(Completion)
        /\ output_start_time \in Nat \cup {NoTime} /\ draining \in BOOLEAN
        /\ next \in 1 .. Len(stream) + 1 /\ errors \in Nat
        /\ stream \in Streams /\ parallelism \in Parallelisms
    BY <2>1 DEF DInv, Types, CodingTyped, ReorderTyped, OutputsTyped, PendingTyped, CallerTyped
  <2>3. current_picture.picture \in {0} \cup Position
    BY <2>2 DEF Current, NoPicture
  <2>4. \A k \in DOMAIN reorder : reorder[k].picture \in Position
    <3>1. \A k \in DOMAIN reorder : reorder[k] \in Entry
      BY <2>2, ElementOfSeq, LenProperties
    <3> QED BY <3>1 DEF Entry
  <2>5. max_num_reorder_frames \in Nat
    BY <2>1, <2>2, Constants DEF DInv
  <2>6. \A k \in DOMAIN outputs : outputs[k].kind \in {"Frame", "FormatChanged"}
    <3>1. \A k \in DOMAIN outputs : outputs[k] \in Output
      BY <2>2, ElementOfSeq, LenProperties
    <3> QED BY <3>1 DEF Output, Frames, Announcements
  <2>7. \A k \in DOMAIN pending_picture_completions :
          pending_picture_completions[k].picture \in Position
    <3>1. \A k \in DOMAIN pending_picture_completions :
            pending_picture_completions[k] \in Completion
      BY <2>2, ElementOfSeq, LenProperties
    <3> QED BY <3>1 DEF Completion
  <2> QED BY <2>2, <2>3, <2>4, <2>5, <2>6, <2>7 DEF TypeOK, Position, Formats
<1> QED BY <1>1, ControlInductive, PTL

\* Back-pressure (NeedOutput) bounds what is in the decoder between calls, for
\* every number of threads and reorder depth, however calls are mixed.
THEOREM InFlightIsBounded == Spec => []InFlightBounded
<1>1. DInv /\ Bounded => InFlightBounded
  <2>1. SUFFICES ASSUME DInv, Bounded, Idle PROVE InFlightBounded
    BY DEF InFlightBounded
  <2>2. Types /\ todo = << >>
    BY <2>1 DEF DInv, Idle
  <2>3. StepsHeld = 0
    BY <2>2, CountEmpty DEF StepsHeld
  <2>4. FramesQueued = FramesHeld
    <3>1. outputs \in Seq(Output)
      BY <2>2 DEF Types, OutputsTyped
    <3>2. \A k \in DOMAIN outputs : outputs[k] \in Output
      BY <3>1, ElementOfSeq, LenProperties
    <3>3. \A k \in DOMAIN outputs : IsFrame(k) <=> outputs[k] \in Frames
      BY <3>2 DEF IsFrame, Output, Frames, Announcements
    <3>4. {k \in DOMAIN outputs : IsFrame(k)} = {k \in DOMAIN outputs : outputs[k] \in Frames}
      BY <3>3
    <3> QED BY <3>4 DEF FramesQueued, FramesHeld, CountIn
  <2>5. /\ FramesHeld \in Nat /\ Len(reorder) \in Nat
        /\ Len(pending_picture_completions) \in Nat /\ PictureHeld \in {0, 1}
    BY <2>2, HeldType
  <2>6. Held = FramesHeld + Len(reorder) + Len(pending_picture_completions) + PictureHeld
    BY <2>3, <2>5 DEF Held, Inside
  <2>7. PictureHeld
          = IF current_picture = NoPicture /\ current_skipped_picture = 0 THEN 0 ELSE 1
    BY DEF PictureHeld, Nothing
  <2>8. Held <= (IF HasPool THEN PendingLimit ELSE 0) + MaxReorderDepth + 2
    BY <2>1, <2>2, Constants DEF Bounded
  <2> QED BY <2>4, <2>6, <2>7, <2>8 DEF InFlightBounded
<1> QED BY <1>1, ControlInductive, PTL

----------
(* What a step does to the output *)

\* At most one picture leaves the reorder buffer, nothing else happens.
Ordinary ==
  /\ UNCHANGED <<output_start_time, toldVars>>
  /\ UNCHANGED outputVars \/ \E entry \in Entry : QueueFrame(entry)

LEMMA PushQueues ==
  ASSUME Types, UNCHANGED fixedVars, NEW i \in Position, NEW shown \in BOOLEAN,
         ReorderPush(i, shown)
  PROVE  UNCHANGED outputVars \/ \E entry \in Entry : QueueFrame(entry)
<1>1. reorder \in Seq(Entry)
  BY DEF Types, ReorderTyped
<1>2. PICK new : new = [poc |-> stream[i].poc, picture |-> i, shown |-> shown]
  OBVIOUS
<1>3. new \in Entry
  <2>1. stream[i].poc \in Int
    BY Constants
  <2> QED BY <1>2, <2>1 DEF Entry
<1>4. PICK grown : grown = Append(reorder, new)
  OBVIOUS
<1>5. grown \in Seq(Entry) /\ grown # << >>
  <2>1. grown \in Seq(Entry) /\ Len(grown) = Len(reorder) + 1 /\ Len(reorder) \in Nat
    BY <1>1, <1>3, <1>4, AppendProperties, LenProperties
  <2>2. Len(<< >>) = 0
    BY EmptySeq
  <2> QED BY <2>1, <2>2
<1>6. grown[Lowest(grown)] \in Entry
  <2>1. \A entry \in Entry : entry.poc \in Int
    BY DEF Entry
  <2>2. Lowest(grown) \in 1 .. Len(grown)
    BY <1>5, <2>1, LowestIsThere
  <2> QED BY <1>5, <2>2, ElementOfSeq
<1>7. UNCHANGED outputVars \/ QueueFrame(grown[Lowest(grown)])
  BY <1>2, <1>4 DEF ReorderPush
<1> QED BY <1>6, <1>7

LEMMA TakeCompletionOutput ==
  ASSUME DInv, UNCHANGED fixedVars, TakeCompletion
  PROVE  Ordinary
<1>1. UNCHANGED <<output_start_time, toldVars>>
  BY DEF TakeCompletion, quietVars, modeVars
<1>2. CASE Earliest.failed
  <2>1. UNCHANGED outputVars
    BY <1>2 DEF TakeCompletion
  <2> QED BY <1>1, <2>1 DEF Ordinary
<1>3. CASE ~ Earliest.failed
  <2>1. Earliest \in Completion
    <3>1. pending_picture_completions \in Seq(Completion) /\ pending_picture_completions # << >>
      BY DEF DInv, Types, PendingTyped, TakeCompletion, EarliestReady
    <3> QED BY <3>1, HeadTailProperties DEF Earliest
  <2>2. PICK i \in Position : i = Earliest.picture
    BY <2>1 DEF Completion
  <2>3. PICK shown \in BOOLEAN : shown = Earliest.shown
    BY <2>1 DEF Completion
  <2>4. ReorderPush(i, shown)
    BY <1>3, <2>2, <2>3 DEF TakeCompletion
  <2> QED BY <1>1, <2>4, PushQueues DEF Ordinary, DInv
<1> QED BY <1>2, <1>3

LEMMA PassesOutput ==
  ASSUME Passes
  PROVE  Ordinary
BY DEF Passes, Ordinary, quietVars, modeVars

LEMMA CompletionsOutput ==
  ASSUME DInv, Poll \/ Join \/ Room
  PROVE  Ordinary
<1>1. UNCHANGED fixedVars /\ (TakeCompletion \/ Passes)
  BY DEF Poll, Join, Room, Executes
<1> QED BY <1>1, TakeCompletionOutput, PassesOutput

LEMMA DrainReorderOutput ==
  ASSUME DInv, DrainReorder
  PROVE  Ordinary
<1>1. UNCHANGED <<output_start_time, toldVars>>
  BY DEF DrainReorder, quietVars, modeVars
<1>2. CASE reorder = << >>
  <2>1. UNCHANGED outputVars
    BY <1>2 DEF DrainReorder
  <2> QED BY <1>1, <2>1 DEF Ordinary
<1>3. CASE reorder # << >>
  <2>1. QueueFrame(reorder[Lowest(reorder)])
    BY <1>3 DEF DrainReorder
  <2>2. reorder \in Seq(Entry)
    BY DEF DInv, Types, ReorderTyped
  <2>3. \A entry \in Entry : entry.poc \in Int
    BY DEF Entry
  <2>4. Lowest(reorder) \in 1 .. Len(reorder)
    BY <1>3, <2>2, <2>3, LowestIsThere
  <2>5. reorder[Lowest(reorder)] \in Entry
    BY <2>2, <2>4, ElementOfSeq
  <2> QED BY <1>1, <2>1, <2>5 DEF Ordinary
<1> QED BY <1>2, <1>3

LEMMA FinishOutput ==
  ASSUME DInv, Finish
  PROVE  Ordinary
<1>1. CASE FinishSkipped \/ FinishNothing \/ FinishCurrent \/ Spawn \/ Record
  <2>1. UNCHANGED quietVars /\ UNCHANGED outputVars
    BY <1>1 DEF FinishSkipped, FinishNothing, Passes, FinishCurrent, Spawn, Record
  <2> QED BY <2>1 DEF Ordinary, quietVars, modeVars
<1>2. CASE Push
  <2>1. /\ todo # << >> /\ Head(todo).step = "push" /\ UNCHANGED fixedVars
        /\ UNCHANGED quietVars /\ ReorderPush(Arg, Materializes(Arg))
    BY <1>2 DEF Push, Executes
  <2>2. Head(todo) \in TypedStep
    BY <2>1, StepsCounted DEF DInv
  <2>3. PICK i \in Position : i = Arg
    BY <2>1, <2>2 DEF TypedStep, OfPicture, Arg
  <2>4. PICK shown \in BOOLEAN : shown = Materializes(i)
    BY DEF Materializes
  <2>5. ReorderPush(i, shown)
    BY <2>1, <2>3, <2>4
  <2>6. UNCHANGED <<output_start_time, toldVars>>
    BY <2>1 DEF quietVars, modeVars
  <2> QED BY <2>1, <2>5, <2>6, PushQueues DEF Ordinary, DInv
<1> QED BY <1>1, <1>2 DEF Finish

LEMMA SendOutput ==
  ASSUME Send
  PROVE  Ordinary
<1>1. CASE Guard
  BY <1>1 DEF Guard, Ordinary, modeVars
<1>2. CASE Start
  BY <1>2 DEF Start, Ordinary, modeVars
<1>3. CASE EndStream \/ Accepted
  BY <1>3 DEF EndStream, Accepted, Ordinary, modeVars
<1>4. CASE Prepare \/ ClearReorder \/ StartSkipped \/ StartRefused \/ EndSequence
  <2>1. UNCHANGED quietVars /\ UNCHANGED outputVars
    BY <1>4 DEF Prepare, ClearReorder, StartSkipped, StartRefused, EndSequence
  <2> QED BY <2>1 DEF Ordinary, quietVars, modeVars
<1> QED BY <1>1, <1>2, <1>3, <1>4 DEF Send

LEMMA CallOutput ==
  ASSUME Call
  PROVE  \/ Ordinary /\ result' = "none"
         \/ \E target \in Targets : retarget_seek_forward(target)
<1>1. ASSUME NEW steps, Begins(steps)
      PROVE  Ordinary /\ result' = "none"
  BY <1>1 DEF Begins, Ordinary, modeVars
<1>2. ASSUME NEW target, restore_seek_checkpoint(target)
      PROVE  Ordinary /\ result' = "none"
  BY <1>1, <1>2 DEF restore_seek_checkpoint
<1> QED BY <1>1, <1>2 DEF Call, send_packet, receive_frame, drain,
           create_seek_checkpoint, flush, configure, jump, flush_for_seek

\* Every step is one of these.
LEMMA OutputSteps ==
  ASSUME DInv, [Next]_vars
  PROVE  \/ Ordinary \/ Deliver \/ Reset \/ SetStart \/ Configure \/ Restore
         \/ \E target \in Targets : retarget_seek_forward(target)
<1>1. CASE Poll \/ Join \/ Room \/ DrainReorder \/ Finish \/ Send
  BY <1>1, CompletionsOutput, DrainReorderOutput, FinishOutput, SendOutput
<1>2. CASE Discard
  BY <1>2 DEF Discard, Ordinary, quietVars, modeVars
<1>3. CASE Snapshot
  BY <1>3 DEF Snapshot, Ordinary, modeVars
<1>4. CASE WorkerAnswers
  BY <1>4 DEF WorkerAnswers, Ordinary, modeVars
<1>5. CASE Call
  BY <1>5, CallOutput
<1>6. CASE UNCHANGED vars
  BY <1>6 DEF vars, Ordinary, modeVars
<1> QED BY <1>1, <1>2, <1>3, <1>4, <1>5, <1>6 DEF Next, Step, Reconfigure

\* The call that has returned a frame is the last one.
Answered == todo # << >> => result # "Frame"

Delivers == Deliver /\ outputs # << >> /\ Head(outputs).kind = "Frame"

LEMMA StepAnswers ==
  ASSUME Step, ~ Delivers
  PROVE  /\ todo # << >>
         /\ result' # "Frame" \/ result' = result
<1>1. todo # << >>
  BY DEF Step, Poll, Join, Room, Discard, DrainReorder, Finish, FinishSkipped,
         FinishNothing, FinishCurrent, Spawn, Push, Record, Send, Guard, Prepare,
         ClearReorder, StartSkipped, StartRefused, Start, EndSequence, EndStream,
         Accepted, Reconfigure, Deliver, Reset, SetStart, Configure, Snapshot, Restore,
         Executes
<1> DEFINE Other == result' # "Frame" \/ result' = result
<1>2. Fail => Other
  BY DEF Fail, Return
<1>3. Passes => Other
  BY DEF Passes
<1>4. TakeCompletion => Other
  BY <1>2 DEF TakeCompletion
<1>5. Poll \/ Join \/ Room => Other
  BY <1>3, <1>4 DEF Poll, Join, Room
<1>6. Discard => Other
  BY DEF Discard
<1>7. DrainReorder => Other
  BY DEF DrainReorder
<1>8. FinishCurrent => Other
  BY <1>2 DEF FinishCurrent
<1>9. Spawn => Other
  BY <1>2 DEF Spawn
<1>10. FinishSkipped => Other
  BY DEF FinishSkipped
<1>11. Push => Other
  BY DEF Push
<1>12. Record => Other
  BY DEF Record
<1>13. Finish => Other
  BY <1>3, <1>8, <1>9, <1>10, <1>11, <1>12 DEF Finish, FinishNothing
<1>14. Guard => Other
  BY DEF Guard, Return
<1>15. Prepare => Other
  BY DEF Prepare
<1>16. ClearReorder => Other
  BY DEF ClearReorder
<1>17. StartSkipped => Other
  BY DEF StartSkipped
<1>18. StartRefused => Other
  BY <1>2 DEF StartRefused
<1>19. Start => Other
  BY <1>2 DEF Start
<1>20. EndSequence => Other
  BY DEF EndSequence
<1>21. EndStream => Other
  BY DEF EndStream
<1>22. Accepted => Other
  BY DEF Accepted, Return
<1>23. Send => Other
  BY <1>14, <1>15, <1>16, <1>17, <1>18, <1>19, <1>20, <1>21, <1>22 DEF Send
<1>24. Reset => Other
  BY DEF Reset
<1>25. SetStart => Other
  BY DEF SetStart, Return
<1>26. Configure => Other
  BY DEF Configure, Return
<1>27. Snapshot => Other
  BY DEF Snapshot, Return
<1>28. Restore => Other
  BY DEF Restore, Return
<1>29. Deliver => Other
  BY DEF Deliver, Delivers, Return
<1>30. Reconfigure => Other
  BY <1>24, <1>25, <1>26, <1>27, <1>28, <1>29 DEF Reconfigure
<1>31. Other
  <2> HIDE DEF Other
  <2> QED BY <1>5, <1>6, <1>7, <1>13, <1>23, <1>30 DEF Step
<1> QED BY <1>1, <1>31

LEMMA ResultKept ==
  ASSUME Answered, [Next]_vars
  PROVE  /\ Answered'
         /\ result' = "Frame" =>
              \/ Delivers
              \/ result = "Frame" /\ UNCHANGED toldVars
<1>1. CASE Step /\ ~ Delivers
  BY <1>1, StepAnswers DEF Answered
<1>2. CASE Delivers
  BY <1>2 DEF Delivers, Deliver, Return, Answered
<1>3. CASE WorkerAnswers
  BY <1>3 DEF WorkerAnswers, Answered
<1>4. CASE Call
  <2>1. result' = "none" \/ \E target \in Targets : retarget_seek_forward(target)
    BY <1>4, CallOutput
  <2>2. result' # "Frame"
    BY <2>1 DEF retarget_seek_forward
  <2> QED BY <2>2 DEF Answered
<1>5. CASE UNCHANGED vars
  BY <1>5 DEF vars, Answered
<1> QED BY <1>1, <1>2, <1>3, <1>4, <1>5 DEF Next

----------
(* Exact seeks *)

\* What is queued and what has been received is not before the target.
FromTarget ==
  /\ \A k \in DOMAIN outputs : outputs[k] \in Frames => Materializes(outputs[k].value)
  /\ \A k \in DOMAIN received : Materializes(received[k])

LEMMA SameTarget ==
  ASSUME UNCHANGED fixedVars, UNCHANGED output_start_time
  PROVE  \A i : Materializes(i) <=> Materializes(i)'
BY DEF fixedVars, Materializes

\* A picture that leaves the reorder buffer: at most a frame of it, after at
\* most an announcement.
LEMMA QueueIs ==
  ASSUME Types, NEW entry \in Entry, QueueFrame(entry)
  PROVE  \/ UNCHANGED outputVars
         \/ \E i \in Position, mark \in Announcements, frame \in Frames :
              /\ i = entry.picture /\ entry.shown /\ Materializes(i)
              /\ frame.value = i /\ mark.value = stream[i].format
              /\ outputs' = IF announced_format = stream[i].format
                            THEN Append(outputs, frame)
                            ELSE Append(Append(outputs, mark), frame)
              /\ announced_format' = stream[i].format
<1>1. outputs \in Seq(Output)
  BY DEF Types, OutputsTyped
<1>2. CASE ~ entry.shown \/ ~ Materializes(entry.picture)
  BY <1>2 DEF QueueFrame
<1>3. CASE entry.shown /\ Materializes(entry.picture)
  <2>1. PICK i \in Position : i = entry.picture
    BY DEF Entry
  <2>2. PICK format \in Formats : format = stream[i].format
    BY Constants
  <2>3. PICK mark \in Announcements : mark = [kind |-> "FormatChanged", value |-> format]
    BY DEF Announcements
  <2>4. PICK frame \in Frames : frame = [kind |-> "Frame", value |-> i]
    BY DEF Frames
  <2>5. PICK marks : marks = IF announced_format = format THEN << >> ELSE <<mark>>
    OBVIOUS
  <2>6. outputs' = (outputs \o marks) \o <<frame>> /\ announced_format' = format
    BY <1>3, <2>1, <2>2, <2>3, <2>4, <2>5 DEF QueueFrame
  <2>7. mark \in Output /\ frame \in Output
    BY DEF Output
  <2>8. CASE announced_format = format
    <3>1. outputs \o marks = outputs
      BY <1>1, <2>5, <2>8, ConcatEmptySeq
    <3>2. outputs \o <<frame>> = Append(outputs, frame)
      BY <1>1, <2>7, AppendIsConcat
    <3> QED BY <1>3, <2>1, <2>2, <2>3, <2>4, <2>6, <2>8, <3>1, <3>2
  <2>9. CASE announced_format # format
    <3>1. outputs \o marks = Append(outputs, mark)
      BY <1>1, <2>5, <2>7, <2>9, AppendIsConcat
    <3>2. Append(outputs, mark) \in Seq(Output)
      BY <1>1, <2>7, AppendProperties
    <3>3. Append(outputs, mark) \o <<frame>> = Append(Append(outputs, mark), frame)
      BY <2>7, <3>2, AppendIsConcat
    <3> QED BY <1>3, <2>1, <2>2, <2>3, <2>4, <2>6, <2>9, <3>1, <3>3
  <2> QED BY <2>8, <2>9
<1> QED BY <1>2, <1>3

\* What is appended, and what was there before.
LEMMA Appended ==
  ASSUME NEW S, NEW s \in Seq(S), NEW x \in S
  PROVE  /\ Append(s, x) \in Seq(S) /\ Len(s) \in Nat /\ Len(Append(s, x)) = Len(s) + 1
         /\ DOMAIN s = 1 .. Len(s)
         /\ DOMAIN Append(s, x) = 1 .. Len(s) + 1
         /\ \A k \in 1 .. Len(s) : Append(s, x)[k] = s[k]
         /\ Append(s, x)[Len(s) + 1] = x
BY AppendProperties, LenProperties

LEMMA MarksAndFrames ==
         /\ Frames \subseteq Output /\ Announcements \subseteq Output
         /\ Frames \cap Announcements = {}
         /\ \A x \in Output : /\ x \in Frames <=> x.kind = "Frame"
                              /\ x \in Announcements <=> x.kind = "FormatChanged"
BY DEF Output, Frames, Announcements

LEMMA FromTargetKept ==
  ASSUME DInv, FromTarget, [Next]_vars
  PROVE  FromTarget'
<1>1. Types /\ UNCHANGED fixedVars
  BY AlwaysFixed DEF DInv
<1>2. outputs \in Seq(Output) /\ received \in Seq(Position)
  BY <1>1 DEF Types, OutputsTyped, CallerTyped
<1>3. Frames' = Frames
  BY <1>1, SetsFixed
<1>4. CASE Ordinary
  <2>1. UNCHANGED <<output_start_time, received>>
    BY <1>4 DEF Ordinary, toldVars
  <2>2. \A i : Materializes(i) <=> Materializes(i)'
    BY <1>1, <2>1, SameTarget
  <2>3. CASE UNCHANGED outputs
    BY <1>3, <2>1, <2>2, <2>3 DEF FromTarget
  <2>4. CASE outputs' # outputs
    <3>1. PICK entry \in Entry : QueueFrame(entry)
      BY <1>4, <2>4 DEF Ordinary, outputVars
    <3>2. PICK i \in Position, mark \in Announcements, frame \in Frames :
            /\ Materializes(i) /\ frame.value = i
            /\ outputs' = IF announced_format = stream[i].format
                          THEN Append(outputs, frame)
                          ELSE Append(Append(outputs, mark), frame)
      BY <1>1, <2>4, <3>1, QueueIs DEF outputVars
    <3>3. PICK q \in Seq(Output) :
            /\ \A k \in DOMAIN q : q[k] \in Frames => Materializes(q[k].value)
            /\ outputs' = Append(q, frame)
      <4>1. CASE announced_format = stream[i].format
        BY <1>2, <3>2, <4>1 DEF FromTarget
      <4>2. CASE announced_format # stream[i].format
        <5>1. PICK q : q = Append(outputs, mark)
          OBVIOUS
        <5>2. /\ q \in Seq(Output) /\ Len(outputs) \in Nat
              /\ DOMAIN outputs = 1 .. Len(outputs) /\ DOMAIN q = 1 .. Len(outputs) + 1
              /\ \A k \in 1 .. Len(outputs) : q[k] = outputs[k]
              /\ q[Len(outputs) + 1] = mark
          BY <1>2, <5>1, Appended, MarksAndFrames
        <5>3. mark \notin Frames
          BY MarksAndFrames
        <5>4. \A k \in DOMAIN q : q[k] \in Frames => Materializes(q[k].value)
          <6>1. \A k \in DOMAIN q : k \in 1 .. Len(outputs) \/ k = Len(outputs) + 1
            BY <5>2
          <6> QED BY <5>2, <5>3, <6>1 DEF FromTarget
        <5> QED BY <3>2, <4>2, <5>1, <5>2, <5>4
      <4> QED BY <4>1, <4>2
    <3>4. PICK r : r = Append(q, frame)
      OBVIOUS
    <3>5. /\ Len(q) \in Nat /\ DOMAIN q = 1 .. Len(q) /\ DOMAIN r = 1 .. Len(q) + 1
          /\ \A k \in 1 .. Len(q) : r[k] = q[k]
          /\ r[Len(q) + 1] = frame
      BY <3>3, <3>4, Appended, MarksAndFrames
    <3>6. \A k \in DOMAIN r : r[k] \in Frames => Materializes(r[k].value)
      <4>1. \A k \in DOMAIN r : k \in 1 .. Len(q) \/ k = Len(q) + 1
        BY <3>5
      <4> QED BY <3>2, <3>3, <3>5, <4>1
    <3> QED BY <1>3, <2>1, <2>2, <3>3, <3>4, <3>6 DEF FromTarget
  <2> QED BY <2>3, <2>4
<1>5. CASE Deliver
  <2>1. UNCHANGED output_start_time
    BY <1>5 DEF Deliver, modeVars
  <2>2. \A i : Materializes(i) <=> Materializes(i)'
    BY <1>1, <2>1, SameTarget
  <2>3. CASE outputs = << >>
    <3>1. outputs' = outputs /\ received' = received
      BY <1>5, <2>3 DEF Deliver, toldVars
    <3> QED BY <1>3, <2>2, <3>1 DEF FromTarget
  <2>4. CASE outputs # << >>
    <3>1. outputs' = Tail(outputs)
      BY <1>5, <2>4 DEF Deliver
    <3>2. PICK q : q = Tail(outputs)
      OBVIOUS
    <3>3. /\ DOMAIN q = 1 .. Len(outputs) - 1 /\ Len(outputs) \in Nat
          /\ DOMAIN outputs = 1 .. Len(outputs)
          /\ \A k \in 1 .. Len(outputs) - 1 : q[k] = outputs[k + 1]
          /\ Head(outputs) = outputs[1] /\ 1 \in DOMAIN outputs
          /\ outputs[1] \in Output
      BY <1>2, <2>4, <3>2, HeadTailProperties, LenProperties, EmptySeq, ElementOfSeq
    <3>4. \A k \in DOMAIN q : q[k] \in Frames => Materializes(q[k].value)
      <4>1. \A k \in DOMAIN q : k + 1 \in DOMAIN outputs /\ q[k] = outputs[k + 1]
        BY <3>3
      <4> QED BY <4>1 DEF FromTarget
    <3>5. CASE Head(outputs).kind = "FormatChanged"
      <4>1. received' = received
        BY <1>5, <2>4, <3>5 DEF Deliver
      <4> QED BY <1>3, <2>2, <3>1, <3>2, <3>4, <4>1 DEF FromTarget
    <3>6. CASE Head(outputs).kind # "FormatChanged"
      <4>1. received' = Append(received, outputs[1].value)
        BY <1>5, <2>4, <3>3, <3>6 DEF Deliver
      <4>2. outputs[1] \in Frames
        BY <3>3, <3>6, MarksAndFrames DEF Output
      <4>3. PICK i \in Position : i = outputs[1].value
        BY <4>2 DEF Frames
      <4>4. Materializes(i)
        BY <3>3, <4>2, <4>3 DEF FromTarget
      <4>5. PICK r : r = Append(received, i)
        OBVIOUS
      <4>6. /\ Len(received) \in Nat /\ DOMAIN received = 1 .. Len(received)
            /\ DOMAIN r = 1 .. Len(received) + 1
            /\ \A k \in 1 .. Len(received) : r[k] = received[k]
            /\ r[Len(received) + 1] = i
        BY <1>2, <4>5, Appended
      <4>7. \A k \in DOMAIN r : Materializes(r[k])
        <5>1. \A k \in DOMAIN r : k \in 1 .. Len(received) \/ k = Len(received) + 1
          BY <4>6
        <5> QED BY <4>4, <4>6, <5>1 DEF FromTarget
      <4> QED BY <1>3, <2>2, <3>1, <3>2, <3>4, <4>1, <4>3, <4>5, <4>7 DEF FromTarget
    <3> QED BY <3>5, <3>6
  <2> QED BY <2>3, <2>4
<1>6. CASE Reset \/ Restore
  <2>1. outputs' = << >> /\ received' = << >> /\ DOMAIN << >> = {}
    BY <1>6 DEF Reset, Restore
  <2> QED BY <2>1 DEF FromTarget
<1>7. CASE SetStart \/ Configure
  <2>1. /\ todo # << >> /\ Head(todo).step \in Restarting
        /\ UNCHANGED outputs /\ UNCHANGED received
    BY <1>7 DEF SetStart, Configure, Executes, Restarting, outputVars, toldVars
  <2>2. Head(todo) = todo[1]
    BY <1>1, <2>1, StepsCounted
  <2>3. outputs' = << >> /\ received' = << >> /\ DOMAIN << >> = {}
    BY <2>1, <2>2 DEF DInv, Control, HeadReady
  <2> QED BY <2>3 DEF FromTarget
<1>8. ASSUME NEW target \in Targets, retarget_seek_forward(target)
      PROVE  FromTarget'
  <2>1. /\ output_start_time' = target /\ Retarget(target) /\ target \in Nat
        /\ received' = Retain(received, {k \in DOMAIN received : NotBefore(target, received[k])})
    BY <1>8, DecoderAssumption DEF retarget_seek_forward, DecoderAssumption
  <2>2. \A i : NotBefore(target, i) => Materializes(i)'
    BY <1>1, <2>1 DEF NotBefore, Materializes, fixedVars
  <2>3. \A k \in DOMAIN received' : Materializes(received[k])'
    <3>1. PICK kept : kept = {k \in DOMAIN received : NotBefore(target, received[k])}
      OBVIOUS
    <3>2. PICK r : r = Retain(received, kept)
      OBVIOUS
    <3>3. \A j \in DOMAIN r : \E k \in DOMAIN received \cap kept : r[j] = received[k]
      BY <1>2, <3>2, RetainedWas
    <3>4. \A j \in DOMAIN r : NotBefore(target, r[j])
      BY <3>1, <3>3
    <3>5. received' = r
      BY <2>1, <3>1, <3>2
    <3> QED BY <2>2, <3>4, <3>5
  <2>4. \A k \in DOMAIN outputs' : (outputs[k] \in Frames => Materializes(outputs[k].value))'
    <3>1. CASE SomeFrameFrom(target)
      <4>1. PICK kept :
              kept = {k \in DOMAIN outputs : IsFrame(k) => NotBefore(target, outputs[k].value)}
        OBVIOUS
      <4>2. PICK q : q = Retain(outputs, kept)
        OBVIOUS
      <4>3. outputs' = q
        BY <2>1, <3>1, <4>1, <4>2 DEF Retarget, QueuedFrom
      <4>4. \A j \in DOMAIN q : \E k \in DOMAIN outputs \cap kept : q[j] = outputs[k]
        BY <1>2, <4>2, RetainedWas
      <4>5. \A k \in DOMAIN outputs : outputs[k] \in Frames => IsFrame(k)
        BY DEF IsFrame, Frames
      <4>6. \A j \in DOMAIN q : q[j] \in Frames => NotBefore(target, q[j].value)
        BY <4>1, <4>4, <4>5
      <4> QED BY <1>3, <2>2, <4>3, <4>6
    <3>2. CASE ~ SomeFrameFrom(target)
      <4>1. outputs' = << >> /\ DOMAIN << >> = {}
        BY <2>1, <3>2 DEF Retarget
      <4> QED BY <4>1
    <3> QED BY <3>1, <3>2
  <2> QED BY <2>3, <2>4 DEF FromTarget
<1> QED BY <1>4, <1>5, <1>6, <1>7, <1>8, OutputSteps

\* An exact seek yields no frame before its target: not from workers that began
\* before it, not from the reorder buffer of a checkpoint, and not after the
\* target has been moved forward with frames queued.
THEOREM SeekIsExact == Spec => []SeekExact
<1>1. Init => FromTarget
  <2>1. Init => outputs = << >> /\ received = << >>
    BY DEF Init
  <2> QED BY <2>1 DEF FromTarget
<1>2. DInv /\ FromTarget /\ [Next]_vars => FromTarget'
  BY FromTargetKept
<1>3. FromTarget => SeekExact
  BY DEF FromTarget, SeekExact
<1> QED BY <1>1, <1>2, <1>3, ControlInductive, PTL DEF Spec

----------
(* Announced formats *)

\* The format in force at position k of the output is f, if the caller knows it:
\* the last announcement before k is of f, or there is none and the caller knows
\* the format t, unless l: an announcement has been thrown away.
InForce(q, k, f, t, l) ==
  /\ \A j \in 1 .. k - 1 :
       /\ q[j] \in Announcements
       /\ \A m \in j + 1 .. k - 1 : q[m] \notin Announcements
       => q[j].value = f
  /\ (\A j \in 1 .. k - 1 : q[j] \notin Announcements) => l \/ t = f

\* Every frame has the format in force.
Consistent(q, t, l) ==
  \A k \in DOMAIN q : q[k] \in Frames => InForce(q, k, stream[q[k].value].format, t, l)

LEMMA SameInForce ==
  ASSUME NEW q, NEW r, NEW k \in Nat, \A j \in 1 .. k - 1 : q[j] = r[j],
         NEW f, NEW t, NEW l, InForce(q, k, f, t, l)
  PROVE  InForce(r, k, f, t, l)
<1>1. ASSUME NEW j \in 1 .. k - 1, r[j] \in Announcements,
             \A m \in j + 1 .. k - 1 : r[m] \notin Announcements
      PROVE  r[j].value = f
  <2>1. \A m \in j + 1 .. k - 1 : m \in 1 .. k - 1
    OBVIOUS
  <2>2. q[j] \in Announcements /\ \A m \in j + 1 .. k - 1 : q[m] \notin Announcements
    BY <1>1, <2>1
  <2> QED BY <2>2 DEF InForce
<1>2. (\A j \in 1 .. k - 1 : r[j] \notin Announcements) => l \/ t = f
  BY DEF InForce
<1> QED BY <1>1, <1>2 DEF InForce

\* A frame changes nothing.
LEMMA AfterFrame ==
  ASSUME NEW q, NEW k \in Nat \ {0}, q[k] \notin Announcements, NEW f, NEW t, NEW l
  PROVE  InForce(q, k + 1, f, t, l) <=> InForce(q, k, f, t, l)
<1>1. \A j : j \in 1 .. (k + 1) - 1 <=> j \in 1 .. k - 1 \/ j = k
  OBVIOUS
<1>2. ASSUME InForce(q, k + 1, f, t, l)
      PROVE  InForce(q, k, f, t, l)
  <2>1. ASSUME NEW j \in 1 .. k - 1, q[j] \in Announcements,
               \A m \in j + 1 .. k - 1 : q[m] \notin Announcements
        PROVE  q[j].value = f
    <3>1. \A m \in j + 1 .. (k + 1) - 1 : m = k \/ m \in j + 1 .. k - 1
      OBVIOUS
    <3>2. \A m \in j + 1 .. (k + 1) - 1 : q[m] \notin Announcements
      BY <2>1, <3>1
    <3> QED BY <1>1, <1>2, <2>1, <3>2 DEF InForce
  <2>2. (\A j \in 1 .. k - 1 : q[j] \notin Announcements) => l \/ t = f
    BY <1>1, <1>2 DEF InForce
  <2> QED BY <2>1, <2>2 DEF InForce
<1>3. ASSUME InForce(q, k, f, t, l)
      PROVE  InForce(q, k + 1, f, t, l)
  <2>1. ASSUME NEW j \in 1 .. (k + 1) - 1, q[j] \in Announcements,
               \A m \in j + 1 .. (k + 1) - 1 : q[m] \notin Announcements
        PROVE  q[j].value = f
    <3>1. j \in 1 .. k - 1
      BY <1>1, <2>1
    <3>2. \A m \in j + 1 .. k - 1 : m \in j + 1 .. (k + 1) - 1
      OBVIOUS
    <3> QED BY <1>3, <2>1, <3>1, <3>2 DEF InForce
  <2>2. (\A j \in 1 .. (k + 1) - 1 : q[j] \notin Announcements) => l \/ t = f
    BY <1>1, <1>3 DEF InForce
  <2> QED BY <2>1, <2>2 DEF InForce
<1> QED BY <1>2, <1>3

\* An announcement is in force after it.
LEMMA AfterAnnouncement ==
  ASSUME NEW q, NEW k \in Nat \ {0}, q[k] \in Announcements, NEW f, NEW t, NEW l
  PROVE  InForce(q, k + 1, f, t, l) <=> q[k].value = f
<1>1. k \in 1 .. (k + 1) - 1 /\ \A m \in k + 1 .. (k + 1) - 1 : FALSE
  OBVIOUS
<1>2. InForce(q, k + 1, f, t, l) => q[k].value = f
  BY <1>1 DEF InForce
<1>3. ASSUME q[k].value = f
      PROVE  InForce(q, k + 1, f, t, l)
  <2>1. ASSUME NEW j \in 1 .. (k + 1) - 1, q[j] \in Announcements,
               \A m \in j + 1 .. (k + 1) - 1 : q[m] \notin Announcements
        PROVE  q[j].value = f
    <3>1. j = k \/ k \in j + 1 .. (k + 1) - 1
      OBVIOUS
    <3> QED BY <1>3, <2>1, <3>1
  <2> QED BY <1>1, <2>1 DEF InForce
<1> QED BY <1>2, <1>3

LEMMA ConsistentAppend ==
  ASSUME NEW q \in Seq(Output), NEW x \in Output, NEW t, NEW l, Consistent(q, t, l),
         x \in Frames => InForce(q, Len(q) + 1, stream[x.value].format, t, l)
  PROVE  Consistent(Append(q, x), t, l)
<1>1. PICK r : r = Append(q, x)
  OBVIOUS
<1>2. /\ Len(q) \in Nat /\ DOMAIN q = 1 .. Len(q) /\ DOMAIN r = 1 .. Len(q) + 1
      /\ \A k \in 1 .. Len(q) : r[k] = q[k]
      /\ r[Len(q) + 1] = x
  BY <1>1, Appended
<1>3. ASSUME NEW k \in DOMAIN r, r[k] \in Frames
      PROVE  InForce(r, k, stream[r[k].value].format, t, l)
  <2>1. k \in 1 .. Len(q) \/ k = Len(q) + 1
    BY <1>2
  <2>2. k \in Nat /\ \A j \in 1 .. k - 1 : q[j] = r[j]
    BY <1>2
  <2>3. InForce(q, k, stream[r[k].value].format, t, l)
    BY <1>2, <1>3, <2>1 DEF Consistent
  <2> QED BY <2>2, <2>3, SameInForce
<1> QED BY <1>1, <1>3 DEF Consistent

LEMMA InForceAppend ==
  ASSUME NEW q \in Seq(Output), NEW x \in Output, NEW f, NEW t, NEW l
  PROVE  /\ x \in Frames =>
              (InForce(q, Len(q) + 1, f, t, l)
                 => InForce(Append(q, x), Len(Append(q, x)) + 1, f, t, l))
         /\ x \in Announcements /\ x.value = f
              => InForce(Append(q, x), Len(Append(q, x)) + 1, f, t, l)
<1>1. PICK r : r = Append(q, x)
  OBVIOUS
<1>2. /\ Len(q) \in Nat /\ Len(r) = Len(q) + 1
      /\ \A k \in 1 .. Len(q) : r[k] = q[k]
      /\ r[Len(q) + 1] = x
  BY <1>1, Appended
<1>3. ASSUME x \in Frames, InForce(q, Len(q) + 1, f, t, l)
      PROVE  InForce(r, Len(r) + 1, f, t, l)
  <2>1. Len(q) + 1 \in Nat \ {0} /\ \A j \in 1 .. (Len(q) + 1) - 1 : q[j] = r[j]
    BY <1>2
  <2>2. InForce(r, Len(q) + 1, f, t, l)
    BY <1>3, <2>1, SameInForce
  <2>3. r[Len(q) + 1] \notin Announcements
    BY <1>2, <1>3, MarksAndFrames
  <2>4. InForce(r, (Len(q) + 1) + 1, f, t, l)
    BY <2>1, <2>2, <2>3, AfterFrame
  <2> QED BY <1>2, <2>4
<1>4. ASSUME x \in Announcements, x.value = f
      PROVE  InForce(r, Len(r) + 1, f, t, l)
  <2>1. Len(q) + 1 \in Nat \ {0} /\ r[Len(q) + 1] \in Announcements
    BY <1>2, <1>4
  <2>2. InForce(r, (Len(q) + 1) + 1, f, t, l)
    BY <1>2, <1>4, <2>1, AfterAnnouncement
  <2> QED BY <1>2, <2>2
<1> QED BY <1>1, <1>3, <1>4

\* Frames may be taken out, as long as every announcement stays.
LEMMA ConsistentRetain ==
  ASSUME NEW s \in Seq(Output), NEW positions,
         \A k \in DOMAIN s : s[k] \in Announcements => k \in positions,
         NEW t, NEW l, Consistent(s, t, l)
  PROVE  /\ Consistent(Retain(s, positions), t, l)
         /\ \A f : InForce(s, Len(s) + 1, f, t, l)
              => InForce(Retain(s, positions), Len(Retain(s, positions)) + 1, f, t, l)
<1> DEFINE n == Len(s)
<1>1. n \in Nat /\ DOMAIN s = 1 .. n
  BY LenProperties
<1>2. PICK G \in [0 .. n -> Seq(Output)] :
        Retains(G, s, positions, n) /\ Retain(s, positions) = G[n]
  BY RetainIs
<1> DEFINE Good(k) ==
             /\ Consistent(G[k], t, l)
             /\ \A f : InForce(s, k + 1, f, t, l) => InForce(G[k], Len(G[k]) + 1, f, t, l)
           I == {k \in 0 .. n : Good(k)}
<1>3. 0 \in I
  <2>1. G[0] = << >> /\ DOMAIN << >> = {} /\ Len(<< >>) = 0
    BY <1>2, EmptySeq DEF Retains
  <2>2. Consistent(G[0], t, l)
    BY <2>1 DEF Consistent
  <2>3. ASSUME NEW f, InForce(s, 0 + 1, f, t, l)
        PROVE  InForce(G[0], Len(G[0]) + 1, f, t, l)
    <3>1. 1 \in Nat /\ \A j \in 1 .. 1 - 1 : s[j] = G[0][j]
      OBVIOUS
    <3>2. InForce(s, 1, f, t, l)
      BY <2>3
    <3>3. InForce(G[0], 1, f, t, l)
      BY <3>1, <3>2, SameInForce
    <3> QED BY <2>1, <3>3
  <2> QED BY <1>1, <2>2, <2>3
<1>4. ASSUME NEW k \in 1 .. n, k - 1 \in I
      PROVE  k \in I
  <2>1. k \in 0 .. n /\ k - 1 \in 0 .. n /\ k \in Nat \ {0} /\ (k - 1) + 1 = k /\ k \in DOMAIN s
    BY <1>1
  <2>2. PICK x \in Output : x = s[k]
    BY <2>1, ElementOfSeq, <1>1
  <2>3. PICK q \in Seq(Output) : q = G[k - 1]
    BY <1>2, <2>1
  <2>4. /\ Consistent(q, t, l)
        /\ \A f : InForce(s, k, f, t, l) => InForce(q, Len(q) + 1, f, t, l)
    BY <1>4, <2>1, <2>3
  <2>5. G[k] = IF k \in positions THEN Append(q, x) ELSE q
    BY <1>2, <2>2, <2>3 DEF Retains
  <2>6. CASE x \in Announcements
    <3>1. G[k] = Append(q, x)
      BY <2>1, <2>2, <2>5, <2>6
    <3>2. x \notin Frames
      BY <2>6, MarksAndFrames
    <3>3. Consistent(Append(q, x), t, l)
      BY <2>4, <3>2, ConsistentAppend
    <3>4. ASSUME NEW f, InForce(s, k + 1, f, t, l)
          PROVE  InForce(Append(q, x), Len(Append(q, x)) + 1, f, t, l)
      <4>1. x.value = f
        BY <2>1, <2>2, <2>6, <3>4, AfterAnnouncement
      <4> QED BY <2>6, <4>1, InForceAppend
    <3> QED BY <2>1, <3>1, <3>3, <3>4
  <2>7. CASE x \in Frames
    <3>1. x \notin Announcements
      BY <2>7, MarksAndFrames
    <3>2. \A f : InForce(s, k + 1, f, t, l) => InForce(q, Len(q) + 1, f, t, l)
      BY <2>1, <2>2, <2>4, <3>1, AfterFrame
    <3>3. CASE k \notin positions
      BY <2>1, <2>4, <2>5, <3>2, <3>3
    <3>4. CASE k \in positions
      <4>1. G[k] = Append(q, x)
        BY <2>5, <3>4
      <4>2. InForce(s, k, stream[x.value].format, t, l)
        BY <2>1, <2>2, <2>7 DEF Consistent
      <4>3. Consistent(Append(q, x), t, l)
        BY <2>4, <4>2, ConsistentAppend
      <4>4. \A f : InForce(s, k + 1, f, t, l)
              => InForce(Append(q, x), Len(Append(q, x)) + 1, f, t, l)
        BY <2>7, <3>2, InForceAppend
      <4> QED BY <2>1, <4>1, <4>3, <4>4
    <3> QED BY <3>3, <3>4
  <2> QED BY <2>6, <2>7 DEF Output
<1>5. n \in I
  <2>1. \A k \in 1 .. n : k - 1 \in I => k \in I
    BY <1>4
  <2> HIDE DEF I, n
  <2>2. \A k \in 0 .. n : k \in I
    BY <1>1, <1>3, <2>1, UpTo
  <2> QED BY <1>1, <2>2
<1> QED BY <1>2, <1>5

\* What is queued tells the caller the format of every frame, and the format the
\* decoder has announced last is the one the caller will know.
Known ==
  /\ Consistent(outputs, told_format, lost_format)
  /\ announced_format # NoFormat =>
       InForce(outputs, Len(outputs) + 1, announced_format, told_format, lost_format)

LEMMA KnownNext ==
  ASSUME UNCHANGED fixedVars,
         Consistent(outputs', told_format', lost_format'),
         announced_format' # NoFormat =>
           InForce(outputs', Len(outputs') + 1, announced_format', told_format', lost_format')
  PROVE  Known'
<1>1. Frames' = Frames /\ Announcements' = Announcements /\ stream' = stream
  BY SetsFixed DEF Announcements, fixedVars
<1> QED BY <1>1 DEF Known, Consistent, InForce

\* With nothing queued the caller knows the announced format, or has lost it.
LEMMA NothingQueued ==
  ASSUME NEW f, NEW t, NEW l
  PROVE  /\ Consistent(<< >>, t, l)
         /\ InForce(<< >>, Len(<< >>) + 1, f, t, l) <=> (l \/ t = f)
<1>1. DOMAIN << >> = {} /\ Len(<< >>) = 0
  BY EmptySeq
<1>2. \A j \in 1 .. (Len(<< >>) + 1) - 1 : FALSE
  BY <1>1
<1> QED BY <1>1, <1>2 DEF Consistent, InForce

\* An announcement that goes with everything queued is forgotten or lost.
LEMMA NoneQueued ==
  ASSUME DInv, Known, announced_format # NoFormat, ~ FormatQueued
  PROVE  lost_format \/ told_format = announced_format
<1>1. outputs \in Seq(Output)
  BY DEF DInv, Types, OutputsTyped
<1>2. Len(outputs) \in Nat /\ DOMAIN outputs = 1 .. Len(outputs)
  BY <1>1, LenProperties
<1>3. \A k \in 1 .. (Len(outputs) + 1) - 1 : outputs[k] \notin Announcements
  BY <1>2 DEF FormatQueued, Announcements
<1> QED BY <1>3 DEF Known, InForce

LEMMA KnownOrdinary ==
  ASSUME DInv, Known, UNCHANGED fixedVars, Ordinary
  PROVE  Known'
<1>1. UNCHANGED <<told_format, lost_format>>
  BY DEF Ordinary, toldVars
<1>2. PICK t : t = told_format
  OBVIOUS
<1>3. PICK l : l = lost_format
  OBVIOUS
<1>4. /\ Consistent(outputs, t, l)
      /\ announced_format # NoFormat =>
           InForce(outputs, Len(outputs) + 1, announced_format, t, l)
  BY <1>2, <1>3 DEF Known
<1>5. /\ Consistent(outputs', t, l)
      /\ announced_format' # NoFormat =>
           InForce(outputs', Len(outputs') + 1, announced_format', t, l)
  <2>1. CASE UNCHANGED outputVars
    BY <1>4, <2>1 DEF outputVars
  <2>2. CASE ~ UNCHANGED outputVars
    <3>1. PICK entry \in Entry : QueueFrame(entry)
      BY <2>2 DEF Ordinary
    <3>2. PICK i \in Position, mark \in Announcements, frame \in Frames :
            /\ frame.value = i /\ mark.value = stream[i].format
            /\ outputs' = IF announced_format = stream[i].format
                          THEN Append(outputs, frame)
                          ELSE Append(Append(outputs, mark), frame)
            /\ announced_format' = stream[i].format
      BY <2>2, <3>1, QueueIs DEF DInv
    <3>3. outputs \in Seq(Output) /\ mark \in Output /\ frame \in Output
      BY MarksAndFrames DEF DInv, Types, OutputsTyped
    <3>4. PICK format \in Formats : format = stream[i].format
      BY Constants DEF DInv
    <3>5. format # NoFormat
      BY DecoderAssumption DEF DecoderAssumption, Formats
    <3>6. PICK q \in Seq(Output) :
            /\ outputs' = Append(q, frame) /\ Consistent(q, t, l)
            /\ InForce(q, Len(q) + 1, format, t, l)
      <4>1. CASE announced_format = format
        BY <1>4, <3>2, <3>3, <3>4, <3>5, <4>1
      <4>2. CASE announced_format # format
        <5>1. Append(outputs, mark) \in Seq(Output)
          BY <3>3, Appended
        <5>2. mark \notin Frames
          BY MarksAndFrames
        <5>3. Consistent(Append(outputs, mark), t, l)
          BY <1>4, <3>3, <5>2, ConsistentAppend
        <5>4. InForce(Append(outputs, mark), Len(Append(outputs, mark)) + 1, format, t, l)
          BY <3>2, <3>3, <3>4, InForceAppend
        <5> QED BY <3>2, <3>4, <4>2, <5>1, <5>3, <5>4
      <4> QED BY <4>1, <4>2
    <3>7. Consistent(Append(q, frame), t, l)
      <4>1. InForce(q, Len(q) + 1, stream[frame.value].format, t, l)
        BY <3>2, <3>4, <3>6
      <4> QED BY <3>3, <3>6, <4>1, ConsistentAppend
    <3>8. InForce(Append(q, frame), Len(Append(q, frame)) + 1, format, t, l)
      BY <3>3, <3>6, InForceAppend
    <3> QED BY <3>2, <3>4, <3>6, <3>7, <3>8
  <2> QED BY <2>1, <2>2
<1> QED BY <1>1, <1>2, <1>3, <1>5, KnownNext

\* What is taken from the front is known or in force for what is left.
LEMMA KnownDeliver ==
  ASSUME DInv, Known, UNCHANGED fixedVars, Deliver
  PROVE  /\ Known'
         /\ Delivers => lost_format \/ (told_format = stream[received[Len(received)]].format)'
<1>1. outputs \in Seq(Output) /\ received \in Seq(Position)
  BY DEF DInv, Types, OutputsTyped, CallerTyped
<1>2. announced_format' = announced_format
  BY DEF Deliver
<1>3. CASE outputs = << >>
  <2>1. outputs' = outputs /\ UNCHANGED <<told_format, lost_format>>
    BY <1>3 DEF Deliver, toldVars
  <2>2. Known'
    BY <1>2, <2>1, KnownNext DEF Known
  <2> QED BY <1>3, <2>2 DEF Delivers
<1>4. CASE outputs # << >>
  <2>1. PICK q \in Seq(Output) : q = Tail(outputs)
    BY <1>1, <1>4, HeadTailProperties
  <2>2. PICK n \in Nat : n = Len(outputs)
    BY <1>1, LenProperties
  <2>3. PICK x \in Output : x = Head(outputs)
    BY <1>1, <1>4, HeadTailProperties
  <2>4. /\ DOMAIN outputs = 1 .. n /\ n >= 1 /\ outputs[1] = x
        /\ DOMAIN q = 1 .. n - 1 /\ Len(q) = n - 1
        /\ \A k \in 1 .. n - 1 : q[k] = outputs[k + 1]
    <3>1. n # 0 /\ DOMAIN outputs = 1 .. n
      BY <1>1, <1>4, <2>2, LenProperties, EmptySeq
    <3>2. Len(q) = n - 1 /\ \A k \in 1 .. n - 1 : q[k] = outputs[k + 1]
      BY <1>1, <1>4, <2>1, <2>2, HeadTailProperties
    <3>3. DOMAIN q = 1 .. n - 1
      BY <2>1, <3>2, LenProperties
    <3> QED BY <2>2, <2>3, <3>1, <3>2, <3>3
  <2>5. PICK t : t = told_format'
    OBVIOUS
  <2>6. PICK l : l = lost_format'
    OBVIOUS
  <2>7. outputs' = q
    BY <1>4, <2>1 DEF Deliver
  <2>8. \/ x \in Announcements /\ t = x.value
        \/ x \notin Announcements /\ t = told_format /\ l = lost_format
    <3>1. CASE x \in Announcements
      <4>1. told_format' = x.value
        BY <1>4, <2>3, <3>1, MarksAndFrames DEF Deliver
      <4> QED BY <2>5, <3>1, <4>1
    <3>2. CASE x \notin Announcements
      <4>1. UNCHANGED <<told_format, lost_format>>
        BY <1>4, <2>3, <3>2, MarksAndFrames DEF Deliver
      <4> QED BY <2>5, <2>6, <3>2, <4>1
    <3> QED BY <3>1, <3>2
  <2>9. ASSUME NEW k \in 1 .. n, NEW f, InForce(outputs, k + 1, f, told_format, lost_format)
        PROVE  InForce(q, k, f, t, l)
    <3>1. ASSUME NEW j \in 1 .. k - 1, q[j] \in Announcements,
                 \A m \in j + 1 .. k - 1 : q[m] \notin Announcements
          PROVE  q[j].value = f
      <4>1. j + 1 \in 1 .. (k + 1) - 1 /\ q[j] = outputs[j + 1]
        BY <2>4
      <4>2. ASSUME NEW m \in (j + 1) + 1 .. (k + 1) - 1
            PROVE  outputs[m] \notin Announcements
        <5>1. m - 1 \in j + 1 .. k - 1 /\ m - 1 \in 1 .. n - 1 /\ (m - 1) + 1 = m
          OBVIOUS
        <5> QED BY <2>4, <3>1, <5>1
      <4> QED BY <2>9, <3>1, <4>1, <4>2 DEF InForce
    <3>2. ASSUME \A j \in 1 .. k - 1 : q[j] \notin Announcements
          PROVE  l \/ t = f
      <4>1. ASSUME NEW m \in 1 + 1 .. (k + 1) - 1
            PROVE  outputs[m] \notin Announcements
        <5>1. m - 1 \in 1 .. k - 1 /\ m - 1 \in 1 .. n - 1 /\ (m - 1) + 1 = m
          OBVIOUS
        <5> QED BY <2>4, <3>2, <5>1
      <4>2. CASE x \in Announcements
        <5>1. 1 \in 1 .. (k + 1) - 1 /\ outputs[1] = x
          BY <2>4
        <5>2. x.value = f
          BY <2>9, <4>1, <4>2, <5>1 DEF InForce
        <5> QED BY <2>8, <4>2, <5>2
      <4>3. CASE x \notin Announcements
        <5>1. \A m \in 1 .. (k + 1) - 1 : m = 1 \/ m \in 1 + 1 .. (k + 1) - 1
          OBVIOUS
        <5>2. \A m \in 1 .. (k + 1) - 1 : outputs[m] \notin Announcements
          BY <2>4, <4>1, <4>3, <5>1
        <5>3. lost_format \/ told_format = f
          BY <2>9, <5>2 DEF InForce
        <5> QED BY <2>8, <4>3, <5>3
      <4> QED BY <4>2, <4>3
    <3> QED BY <3>1, <3>2 DEF InForce
  <2>10. Consistent(q, t, l)
    <3>1. ASSUME NEW k \in DOMAIN q, q[k] \in Frames
          PROVE  InForce(q, k, stream[q[k].value].format, t, l)
      <4>1. k \in 1 .. n /\ k + 1 \in DOMAIN outputs /\ outputs[k + 1] = q[k]
        BY <2>4
      <4>2. InForce(outputs, k + 1, stream[q[k].value].format, told_format, lost_format)
        BY <3>1, <4>1 DEF Known, Consistent
      <4> QED BY <2>9, <4>1, <4>2
    <3> QED BY <3>1 DEF Consistent
  <2>11. announced_format # NoFormat => InForce(q, Len(q) + 1, announced_format, t, l)
    <3>1. n \in 1 .. n /\ Len(q) + 1 = n
      BY <2>4
    <3> QED BY <2>2, <2>9, <3>1 DEF Known
  <2>12. Known'
    BY <1>2, <2>5, <2>6, <2>7, <2>10, <2>11, KnownNext
  <2>13. ASSUME Delivers
         PROVE  lost_format \/ (told_format = stream[received[Len(received)]].format)'
    <3>1. x \in Frames /\ x \notin Announcements
      BY <2>3, <2>13, MarksAndFrames DEF Delivers
    <3>2. InForce(outputs, 1, stream[x.value].format, told_format, lost_format)
      BY <2>4, <3>1 DEF Known, Consistent
    <3>3. \A j \in 1 .. 1 - 1 : FALSE
      OBVIOUS
    <3>4. lost_format \/ told_format = stream[x.value].format
      BY <3>2, <3>3 DEF InForce
    <3>5. received' = Append(received, x.value) /\ UNCHANGED told_format
      BY <1>4, <2>3, <3>1, MarksAndFrames DEF Deliver
    <3>6. x.value \in Position
      BY <3>1 DEF Frames
    <3>7. received'[Len(received')] = x.value
      BY <1>1, <3>5, <3>6, Appended
    <3>8. stream' = stream
      BY DEF fixedVars
    <3> QED BY <3>4, <3>5, <3>7, <3>8
  <2> QED BY <2>12, <2>13
<1> QED BY <1>3, <1>4

LEMMA KnownKept ==
  ASSUME DInv, Known, [Next]_vars
  PROVE  Known'
<1>1. UNCHANGED fixedVars
  BY AlwaysFixed
<1>2. CASE Ordinary
  BY <1>1, <1>2, KnownOrdinary
<1>3. CASE Deliver
  BY <1>1, <1>3, KnownDeliver
<1>4. CASE Reset
  <2>1. /\ outputs' = << >> /\ announced_format' = announced_format
        /\ lost_format' = (lost_format \/ FormatQueued) /\ told_format' = told_format
    BY <1>4 DEF Reset
  <2>2. announced_format # NoFormat => lost_format' \/ told_format = announced_format
    BY <2>1, NoneQueued
  <2>3. Consistent(<< >>, told_format', lost_format')
    BY NothingQueued
  <2>4. announced_format' # NoFormat =>
          InForce(<< >>, Len(<< >>) + 1, announced_format', told_format', lost_format')
    BY <2>1, <2>2, NothingQueued
  <2> QED BY <1>1, <2>1, <2>3, <2>4, KnownNext
<1>5. CASE SetStart
  <2>1. outputs' = outputs /\ announced_format' = announced_format
        /\ told_format' = told_format /\ lost_format' = lost_format
    BY <1>5 DEF SetStart, outputVars, toldVars
  <2> QED BY <1>1, <2>1, KnownNext DEF Known
<1>6. CASE Configure
  <2>1. /\ todo # << >> /\ Head(todo).step \in Restarting
        /\ outputs' = outputs /\ announced_format' = NoFormat
    BY <1>6 DEF Configure, Executes, Restarting
  <2>2. Head(todo) = todo[1]
    BY <2>1, StepsCounted DEF DInv
  <2>3. outputs = << >>
    BY <2>1, <2>2 DEF DInv, Control, HeadReady
  <2>4. Consistent(<< >>, told_format', lost_format')
    BY NothingQueued
  <2> QED BY <1>1, <2>1, <2>3, <2>4, KnownNext
<1>7. CASE Restore
  <2>1. /\ outputs' = << >>
        /\ announced_format' = IF FormatQueued THEN NoFormat ELSE announced_format
        /\ told_format' = told_format /\ lost_format' = lost_format
    BY <1>7 DEF Restore
  <2>2. announced_format' # NoFormat => lost_format \/ told_format = announced_format'
    BY <2>1, NoneQueued
  <2>3. Consistent(<< >>, told_format', lost_format')
    BY NothingQueued
  <2>4. announced_format' # NoFormat =>
          InForce(<< >>, Len(<< >>) + 1, announced_format', told_format', lost_format')
    BY <2>1, <2>2, NothingQueued
  <2> QED BY <1>1, <2>1, <2>3, <2>4, KnownNext
<1>8. ASSUME NEW target \in Targets, retarget_seek_forward(target)
      PROVE  Known'
  <2>1. Retarget(target) /\ told_format' = told_format /\ lost_format' = lost_format
    BY <1>8 DEF retarget_seek_forward
  <2>2. CASE ~ SomeFrameFrom(target)
    <3>1. /\ outputs' = << >>
          /\ announced_format' = IF FormatQueued THEN NoFormat ELSE announced_format
      BY <2>1, <2>2 DEF Retarget
    <3>2. announced_format' # NoFormat => lost_format \/ told_format = announced_format'
      BY <3>1, NoneQueued
    <3>3. Consistent(<< >>, told_format', lost_format')
      BY NothingQueued
    <3>4. announced_format' # NoFormat =>
            InForce(<< >>, Len(<< >>) + 1, announced_format', told_format', lost_format')
      BY <2>1, <3>2, NothingQueued
    <3> QED BY <1>1, <3>1, <3>3, <3>4, KnownNext
  <2>3. CASE SomeFrameFrom(target)
    <3>1. PICK kept :
            kept = {k \in DOMAIN outputs : IsFrame(k) => NotBefore(target, outputs[k].value)}
      OBVIOUS
    <3>2. outputs' = Retain(outputs, kept) /\ announced_format' = announced_format
      BY <2>1, <2>3, <3>1 DEF Retarget, QueuedFrom
    <3>3. outputs \in Seq(Output)
      BY DEF DInv, Types, OutputsTyped
    <3>4. \A k \in DOMAIN outputs : outputs[k] \in Announcements => k \in kept
      BY <3>1 DEF IsFrame, Announcements
    <3>5. PICK t : t = told_format
      OBVIOUS
    <3>6. PICK l : l = lost_format
      OBVIOUS
    <3>7. Consistent(outputs, t, l)
      BY <3>5, <3>6 DEF Known
    <3>8. /\ Consistent(Retain(outputs, kept), t, l)
          /\ \A f : InForce(outputs, Len(outputs) + 1, f, t, l)
               => InForce(Retain(outputs, kept), Len(Retain(outputs, kept)) + 1, f, t, l)
      BY <3>3, <3>4, <3>7, ConsistentRetain
    <3>9. announced_format # NoFormat => InForce(outputs, Len(outputs) + 1, announced_format, t, l)
      BY <3>5, <3>6 DEF Known
    <3> QED BY <1>1, <2>1, <3>2, <3>5, <3>6, <3>8, <3>9, KnownNext
  <2> QED BY <2>2, <2>3
<1> QED BY <1>2, <1>3, <1>4, <1>5, <1>6, <1>7, <1>8, OutputSteps

\* "Always emitted before the first frame using this new format": a caller that
\* receives a frame knows its format, unless a flush has thrown an announcement
\* away, across IDR pictures of other formats, retargeting and checkpoints.
THEOREM FormatIsAnnounced == Spec => []FormatAnnounced
<1> DEFINE FInv == Known /\ Answered /\ FormatAnnounced
<1>1. Init => FInv
  <2>1. SUFFICES ASSUME Init PROVE FInv
    OBVIOUS
  <2>2. outputs = << >> /\ announced_format = NoFormat /\ todo = << >> /\ result = "none"
    BY <2>1 DEF Init
  <2>3. Known
    BY <2>2, NothingQueued DEF Known
  <2> QED BY <2>2, <2>3 DEF Answered, FormatAnnounced
<1>2. DInv /\ FInv /\ [Next]_vars => FInv'
  <2>1. SUFFICES ASSUME DInv, FInv, [Next]_vars PROVE FInv'
    OBVIOUS
  <2>2. UNCHANGED fixedVars /\ Known'
    BY <2>1, AlwaysFixed, KnownKept
  <2>3. /\ Answered'
        /\ result' = "Frame" => Delivers \/ (result = "Frame" /\ UNCHANGED toldVars)
    BY <2>1, ResultKept
  <2>4. FormatAnnounced'
    <3>1. SUFFICES ASSUME result' = "Frame", ~ lost_format'
                   PROVE  (told_format = stream[received[Len(received)]].format)'
      BY DEF FormatAnnounced
    <3>2. CASE Delivers
      <4>1. Deliver /\ lost_format' = lost_format
        BY <3>2 DEF Delivers, Deliver
      <4> QED BY <2>1, <2>2, <3>1, <3>2, <4>1, KnownDeliver
    <3>3. CASE result = "Frame" /\ UNCHANGED toldVars
      BY <2>1, <2>2, <3>1, <3>3 DEF FormatAnnounced, toldVars, fixedVars
    <3> QED BY <2>3, <3>1, <3>2, <3>3
  <2> QED BY <2>2, <2>3, <2>4
<1>3. FInv => FormatAnnounced
  OBVIOUS
<1> QED BY <1>1, <1>2, <1>3, ControlInductive, PTL DEF Spec
=============================================================================
