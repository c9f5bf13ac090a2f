--------------------------- MODULE H264LossProofs ---------------------------
(***************************************************************************)
(* No picture is lost in silence: at the end of the stream, the pictures   *)
(* that were sent and not received, and that neither the target nor an IDR *)
(* picture keeps back, are at most three for each error reported, whatever *)
(* was called before, checkpoints and restores included.                   *)
(***************************************************************************)
EXTENDS H264DecoderProofs

----------
(* What is in a sequence *)

LEMMA InRange ==
  ASSUME NEW S, NEW s \in Seq(S)
  PROVE  /\ Range(s) \subseteq S
         /\ \A x : x \in Range(s) <=> \E k \in 1 .. Len(s) : x = s[k]
         /\ s = << >> => Range(s) = {}
<1>1. DOMAIN s = 1 .. Len(s)
  BY LenProperties
<1>2. \A k \in 1 .. Len(s) : s[k] \in S
  BY ElementOfSeq
<1>3. s = << >> => Len(s) = 0
  BY EmptySeq
<1> QED BY <1>1, <1>2, <1>3 DEF Range

LEMMA RangeTail ==
  ASSUME NEW S, NEW s \in Seq(S), s # << >>
  PROVE  /\ Range(s) = {Head(s)} \cup Range(Tail(s))
         /\ Head(s) = s[1] /\ Head(s) \in S /\ Tail(s) \in Seq(S)
<1>1. PICK t : t = Tail(s)
  OBVIOUS
<1>2. /\ Head(s) = s[1] /\ Head(s) \in S /\ t \in Seq(S)
      /\ Len(t) = Len(s) - 1 /\ Len(s) \in Nat /\ Len(s) # 0
      /\ \A k \in 1 .. Len(t) : t[k] = s[k + 1]
  BY <1>1, HeadTailProperties, LenProperties, EmptySeq
<1>3. ASSUME NEW x \in Range(s)
      PROVE  x = s[1] \/ x \in Range(t)
  <2>1. PICK k \in 1 .. Len(s) : x = s[k]
    BY InRange
  <2>2. CASE k = 1
    BY <2>1, <2>2
  <2>3. CASE k # 1
    <3>1. k - 1 \in 1 .. Len(t) /\ (k - 1) + 1 = k
      BY <1>2, <2>3
    <3>2. x = t[k - 1]
      BY <1>2, <2>1, <3>1
    <3> QED BY <1>2, <3>1, <3>2, InRange
  <2> QED BY <2>2, <2>3
<1>4. ASSUME NEW x \in Range(t)
      PROVE  x \in Range(s)
  <2>1. PICK k \in 1 .. Len(t) : x = t[k]
    BY <1>2, InRange
  <2>2. k + 1 \in 1 .. Len(s)
    BY <1>2
  <2> QED BY <1>2, <2>1, <2>2, InRange
<1>5. s[1] \in Range(s)
  <2>1. 1 \in 1 .. Len(s)
    BY <1>2
  <2> QED BY <2>1, InRange
<1> QED BY <1>1, <1>2, <1>3, <1>4, <1>5

LEMMA RangeAppend ==
  ASSUME NEW S, NEW s \in Seq(S), NEW x \in S
  PROVE  Range(Append(s, x)) = Range(s) \cup {x}
<1>1. PICK t : t = Append(s, x)
  OBVIOUS
<1>2. /\ t \in Seq(S) /\ Len(t) = Len(s) + 1 /\ Len(s) \in Nat
      /\ \A k \in 1 .. Len(s) : t[k] = s[k]
      /\ t[Len(s) + 1] = x
  BY <1>1, Appended
<1>3. \A k \in 1 .. Len(t) : k \in 1 .. Len(s) \/ k = Len(s) + 1
  BY <1>2
<1>4. \A k \in 1 .. Len(s) : k \in 1 .. Len(t)
  BY <1>2
<1>5. Len(s) + 1 \in 1 .. Len(t)
  BY <1>2
<1>6. \A y \in Range(t) : y \in Range(s) \/ y = x
  BY <1>2, <1>3, InRange
<1>7. \A y \in Range(s) : y \in Range(t)
  BY <1>2, <1>4, InRange
<1>8. x \in Range(t)
  BY <1>2, <1>5, InRange
<1> QED BY <1>1, <1>6, <1>7, <1>8

LEMMA RangeRemove ==
  ASSUME NEW S, NEW s \in Seq(S), NEW k \in 1 .. Len(s)
  PROVE  /\ Range(s) \subseteq Range(RemoveAt(s, k)) \cup {s[k]}
         /\ Range(RemoveAt(s, k)) \subseteq Range(s)
<1>1. Len(s) \in Nat
  BY LenProperties
<1>2. PICK a : a = SubSeq(s, 1, k - 1)
  OBVIOUS
<1>3. PICK b : b = SubSeq(s, k + 1, Len(s))
  OBVIOUS
<1>4. RemoveAt(s, k) = a \o b
  BY <1>2, <1>3 DEF RemoveAt
<1>5. /\ a \in Seq(S) /\ Len(a) = k - 1
      /\ \A i \in 1 .. k - 1 : a[i] = s[i]
  <2>1. \A i \in 1 .. k - 1 : s[i] \in S
    BY <1>1, ElementOfSeq
  <2>2. /\ a \in Seq(S) /\ Len(a) = k - 1
        /\ \A i \in 1 .. (k - 1) - 1 + 1 : a[i] = s[1 + i - 1]
    BY <1>1, <1>2, <2>1, SubSeqProperties
  <2>3. \A i \in 1 .. k - 1 : i \in 1 .. (k - 1) - 1 + 1 /\ 1 + i - 1 = i
    BY <1>1
  <2> QED BY <2>2, <2>3
<1>6. /\ b \in Seq(S) /\ Len(b) = Len(s) - k
      /\ \A i \in 1 .. Len(s) - k : b[i] = s[k + i]
  <2>1. \A i \in k + 1 .. Len(s) : s[i] \in S
    BY <1>1, ElementOfSeq
  <2>2. /\ b \in Seq(S) /\ Len(b) = Len(s) - k
        /\ \A i \in 1 .. Len(s) - (k + 1) + 1 : b[i] = s[k + 1 + i - 1]
    BY <1>1, <1>3, <2>1, SubSeqProperties
  <2>3. \A i \in 1 .. Len(s) - k : i \in 1 .. Len(s) - (k + 1) + 1 /\ k + 1 + i - 1 = k + i
    BY <1>1
  <2> QED BY <2>2, <2>3
<1>7. Range(a \o b) = Range(a) \cup Range(b)
  BY <1>5, <1>6, RangeConcatenation
<1>8. ASSUME NEW x \in Range(s), x # s[k]
      PROVE  x \in Range(a) \cup Range(b)
  <2>1. PICK j \in 1 .. Len(s) : x = s[j]
    BY InRange
  <2>2. CASE j < k
    <3>1. j \in 1 .. k - 1
      BY <1>1, <2>2
    <3> QED BY <1>5, <2>1, <3>1, InRange
  <2>3. CASE j > k
    <3>1. j - k \in 1 .. Len(s) - k /\ k + (j - k) = j
      BY <1>1, <2>3
    <3>2. x = b[j - k]
      BY <1>6, <2>1, <3>1
    <3> QED BY <1>6, <3>1, <3>2, InRange
  <2> QED BY <1>1, <1>8, <2>1, <2>2, <2>3
<1>9. ASSUME NEW x \in Range(a) \cup Range(b)
      PROVE  x \in Range(s)
  <2>1. CASE x \in Range(a)
    <3>1. PICK j \in 1 .. k - 1 : x = a[j]
      BY <1>5, <2>1, InRange
    <3>2. j \in 1 .. Len(s) /\ x = s[j]
      BY <1>1, <1>5, <3>1
    <3> QED BY <3>2, InRange
  <2>2. CASE x \in Range(b)
    <3>1. PICK j \in 1 .. Len(s) - k : x = b[j]
      BY <1>6, <2>2, InRange
    <3>2. k + j \in 1 .. Len(s) /\ x = s[k + j]
      BY <1>1, <1>6, <3>1
    <3> QED BY <3>2, InRange
  <2> QED BY <1>9, <2>1, <2>2
<1> QED BY <1>4, <1>7, <1>8, <1>9

\* What is at one of the positions is retained.
LEMMA RangeRetain ==
  ASSUME NEW S, NEW s \in Seq(S), NEW positions
  PROVE  \A k \in DOMAIN s : k \in positions => s[k] \in Range(Retain(s, positions))
<1> DEFINE n == Len(s)
<1>1. n \in Nat /\ DOMAIN s = 1 .. n
  BY LenProperties
<1>2. PICK G \in [0 .. n -> Seq(S)] :
        Retains(G, s, positions, n) /\ Retain(s, positions) = G[n]
  BY RetainIs
<1> DEFINE I == {m \in 0 .. n : \A k \in 1 .. m : k \in positions => s[k] \in Range(G[m])}
<1>3. 0 \in I
  BY <1>1
<1>4. ASSUME NEW m \in 1 .. n, m - 1 \in I
      PROVE  m \in I
  <2>1. m \in 0 .. n /\ m - 1 \in 0 .. n /\ s[m] \in S
    BY <1>1, ElementOfSeq
  <2>2. \A k \in 1 .. m - 1 : k \in positions => s[k] \in Range(G[m - 1])
    BY <1>4
  <2>3. Range(G[m - 1]) \subseteq Range(G[m]) /\ (m \in positions => s[m] \in Range(G[m]))
    <3>1. CASE m \in positions
      <4>1. G[m] = Append(G[m - 1], s[m]) /\ G[m - 1] \in Seq(S)
        BY <1>2, <2>1, <3>1 DEF Retains
      <4> QED BY <2>1, <4>1, RangeAppend
    <3>2. CASE m \notin positions
      <4>1. G[m] = G[m - 1]
        BY <1>2, <3>2 DEF Retains
      <4> QED BY <3>2, <4>1
    <3> QED BY <3>1, <3>2
  <2>4. \A k \in 1 .. m : k \in 1 .. m - 1 \/ k = m
    OBVIOUS
  <2> QED BY <2>1, <2>2, <2>3, <2>4
<1>5. n \in I
  <2>1. \A m \in 1 .. n : m - 1 \in I => m \in I
    BY <1>4
  <2> HIDE DEF I, n
  <2>2. \A m \in 0 .. n : m \in I
    BY <1>1, <1>3, <2>1, UpTo
  <2> QED BY <1>1, <2>2
<1> QED BY <1>1, <1>2, <1>5

----------
(* In which order the steps of a call may be left *)

\* Steps by what they are to the pictures: those that end a call, those that
\* end what is coded, those that start a new timeline, those that pass a
\* finished picture on, and those that throw pictures away.
Closing == {"guard", "accepted", "deliver", "snapshot"}
Ending == {"end stream", "end sequence"}
Rewinding == {"reset", "restore"}
Passing == {"push", "spawn", "spawn deferred"}
Finishing == Passing \cup {"record"}
Sweeping == {"discard", "clear"}
Done == Ending \cup {"snapshot", "drain", "prepare"}

MayPrecede(a, b) ==
  /\ a.step \notin Closing
  /\ b.step \in Rewinding => a.step = "discard"
  /\ b.step \in Finishing => /\ a.step \in {"room", "join", "poll"} \cup Finishing
                             /\ a.step \in Finishing => a.arg = b.arg
  /\ b.step \in Passing => a.step \in {"room", "join"}
  /\ a.step \in Ending => b.step \in {"poll", "accepted"}
  /\ b.step = "guard" => a.step = "poll"

Ordered(s) == \A k \in 1 .. Len(s) : \A j \in 1 .. k - 1 : MayPrecede(s[j], s[k])

\* What is right before a step.  The stream is q, the caller's cursor n.
Adjoins(q, a, b, n) ==
  /\ b.step \in Ending => a.step = "drain"
  /\ b.step = "drain" => a.step = "join"
  /\ b.step = "start" /\ q[b.arg].idr => a.step \in {"prepare", "drain", "clear"}
  /\ b.step \in Restarting => a.step = "reset" /\ a.arg = n
  /\ b.step = "clear" => a.step = "discard"
  /\ b.step = "push" => a.step = "join"
  /\ a.step = "prepare" => b.step = "start" /\ b.arg = a.arg
  /\ a.step = "drain" => \/ b.step \in Ending
                         \/ b.step = "start" /\ q[b.arg].idr

Adjacent(q, s, n) == \A k \in 2 .. Len(s) : Adjoins(q, s[k - 1], s[k], n)

\* What must still come after a step.
Awaits(q, a, b) ==
  /\ a.step = "prepare" => b.step = "start" /\ b.arg = a.arg
  /\ a.step \in Sweeping =>
       \/ b.step \in Rewinding
       \/ b.step = "start" /\ q[b.arg].no_output_of_prior_pictures
  /\ a.step \in Passing => b.step = "record" /\ b.arg = a.arg
  /\ a.step = "reset" => \/ b.step \in Restarting
                         \/ b.step = "start" /\ b.arg = a.arg
  /\ a.step = "drain" => b.step \in Ending \cup {"start"}

Promising == Sweeping \cup Passing \cup {"prepare", "reset", "drain"}

Promised(q, s) ==
  \A k \in 1 .. Len(s) :
    s[k].step \in Promising => \E j \in k + 1 .. Len(s) : Awaits(q, s[k], s[j])

\* The current picture is finished before the coding ends or a checkpoint is
\* taken: in s whether there is one now, or only when there is none now.
FinishedIn(s, k) ==
  \E l \in 1 .. k - 1 : s[l].step = "finish" /\ \A j \in l .. k - 1 : s[j].step # "start"
Unsettled(s) == \A k \in 1 .. Len(s) : s[k].step \in Done => FinishedIn(s, k)
Settled(s) ==
  \A k \in 1 .. Len(s) :
    s[k].step \in Done => \/ FinishedIn(s, k)
                          \/ \A j \in 1 .. k - 1 : s[j].step # "start"

LEMMA Shift ==
  ASSUME NEW S, NEW s \in Seq(S), s # << >>
  PROVE  /\ Len(s) \in Nat /\ Len(s) = Len(Tail(s)) + 1 /\ Len(Tail(s)) \in Nat
         /\ Tail(s) \in Seq(S) /\ Head(s) = s[1]
         /\ \A k \in 1 .. Len(Tail(s)) : k + 1 \in 1 .. Len(s) /\ Tail(s)[k] = s[k + 1]
         /\ \A k \in 2 .. Len(s) : k - 1 \in 1 .. Len(Tail(s)) /\ Tail(s)[k - 1] = s[k]
         /\ \A k \in 1 .. Len(s) : k = 1 \/ k \in 2 .. Len(s)
<1>1. PICK t : t = Tail(s)
  OBVIOUS
<1>2. /\ Head(s) = s[1] /\ t \in Seq(S)
      /\ Len(t) = Len(s) - 1 /\ Len(s) \in Nat /\ Len(s) # 0 /\ Len(t) \in Nat
      /\ \A k \in 1 .. Len(t) : t[k] = s[k + 1]
  BY <1>1, HeadTailProperties, LenProperties, EmptySeq
<1>3. \A k \in 2 .. Len(s) : k - 1 \in 1 .. Len(t) /\ (k - 1) + 1 = k
  BY <1>2
<1>4. \A k \in 1 .. Len(t) : k + 1 \in 1 .. Len(s)
  BY <1>2
<1>5. \A k \in 2 .. Len(s) : t[k - 1] = s[k]
  BY <1>2, <1>3
<1> QED BY <1>1, <1>2, <1>3, <1>4, <1>5

LEMMA OrderedCons ==
  ASSUME NEW s \in Seq(TypedStep), s # << >>
  PROVE  Ordered(s) <=> /\ Ordered(Tail(s))
                        /\ \A b \in Range(Tail(s)) : MayPrecede(Head(s), b)
<1>1. PICK t : t = Tail(s)
  OBVIOUS
<1>2. /\ Len(s) \in Nat /\ Len(s) = Len(t) + 1 /\ Len(t) \in Nat
      /\ t \in Seq(TypedStep) /\ Head(s) = s[1]
      /\ \A k \in 1 .. Len(t) : k + 1 \in 1 .. Len(s) /\ t[k] = s[k + 1]
      /\ \A k \in 2 .. Len(s) : k - 1 \in 1 .. Len(t) /\ t[k - 1] = s[k]
      /\ \A k \in 1 .. Len(s) : k = 1 \/ k \in 2 .. Len(s)
  BY <1>1, Shift
<1>3. ASSUME Ordered(s)
      PROVE  Ordered(t) /\ \A b \in Range(t) : MayPrecede(s[1], b)
  <2>1. ASSUME NEW k \in 1 .. Len(t), NEW j \in 1 .. k - 1
        PROVE  MayPrecede(t[j], t[k])
    <3>1. j + 1 \in 1 .. (k + 1) - 1 /\ j \in 1 .. Len(t)
      BY <1>2
    <3> QED BY <1>2, <1>3, <3>1 DEF Ordered
  <2>2. ASSUME NEW k \in 1 .. Len(t)
        PROVE  MayPrecede(s[1], t[k])
    <3>1. 1 \in 1 .. (k + 1) - 1
      OBVIOUS
    <3> QED BY <1>2, <1>3, <3>1 DEF Ordered
  <2> QED BY <1>2, <2>1, <2>2, InRange DEF Ordered
<1>4. ASSUME Ordered(t), \A b \in Range(t) : MayPrecede(s[1], b)
      PROVE  Ordered(s)
  <2>1. SUFFICES ASSUME NEW k \in 1 .. Len(s), NEW j \in 1 .. k - 1
                 PROVE  MayPrecede(s[j], s[k])
    BY DEF Ordered
  <2>2. k \in 2 .. Len(s) /\ k - 1 \in 1 .. Len(t) /\ t[k - 1] = s[k]
    BY <1>2
  <2>3. CASE j = 1
    BY <1>2, <1>4, <2>2, <2>3, InRange
  <2>4. CASE j # 1
    <3>1. j \in 2 .. Len(s) /\ j - 1 \in 1 .. (k - 1) - 1
      BY <1>2, <2>2, <2>4
    <3> QED BY <1>2, <1>4, <2>2, <3>1 DEF Ordered
  <2> QED BY <2>3, <2>4
<1> QED BY <1>1, <1>2, <1>3, <1>4

LEMMA AdjacentCons ==
  ASSUME NEW q, NEW s \in Seq(TypedStep), s # << >>, NEW n
  PROVE  Adjacent(q, s, n) <=> /\ Adjacent(q, Tail(s), n)
                               /\ Tail(s) # << >> => Adjoins(q, Head(s), Tail(s)[1], n)
<1>1. PICK t : t = Tail(s)
  OBVIOUS
<1>2. /\ Len(s) \in Nat /\ Len(s) = Len(t) + 1 /\ Len(t) \in Nat
      /\ t \in Seq(TypedStep) /\ Head(s) = s[1]
      /\ \A k \in 1 .. Len(t) : k + 1 \in 1 .. Len(s) /\ t[k] = s[k + 1]
      /\ \A k \in 2 .. Len(s) : k - 1 \in 1 .. Len(t) /\ t[k - 1] = s[k]
  BY <1>1, Shift
<1>3. t # << >> <=> Len(t) # 0
  BY <1>2, EmptySeq
<1>4. ASSUME Adjacent(q, s, n)
      PROVE  Adjacent(q, t, n) /\ (t # << >> => Adjoins(q, s[1], t[1], n))
  <2>1. ASSUME NEW k \in 2 .. Len(t)
        PROVE  Adjoins(q, t[k - 1], t[k], n)
    <3>1. k \in 1 .. Len(t) /\ k - 1 \in 1 .. Len(t) /\ k + 1 \in 2 .. Len(s)
          /\ (k - 1) + 1 = (k + 1) - 1
      BY <1>2
    <3>2. t[k] = s[k + 1] /\ t[k - 1] = s[(k + 1) - 1]
      BY <1>2, <3>1
    <3> QED BY <1>4, <3>1, <3>2 DEF Adjacent
  <2>2. ASSUME t # << >>
        PROVE  Adjoins(q, s[1], t[1], n)
    <3>1. 2 \in 2 .. Len(s) /\ 1 \in 1 .. Len(t) /\ 2 - 1 = 1 /\ 1 + 1 = 2
      BY <1>2, <1>3, <2>2
    <3>2. t[1] = s[2]
      BY <1>2, <3>1
    <3> QED BY <1>4, <3>1, <3>2 DEF Adjacent
  <2> QED BY <2>1, <2>2 DEF Adjacent
<1>5. ASSUME Adjacent(q, t, n), t # << >> => Adjoins(q, s[1], t[1], n)
      PROVE  Adjacent(q, s, n)
  <2>1. SUFFICES ASSUME NEW k \in 2 .. Len(s)
                 PROVE  Adjoins(q, s[k - 1], s[k], n)
    BY DEF Adjacent
  <2>2. k - 1 \in 1 .. Len(t) /\ t[k - 1] = s[k]
    BY <1>2
  <2>3. CASE k = 2
    <3>1. Len(t) # 0 /\ k - 1 = 1
      BY <1>2, <2>2, <2>3
    <3> QED BY <1>3, <1>5, <2>2, <3>1
  <2>4. CASE k # 2
    <3>1. k - 1 \in 2 .. Len(t) /\ k - 1 \in 2 .. Len(s)
      BY <1>2, <2>4
    <3>2. t[(k - 1) - 1] = s[k - 1]
      BY <1>2, <3>1
    <3> QED BY <1>5, <2>2, <3>1, <3>2 DEF Adjacent
  <2> QED BY <2>3, <2>4
<1> QED BY <1>1, <1>2, <1>4, <1>5

LEMMA PromisedCons ==
  ASSUME NEW q, NEW s \in Seq(TypedStep), s # << >>
  PROVE  Promised(q, s) <=> /\ Promised(q, Tail(s))
                            /\ Head(s).step \in Promising =>
                                 \E b \in Range(Tail(s)) : Awaits(q, Head(s), b)
<1>1. PICK t : t = Tail(s)
  OBVIOUS
<1>2. /\ Len(s) \in Nat /\ Len(s) = Len(t) + 1 /\ Len(t) \in Nat
      /\ t \in Seq(TypedStep) /\ Head(s) = s[1]
      /\ \A k \in 1 .. Len(t) : k + 1 \in 1 .. Len(s) /\ t[k] = s[k + 1]
      /\ \A k \in 2 .. Len(s) : k - 1 \in 1 .. Len(t) /\ t[k - 1] = s[k]
      /\ \A k \in 1 .. Len(s) : k = 1 \/ k \in 2 .. Len(s)
  BY <1>1, Shift
<1>3. ASSUME Promised(q, s)
      PROVE  /\ Promised(q, t)
             /\ s[1].step \in Promising => \E b \in Range(t) : Awaits(q, s[1], b)
  <2>1. ASSUME NEW k \in 1 .. Len(t), t[k].step \in Promising
        PROVE  \E j \in k + 1 .. Len(t) : Awaits(q, t[k], t[j])
    <3>1. PICK j \in (k + 1) + 1 .. Len(s) : Awaits(q, s[k + 1], s[j])
      BY <1>2, <1>3, <2>1 DEF Promised
    <3>2. j \in 2 .. Len(s) /\ j - 1 \in k + 1 .. Len(t)
      BY <1>2, <3>1
    <3>3. t[j - 1] = s[j] /\ t[k] = s[k + 1]
      BY <1>2, <3>2
    <3> QED BY <3>1, <3>2, <3>3
  <2>2. ASSUME s[1].step \in Promising
        PROVE  \E b \in Range(t) : Awaits(q, s[1], b)
    <3>1. 1 \in 1 .. Len(s)
      BY <1>2
    <3>2. PICK j \in 1 + 1 .. Len(s) : Awaits(q, s[1], s[j])
      BY <1>3, <2>2, <3>1 DEF Promised
    <3>3. j \in 2 .. Len(s)
      OBVIOUS
    <3> QED BY <1>2, <3>2, <3>3, InRange
  <2> QED BY <2>1, <2>2 DEF Promised
<1>4. ASSUME Promised(q, t), s[1].step \in Promising => \E b \in Range(t) : Awaits(q, s[1], b)
      PROVE  Promised(q, s)
  <2>1. SUFFICES ASSUME NEW k \in 1 .. Len(s), s[k].step \in Promising
                 PROVE  \E j \in k + 1 .. Len(s) : Awaits(q, s[k], s[j])
    BY DEF Promised
  <2>2. CASE k = 1
    <3>1. PICK i \in 1 .. Len(t) : Awaits(q, s[1], t[i])
      BY <1>2, <1>4, <2>1, <2>2, InRange
    <3>2. i + 1 \in k + 1 .. Len(s) /\ t[i] = s[i + 1]
      BY <1>2, <2>2
    <3> QED BY <2>2, <3>1, <3>2
  <2>3. CASE k # 1
    <3>1. k - 1 \in 1 .. Len(t) /\ t[k - 1] = s[k]
      BY <1>2, <2>3
    <3>2. PICK i \in (k - 1) + 1 .. Len(t) : Awaits(q, s[k], t[i])
      BY <1>4, <2>1, <3>1 DEF Promised
    <3>3. i \in 1 .. Len(t) /\ i + 1 \in k + 1 .. Len(s)
      BY <1>2, <3>1, <3>2
    <3> QED BY <1>2, <3>2, <3>3
  <2> QED BY <2>2, <2>3
<1> QED BY <1>1, <1>2, <1>3, <1>4

\* The step before moves what is finished by one.
LEMMA FinishedCons ==
  ASSUME NEW s \in Seq(TypedStep), s # << >>, NEW k \in 1 .. Len(Tail(s))
  PROVE  /\ Tail(s)[k] = s[k + 1]
         /\ FinishedIn(s, k + 1) <=>
              \/ FinishedIn(Tail(s), k)
              \/ /\ Head(s).step = "finish"
                 /\ \A j \in 1 .. k - 1 : Tail(s)[j].step # "start"
         /\ (\A j \in 1 .. (k + 1) - 1 : s[j].step # "start") <=>
              /\ Head(s).step # "start"
              /\ \A j \in 1 .. k - 1 : Tail(s)[j].step # "start"
<1>1. PICK t : t = Tail(s)
  OBVIOUS
<1>2. /\ Len(s) \in Nat /\ Len(s) = Len(t) + 1 /\ Len(t) \in Nat
      /\ Head(s) = s[1] /\ k \in 1 .. Len(t)
      /\ \A i \in 1 .. Len(t) : i + 1 \in 1 .. Len(s) /\ t[i] = s[i + 1]
      /\ \A i \in 2 .. Len(s) : i - 1 \in 1 .. Len(t) /\ t[i - 1] = s[i]
  BY <1>1, Shift
<1>3. \A j \in 1 .. k - 1 : j \in 1 .. Len(t) /\ j + 1 \in 2 .. k /\ t[j] = s[j + 1]
  BY <1>2
<1>4. \A j \in 2 .. k : j \in 2 .. Len(s) /\ j - 1 \in 1 .. k - 1 /\ t[j - 1] = s[j]
  BY <1>2
<1>5. (\A j \in 1 .. k : s[j].step # "start") <=>
        s[1].step # "start" /\ \A j \in 1 .. k - 1 : t[j].step # "start"
  <2>1. \A j \in 1 .. k : j = 1 \/ j \in 2 .. k
    OBVIOUS
  <2>2. \A j \in 2 .. k : j \in 1 .. k
    OBVIOUS
  <2>3. 1 \in 1 .. k
    OBVIOUS
  <2> QED BY <1>3, <1>4, <2>1, <2>2, <2>3
<1>6. ASSUME FinishedIn(s, k + 1)
      PROVE  \/ FinishedIn(t, k)
             \/ s[1].step = "finish" /\ \A j \in 1 .. k - 1 : t[j].step # "start"
  <2>1. PICK l \in 1 .. (k + 1) - 1 :
               s[l].step = "finish" /\ \A j \in l .. (k + 1) - 1 : s[j].step # "start"
    BY <1>6 DEF FinishedIn
  <2>2. l \in 1 .. k /\ \A j \in l .. k : s[j].step # "start"
    BY <2>1
  <2>3. CASE l = 1
    BY <1>5, <2>1, <2>2, <2>3
  <2>4. CASE l # 1
    <3>1. l \in 2 .. k /\ l - 1 \in 1 .. k - 1 /\ t[l - 1] = s[l]
      BY <1>4, <2>2, <2>4
    <3>2. \A j \in l - 1 .. k - 1 : j \in 1 .. k - 1 /\ j + 1 \in l .. k
      BY <2>2, <2>4
    <3>3. \A j \in l - 1 .. k - 1 : t[j].step # "start"
      BY <1>3, <2>2, <3>2
    <3> QED BY <2>1, <3>1, <3>3 DEF FinishedIn
  <2> QED BY <2>3, <2>4
<1>7. ASSUME FinishedIn(t, k)
      PROVE  FinishedIn(s, k + 1)
  <2>1. PICK l \in 1 .. k - 1 :
               t[l].step = "finish" /\ \A j \in l .. k - 1 : t[j].step # "start"
    BY <1>7 DEF FinishedIn
  <2>2. l + 1 \in 1 .. (k + 1) - 1 /\ s[l + 1].step = "finish"
    BY <1>3, <2>1
  <2>3. \A j \in l + 1 .. (k + 1) - 1 : j \in 2 .. k /\ j - 1 \in l .. k - 1
    BY <2>1
  <2>4. \A j \in l + 1 .. (k + 1) - 1 : s[j].step # "start"
    BY <1>4, <2>1, <2>3
  <2> QED BY <2>2, <2>4 DEF FinishedIn
<1>8. ASSUME s[1].step = "finish", \A j \in 1 .. k - 1 : t[j].step # "start"
      PROVE  FinishedIn(s, k + 1)
  <2>1. 1 \in 1 .. (k + 1) - 1 /\ (k + 1) - 1 = k
    OBVIOUS
  <2>2. \A j \in 1 .. k : s[j].step # "start"
    BY <1>5, <1>8
  <2> QED BY <1>8, <2>1, <2>2 DEF FinishedIn
<1>9. (k + 1) - 1 = k
  OBVIOUS
<1> QED BY <1>1, <1>2, <1>5, <1>6, <1>7, <1>8, <1>9

LEMMA SettledCons ==
  ASSUME NEW s \in Seq(TypedStep), s # << >>
  PROVE  /\ Unsettled(s) <=> /\ Head(s).step \notin Done
                             /\ Head(s).step = "finish" => Settled(Tail(s))
                             /\ Head(s).step # "finish" => Unsettled(Tail(s))
         /\ Settled(s) <=> /\ Head(s).step # "start" /\ Head(s).step # "finish" => Settled(Tail(s))
                           /\ Head(s).step = "finish" => Settled(Tail(s))
                           /\ Head(s).step = "start" => Unsettled(Tail(s))
         /\ Unsettled(s) => Settled(s)
<1>1. PICK t : t = Tail(s)
  OBVIOUS
<1>2. PICK a : a = Head(s)
  OBVIOUS
<1>3. /\ Len(s) \in Nat /\ Len(s) = Len(t) + 1 /\ Len(t) \in Nat /\ s[1] = a
      /\ \A k \in 1 .. Len(t) : k + 1 \in 1 .. Len(s) /\ t[k] = s[k + 1]
      /\ \A k \in 2 .. Len(s) : k - 1 \in 1 .. Len(t) /\ t[k - 1] = s[k]
      /\ \A k \in 1 .. Len(s) : k = 1 \/ k \in 2 .. Len(s)
  BY <1>1, <1>2, Shift
<1> DEFINE Clear(q, k) == \A j \in 1 .. k - 1 : q[j].step # "start"
<1>4. \A k \in 1 .. Len(t) :
        /\ FinishedIn(s, k + 1) <=> FinishedIn(t, k) \/ (a.step = "finish" /\ Clear(t, k))
        /\ Clear(s, k + 1) <=> a.step # "start" /\ Clear(t, k)
  BY <1>1, <1>2, FinishedCons
<1>5. ~ FinishedIn(s, 1) /\ Clear(s, 1)
  BY DEF FinishedIn
<1> HIDE DEF Clear
<1>6. Unsettled(s) <=> \A k \in 1 .. Len(s) : s[k].step \in Done => FinishedIn(s, k)
  BY DEF Unsettled
<1>7. Settled(s) <=>
        \A k \in 1 .. Len(s) : s[k].step \in Done => FinishedIn(s, k) \/ Clear(s, k)
  BY DEF Settled, Clear
<1>8. Unsettled(t) <=> \A k \in 1 .. Len(t) : t[k].step \in Done => FinishedIn(t, k)
  BY DEF Unsettled
<1>9. Settled(t) <=>
        \A k \in 1 .. Len(t) : t[k].step \in Done => FinishedIn(t, k) \/ Clear(t, k)
  BY DEF Settled, Clear
<1>10. \A k \in 2 .. Len(s) : (k - 1) + 1 = k
  BY <1>3
<1>11. Unsettled(s) <=>
         /\ a.step \notin Done
         /\ \A k \in 1 .. Len(t) : t[k].step \in Done =>
              FinishedIn(t, k) \/ (a.step = "finish" /\ Clear(t, k))
  <2>1. ASSUME Unsettled(s)
        PROVE  /\ a.step \notin Done
               /\ \A k \in 1 .. Len(t) : t[k].step \in Done =>
                    FinishedIn(t, k) \/ (a.step = "finish" /\ Clear(t, k))
    <3>1. 1 \in 1 .. Len(s)
      BY <1>3
    <3> QED BY <1>3, <1>4, <1>5, <1>6, <2>1, <3>1
  <2>2. ASSUME a.step \notin Done,
               \A k \in 1 .. Len(t) : t[k].step \in Done =>
                 FinishedIn(t, k) \/ (a.step = "finish" /\ Clear(t, k)),
               NEW k \in 1 .. Len(s), s[k].step \in Done
        PROVE  FinishedIn(s, k)
    <3>1. k \in 2 .. Len(s)
      BY <1>3, <2>2
    <3>2. k - 1 \in 1 .. Len(t) /\ t[k - 1].step \in Done /\ (k - 1) + 1 = k
      BY <1>3, <1>10, <2>2, <3>1
    <3> QED BY <1>4, <2>2, <3>2
  <2> QED BY <1>6, <2>1, <2>2
<1>12. Settled(s) <=>
         \A k \in 1 .. Len(t) : t[k].step \in Done =>
           \/ FinishedIn(t, k) \/ (a.step = "finish" /\ Clear(t, k))
           \/ a.step # "start" /\ Clear(t, k)
  <2>1. ASSUME Settled(s)
        PROVE  \A k \in 1 .. Len(t) : t[k].step \in Done =>
                 \/ FinishedIn(t, k) \/ (a.step = "finish" /\ Clear(t, k))
                 \/ a.step # "start" /\ Clear(t, k)
    BY <1>3, <1>4, <1>7, <2>1
  <2>2. ASSUME \A k \in 1 .. Len(t) : t[k].step \in Done =>
                 \/ FinishedIn(t, k) \/ (a.step = "finish" /\ Clear(t, k))
                 \/ a.step # "start" /\ Clear(t, k),
               NEW k \in 1 .. Len(s), s[k].step \in Done
        PROVE  FinishedIn(s, k) \/ Clear(s, k)
    <3>1. CASE k = 1
      BY <1>5, <3>1
    <3>2. CASE k \in 2 .. Len(s)
      <4>1. k - 1 \in 1 .. Len(t) /\ t[k - 1].step \in Done /\ (k - 1) + 1 = k
        BY <1>3, <1>10, <2>2, <3>2
      <4> QED BY <1>4, <2>2, <4>1
    <3> QED BY <1>3, <3>1, <3>2
  <2> QED BY <1>7, <2>1, <2>2
<1>13. Unsettled(s) <=> /\ a.step \notin Done
                        /\ a.step = "finish" => Settled(t)
                        /\ a.step # "finish" => Unsettled(t)
  BY <1>8, <1>9, <1>11
<1>14. Settled(s) <=> /\ a.step # "start" /\ a.step # "finish" => Settled(t)
                      /\ a.step = "finish" => Settled(t)
                      /\ a.step = "start" => Unsettled(t)
  BY <1>8, <1>9, <1>12
<1>15. Unsettled(s) => Settled(s)
  BY <1>6, <1>7
<1> QED BY <1>1, <1>2, <1>13, <1>14, <1>15

----------
(* Steps put before others *)

Shaped(q, s, n) == Ordered(s) /\ Adjacent(q, s, n) /\ Promised(q, s)

\* s is step a, and then those of t.
Starts(s, a, t) ==
  /\ s \in Seq(TypedStep) /\ a \in TypedStep /\ t \in Seq(TypedStep)
  /\ s # << >> /\ Head(s) = a /\ Tail(s) = t

Precedes(q, a, t, n) ==
  /\ \A b \in Range(t) : MayPrecede(a, b)
  /\ t # << >> => Adjoins(q, a, t[1], n)
  /\ a.step \in Promising => \E b \in Range(t) : Awaits(q, a, b)

\* The first element of what is put before a sequence.
LEMMA Peel ==
  ASSUME NEW S, NEW x \in Seq(S), x # << >>, NEW t \in Seq(S), NEW s, s = x \o t,
         NEW y, y = Tail(x)
  PROVE  s \in Seq(S) /\ s # << >> /\ s[1] = x[1] /\ Tail(s) = y \o t
<1>1. y \in Seq(S) /\ Len(x) = 1 + Len(y) /\ Len(y) \in Nat /\ \A i \in 1 .. Len(y) : y[i] = x[i+1]
  BY HeadTailProperties, LenProperties, EmptySeq
<1>2. s \in Seq(S) /\ Len(s) = Len(x) + Len(t) /\ Len(t) \in Nat
      /\ \A i \in 1 .. Len(x) + Len(t) : s[i] = IF i <= Len(x) THEN x[i] ELSE t[i - Len(x)]
  BY ConcatProperties, LenProperties
<1>3. s # << >> /\ 1 \in 1 .. Len(x) + Len(t)
  BY <1>1, <1>2, EmptySeq
<1>4. PICK v : v = Tail(s)
  OBVIOUS
<1>5. v \in Seq(S) /\ Len(v) = Len(s) - 1 /\ \A i \in 1 .. Len(v) : v[i] = s[i+1]
  BY <1>2, <1>3, <1>4, HeadTailProperties
<1>6. PICK w : w = y \o t
  OBVIOUS
<1>7. w \in Seq(S) /\ Len(w) = Len(y) + Len(t)
      /\ \A i \in 1 .. Len(y) + Len(t) : w[i] = IF i <= Len(y) THEN y[i] ELSE t[i - Len(y)]
  BY <1>1, <1>6, ConcatProperties
<1>8. ASSUME NEW i \in 1 .. Len(v)
      PROVE  v[i] = w[i]
  <2>1. i \in 1 .. Len(y) + Len(t) /\ i + 1 \in 1 .. Len(x) + Len(t) /\ i \in Int
    BY <1>1, <1>2, <1>5
  <2>2. CASE i <= Len(y)
    <3>1. i \in 1 .. Len(y) /\ i + 1 <= Len(x)
      BY <1>1, <2>1, <2>2
    <3> QED BY <1>1, <1>2, <1>5, <1>7, <2>1, <2>2, <3>1
  <2>3. CASE ~ (i <= Len(y))
    <3>1. ~(i + 1 <= Len(x)) /\ (i + 1) - Len(x) = i - Len(y)
      BY <1>1, <2>1, <2>3
    <3> QED BY <1>1, <1>2, <1>5, <1>7, <2>1, <2>3, <3>1
  <2> QED BY <2>2, <2>3
<1>9. Len(v) = Len(w)
  BY <1>1, <1>2, <1>5, <1>7
<1>10. v = w
  BY <1>5, <1>7, <1>8, <1>9, SeqEqual
<1> QED BY <1>1, <1>2, <1>3, <1>4, <1>6, <1>10

LEMMA PeelOne ==
  ASSUME NEW a \in TypedStep,
         NEW t \in Seq(TypedStep), NEW s, s = <<a>> \o t
  PROVE  Starts(s, a, t)
<1>1. PICK x : x = <<a>>
  OBVIOUS
<1>2. PICK y : y = << >>
  OBVIOUS
<1>3. x \in Seq(TypedStep) /\ x # << >> /\ x[1] = a /\ y \in Seq(TypedStep)
  BY <1>1, <1>2
<1>4. Tail(x) = y
  BY <1>1, <1>2
<1>5. s = x \o t /\ t = y \o t
  <2>1. << >> \o t = t
    BY ConcatEmptySeq
  <2> QED BY <1>1, <1>2, <2>1
<1> QED BY <1>3, <1>4, <1>5, Peel DEF Starts

LEMMA PeelTwo ==
  ASSUME NEW a \in TypedStep, NEW b \in TypedStep,
         NEW t \in Seq(TypedStep), NEW s, s = <<a, b>> \o t,
         NEW u, u = <<b>> \o t
  PROVE  Starts(s, a, u)
<1>1. PICK x : x = <<a, b>>
  OBVIOUS
<1>2. PICK y : y = <<b>>
  OBVIOUS
<1>3. x \in Seq(TypedStep) /\ x # << >> /\ x[1] = a /\ y \in Seq(TypedStep)
  BY <1>1, <1>2
<1>4. Tail(x) = y
  BY <1>1, <1>2
<1>5. s = x \o t /\ u = y \o t
  BY <1>1, <1>2
<1>6. u \in Seq(TypedStep)
  BY <1>3, <1>5, ConcatProperties
<1> QED BY <1>3, <1>4, <1>5, <1>6, Peel DEF Starts

LEMMA PeelThree ==
  ASSUME NEW a \in TypedStep, NEW b \in TypedStep, NEW c \in TypedStep,
         NEW t \in Seq(TypedStep), NEW s, s = <<a, b, c>> \o t,
         NEW u, u = <<b, c>> \o t
  PROVE  Starts(s, a, u)
<1>1. PICK x : x = <<a, b, c>>
  OBVIOUS
<1>2. PICK y : y = <<b, c>>
  OBVIOUS
<1>3. x \in Seq(TypedStep) /\ x # << >> /\ x[1] = a /\ y \in Seq(TypedStep)
  BY <1>1, <1>2
<1>4. Tail(x) = y
  BY <1>1, <1>2
<1>5. s = x \o t /\ u = y \o t
  BY <1>1, <1>2
<1>6. u \in Seq(TypedStep)
  BY <1>3, <1>5, ConcatProperties
<1> QED BY <1>3, <1>4, <1>5, <1>6, Peel DEF Starts

LEMMA PeelFour ==
  ASSUME NEW a \in TypedStep, NEW b \in TypedStep, NEW c \in TypedStep, NEW d \in TypedStep,
         NEW t \in Seq(TypedStep), NEW s, s = <<a, b, c, d>> \o t,
         NEW u, u = <<b, c, d>> \o t
  PROVE  Starts(s, a, u)
<1>1. PICK x : x = <<a, b, c, d>>
  OBVIOUS
<1>2. PICK y : y = <<b, c, d>>
  OBVIOUS
<1>3. x \in Seq(TypedStep) /\ x # << >> /\ x[1] = a /\ y \in Seq(TypedStep)
  BY <1>1, <1>2
<1>4. Tail(x) = y
  BY <1>1, <1>2
<1>5. s = x \o t /\ u = y \o t
  BY <1>1, <1>2
<1>6. u \in Seq(TypedStep)
  BY <1>3, <1>5, ConcatProperties
<1> QED BY <1>3, <1>4, <1>5, <1>6, Peel DEF Starts

\* One step more, and what it must meet.
LEMMA Prefix ==
  ASSUME NEW s, NEW a, NEW t, Starts(s, a, t), NEW q, NEW n
  PROVE  /\ s[1] = a
         /\ Range(s) = {a} \cup Range(t)
         /\ Shaped(q, s, n) <=> Shaped(q, t, n) /\ Precedes(q, a, t, n)
         /\ a.step # "start" => (Settled(s) <=> Settled(t))
         /\ a.step = "start" => (Settled(s) <=> Unsettled(t))
         /\ a.step = "finish" => (Unsettled(s) <=> Settled(t))
         /\ a.step # "finish" => (Unsettled(s) <=> a.step \notin Done /\ Unsettled(t))
<1>1. /\ s \in Seq(TypedStep) /\ s # << >> /\ s[1] = a /\ Head(s) = a /\ Tail(s) = t
      /\ a \in TypedStep /\ t \in Seq(TypedStep)
  BY Shift DEF Starts
<1>2. Range(s) = {a} \cup Range(t)
  BY <1>1, RangeTail
<1>3. Ordered(s) <=> Ordered(t) /\ \A b \in Range(t) : MayPrecede(a, b)
  BY <1>1, OrderedCons
<1>4. Adjacent(q, s, n) <=> Adjacent(q, t, n) /\ (t # << >> => Adjoins(q, a, t[1], n))
  BY <1>1, AdjacentCons
<1>5. Promised(q, s) <=>
        /\ Promised(q, t)
        /\ a.step \in Promising => \E b \in Range(t) : Awaits(q, a, b)
  BY <1>1, PromisedCons
<1>6. Shaped(q, s, n) <=> Shaped(q, t, n) /\ Precedes(q, a, t, n)
  BY <1>3, <1>4, <1>5 DEF Shaped, Precedes
<1>7. /\ Unsettled(s) <=> /\ a.step \notin Done
                          /\ a.step = "finish" => Settled(t)
                          /\ a.step # "finish" => Unsettled(t)
      /\ Settled(s) <=> /\ a.step # "start" /\ a.step # "finish" => Settled(t)
                        /\ a.step = "finish" => Settled(t)
                        /\ a.step = "start" => Unsettled(t)
  <2>1. /\ Unsettled(s) <=> /\ Head(s).step \notin Done
                            /\ Head(s).step = "finish" => Settled(Tail(s))
                            /\ Head(s).step # "finish" => Unsettled(Tail(s))
        /\ Settled(s) <=> /\ Head(s).step # "start" /\ Head(s).step # "finish" => Settled(Tail(s))
                          /\ Head(s).step = "finish" => Settled(Tail(s))
                          /\ Head(s).step = "start" => Unsettled(Tail(s))
    BY <1>1, SettledCons
  <2> QED BY <1>1, <2>1
<1>8. "finish" \notin Done
  BY DEF Done, Ending
<1> QED BY <1>1, <1>2, <1>6, <1>7, <1>8

LEMMA Goes ==
  ASSUME NEW s, NEW a, NEW t, Starts(s, a, t),
         NEW q, NEW n, Shaped(q, t, n), Precedes(q, a, t, n), Settled(t), a.step # "start"
  PROVE  Shaped(q, s, n) /\ Settled(s)
BY Prefix

LEMMA Parts ==
  ASSUME NEW s, NEW a, NEW t, Starts(s, a, t)
  PROVE  /\ s \in Seq(TypedStep) /\ s # << >> /\ s[1] = a
         /\ a \in TypedStep /\ t \in Seq(TypedStep)
         /\ Range(s) = {a} \cup Range(t)
         /\ a \in Range(s) /\ \A b \in Range(s) : b = a \/ b \in Range(t)
BY RangeTail DEF Starts

LEMMA NoSteps ==
  ASSUME NEW q, NEW n
  PROVE  /\ << >> \in Seq(TypedStep) /\ Range(<< >>) = {}
         /\ Shaped(q, << >>, n) /\ Settled(<< >>) /\ Unsettled(<< >>)
<1>1. << >> \in Seq(TypedStep) /\ Len(<< >>) = 0
  BY EmptySeq
<1>2. Range(<< >>) = {}
  BY <1>1, InRange
<1>3. 1 .. 0 = {} /\ 2 .. 0 = {}
  OBVIOUS
<1> QED BY <1>1, <1>2, <1>3
        DEF Shaped, Ordered, Adjacent, Promised, Settled, Unsettled

----------
(* The steps that finish a picture, and those before an IDR picture *)

Plainly(t) == \A b \in Range(t) : b.step \notin Rewinding \cup Finishing \cup {"guard"}

\* What comes next needs no particular step before it.
Freely(q, t) ==
  t # << >> => /\ t[1].step \notin Ending \cup {"drain", "clear", "push"} \cup Restarting
               /\ t[1].step = "start" => ~ q[t[1].arg].idr

\* Steps that finish picture i, and then those of t.
Finishes(s, t, i) ==
  /\ Range(t) \subseteq Range(s)
  /\ \A b \in Range(s) : \/ b \in Range(t)
                         \/ b.step \in {"room", "poll", "join"}
                         \/ b.step \in Finishing /\ b.arg = i
  /\ \E b \in Range(s) : b.step \in Passing /\ b.arg = i
  /\ \E b \in Range(s) : b.step = "record" /\ b.arg = i
  /\ s # << >> /\ s[1].step \in {"room", "join", "push"}

LEMMA PushRecord ==
  ASSUME NEW s, NEW u, NEW t, NEW push, NEW record, NEW q, NEW n, NEW i,
         Starts(s, push, u), Starts(u, record, t),
         push.step = "push", push.arg = i, record.step = "record", record.arg = i,
         Shaped(q, t, n), Plainly(t), Freely(q, t), Settled(t)
  PROVE  /\ Shaped(q, s, n) /\ Settled(s)
         /\ Finishes(s, t, i) /\ s[1] = push
         /\ Range(s) = {push, record} \cup Range(t)
<1>1. u[1] = record /\ Range(u) = {record} \cup Range(t)
  BY Parts
<1>2. s[1] = push /\ Range(s) = {push} \cup Range(u)
  BY Parts
<1>3. Precedes(q, record, t, n)
  BY DEF Precedes, Plainly, Freely, MayPrecede, Adjoins, Closing, Ending, Rewinding, Finishing,
         Passing, Promising, Sweeping, Restarting
<1>4. Shaped(q, u, n) /\ Settled(u)
  BY <1>3, Goes
<1>5. Precedes(q, push, u, n)
  <2>1. \A b \in Range(u) : MayPrecede(push, b)
    BY <1>1 DEF Plainly, MayPrecede, Closing, Ending, Rewinding, Finishing, Passing
  <2>2. Adjoins(q, push, u[1], n)
    BY <1>1 DEF Adjoins, Ending, Restarting
  <2>3. Awaits(q, push, record)
    BY DEF Awaits, Sweeping, Passing
  <2> QED BY <1>1, <2>1, <2>2, <2>3 DEF Precedes
<1>6. Shaped(q, s, n) /\ Settled(s)
  BY <1>4, <1>5, Goes
<1>7. Finishes(s, t, i)
  BY <1>1, <1>2, Parts DEF Finishes, Finishing, Passing
<1> QED BY <1>1, <1>2, <1>6, <1>7

LEMMA JoinPushRecord ==
  ASSUME NEW s, NEW v, NEW u, NEW t, NEW join, NEW push, NEW record, NEW q, NEW n, NEW i,
         Starts(s, join, v), Starts(v, push, u), Starts(u, record, t), join.step = "join",
         push.step = "push", push.arg = i, record.step = "record", record.arg = i,
         Shaped(q, t, n), Plainly(t), Freely(q, t), Settled(t)
  PROVE  /\ Shaped(q, s, n) /\ Settled(s)
         /\ Finishes(s, t, i) /\ s[1] = join
<1>1. /\ Shaped(q, v, n) /\ Settled(v) /\ Finishes(v, t, i)
      /\ v[1] = push /\ Range(v) = {push, record} \cup Range(t)
  BY PushRecord
<1>2. s[1] = join /\ Range(s) = {join} \cup Range(v)
  BY Parts
<1>3. Precedes(q, join, v, n)
  BY <1>1 DEF Precedes, Plainly, MayPrecede, Adjoins, Closing, Ending, Rewinding, Finishing,
         Passing, Promising, Sweeping, Restarting
<1>4. Shaped(q, s, n) /\ Settled(s)
  BY <1>1, <1>3, Goes
<1>5. Finishes(s, t, i)
  BY <1>1, <1>2, Parts DEF Finishes
<1> QED BY <1>2, <1>4, <1>5

LEMMA RoomSpawnPollRecord ==
  ASSUME NEW s, NEW w, NEW v, NEW u, NEW t,
         NEW room, NEW spawn, NEW poll, NEW record, NEW q, NEW n, NEW i,
         Starts(s, room, w), Starts(w, spawn, v), Starts(v, poll, u), Starts(u, record, t),
         room.step = "room", spawn.step \in Spawning, spawn.arg = i, poll.step = "poll",
         record.step = "record", record.arg = i,
         Shaped(q, t, n), Plainly(t), Freely(q, t), Settled(t)
  PROVE  /\ Shaped(q, s, n) /\ Settled(s)
         /\ Finishes(s, t, i) /\ s[1] = room
<1>1. u[1] = record /\ Range(u) = {record} \cup Range(t)
  BY Parts
<1>2. v[1] = poll /\ Range(v) = {poll} \cup Range(u)
  BY Parts
<1>3. w[1] = spawn /\ Range(w) = {spawn} \cup Range(v)
  BY Parts
<1>4. s[1] = room /\ Range(s) = {room} \cup Range(w)
  BY Parts
<1>5. Precedes(q, record, t, n)
  BY DEF Precedes, Plainly, Freely, MayPrecede, Adjoins, Closing, Ending, Rewinding, Finishing,
         Passing, Promising, Sweeping, Restarting
<1>6. Shaped(q, u, n) /\ Settled(u)
  BY <1>5, Goes
<1>7. Precedes(q, poll, u, n)
  BY <1>1 DEF Precedes, Plainly, MayPrecede, Adjoins, Closing, Ending, Rewinding, Finishing,
         Passing, Promising, Sweeping, Restarting
<1>8. Shaped(q, v, n) /\ Settled(v)
  BY <1>6, <1>7, Goes
<1>9. Precedes(q, spawn, v, n)
  <2>1. \A b \in Range(v) : MayPrecede(spawn, b)
    BY <1>1, <1>2 DEF Plainly, MayPrecede, Closing, Ending, Rewinding, Finishing, Passing, Spawning
  <2>2. Adjoins(q, spawn, v[1], n)
    BY <1>2 DEF Adjoins, Ending, Restarting, Spawning
  <2>3. Awaits(q, spawn, record)
    BY DEF Awaits, Sweeping, Passing, Spawning
  <2> QED BY <1>1, <1>2, <2>1, <2>2, <2>3 DEF Precedes
<1>10. Shaped(q, w, n) /\ Settled(w)
  <2>1. spawn.step # "start"
    BY DEF Spawning
  <2> QED BY <1>8, <1>9, <2>1, Goes
<1>11. Precedes(q, room, w, n)
  <2>1. \A b \in Range(w) : MayPrecede(room, b)
    BY <1>1, <1>2, <1>3 DEF Plainly, MayPrecede, Closing, Ending, Rewinding, Finishing, Passing,
       Spawning
  <2>2. Adjoins(q, room, w[1], n)
    BY <1>3 DEF Adjoins, Ending, Restarting, Spawning
  <2>3. room.step \notin Promising
    BY DEF Promising, Sweeping, Passing
  <2> QED BY <2>1, <2>2, <2>3 DEF Precedes
<1>12. Shaped(q, s, n) /\ Settled(s)
  BY <1>10, <1>11, Goes
<1>13. Finishes(s, t, i)
  <2>1. Range(s) = {room, spawn, poll, record} \cup Range(t)
    BY <1>1, <1>2, <1>3, <1>4
  <2>2. spawn.step \in Passing /\ Passing \subseteq Finishing /\ "record" \in Finishing
    BY DEF Passing, Finishing, Spawning
  <2> QED BY <1>4, <2>1, <2>2, Parts DEF Finishes
<1> QED BY <1>4, <1>12, <1>13

LEMMA FinishStepsShaped ==
  ASSUME NEW p \in Current, NEW t \in Seq(TypedStep), NEW q, NEW n,
         Shaped(q, t, n), Plainly(t), Freely(q, t), Settled(t),
         NEW s, s = FinishSteps(p) \o t
  PROVE  /\ s \in Seq(TypedStep) /\ Shaped(q, s, n) /\ Settled(s)
         /\ Finishes(s, t, p.picture) /\ s[1].step \in {"room", "join"}
<1>1. PICK i \in Position : i = p.picture
  BY DEF Current
<1>2. PICK damage \in Damages : damage = p.damage
  BY DEF Current
<1>3. PICK room \in TypedStep : room = Do("room", 0) /\ room.step = "room"
  <2>1. "room" \in Plain
    BY DEF Plain
  <2> QED BY <2>1, PlainStep
<1>4. PICK poll \in TypedStep : poll = Do("poll", 0) /\ poll.step = "poll"
  BY PlainSteps
<1>5. PICK join \in TypedStep : join = Do("join", 0) /\ join.step = "join"
  BY PlainSteps
<1>6. PICK record \in TypedStep : record = Do("record", i) /\ record.step = "record" /\ record.arg = i
  BY PictureSteps DEF Do
<1>7. PICK push \in TypedStep : push = Do("push", i) /\ push.step = "push" /\ push.arg = i
  BY PictureSteps DEF Do
<1>8. ASSUME NEW step \in Spawning, NEW d \in Damages, HasPool,
             FinishSteps(p) = <<room, DoDamaged(step, i, d)>> \o <<poll, record>>
      PROVE  /\ s \in Seq(TypedStep) /\ Shaped(q, s, n) /\ Settled(s)
             /\ Finishes(s, t, i) /\ s[1].step \in {"room", "join"}
  <2>1. PICK spawn \in TypedStep :
               spawn = DoDamaged(step, i, d) /\ spawn.step \in Spawning /\ spawn.arg = i
    BY <1>8, SpawnStep DEF DoDamaged
  <2>2. FinishSteps(p) = <<room, spawn, poll, record>>
    BY <1>8, <2>1, Four
  <2>3. PICK u : u = <<record>> \o t
    OBVIOUS
  <2>4. PICK v : v = <<poll, record>> \o t
    OBVIOUS
  <2>5. PICK w : w = <<spawn, poll, record>> \o t
    OBVIOUS
  <2>6. s = <<room, spawn, poll, record>> \o t
    BY <2>2
  <2>7. Starts(u, record, t)
    BY <2>3, PeelOne
  <2>8. Starts(v, poll, u)
    BY <2>3, <2>4, PeelTwo
  <2>9. Starts(w, spawn, v)
    BY <2>4, <2>5, PeelThree
  <2>10. Starts(s, room, w)
    BY <2>5, <2>6, PeelFour
  <2>11. Shaped(q, s, n) /\ Settled(s) /\ Finishes(s, t, i) /\ s[1] = room
    <3>1. /\ room.step = "room" /\ poll.step = "poll" /\ spawn.step \in Spawning /\ spawn.arg = i
          /\ record.step = "record" /\ record.arg = i
      BY <1>3, <1>4, <1>6, <2>1
    <3> QED BY ONLY <3>1, <2>7, <2>8, <2>9, <2>10, Shaped(q, t, n), Plainly(t), Freely(q, t),
                    Settled(t), RoomSpawnPollRecord
  <2> QED BY <1>3, <2>10, <2>11, Parts
<1>9. ASSUME FinishSteps(p) = <<join, push, record>>
      PROVE  /\ s \in Seq(TypedStep) /\ Shaped(q, s, n) /\ Settled(s)
             /\ Finishes(s, t, i) /\ s[1].step \in {"room", "join"}
  <2>1. PICK u : u = <<record>> \o t
    OBVIOUS
  <2>2. PICK v : v = <<push, record>> \o t
    OBVIOUS
  <2>3. s = <<join, push, record>> \o t
    BY <1>9
  <2>4. Starts(u, record, t)
    BY <2>1, PeelOne
  <2>5. Starts(v, push, u)
    BY <2>1, <2>2, PeelTwo
  <2>6. Starts(s, join, v)
    BY <2>2, <2>3, PeelThree
  <2>7. Shaped(q, s, n) /\ Settled(s) /\ Finishes(s, t, i) /\ s[1] = join
    <3>1. /\ join.step = "join" /\ push.step = "push" /\ push.arg = i
          /\ record.step = "record" /\ record.arg = i
      BY <1>5, <1>6, <1>7
    <3> QED BY ONLY <3>1, <2>4, <2>5, <2>6, Shaped(q, t, n), Plainly(t), Freely(q, t),
                    Settled(t), JoinPushRecord
  <2> QED BY <1>5, <2>6, <2>7, Parts
<1>10. CASE p.deferred
  <2>1. HasPool
    BY <1>10 DEF Current
  <2>2. FinishSteps(p) = <<room, DoDamaged("spawn deferred", i, damage)>> \o <<poll, record>>
    BY <1>1, <1>2, <1>3, <1>4, <1>6, <1>10 DEF FinishSteps
  <2>3. "spawn deferred" \in Spawning
    BY DEF Spawning
  <2> QED BY <1>1, <1>8, <2>1, <2>2, <2>3
<1>11. CASE ~ p.deferred /\ FinalizesAsync(i)
  <2>1. HasPool
    BY <1>11 DEF FinalizesAsync
  <2>2. FinishSteps(p) = <<room, DoDamaged("spawn", i, damage)>> \o <<poll, record>>
    BY <1>1, <1>2, <1>3, <1>4, <1>6, <1>11 DEF FinishSteps
  <2>3. "spawn" \in Spawning
    BY DEF Spawning
  <2> QED BY <1>1, <1>8, <2>1, <2>2, <2>3
<1>12. CASE ~ p.deferred /\ ~ FinalizesAsync(i) /\ OutputsAsync(i)
  <2>1. HasPool
    BY <1>12 DEF OutputsAsync
  <2>2. FinishSteps(p) = <<room, DoDamaged("spawn", i, "none")>> \o <<poll, record>>
    BY <1>1, <1>3, <1>4, <1>6, <1>12 DEF FinishSteps, Do, DoDamaged
  <2>3. "spawn" \in Spawning /\ "none" \in Damages
    BY DEF Spawning, Damages
  <2> QED BY <1>1, <1>8, <2>1, <2>2, <2>3
<1>13. CASE ~ p.deferred /\ ~ FinalizesAsync(i) /\ ~ OutputsAsync(i)
  <2>1. FinishSteps(p) = <<join, push, record>>
    BY <1>1, <1>5, <1>6, <1>7, <1>13 DEF FinishSteps
  <2> QED BY <1>1, <1>9, <2>1
<1> QED BY <1>1, <1>10, <1>11, <1>12, <1>13

----------
(* The steps before an IDR picture, those of a packet, and those of a call *)

LEMMA GoesUnsettled ==
  ASSUME NEW s, NEW a, NEW t, Starts(s, a, t),
         \/ a.step = "finish" /\ Settled(t)
         \/ a.step \notin Done \cup {"finish"} /\ Unsettled(t)
  PROVE  Unsettled(s)
BY Prefix

LEMMA UnsettledIsSettled ==
  ASSUME NEW s \in Seq(TypedStep), Unsettled(s)
  PROVE  Settled(s)
BY DEF Unsettled, Settled

\* Steps that begin a call, or are what a packet is decoded by.
Whole(q, s, n) == s \in Seq(TypedStep) /\ Shaped(q, s, n) /\ Settled(s) /\ Unsettled(s)

LEMMA NoneWhole ==
  ASSUME NEW q, NEW n
  PROVE  Whole(q, << >>, n) /\ Range(<< >>) = {}
BY NoSteps DEF Whole

LEMMA WholeStarts ==
  ASSUME NEW q, NEW n, NEW s, NEW a, NEW t, Starts(s, a, t),
         Shaped(q, t, n), Settled(t), Precedes(q, a, t, n), a.step # "start",
         \/ a.step = "finish"
         \/ a.step \notin Done /\ Unsettled(t)
  PROVE  Whole(q, s, n) /\ s # << >> /\ s[1] = a /\ Range(s) = {a} \cup Range(t)
<1>1. s \in Seq(TypedStep) /\ s # << >> /\ s[1] = a /\ Range(s) = {a} \cup Range(t)
  BY Parts
<1>2. Shaped(q, s, n) /\ Settled(s)
  BY Goes
<1>3. Unsettled(s)
  BY GoesUnsettled
<1> QED BY <1>1, <1>2, <1>3 DEF Whole

LEMMA SoleStarts ==
  ASSUME NEW a \in TypedStep,
         NEW s, s = <<a>>, NEW u, u = << >>
  PROVE  Starts(s, a, u)
<1>1. s \in Seq(TypedStep) /\ s # << >> /\ s[1] = a /\ u \in Seq(TypedStep) /\ Tail(s) = u
  OBVIOUS
<1> QED BY <1>1 DEF Starts

LEMMA PairStarts ==
  ASSUME NEW a \in TypedStep, NEW b \in TypedStep,
         NEW s, s = <<a, b>>, NEW u, u = <<b>>
  PROVE  Starts(s, a, u)
<1>1. s \in Seq(TypedStep) /\ s # << >> /\ s[1] = a /\ u \in Seq(TypedStep) /\ Tail(s) = u
  OBVIOUS
<1> QED BY <1>1 DEF Starts

LEMMA TripleStarts ==
  ASSUME NEW a \in TypedStep, NEW b \in TypedStep, NEW c \in TypedStep,
         NEW s, s = <<a, b, c>>, NEW u, u = <<b, c>>
  PROVE  Starts(s, a, u)
<1>1. s \in Seq(TypedStep) /\ s # << >> /\ s[1] = a /\ u \in Seq(TypedStep) /\ Tail(s) = u
  OBVIOUS
<1> QED BY <1>1 DEF Starts

LEMMA QuadrupleStarts ==
  ASSUME NEW a \in TypedStep, NEW b \in TypedStep, NEW c \in TypedStep, NEW d \in TypedStep,
         NEW s, s = <<a, b, c, d>>, NEW u, u = <<b, c, d>>
  PROVE  Starts(s, a, u)
<1>1. s \in Seq(TypedStep) /\ s # << >> /\ s[1] = a /\ u \in Seq(TypedStep) /\ Tail(s) = u
  OBVIOUS
<1> QED BY <1>1 DEF Starts

\* A packet's own steps, after which only those of the packet come.
Mildly(t) == t # << >> => t[1].step \notin Ending \cup {"drain", "clear", "push"} \cup Restarting

LEMMA JoinDrain ==
  ASSUME NEW s, NEW u, NEW t, NEW join, NEW output, NEW q, NEW n,
         Starts(s, join, u), Starts(u, output, t), join.step = "join", output.step = "drain",
         Shaped(q, t, n), Plainly(t), Mildly(t), Settled(t),
         t # << >>, t[1].step = "start", q[t[1].arg].idr
  PROVE  /\ Shaped(q, s, n) /\ Settled(s)
         /\ s \in Seq(TypedStep) /\ s # << >> /\ s[1] = join
         /\ Range(s) = {join, output} \cup Range(t)
<1>1. u[1] = output /\ u # << >> /\ Range(u) = {output} \cup Range(t)
  BY Parts
<1>2. s \in Seq(TypedStep) /\ s # << >> /\ s[1] = join /\ Range(s) = {join} \cup Range(u)
  BY Parts
<1>3. Precedes(q, output, t, n)
  <2>1. t[1] \in Range(t)
    <3>1. t \in Seq(TypedStep)
      BY DEF Starts
    <3> QED BY <3>1, RangeTail
  <2>2. Awaits(q, output, t[1])
    BY DEF Awaits, Sweeping, Passing
  <2>3. \A b \in Range(t) : MayPrecede(output, b)
    BY DEF Plainly, MayPrecede, Closing, Ending, Rewinding, Finishing, Passing
  <2>4. Adjoins(q, output, t[1], n)
    BY DEF Adjoins, Ending, Restarting
  <2> QED BY <2>1, <2>2, <2>3, <2>4 DEF Precedes
<1>4. Shaped(q, u, n) /\ Settled(u)
  BY <1>3, Goes
<1>5. Precedes(q, join, u, n)
  BY <1>1 DEF Precedes, Plainly, MayPrecede, Adjoins, Closing, Ending, Rewinding, Finishing,
         Passing, Promising, Sweeping, Restarting
<1>6. Shaped(q, s, n) /\ Settled(s)
  BY <1>4, <1>5, Goes
<1> QED BY <1>1, <1>2, <1>6

LEMMA DiscardClear ==
  ASSUME NEW s, NEW u, NEW t, NEW discard, NEW clear, NEW q, NEW n,
         Starts(s, discard, u), Starts(u, clear, t),
         discard.step = "discard", clear.step = "clear",
         Shaped(q, t, n), Plainly(t), Mildly(t), Settled(t),
         NEW b \in Range(t), b.step = "start", q[b.arg].no_output_of_prior_pictures
  PROVE  /\ Shaped(q, s, n) /\ Settled(s)
         /\ s \in Seq(TypedStep) /\ s # << >> /\ s[1] = discard
         /\ Range(s) = {discard, clear} \cup Range(t)
<1>1. u[1] = clear /\ u # << >> /\ Range(u) = {clear} \cup Range(t)
  BY Parts
<1>2. s \in Seq(TypedStep) /\ s # << >> /\ s[1] = discard /\ Range(s) = {discard} \cup Range(u)
  BY Parts
<1>3. Awaits(q, clear, b) /\ Awaits(q, discard, b)
  BY DEF Awaits, Passing
<1>4. Precedes(q, clear, t, n)
  BY <1>3 DEF Precedes, Plainly, Mildly, MayPrecede, Adjoins, Closing, Ending, Rewinding, Finishing,
         Passing, Restarting
<1>5. Shaped(q, u, n) /\ Settled(u)
  BY <1>4, Goes
<1>6. Precedes(q, discard, u, n)
  BY <1>1, <1>3 DEF Precedes, Plainly, MayPrecede, Adjoins, Closing, Ending, Rewinding, Finishing,
         Passing, Restarting
<1>7. Shaped(q, s, n) /\ Settled(s)
  BY <1>5, <1>6, Goes
<1> QED BY <1>1, <1>2, <1>7

\* The last steps of a call that ends the coding.
LEMMA EndingSteps ==
  ASSUME NEW r, NEW r3, NEW r2, NEW r1, NEW t, NEW finish, NEW join, NEW output, NEW end,
         NEW q, NEW n,
         Starts(r, finish, r3), Starts(r3, join, r2), Starts(r2, output, r1), Starts(r1, end, t),
         finish.step = "finish", join.step = "join", output.step = "drain", end.step \in Ending,
         Shaped(q, t, n), Settled(t), \A b \in Range(t) : b.step \in {"poll", "accepted"}
  PROVE  /\ Whole(q, r, n) /\ r # << >> /\ r[1] = finish
         /\ Range(r) = {finish, join, output, end} \cup Range(t)
<1>1. r1 # << >> /\ r1[1] = end /\ Range(r1) = {end} \cup Range(t)
  BY Parts
<1>2. r2 # << >> /\ r2[1] = output /\ Range(r2) = {output} \cup Range(r1)
  BY Parts
<1>3. r3 # << >> /\ r3[1] = join /\ Range(r3) = {join} \cup Range(r2)
  BY Parts
<1>4. Precedes(q, end, t, n)
  <2>1. t # << >> => t[1].step \in {"poll", "accepted"}
    <3>1. t \in Seq(TypedStep)
      BY DEF Starts
    <3>2. t # << >> => t[1] \in Range(t)
      BY <3>1, RangeTail
    <3> QED BY <3>2
  <2>2. end.step \in {"end stream", "end sequence"}
    BY DEF Ending
  <2>3. \A b \in Range(t) : MayPrecede(end, b)
    BY <2>2 DEF MayPrecede, Closing, Ending, Rewinding, Finishing, Passing
  <2>4. t # << >> => Adjoins(q, end, t[1], n)
    BY <2>1, <2>2 DEF Adjoins, Ending, Restarting
  <2>5. end.step \notin Promising
    BY <2>2 DEF Promising, Sweeping, Passing
  <2> QED BY <2>3, <2>4, <2>5 DEF Precedes
<1>5. Shaped(q, r1, n) /\ Settled(r1)
  <2>1. end.step # "start"
    BY DEF Ending
  <2> QED BY <1>4, <2>1, Goes
<1>6. Precedes(q, output, r1, n)
  <2>1. end.step \in {"end stream", "end sequence"}
    BY DEF Ending
  <2>2. \A b \in Range(r1) : MayPrecede(output, b)
    BY <1>1, <2>1 DEF MayPrecede, Closing, Ending, Rewinding, Finishing, Passing
  <2>3. Adjoins(q, output, end, n)
    BY <2>1 DEF Adjoins, Ending, Restarting
  <2>4. Awaits(q, output, end)
    BY DEF Awaits, Sweeping, Passing
  <2> QED BY <1>1, <2>2, <2>3, <2>4 DEF Precedes
<1>7. Shaped(q, r2, n) /\ Settled(r2)
  BY <1>5, <1>6, Goes
<1>8. Precedes(q, join, r2, n)
  BY <1>1, <1>2 DEF Precedes, MayPrecede, Adjoins, Closing, Ending, Rewinding, Finishing,
         Passing, Promising, Sweeping, Restarting
<1>9. Shaped(q, r3, n) /\ Settled(r3)
  BY <1>7, <1>8, Goes
<1>10. Precedes(q, finish, r3, n)
  BY <1>1, <1>2, <1>3 DEF Precedes, MayPrecede, Adjoins, Closing, Ending, Rewinding, Finishing,
         Passing, Promising, Sweeping, Restarting
<1>11. /\ Whole(q, r, n) /\ r # << >> /\ r[1] = finish /\ Range(r) = {finish} \cup Range(r3)
  BY <1>9, <1>10, WholeStarts
<1> QED BY <1>1, <1>2, <1>3, <1>11

\* What the steps of a packet are.
OfPacket == {"finish", "prepare", "start", "join", "drain", "end sequence", "end stream",
             "poll", "accepted"}
Packets(s, i) ==
  /\ \A b \in Range(s) : /\ b.step \in OfPacket
                         /\ b.step \in {"prepare", "start", "accepted"} => b.arg = i
                         /\ b.step = "end sequence" => stream[i].ends = "sequence"
  /\ \E b \in Range(s) : b.step = "start" /\ b.arg = i
  /\ s # << >> /\ s[1].step = "finish"

LEMMA PacketStarts ==
  ASSUME NEW s, NEW s2, NEW s1, NEW r, NEW finish, NEW prepare, NEW start, NEW q, NEW n, NEW i,
         Starts(s, finish, s2), Starts(s2, prepare, s1), Starts(s1, start, r),
         finish.step = "finish", prepare.step = "prepare", prepare.arg = i,
         start.step = "start", start.arg = i,
         Whole(q, r, n), r # << >>, r[1].step \in {"poll", "finish"},
         \A b \in Range(r) : /\ b.step \in OfPacket \ {"prepare", "start"}
                             /\ b.step = "accepted" => b.arg = i
                             /\ b.step = "end sequence" => stream[i].ends = "sequence"
  PROVE  Whole(q, s, n) /\ Packets(s, i)
<1>1. s1 # << >> /\ s1[1] = start /\ Range(s1) = {start} \cup Range(r)
  BY Parts
<1>2. s2 # << >> /\ s2[1] = prepare /\ Range(s2) = {prepare} \cup Range(s1)
  BY Parts
<1>3. Shaped(q, r, n) /\ Unsettled(r)
  BY DEF Whole
<1>0. \A step \in OfPacket : step \notin Rewinding \cup Finishing \cup {"guard"}
  BY DEF OfPacket, Rewinding, Finishing, Passing
<1>4. Precedes(q, start, r, n)
  <2>1. \A b \in Range(r) : MayPrecede(start, b)
    BY <1>0 DEF MayPrecede, Closing, Ending, Finishing
  <2>2. Adjoins(q, start, r[1], n)
    BY DEF Adjoins, Ending, Restarting
  <2>3. start.step \notin Promising
    BY DEF Promising, Sweeping, Passing
  <2> QED BY <2>1, <2>2, <2>3 DEF Precedes
<1>5. Shaped(q, s1, n) /\ Settled(s1)
  BY <1>3, <1>4, Prefix
<1>6. Precedes(q, prepare, s1, n)
  <2>1. \A b \in Range(s1) : MayPrecede(prepare, b)
    <3>1. start.step \notin Rewinding \cup Finishing \cup {"guard"}
      BY DEF Rewinding, Finishing, Passing
    <3> QED BY <1>0, <1>1, <3>1 DEF MayPrecede, Closing, Ending, Finishing
  <2>2. Adjoins(q, prepare, s1[1], n)
    BY <1>1 DEF Adjoins, Ending, Restarting
  <2>3. Awaits(q, prepare, start)
    BY DEF Awaits, Sweeping, Passing
  <2> QED BY <1>1, <2>1, <2>2, <2>3 DEF Precedes
<1>7. Shaped(q, s2, n) /\ Settled(s2)
  BY <1>5, <1>6, Goes
<1>8. Precedes(q, finish, s2, n)
  <2>1. \A b \in Range(s2) : MayPrecede(finish, b)
    <3>1. /\ start.step \notin Rewinding \cup Finishing \cup {"guard"}
          /\ prepare.step \notin Rewinding \cup Finishing \cup {"guard"}
      BY DEF Rewinding, Finishing, Passing
    <3> QED BY <1>0, <1>1, <1>2, <3>1 DEF MayPrecede, Closing, Ending, Finishing
  <2>2. Adjoins(q, finish, s2[1], n)
    BY <1>2 DEF Adjoins, Ending, Restarting
  <2>3. finish.step \notin Promising
    BY DEF Promising, Sweeping, Passing
  <2> QED BY <2>1, <2>2, <2>3 DEF Precedes
<1>9. Whole(q, s, n) /\ s # << >> /\ s[1] = finish /\ Range(s) = {finish} \cup Range(s2)
  <2>1. Starts(s, finish, s2) /\ finish.step = "finish"
    OBVIOUS
  <2> QED BY ONLY <1>7, <1>8, <2>1, WholeStarts
<1>10. Packets(s, i)
  <2>1. {"finish", "prepare", "start"} \subseteq OfPacket
    BY DEF OfPacket
  <2>2. Range(s) = {finish, prepare, start} \cup Range(r)
    BY <1>1, <1>2, <1>9
  <2>3. \A b \in Range(s) : b.step \in OfPacket
    BY <2>1, <2>2
  <2>4. \A b \in Range(r) : /\ b.step \in {"prepare", "start", "accepted"} => b.arg = i
                            /\ b.step = "end sequence" => stream[i].ends = "sequence"
    OBVIOUS
  <2>5. \A b \in Range(s) : /\ b.step \in {"prepare", "start", "accepted"} => b.arg = i
                            /\ b.step = "end sequence" => stream[i].ends = "sequence"
    BY <2>2, <2>4
  <2> QED BY <1>9, <2>2, <2>3, <2>5 DEF Packets
<1> QED BY <1>9, <1>10

LEMMA PacketWhole ==
  ASSUME NEW i \in Position, stream \in Streams, NEW n, NEW s, s = PacketSteps(i)
  PROVE  Whole(stream, s, n) /\ Packets(s, i)
<1>1. PICK finish \in TypedStep : finish = Do("finish", 0) /\ finish.step = "finish"
  BY PlainSteps
<1>2. PICK prepare \in TypedStep :
        prepare = Do("prepare", i) /\ prepare.step = "prepare" /\ prepare.arg = i
  BY PictureSteps DEF Do
<1>3. PICK start \in TypedStep : start = Do("start", i) /\ start.step = "start" /\ start.arg = i
  BY PictureSteps DEF Do
<1>4. PICK join \in TypedStep : join = Do("join", 0) /\ join.step = "join"
  BY PlainSteps
<1>5. PICK output \in TypedStep : output = Do("drain", 0) /\ output.step = "drain"
  BY PlainSteps
<1>6. PICK poll \in TypedStep : poll = Do("poll", 0) /\ poll.step = "poll"
  BY PlainSteps
<1>7. PICK accepted \in TypedStep :
        accepted = Do("accepted", i) /\ accepted.step = "accepted" /\ accepted.arg = i
  BY PictureSteps DEF Do
<1>8. PICK e : e = <<accepted>>
  OBVIOUS
<1>9. PICK last : last = <<poll, accepted>>
  OBVIOUS
<1>10. PICK nothing : nothing = << >>
  OBVIOUS
<1>11. Starts(last, poll, e) /\ Starts(e, accepted, nothing)
  BY <1>6, <1>7, <1>8, <1>9, <1>10, PairStarts, SoleStarts
<1>12. /\ Whole(stream, last, n) /\ last # << >> /\ last[1] = poll
       /\ Range(last) = {poll, accepted}
  <2>1. Whole(stream, nothing, n) /\ Range(nothing) = {}
    BY <1>10, NoneWhole
  <2>2. Precedes(stream, accepted, nothing, n)
    BY <1>7, <1>10, <2>1 DEF Precedes, Promising, Sweeping, Passing
  <2>3. accepted.step \notin Done /\ accepted.step # "start" /\ poll.step \notin Done /\ poll.step # "start"
    BY <1>6, <1>7 DEF Done, Ending
  <2>4. Whole(stream, e, n) /\ e # << >> /\ e[1] = accepted /\ Range(e) = {accepted}
    BY <1>11, <2>1, <2>2, <2>3, WholeStarts DEF Whole
  <2>5. Precedes(stream, poll, e, n)
    BY <1>6, <1>7, <2>4 DEF Precedes, MayPrecede, Adjoins, Closing, Ending, Rewinding, Finishing,
         Passing, Promising, Sweeping, Restarting
  <2> QED BY <1>11, <2>3, <2>4, <2>5, WholeStarts DEF Whole
<1>13. last \in Seq(TypedStep)
  BY <1>11 DEF Starts
<1>14. PICK middle : middle = CASE stream[i].ends = "nothing" -> << >>
          [] stream[i].ends = "sequence" ->
               <<Do("finish", 0), Do("join", 0), Do("drain", 0), Do("end sequence", 0)>>
          [] stream[i].ends = "stream" ->
               <<Do("finish", 0), Do("join", 0), Do("drain", 0), Do("end stream", 0)>>
  OBVIOUS
<1>15. PICK r : r = middle \o last
  OBVIOUS
<1> DEFINE Good == /\ middle \in Seq(TypedStep)
                   /\ Whole(stream, r, n) /\ r # << >> /\ r[1].step \in {"poll", "finish"}
                   /\ \A b \in Range(r) :
                        /\ b.step \in OfPacket \ {"prepare", "start"}
                        /\ b.step = "accepted" => b.arg = i
                        /\ b.step = "end sequence" => stream[i].ends = "sequence"
<1>16. ASSUME middle = << >>
       PROVE  Good
  <2>1. r = last /\ middle \in Seq(TypedStep)
    BY <1>13, <1>15, <1>16, ConcatEmptySeq
  <2> QED BY <1>6, <1>7, <1>12, <2>1 DEF OfPacket
<1>17. ASSUME NEW end \in TypedStep, end.step \in Ending, middle = <<finish, join, output, end>>,
              end.step = "end sequence" => stream[i].ends = "sequence"
       PROVE  Good
  <2>1. PICK r1 : r1 = <<end>> \o last
    OBVIOUS
  <2>2. PICK r2 : r2 = <<output, end>> \o last
    OBVIOUS
  <2>3. PICK r3 : r3 = <<join, output, end>> \o last
    OBVIOUS
  <2>4. r = <<finish, join, output, end>> \o last
    BY <1>15, <1>17
  <2>5. Starts(r1, end, last)
    BY <1>13, <1>17, <2>1, PeelOne
  <2>6. Starts(r2, output, r1)
    BY <1>5, <1>13, <1>17, <2>1, <2>2, PeelTwo
  <2>7. Starts(r3, join, r2)
    BY <1>4, <1>5, <1>13, <1>17, <2>2, <2>3, PeelThree
  <2>8. Starts(r, finish, r3)
    BY <1>1, <1>4, <1>5, <1>13, <1>17, <2>3, <2>4, PeelFour
  <2>9. \A b \in Range(last) : b.step \in {"poll", "accepted"}
    BY <1>6, <1>7, <1>12
  <2>10. Shaped(stream, last, n) /\ Settled(last)
    BY <1>12 DEF Whole
  <2>11. finish.step = "finish" /\ join.step = "join" /\ output.step = "drain"
    BY <1>1, <1>4, <1>5
  <2>12. /\ Whole(stream, r, n) /\ r # << >> /\ r[1] = finish
         /\ Range(r) = {finish, join, output, end} \cup Range(last)
    <3>1. end.step \in Ending
      BY <1>17
    <3> QED BY ONLY <3>1, <2>5, <2>6, <2>7, <2>8, <2>9, <2>10, <2>11, EndingSteps
  <2>13. middle \in Seq(TypedStep)
    <3>1. middle = <<finish, join, output, end>>
      BY <1>17
    <3>2. <<finish, join, output, end>> \in Seq(TypedStep)
      OBVIOUS
    <3> QED BY ONLY <3>1, <3>2
  <2>14. end.step \in {"end stream", "end sequence"}
    BY <1>17 DEF Ending
  <2>15. \A b \in Range(r) :
           /\ b.step \in OfPacket \ {"prepare", "start"}
           /\ b.step = "accepted" => b.arg = i
           /\ b.step = "end sequence" => stream[i].ends = "sequence"
    BY <1>6, <1>7, <1>12, <1>17, <2>11, <2>12, <2>14 DEF OfPacket
  <2> QED BY <2>11, <2>12, <2>13, <2>15
<1>18. Good
  <2>1. CASE stream[i].ends = "nothing"
    BY <1>14, <1>16, <2>1
  <2>2. CASE stream[i].ends = "sequence"
    <3>1. PICK end \in TypedStep : end = Do("end sequence", 0) /\ end.step = "end sequence"
      BY PlainSteps
    <3>2. middle = <<finish, join, output, end>>
      BY <1>1, <1>4, <1>5, <1>14, <2>2, <3>1
    <3>3. end.step \in Ending
      BY <3>1 DEF Ending
    <3>4. end.step = "end sequence" => stream[i].ends = "sequence"
      BY <2>2, <3>1
    <3> HIDE DEF Good
    <3> QED BY <1>17, <3>2, <3>3, <3>4
  <2>3. CASE stream[i].ends = "stream"
    <3>1. PICK end \in TypedStep : end = Do("end stream", 0) /\ end.step = "end stream"
      BY PlainSteps
    <3>2. middle = <<finish, join, output, end>>
      BY <1>1, <1>4, <1>5, <1>14, <2>3, <3>1
    <3>3. end.step \in Ending
      BY <3>1 DEF Ending
    <3>4. end.step = "end sequence" => stream[i].ends = "sequence"
      BY <2>3, <3>1
    <3> HIDE DEF Good
    <3> QED BY <1>17, <3>2, <3>3, <3>4
  <2> QED BY <2>1, <2>2, <2>3, EndsShape
<1>19. s = <<finish, prepare, start>> \o r
  <2>1. PICK head \in Seq(TypedStep) : head = <<finish, prepare, start>>
    <3>1. <<finish, prepare, start>> \in Seq(TypedStep)
      BY <1>1, <1>2, <1>3
    <3> QED BY <3>1
  <2>2. s = (head \o middle) \o last
    BY <1>1, <1>2, <1>3, <1>6, <1>7, <1>9, <1>14, <2>1 DEF PacketSteps
  <2>3. (head \o middle) \o last = head \o (middle \o last)
    <3>1. middle \in Seq(TypedStep)
      BY <1>18
    <3> QED BY ONLY <1>13, <2>1, <3>1, ConcatAssociative
  <2> QED BY <1>15, <2>1, <2>2, <2>3
<1>20. PICK s1 : s1 = <<start>> \o r
  OBVIOUS
<1>21. PICK s2 : s2 = <<prepare, start>> \o r
  OBVIOUS
<1>22. r \in Seq(TypedStep)
  BY <1>18 DEF Whole
<1>23. Starts(s1, start, r)
  BY <1>3, <1>20, <1>22, PeelOne
<1>24. Starts(s2, prepare, s1)
  BY <1>2, <1>3, <1>20, <1>21, <1>22, PeelTwo
<1>25. Starts(s, finish, s2)
  BY <1>1, <1>2, <1>3, <1>19, <1>21, <1>22, PeelThree
<1>26. /\ finish.step = "finish" /\ prepare.step = "prepare" /\ prepare.arg = i
       /\ start.step = "start" /\ start.arg = i
  BY <1>1, <1>2, <1>3
<1> QED BY ONLY <1>18, <1>23, <1>24, <1>25, <1>26, PacketStarts DEF Good

\* A step that is the last one.
LEMMA LastStep ==
  ASSUME NEW b \in TypedStep, NEW q, NEW n, NEW u, u = <<b>>,
         b.step \notin Promising \cup {"start"}
  PROVE  /\ u \in Seq(TypedStep) /\ u # << >> /\ u[1] = b /\ Range(u) = {b}
         /\ Shaped(q, u, n) /\ Settled(u) /\ (b.step \notin Done => Unsettled(u))
<1>1. PICK nothing : nothing = << >>
  OBVIOUS
<1>2. Starts(u, b, nothing)
  BY <1>1, SoleStarts
<1>3. /\ Range(nothing) = {} /\ Shaped(q, nothing, n) /\ Settled(nothing) /\ Unsettled(nothing)
  BY <1>1, NoSteps
<1>4. Precedes(q, b, nothing, n)
  BY <1>1, <1>3 DEF Precedes
<1>5. Shaped(q, u, n) /\ Settled(u)
  BY <1>2, <1>3, <1>4, Goes
<1>6. b.step \notin Done => Unsettled(u)
  BY <1>2, <1>3, GoesUnsettled
<1> QED BY <1>2, <1>3, <1>5, <1>6, Parts

\* send_packet and receive_frame.
LEMMA PollThenWhole ==
  ASSUME NEW a \in TypedStep, NEW b \in TypedStep, NEW q, NEW n, NEW s, s = <<a, b>>,
         a.step = "poll", b.step \in {"guard", "deliver"}
  PROVE  Whole(q, s, n) /\ s # << >> /\ s[1] = a /\ Range(s) = {a, b}
<1>1. PICK u : u = <<b>>
  OBVIOUS
<1>2. /\ u # << >> /\ u[1] = b /\ Range(u) = {b}
      /\ Shaped(q, u, n) /\ Settled(u) /\ Unsettled(u)
  <2>1. b.step \notin Promising \cup {"start"} /\ b.step \notin Done
    BY DEF Promising, Sweeping, Passing, Done, Ending
  <2> QED BY <1>1, <2>1, LastStep
<1>3. Starts(s, a, u)
  BY <1>1, PairStarts
<1>4. Precedes(q, a, u, n)
  BY <1>2 DEF Precedes, MayPrecede, Adjoins, Closing, Ending, Rewinding, Finishing,
         Passing, Promising, Sweeping, Restarting
<1>5. a.step \notin Done /\ a.step # "start"
  BY DEF Done, Ending
<1>6. Whole(q, s, n) /\ s # << >> /\ s[1] = a /\ Range(s) = {a} \cup Range(u)
  BY ONLY <1>2, <1>3, <1>4, <1>5, WholeStarts
<1> QED BY <1>2, <1>6

\* restore_seek_checkpoint.
LEMMA DiscardRestoreWhole ==
  ASSUME NEW a \in TypedStep, NEW b \in TypedStep, NEW q, NEW n, NEW s, s = <<a, b>>,
         a.step = "discard", b.step = "restore"
  PROVE  Whole(q, s, n) /\ s # << >> /\ s[1] = a /\ Range(s) = {a, b}
<1>1. PICK u : u = <<b>>
  OBVIOUS
<1>2. /\ u # << >> /\ u[1] = b /\ Range(u) = {b}
      /\ Shaped(q, u, n) /\ Settled(u) /\ Unsettled(u)
  <2>1. b.step \notin Promising \cup {"start"} /\ b.step \notin Done
    BY DEF Promising, Sweeping, Passing, Done, Ending
  <2> QED BY <1>1, <2>1, LastStep
<1>3. Starts(s, a, u)
  BY <1>1, PairStarts
<1>4. Precedes(q, a, u, n)
  BY <1>2 DEF Precedes, MayPrecede, Adjoins, Awaits, Closing, Ending, Rewinding, Finishing,
         Passing, Promising, Sweeping, Restarting
<1>5. a.step \notin Done /\ a.step # "start"
  BY DEF Done, Ending
<1>6. Whole(q, s, n) /\ s # << >> /\ s[1] = a /\ Range(s) = {a} \cup Range(u)
  BY ONLY <1>2, <1>3, <1>4, <1>5, WholeStarts
<1> QED BY <1>2, <1>6

\* create_seek_checkpoint.
LEMMA SnapshotWhole ==
  ASSUME NEW a \in TypedStep, NEW b \in TypedStep, NEW c \in TypedStep,
         NEW q, NEW n, NEW s, s = <<a, b, c>>,
         a.step = "finish", b.step = "join", c.step = "snapshot"
  PROVE  Whole(q, s, n) /\ s # << >> /\ s[1] = a /\ Range(s) = {a, b, c}
<1>1. PICK u : u = <<c>>
  OBVIOUS
<1>2. PICK v : v = <<b, c>>
  OBVIOUS
<1>3. /\ u # << >> /\ u[1] = c /\ Range(u) = {c} /\ Shaped(q, u, n) /\ Settled(u)
  <2>1. c.step \notin Promising \cup {"start"}
    BY DEF Promising, Sweeping, Passing
  <2> QED BY <1>1, <2>1, LastStep
<1>4. Starts(v, b, u)
  BY <1>1, <1>2, PairStarts
<1>5. Starts(s, a, v)
  BY <1>2, TripleStarts
<1>6. v[1] = b /\ Range(v) = {b, c}
  BY <1>3, <1>4, Parts
<1>7. Precedes(q, b, u, n)
  BY <1>3 DEF Precedes, MayPrecede, Adjoins, Closing, Ending, Rewinding, Finishing,
         Passing, Promising, Sweeping, Restarting
<1>8. Shaped(q, v, n) /\ Settled(v)
  BY <1>3, <1>4, <1>7, Goes
<1>9. Precedes(q, a, v, n)
  BY <1>6 DEF Precedes, MayPrecede, Adjoins, Closing, Ending, Rewinding, Finishing,
         Passing, Promising, Sweeping, Restarting
<1>10. Whole(q, s, n) /\ s # << >> /\ s[1] = a /\ Range(s) = {a} \cup Range(v)
  BY <1>5, <1>8, <1>9, WholeStarts
<1> QED BY <1>6, <1>10

\* flush, flush_for_seek and configure.
RestartSteps(q, n, s, v, u, nothing, a, b, c) ==
  /\ Starts(s, a, v) /\ Starts(v, b, u) /\ Starts(u, c, nothing) /\ nothing = << >>
  /\ a.step = "discard" /\ b.step = "reset" /\ b.arg = n /\ c.step \in Restarting

LEMMA RestartWhole ==
  ASSUME NEW q, NEW n, NEW s, NEW v, NEW u, NEW nothing, NEW a, NEW b, NEW c,
         RestartSteps(q, n, s, v, u, nothing, a, b, c)
  PROVE  Whole(q, s, n) /\ s # << >> /\ s[1] = a /\ Range(s) = {a, b, c}
<1> USE DEF RestartSteps
<1>0. c.step \in {"set start", "configure"}
  BY DEF Restarting
<1>1. /\ Range(nothing) = {} /\ Shaped(q, nothing, n) /\ Settled(nothing) /\ Unsettled(nothing)
  BY NoSteps
<1>2. c.step \notin Promising \cup {"start"} /\ c.step \notin Done
  BY <1>0 DEF Promising, Sweeping, Passing, Done, Ending
<1>3. /\ u # << >> /\ u[1] = c /\ Range(u) = {c} /\ Shaped(q, u, n) /\ Settled(u) /\ Unsettled(u)
  <2>1. Precedes(q, c, nothing, n)
    <3>1. nothing = << >>
      OBVIOUS
    <3> QED BY <1>1, <1>2, <3>1 DEF Precedes
  <2>2. Whole(q, u, n) /\ u # << >> /\ u[1] = c /\ Range(u) = {c} \cup Range(nothing)
    BY <1>1, <1>2, <2>1, WholeStarts
  <2> QED BY <1>1, <2>2 DEF Whole
<1>6. v[1] = b /\ Range(v) = {b, c}
  BY <1>3, Parts
<1>7. Precedes(q, b, u, n)
  <2>1. MayPrecede(b, c)
    BY <1>0 DEF MayPrecede, Closing, Ending, Rewinding, Finishing, Passing
  <2>2. Adjoins(q, b, c, n)
    BY <1>0 DEF Adjoins, Ending
  <2>3. Awaits(q, b, c)
    BY DEF Awaits, Sweeping, Passing
  <2> QED BY <1>3, <2>1, <2>2, <2>3 DEF Precedes
<1>8. Shaped(q, v, n) /\ Settled(v)
  BY <1>3, <1>7, Goes
<1>80. Unsettled(v)
  <2>1. b.step \notin Done \cup {"finish"}
    BY DEF Done, Ending
  <2> QED BY <1>3, <2>1, GoesUnsettled
<1>9. Precedes(q, a, v, n)
  <2>1. MayPrecede(a, b) /\ MayPrecede(a, c)
    BY <1>0 DEF MayPrecede, Closing, Ending, Rewinding, Finishing, Passing
  <2>2. Adjoins(q, a, b, n)
    BY DEF Adjoins, Ending, Restarting
  <2>3. Awaits(q, a, b)
    BY DEF Awaits, Rewinding, Passing
  <2> QED BY <1>6, <2>1, <2>2, <2>3 DEF Precedes
<1>10. a.step \notin Done /\ a.step # "start"
  BY DEF Done, Ending
<1>11. Whole(q, s, n) /\ s # << >> /\ s[1] = a /\ Range(s) = {a} \cup Range(v)
  BY <1>8, <1>80, <1>9, <1>10, WholeStarts
<1> QED BY <1>6, <1>11

\* drain.
DrainSteps(q, n, s, r3, r2, r1, nothing, a, b, c, d) ==
  /\ Starts(s, a, r3) /\ Starts(r3, b, r2) /\ Starts(r2, c, r1) /\ Starts(r1, d, nothing)
  /\ nothing = << >>
  /\ a.step = "finish" /\ b.step = "join" /\ c.step = "drain" /\ d.step = "end stream"

LEMMA DrainWhole ==
  ASSUME NEW q, NEW n, NEW s, NEW r3, NEW r2, NEW r1, NEW nothing,
         NEW a, NEW b, NEW c, NEW d,
         DrainSteps(q, n, s, r3, r2, r1, nothing, a, b, c, d)
  PROVE  Whole(q, s, n) /\ s # << >> /\ s[1] = a /\ Range(s) = {a, b, c, d}
<1>1. Shaped(q, nothing, n) /\ Settled(nothing) /\ Range(nothing) = {}
  BY NoSteps DEF DrainSteps
<1>2. d.step \in Ending /\ \A e \in Range(nothing) : e.step \in {"poll", "accepted"}
  BY <1>1 DEF Ending, DrainSteps
<1>3. Whole(q, s, n) /\ s # << >> /\ s[1] = a /\ Range(s) = {a, b, c, d} \cup Range(nothing)
  <2>1. /\ Starts(s, a, r3) /\ Starts(r3, b, r2) /\ Starts(r2, c, r1) /\ Starts(r1, d, nothing)
        /\ a.step = "finish" /\ b.step = "join" /\ c.step = "drain"
    BY DEF DrainSteps
  <2> QED BY ONLY <1>1, <1>2, <2>1, EndingSteps
<1> QED BY <1>1, <1>3

\* A packet that comes after a jump resets the decoder first.
LEMMA ResetPacketWhole ==
  ASSUME NEW s, NEW u, NEW p, NEW a, NEW b, NEW q, NEW n, NEW i,
         Starts(s, a, u), Starts(u, b, p),
         a.step = "discard", b.step = "reset", b.arg = i, Whole(q, p, n), Packets(p, i)
  PROVE  Whole(q, s, n) /\ s # << >> /\ s[1] = a /\ Range(s) = {a, b} \cup Range(p)
<1>2. /\ p \in Seq(TypedStep) /\ Shaped(q, p, n) /\ Settled(p) /\ Unsettled(p)
      /\ p # << >> /\ p[1].step = "finish"
  BY DEF Whole, Packets
<1>5. u[1] = b /\ Range(u) = {b} \cup Range(p)
  BY Parts
<1>6. \A c \in Range(p) : c.step \notin Rewinding \cup Finishing \cup {"guard"}
  <2>1. \A step \in OfPacket : step \notin Rewinding \cup Finishing \cup {"guard"}
    BY DEF OfPacket, Rewinding, Finishing, Passing
  <2> QED BY <2>1 DEF Packets
<1>7. Precedes(q, b, p, n)
  <2>1. \A c \in Range(p) : MayPrecede(b, c)
    BY <1>6 DEF MayPrecede, Closing, Ending, Finishing
  <2>2. Adjoins(q, b, p[1], n)
    BY <1>2 DEF Adjoins, Ending, Restarting
  <2>3. PICK c \in Range(p) : c.step = "start" /\ c.arg = i
    BY DEF Packets
  <2>4. Awaits(q, b, c)
    BY <2>3 DEF Awaits, Sweeping, Passing
  <2> QED BY <2>1, <2>2, <2>4 DEF Precedes
<1>8. Shaped(q, u, n) /\ Settled(u)
  BY <1>2, <1>7, Goes
<1>9. Unsettled(u)
  <2>1. b.step \notin Done \cup {"finish"}
    BY DEF Done, Ending
  <2> QED BY <1>2, <2>1, GoesUnsettled
<1>10. Precedes(q, a, u, n)
  <2>1. MayPrecede(a, b)
    BY DEF MayPrecede, Closing, Ending, Finishing, Passing
  <2>2. \A c \in Range(p) : MayPrecede(a, c)
    BY <1>6 DEF MayPrecede, Closing, Ending, Finishing
  <2>3. Adjoins(q, a, b, n)
    BY DEF Adjoins, Ending, Restarting
  <2>4. Awaits(q, a, b)
    BY DEF Awaits, Rewinding, Passing
  <2> QED BY <1>5, <2>1, <2>2, <2>3, <2>4 DEF Precedes
<1>11. a.step \notin Done /\ a.step # "start"
  BY DEF Done, Ending
<1>12. Whole(q, s, n) /\ s # << >> /\ s[1] = a /\ Range(s) = {a} \cup Range(u)
  BY <1>8, <1>9, <1>10, <1>11, WholeStarts
<1> QED BY <1>5, <1>12

----------
(* Where the steps left of a call stand *)

Placed(t) ==
  /\ t.step \in {"start", "prepare", "accepted"} => t.arg = next - 1 /\ ~ discontinuous
  /\ t.step = "guard" => t.arg = next - 1 /\ (discontinuous \/ sent < t.arg)
  /\ t.step = "snapshot" => ~ discontinuous
  /\ t.step = "restore" => /\ next = checkpoint.position /\ ~ discontinuous
                           /\ t.arg > checkpoint.resume_time

\* The steps left of a call are in order, and their pictures are where the
\* caller's cursor is.
Agenda ==
  /\ Shaped(stream, todo, next) /\ Settled(todo)
  /\ Nothing \/ Unsettled(todo)
  /\ \A t \in Range(todo) : Placed(t)

\* A step that resets the decoder is still to come.
Resetting == \E t \in Range(todo) : t.step \in Rewinding

Cursor ==
  /\ ~ Resetting /\ ~ discontinuous => sent <= next - 1
  /\ sent \in 0 .. Len(stream) /\ first \in Nat \ {0}
  /\ checkpoint # NoCheckpoint => checkpoint.first # 0

AInv == Agenda /\ Cursor

\* The step done and those left.
LEMMA Ahead ==
  ASSUME DInv, Shaped(stream, todo, next), todo # << >>
  PROVE  /\ Starts(todo, Head(todo), Tail(todo)) /\ Head(todo) \in TypedStep
         /\ Tail(todo) \in Seq(TypedStep) /\ todo[1] = Head(todo)
         /\ Range(todo) = {Head(todo)} \cup Range(Tail(todo))
         /\ Shaped(stream, Tail(todo), next) /\ Precedes(stream, Head(todo), Tail(todo), next)
         /\ Head(todo).step \notin Rewinding \cup {"discard"} => ~ Resetting
         /\ Head(todo).step # "discard" => \A t \in Range(Tail(todo)) : t.step \notin Rewinding
         /\ Head(todo).step # "poll" => \A t \in Range(Tail(todo)) : t.step # "guard"
         /\ Head(todo).step \in Closing => Tail(todo) = << >>
         /\ Head(todo).step \notin {"room", "join", "poll", "discard"} \cup Finishing =>
              Plainly(Tail(todo))
<1>1. todo \in Seq(TypedStep)
  BY DEF DInv, Types, TodoTyped
<1>2. /\ Range(todo) = {Head(todo)} \cup Range(Tail(todo))
      /\ Head(todo) = todo[1] /\ Head(todo) \in TypedStep /\ Tail(todo) \in Seq(TypedStep)
  BY <1>1, RangeTail
<1>3. Starts(todo, Head(todo), Tail(todo))
  BY <1>1, <1>2 DEF Starts
<1>4. Shaped(stream, Tail(todo), next) /\ Precedes(stream, Head(todo), Tail(todo), next)
  BY <1>3, Prefix
<1>5. \A b \in Range(Tail(todo)) : MayPrecede(Head(todo), b)
  BY <1>4 DEF Precedes
<1>6. Head(todo).step # "discard" => \A t \in Range(Tail(todo)) : t.step \notin Rewinding
  BY <1>5 DEF MayPrecede
<1>7. Head(todo).step # "poll" => \A t \in Range(Tail(todo)) : t.step # "guard"
  BY <1>5 DEF MayPrecede
<1>8. Head(todo).step \notin Rewinding \cup {"discard"} => ~ Resetting
  BY <1>2, <1>6 DEF Resetting
<1>9. Head(todo).step \in Closing => Tail(todo) = << >>
  <2>1. Head(todo).step \in Closing => Range(Tail(todo)) = {}
    BY <1>5 DEF MayPrecede
  <2>2. Tail(todo) # << >> => Head(Tail(todo)) \in Range(Tail(todo))
    BY <1>2, RangeTail
  <2> QED BY <2>1, <2>2
<1>10. Head(todo).step \notin {"room", "join", "poll", "discard"} \cup Finishing =>
         Plainly(Tail(todo))
  BY <1>5, <1>6, <1>7 DEF MayPrecede, Plainly
<1> QED BY <1>1, <1>2, <1>3, <1>4, <1>6, <1>7, <1>8, <1>9, <1>10

\* Where a step that is left stands depends on little.
LEMMA PlacedKept ==
  ASSUME NEW t, Placed(t), UNCHANGED <<next, discontinuous, checkpoint>>,
         t.step = "guard" => sent' = sent
  PROVE  Placed(t)'
BY DEF Placed

LEMMA AgendaTail ==
  ASSUME DInv, Agenda, todo # << >>, todo' = Tail(todo),
         UNCHANGED <<stream, next, discontinuous, checkpoint>>,
         sent' = sent \/ Head(todo).step # "poll",
         \/ Head(todo).step # "finish" /\ (Nothing => Nothing')
         \/ Head(todo).step = "start"
         \/ Nothing'
  PROVE  Agenda'
<1>1. /\ Starts(todo, Head(todo), Tail(todo))
      /\ Range(todo) = {Head(todo)} \cup Range(Tail(todo))
      /\ Shaped(stream, Tail(todo), next)
      /\ Head(todo).step # "poll" => \A t \in Range(Tail(todo)) : t.step # "guard"
  BY Ahead DEF Agenda
<1>2. PICK t : t = Tail(todo)
  OBVIOUS
<1>3. PICK a : a = Head(todo)
  OBVIOUS
<1>4. /\ a.step # "start" => (Settled(todo) <=> Settled(t))
      /\ a.step = "start" => (Settled(todo) <=> Unsettled(t))
      /\ a.step = "finish" => (Unsettled(todo) <=> Settled(t))
      /\ a.step # "finish" => (Unsettled(todo) <=> a.step \notin Done /\ Unsettled(t))
  BY <1>1, <1>2, <1>3, Prefix
<1>5. t \in Seq(TypedStep)
  BY <1>1, <1>2 DEF Starts
<1>6. Settled(t) /\ (Nothing' \/ Unsettled(t))
  <2>1. Settled(todo) /\ (Nothing \/ Unsettled(todo))
    BY DEF Agenda
  <2>2. Unsettled(t) => Settled(t)
    BY <1>5, UnsettledIsSettled
  <2> QED BY <1>3, <1>4, <2>1, <2>2
<1>7. \A b \in Range(t) : Placed(b)'
  <2>1. \A b \in Range(t) : Placed(b) /\ (b.step = "guard" => sent' = sent)
    BY <1>1, <1>2 DEF Agenda
  <2> QED BY <2>1, PlacedKept
<1>8. todo' = t /\ Shaped(stream, t, next) /\ stream' = stream /\ next' = next
  BY <1>1, <1>2
<1>9. Shaped(stream, todo, next)' /\ Settled(todo)' /\ (Unsettled(todo)' <=> Unsettled(t))
      /\ Range(todo)' = Range(t)
  BY <1>6, <1>8
<1> QED BY <1>6, <1>7, <1>9 DEF Agenda

LEMMA AgendaSame ==
  ASSUME Agenda, UNCHANGED <<stream, todo, next, discontinuous, checkpoint, sent>>,
         Nothing => Nothing'
  PROVE  Agenda' /\ (Resetting' <=> Resetting)
<1>1. \A b \in Range(todo) : Placed(b)'
  BY PlacedKept DEF Agenda
<1>2. Shaped(stream, todo, next)' /\ Settled(todo)' /\ (Unsettled(todo)' <=> Unsettled(todo))
      /\ Range(todo)' = Range(todo)
  BY DEF Agenda
<1> QED BY <1>1, <1>2 DEF Agenda, Resetting

LEMMA AgendaEnded ==
  ASSUME todo' = << >>
  PROVE  Agenda' /\ ~ Resetting'
<1>1. PICK nothing : nothing = << >>
  OBVIOUS
<1>2. /\ Range(nothing) = {} /\ Settled(nothing) /\ Unsettled(nothing)
      /\ Shaped(stream', nothing, next')
  BY <1>1, NoSteps
<1>3. todo' = nothing
  BY <1>1
<1>4. Shaped(stream, todo, next)' /\ Settled(todo)' /\ Unsettled(todo)' /\ Range(todo)' = {}
  BY <1>2, <1>3
<1> QED BY <1>4 DEF Agenda, Resetting

LEMMA AgendaBegun ==
  ASSUME NEW s, Whole(stream', s, next'), todo' = s, \A b \in Range(s) : Placed(b)'
  PROVE  Agenda' /\ Range(todo)' = Range(s)
<1>1. Shaped(stream', s, next') /\ Settled(s) /\ Unsettled(s)
  BY DEF Whole
<1>2. Shaped(stream, todo, next)' /\ Settled(todo)' /\ Unsettled(todo)' /\ Range(todo)' = Range(s)
  BY <1>1
<1> QED BY <1>2 DEF Agenda

\* Steps that stand anywhere.
Moved == {"guard", "start", "prepare", "accepted", "snapshot", "restore"}

LEMMA AgendaInserted ==
  ASSUME Agenda, NEW s, Shaped(stream, s, next), Settled(s), Nothing' \/ Unsettled(s), todo' = s,
         UNCHANGED <<stream, next, discontinuous, checkpoint, sent>>,
         \A b \in Range(s) : b \in Range(todo) \/ b.step \notin Moved
  PROVE  Agenda' /\ Range(todo)' = Range(s)
<1>1. \A b \in Range(s) : Placed(b)'
  <2>1. \A b : b.step \notin Moved => Placed(b)'
    BY DEF Placed, Moved
  <2>2. \A b \in Range(todo) : Placed(b)'
    BY PlacedKept DEF Agenda
  <2> QED BY <2>1, <2>2
<1>2. Shaped(stream, todo, next)' /\ Settled(todo)' /\ (Unsettled(todo)' <=> Unsettled(s))
      /\ Range(todo)' = Range(s)
  OBVIOUS
<1> QED BY <1>1, <1>2 DEF Agenda

LEMMA CursorKept ==
  ASSUME Cursor, UNCHANGED <<stream, next, discontinuous, checkpoint, first, sent>>,
         Resetting => Resetting'
  PROVE  Cursor'
BY DEF Cursor

\* A step that does neither reset nor move the cursor, and is followed by the
\* others, by none, or done again.
LEMMA Advancing ==
  ASSUME DInv, AInv, todo # << >>, todo' = Tail(todo), Head(todo).step \notin Rewinding,
         UNCHANGED <<stream, next, discontinuous, checkpoint, first, sent>>,
         \/ Head(todo).step # "finish" /\ (Nothing => Nothing')
         \/ Head(todo).step = "start"
         \/ Nothing'
  PROVE  AInv'
<1>1. Agenda'
  BY AgendaTail DEF AInv
<1>2. Range(todo) = {Head(todo)} \cup Range(Tail(todo))
  BY Ahead DEF AInv, Agenda
<1>3. Range(todo)' = Range(Tail(todo))
  OBVIOUS
<1>4. Resetting => Resetting'
  BY <1>2, <1>3 DEF Resetting
<1> QED BY <1>1, <1>4, CursorKept DEF AInv

LEMMA Stopping ==
  ASSUME DInv, AInv, todo # << >>, todo' = << >>, Head(todo).step \notin Rewinding \cup {"discard"},
         UNCHANGED <<stream, next, discontinuous, checkpoint, first, sent>>
  PROVE  AInv'
<1>1. Agenda'
  BY AgendaEnded
<1>2. ~ Resetting
  BY Ahead DEF AInv, Agenda
<1> QED BY <1>1, <1>2, CursorKept DEF AInv

LEMMA Staying ==
  ASSUME AInv, UNCHANGED <<stream, todo, next, discontinuous, checkpoint, first, sent>>,
         Nothing => Nothing'
  PROVE  AInv'
BY AgendaSame, CursorKept DEF AInv

LEMMA QuietStands ==
  ASSUME UNCHANGED quietVars, UNCHANGED fixedVars
  PROVE  UNCHANGED <<stream, next, discontinuous, checkpoint, first, sent>>
BY QuietKept DEF fixedVars

LEMMA TakeCompletionAgenda ==
  ASSUME DInv, AInv, todo # << >>, Head(todo).step \in {"poll", "join", "room"},
         UNCHANGED fixedVars, TakeCompletion
  PROVE  AInv'
<1>1. UNCHANGED <<stream, next, discontinuous, checkpoint, first, sent>>
  BY QuietStands DEF TakeCompletion
<1>2. Nothing' = Nothing
  BY CodingKept DEF TakeCompletion
<1>3. CASE Earliest.failed
  <2>1. todo' = << >> /\ Head(todo).step \notin Rewinding \cup {"discard"}
    BY <1>3 DEF TakeCompletion, Fail, Return, Rewinding
  <2> QED BY <1>1, <2>1, Stopping
<1>4. CASE ~ Earliest.failed
  <2>1. todo' = todo
    BY <1>4 DEF TakeCompletion
  <2> QED BY <1>1, <1>2, <2>1, Staying
<1> QED BY <1>3, <1>4

LEMMA PassesAgenda ==
  ASSUME DInv, AInv, todo # << >>, Head(todo).step \in {"poll", "join", "room", "finish"},
         Head(todo).step = "finish" => Nothing,
         UNCHANGED fixedVars, Passes
  PROVE  AInv'
<1>1. UNCHANGED <<stream, next, discontinuous, checkpoint, first, sent>>
  BY QuietStands DEF Passes
<1>2. Nothing' = Nothing
  BY CodingKept DEF Passes
<1>3. todo' = Tail(todo) /\ Head(todo).step \notin Rewinding
  BY DEF Passes, Continue, Rewinding
<1>4. \/ Head(todo).step # "finish" /\ (Nothing => Nothing')
      \/ Nothing'
  BY <1>2
<1> QED BY <1>1, <1>3, <1>4, Advancing

LEMMA CompletionsAgenda ==
  ASSUME DInv, AInv, Poll \/ Join \/ Room
  PROVE  AInv'
<1>1. /\ todo # << >> /\ Head(todo).step \in {"poll", "join", "room"} /\ UNCHANGED fixedVars
      /\ TakeCompletion \/ Passes
  BY DEF Poll, Join, Room, Executes
<1> QED BY <1>1, TakeCompletionAgenda, PassesAgenda

LEMMA DiscardAgenda ==
  ASSUME DInv, AInv, Discard
  PROVE  AInv'
<1>1. /\ todo # << >> /\ Head(todo).step = "discard" /\ UNCHANGED fixedVars
      /\ UNCHANGED codingVars /\ UNCHANGED quietVars
      /\ todo' = todo \/ todo' = Tail(todo)
  BY DEF Discard, Executes, Continue
<1>2. UNCHANGED <<stream, next, discontinuous, checkpoint, first, sent>>
  BY <1>1, QuietStands
<1>3. Nothing' = Nothing
  BY <1>1, CodingKept
<1>4. CASE todo' = todo
  BY <1>2, <1>3, <1>4, Staying
<1>5. CASE todo' = Tail(todo)
  <2>1. Head(todo).step \notin Rewinding /\ Head(todo).step # "finish"
    BY <1>1 DEF Rewinding
  <2> QED BY <1>1, <1>2, <1>3, <1>5, <2>1, Advancing
<1> QED BY <1>1, <1>4, <1>5

LEMMA DrainReorderAgenda ==
  ASSUME DInv, AInv, DrainReorder
  PROVE  AInv'
<1>1. /\ todo # << >> /\ Head(todo).step = "drain" /\ UNCHANGED fixedVars
      /\ UNCHANGED codingVars /\ UNCHANGED quietVars
      /\ todo' = todo \/ todo' = Tail(todo)
  BY DEF DrainReorder, Executes, Continue
<1>2. UNCHANGED <<stream, next, discontinuous, checkpoint, first, sent>>
  BY <1>1, QuietStands
<1>3. Nothing' = Nothing
  BY <1>1, CodingKept
<1>4. CASE todo' = todo
  BY <1>2, <1>3, <1>4, Staying
<1>5. CASE todo' = Tail(todo)
  <2>1. Head(todo).step \notin Rewinding /\ Head(todo).step # "finish"
    BY <1>1 DEF Rewinding
  <2> QED BY <1>1, <1>2, <1>3, <1>5, <2>1, Advancing
<1> QED BY <1>1, <1>4, <1>5

LEMMA FinishingTail ==
  ASSUME DInv, AInv, todo # << >>, Head(todo).step = "finish"
  PROVE  /\ ~ Resetting /\ Tail(todo) \in Seq(TypedStep)
         /\ Shaped(stream, Tail(todo), next) /\ Settled(Tail(todo))
         /\ Plainly(Tail(todo)) /\ Freely(stream, Tail(todo))
         /\ Range(Tail(todo)) \subseteq Range(todo)
<1>1. /\ Starts(todo, Head(todo), Tail(todo))
      /\ Tail(todo) \in Seq(TypedStep) /\ Range(Tail(todo)) \subseteq Range(todo)
      /\ Shaped(stream, Tail(todo), next) /\ Precedes(stream, Head(todo), Tail(todo), next)
  BY Ahead DEF AInv, Agenda
<1>2. ~ Resetting /\ Plainly(Tail(todo))
  <2>1. Head(todo).step \notin Rewinding \cup {"discard"}
    BY DEF Rewinding
  <2>2. Head(todo).step \notin {"room", "join", "poll", "discard"} \cup Finishing
    BY DEF Finishing, Passing
  <2> QED BY <2>1, <2>2, Ahead DEF AInv, Agenda
<1>3. Settled(Tail(todo))
  <2>1. Settled(todo)
    BY DEF AInv, Agenda
  <2> QED BY <1>1, <2>1, Prefix
<1>4. Freely(stream, Tail(todo))
  <2>1. Tail(todo) # << >> => Adjoins(stream, Head(todo), Tail(todo)[1], next)
    BY <1>1 DEF Precedes
  <2> QED BY <2>1 DEF Freely, Adjoins
<1> QED BY <1>1, <1>2, <1>3, <1>4

\* Steps that finish a picture are put before those left.
LEMMA FinishInserts ==
  ASSUME DInv, AInv, todo # << >>, Head(todo).step = "finish", Nothing',
         NEW s, todo' = s, Shaped(stream, s, next), Settled(s),
         NEW i, Finishes(s, Tail(todo), i),
         UNCHANGED <<stream, next, discontinuous, checkpoint, first, sent>>
  PROVE  AInv'
<1>1. ~ Resetting /\ Range(Tail(todo)) \subseteq Range(todo)
  BY FinishingTail
<1>2. \A b \in Range(s) : b \in Range(todo) \/ b.step \notin Moved
  <2>1. \A b \in Range(s) : \/ b \in Range(Tail(todo))
                            \/ b.step \in {"room", "poll", "join"}
                            \/ b.step \in Finishing
    BY DEF Finishes
  <2>2. \A step \in Finishing \cup {"room", "poll", "join"} : step \notin Moved
    BY DEF Finishing, Passing, Moved
  <2> QED BY <1>1, <2>1, <2>2
<1>3. Agenda'
  BY <1>2, AgendaInserted DEF AInv
<1> QED BY <1>1, <1>3, CursorKept DEF AInv

LEMMA FinishSkippedAgenda ==
  ASSUME DInv, AInv, FinishSkipped
  PROVE  AInv'
<1>1. /\ todo # << >> /\ Head(todo).step = "finish" /\ UNCHANGED fixedVars
      /\ current_skipped_picture # 0 /\ current_skipped_picture' = 0
      /\ current_picture' = current_picture /\ UNCHANGED quietVars
  BY DEF FinishSkipped, Executes
<1>2. PICK i \in Position : i = current_skipped_picture
  BY <1>1 DEF DInv, Types, CodingTyped
<1>3. PICK t \in Seq(TypedStep) : t = Tail(todo)
  BY <1>1, FinishingTail
<1>4. PICK push \in TypedStep : push = Do("push", i) /\ push.step = "push" /\ push.arg = i
  BY PictureSteps DEF Do
<1>5. PICK record \in TypedStep : record = Do("record", i) /\ record.step = "record" /\ record.arg = i
  BY PictureSteps DEF Do
<1>6. PICK s : s = <<push, record>> \o t
  OBVIOUS
<1>7. PICK u : u = <<record>> \o t
  OBVIOUS
<1>8. todo' = s
  BY <1>1, <1>2, <1>3, <1>4, <1>5, <1>6 DEF FinishSkipped, Before
<1>9. Starts(s, push, u) /\ Starts(u, record, t)
  BY <1>6, <1>7, PeelOne, PeelTwo
<1>10. Shaped(stream, t, next) /\ Settled(t) /\ Plainly(t) /\ Freely(stream, t)
  BY <1>1, <1>3, FinishingTail
<1>11. Shaped(stream, s, next) /\ Settled(s) /\ Finishes(s, t, i)
  <2>1. push.step = "push" /\ push.arg = i /\ record.step = "record" /\ record.arg = i
    BY <1>4, <1>5
  <2> QED BY ONLY <2>1, <1>9, <1>10, PushRecord
<1>12. Nothing'
  BY <1>1 DEF Nothing, DInv, Control
<1>13. UNCHANGED <<stream, next, discontinuous, checkpoint, first, sent>>
  BY <1>1, QuietStands
<1> QED BY <1>1, <1>3, <1>8, <1>11, <1>12, <1>13, FinishInserts

LEMMA FinishCurrentAgenda ==
  ASSUME DInv, AInv, FinishCurrent
  PROVE  AInv'
<1>1. /\ todo # << >> /\ Head(todo).step = "finish" /\ UNCHANGED fixedVars
      /\ current_skipped_picture = 0 /\ current_skipped_picture' = current_skipped_picture
      /\ current_picture # NoPicture /\ current_picture' = NoPicture /\ UNCHANGED quietVars
  BY DEF FinishCurrent, Executes
<1>2. UNCHANGED <<stream, next, discontinuous, checkpoint, first, sent>>
  BY <1>1, QuietStands
<1>3. CASE FinishFails(current_picture)
  <2>1. todo' = << >> /\ Head(todo).step \notin Rewinding \cup {"discard"}
    BY <1>1, <1>3 DEF FinishCurrent, Fail, Return, Rewinding
  <2> QED BY <1>1, <1>2, <2>1, Stopping
<1>4. CASE ~ FinishFails(current_picture)
  <2>1. PICK p \in Current : p = current_picture
    BY <1>1 DEF DInv, Types, CodingTyped
  <2>2. PICK t \in Seq(TypedStep) : t = Tail(todo)
    BY <1>1, FinishingTail
  <2>3. PICK s : s = FinishSteps(p) \o t
    OBVIOUS
  <2>4. todo' = s
    BY <1>4, <2>1, <2>2, <2>3 DEF FinishCurrent, Before
  <2>5. Shaped(stream, t, next) /\ Settled(t) /\ Plainly(t) /\ Freely(stream, t)
    BY <1>1, <2>2, FinishingTail
  <2>6. Shaped(stream, s, next) /\ Settled(s) /\ Finishes(s, t, p.picture)
    BY <2>3, <2>5, FinishStepsShaped
  <2>7. Nothing'
    BY <1>1 DEF Nothing
  <2> QED BY <1>1, <1>2, <2>2, <2>4, <2>6, <2>7, FinishInserts
<1> QED BY <1>3, <1>4

LEMMA FinishAgenda ==
  ASSUME DInv, AInv, Finish
  PROVE  AInv'
<1>1. CASE FinishNothing
  <2>1. /\ todo # << >> /\ Head(todo).step \in {"poll", "join", "room", "finish"} /\ Nothing
        /\ UNCHANGED fixedVars /\ Passes
    BY <1>1 DEF FinishNothing, Executes, Nothing
  <2> QED BY <2>1, PassesAgenda
<1>2. CASE Spawn
  <2>1. /\ todo # << >> /\ Head(todo).step \in Spawning /\ UNCHANGED fixedVars
        /\ UNCHANGED codingVars /\ UNCHANGED quietVars
        /\ todo' = << >> \/ todo' = Tail(todo)
    BY <1>2 DEF Spawn, Executes, Fail, Return, Continue, Spawning
  <2>2. Head(todo).step \notin Rewinding \cup {"discard"} /\ Head(todo).step # "finish"
    BY <2>1 DEF Rewinding, Spawning
  <2>3. UNCHANGED <<stream, next, discontinuous, checkpoint, first, sent>> /\ Nothing' = Nothing
    BY <2>1, QuietStands, CodingKept
  <2> QED BY <2>1, <2>2, <2>3, Stopping, Advancing
<1>3. CASE Push
  <2>1. /\ todo # << >> /\ Head(todo).step = "push" /\ UNCHANGED fixedVars
        /\ UNCHANGED codingVars /\ UNCHANGED quietVars /\ todo' = Tail(todo)
    BY <1>3 DEF Push, Executes, Continue
  <2>2. Head(todo).step \notin Rewinding /\ Head(todo).step # "finish"
    BY <2>1 DEF Rewinding
  <2>3. UNCHANGED <<stream, next, discontinuous, checkpoint, first, sent>> /\ Nothing' = Nothing
    BY <2>1, QuietStands, CodingKept
  <2> QED BY <2>1, <2>2, <2>3, Advancing
<1>4. CASE Record
  <2>1. /\ todo # << >> /\ Head(todo).step = "record" /\ UNCHANGED fixedVars
        /\ UNCHANGED pictureVars /\ UNCHANGED quietVars /\ todo' = Tail(todo)
    BY <1>4 DEF Record, Executes, Continue
  <2>2. Head(todo).step \notin Rewinding /\ Head(todo).step # "finish"
    BY <2>1 DEF Rewinding
  <2>3. UNCHANGED <<stream, next, discontinuous, checkpoint, first, sent>> /\ Nothing' = Nothing
    BY <2>1, QuietStands DEF Nothing, pictureVars
  <2> QED BY <2>1, <2>2, <2>3, Advancing
<1> QED BY <1>1, <1>2, <1>3, <1>4, FinishSkippedAgenda, FinishCurrentAgenda DEF Finish

LEMMA HeadPlaced ==
  ASSUME DInv, AInv, todo # << >>
  PROVE  Placed(Head(todo)) /\ Head(todo) \in TypedStep
BY Ahead DEF AInv, Agenda

LEMMA GuardAgenda ==
  ASSUME DInv, AInv, Guard
  PROVE  AInv'
<1>1. /\ todo # << >> /\ Head(todo).step = "guard" /\ UNCHANGED fixedVars
      /\ UNCHANGED checkpoint /\ UNCHANGED spanVars /\ UNCHANGED codingVars
  BY DEF Guard, Executes
<1>2. PICK i \in Position : i = Arg
  <2>1. Head(todo) \in TypedStep
    BY <1>1, HeadPlaced
  <2> QED BY <1>1, <2>1 DEF TypedStep, OfPicture, Arg
<1>3. i = next - 1 /\ (discontinuous \/ sent < i)
  BY <1>1, <1>2, HeadPlaced DEF Placed, Arg
<1>4. stream' = stream /\ first' = first /\ sent' = sent /\ stream \in Streams
  BY <1>1 DEF fixedVars, spanVars, DInv, Types
<1>5. sent \in 0 .. Len(stream) /\ sent \in Int /\ i \in Int /\ next \in Int
  <2>1. sent \in 0 .. Len(stream) /\ next \in 1 .. Len(stream) + 1
    BY DEF AInv, Cursor, DInv, Types, CallerTyped
  <2> QED BY <2>1 DEF Position
<1>6. CASE outputs # << >>
  <2>1. todo' = << >> /\ next' = i /\ discontinuous' = discontinuous
    BY <1>2, <1>6 DEF Guard, Return
  <2>2. Agenda'
    BY <2>1, AgendaEnded
  <2>3. ~ discontinuous' => sent' <= next' - 1
    BY <1>3, <1>4, <1>5, <2>1
  <2>4. Cursor'
    BY <1>1, <1>4, <2>3 DEF AInv, Cursor
  <2> QED BY <2>2, <2>4 DEF AInv
<1>7. CASE outputs = << >>
  <2>1. /\ next' = next /\ discontinuous' = FALSE
        /\ todo' = (IF discontinuous THEN <<Do("discard", 0), Do("reset", i)>> ELSE << >>)
                     \o PacketSteps(i)
    BY <1>2, <1>7 DEF Guard
  <2>2. PICK p : p = PacketSteps(i)
    OBVIOUS
  <2>3. Whole(stream, p, next) /\ Packets(p, i) /\ p \in Seq(TypedStep)
    BY <1>4, <2>2, PacketWhole DEF Whole
  <2>4. \A b \in Range(p) : Placed(b)'
    <3>1. \A b \in Range(p) : /\ b.step \in OfPacket
                              /\ b.step \in {"prepare", "start", "accepted"} => b.arg = i
      BY <2>3 DEF Packets
    <3>2. \A step \in OfPacket : step \notin {"guard", "snapshot", "restore"}
      BY DEF OfPacket
    <3>3. i = next' - 1 /\ ~ discontinuous'
      BY <1>3, <2>1
    <3> QED BY <3>1, <3>2, <3>3 DEF Placed
  <2>5. PICK s : todo' = s
    OBVIOUS
  <2>6. CASE discontinuous
    <3>1. PICK a \in TypedStep : a = Do("discard", 0) /\ a.step = "discard"
      BY PlainSteps
    <3>2. PICK b \in TypedStep : b = Do("reset", i) /\ b.step = "reset" /\ b.arg = i
      BY PictureSteps DEF Do
    <3>3. s = <<a, b>> \o p
      BY <2>1, <2>2, <2>5, <2>6, <3>1, <3>2
    <3>40. PICK u : u = <<b>> \o p
      OBVIOUS
    <3>41. Starts(s, a, u) /\ Starts(u, b, p)
      BY <2>3, <3>3, <3>40, PeelOne, PeelTwo
    <3>42. a.step = "discard" /\ b.step = "reset" /\ b.arg = i
      BY <3>1, <3>2
    <3>4. Whole(stream, s, next) /\ Range(s) = {a, b} \cup Range(p)
      BY ONLY <2>3, <3>41, <3>42, ResetPacketWhole
    <3>5. Whole(stream', s, next')
      BY <1>4, <2>1, <3>4
    <3>6. Placed(a)' /\ Placed(b)'
      BY <3>1, <3>2 DEF Placed
    <3>7. Agenda' /\ Range(todo)' = Range(s)
      BY <2>4, <2>5, <3>4, <3>5, <3>6, AgendaBegun
    <3>8. Resetting'
      BY <3>2, <3>4, <3>7 DEF Resetting, Rewinding
    <3>9. Cursor'
      BY <1>1, <1>4, <3>8 DEF AInv, Cursor
    <3> QED BY <3>7, <3>9 DEF AInv
  <2>7. CASE ~ discontinuous
    <3>1. s = p
      <4>1. s = << >> \o p
        BY <2>1, <2>2, <2>5, <2>7
      <4> QED BY <2>3, <4>1, ConcatEmptySeq
    <3>2. Whole(stream', s, next')
      BY <1>4, <2>1, <2>3, <3>1
    <3>3. Agenda'
      BY <2>4, <2>5, <3>1, <3>2, AgendaBegun
    <3>4. sent' <= next' - 1
      BY <1>3, <1>4, <1>5, <2>1, <2>7
    <3>5. Cursor'
      BY <1>1, <1>4, <3>4 DEF AInv, Cursor
    <3> QED BY <3>3, <3>5 DEF AInv
  <2> QED BY <2>6, <2>7
<1> QED BY <1>6, <1>7

\* The steps before an IDR picture are put before those left.
LEMMA PrepareInserts ==
  ASSUME DInv, AInv, todo # << >>, Head(todo).step = "prepare",
         UNCHANGED pictureVars,
         NEW s, todo' = s, Shaped(stream, s, next), Settled(s),
         NEW a, NEW b, a.step \notin Moved, b.step \notin Moved,
         Range(s) = {a, b} \cup Range(Tail(todo)),
         UNCHANGED <<stream, next, discontinuous, checkpoint, first, sent>>
  PROVE  AInv'
<1>1. /\ Starts(todo, Head(todo), Tail(todo)) /\ Range(Tail(todo)) \subseteq Range(todo)
  BY Ahead DEF AInv, Agenda
<1>2. ~ Resetting
  <2>1. Head(todo).step \notin Rewinding \cup {"discard"}
    BY DEF Rewinding
  <2> QED BY <2>1, Ahead DEF AInv, Agenda
<1>3. Nothing'
  <2>1. Nothing \/ Unsettled(todo)
    BY DEF AInv, Agenda
  <2>2. ~ Unsettled(todo)
    BY <1>1, Prefix DEF Done
  <2>3. Nothing' = Nothing
    BY DEF Nothing, pictureVars
  <2> QED BY <2>1, <2>2, <2>3
<1>4. \A c \in Range(s) : c \in Range(todo) \/ c.step \notin Moved
  BY <1>1
<1>5. Agenda'
  BY <1>3, <1>4, AgendaInserted DEF AInv
<1> QED BY <1>2, <1>5, CursorKept DEF AInv

LEMMA PrepareAgenda ==
  ASSUME DInv, AInv, Prepare
  PROVE  AInv'
<1>1. /\ todo # << >> /\ Head(todo).step = "prepare" /\ UNCHANGED fixedVars
      /\ UNCHANGED codingVars /\ UNCHANGED quietVars
  BY DEF Prepare, Executes
<1>2. UNCHANGED <<stream, next, discontinuous, checkpoint, first, sent>>
  BY <1>1, QuietStands
<1>3. Nothing' = Nothing /\ UNCHANGED pictureVars
  BY <1>1, CodingKept
<1>4. PICK t \in Seq(TypedStep) : t = Tail(todo)
  BY <1>1, Ahead DEF AInv, Agenda
<1>5. /\ Shaped(stream, t, next) /\ Settled(t) /\ Plainly(t) /\ Mildly(t)
      /\ \E b \in Range(t) : b.step = "start" /\ b.arg = Arg
      /\ t # << >> /\ t[1].step = "start" /\ t[1].arg = Arg
  <2>1. /\ Starts(todo, Head(todo), t)
        /\ Shaped(stream, t, next) /\ Precedes(stream, Head(todo), t, next)
    BY <1>1, <1>4, Ahead DEF AInv, Agenda
  <2>2. Head(todo).step \notin {"room", "join", "poll", "discard"} \cup Finishing
    BY <1>1 DEF Finishing, Passing
  <2>3. Plainly(t)
    BY <1>1, <1>4, <2>2, Ahead DEF AInv, Agenda
  <2>4. Settled(t)
    <3>1. Settled(todo)
      BY DEF AInv, Agenda
    <3> QED BY <1>1, <2>1, <3>1, Prefix
  <2>5. Mildly(t)
    BY <1>1, <2>1 DEF Precedes, Adjoins, Mildly
  <2>6. \E b \in Range(t) : b.step = "start" /\ b.arg = Arg
    BY <1>1, <2>1 DEF Precedes, Promising, Awaits, Arg
  <2>7. t # << >>
    <3>1. Range(<< >>) = {}
      BY NoSteps
    <3> QED BY <2>6, <3>1
  <2>8. t[1].step = "start" /\ t[1].arg = Arg
    BY <1>1, <2>1, <2>7 DEF Precedes, Adjoins, Arg
  <2> QED BY <2>1, <2>3, <2>4, <2>5, <2>6, <2>7, <2>8
<1>6. CASE ~ stream[Arg].idr
  <2>1. todo' = Tail(todo)
    BY <1>6 DEF Prepare, Continue
  <2>2. Head(todo).step \notin Rewinding /\ Head(todo).step # "finish"
    BY <1>1 DEF Rewinding
  <2> QED BY <1>1, <1>2, <1>3, <2>1, <2>2, Advancing
<1>7. CASE stream[Arg].idr /\ stream[Arg].no_output_of_prior_pictures
  <2>1. PICK discard \in TypedStep : discard = Do("discard", 0) /\ discard.step = "discard"
    BY PlainSteps
  <2>2. PICK clear \in TypedStep : clear = Do("clear", 0) /\ clear.step = "clear"
    BY PlainSteps
  <2>3. PICK s : s = <<discard, clear>> \o t
    OBVIOUS
  <2>4. PICK u : u = <<clear>> \o t
    OBVIOUS
  <2>5. todo' = s
    BY <1>4, <1>7, <2>1, <2>2, <2>3 DEF Prepare, Before
  <2>6. Starts(s, discard, u) /\ Starts(u, clear, t)
    BY <2>3, <2>4, PeelOne, PeelTwo
  <2>7. PICK b \in Range(t) : b.step = "start" /\ b.arg = Arg
    BY <1>5
  <2>8. /\ Shaped(stream, s, next) /\ Settled(s)
        /\ Range(s) = {discard, clear} \cup Range(t)
    <3>1. b.step = "start" /\ stream[b.arg].no_output_of_prior_pictures
      BY <1>7, <2>7
    <3>2. discard.step = "discard" /\ clear.step = "clear"
      BY <2>1, <2>2
    <3> QED BY ONLY <1>5, <2>6, <3>1, <3>2, b \in Range(t), DiscardClear
  <2>9. discard.step \notin Moved /\ clear.step \notin Moved
    BY <2>1, <2>2 DEF Moved
  <2> QED BY <1>1, <1>2, <1>3, <1>4, <2>5, <2>8, <2>9, PrepareInserts
<1>8. CASE stream[Arg].idr /\ ~ stream[Arg].no_output_of_prior_pictures
  <2>1. PICK join \in TypedStep : join = Do("join", 0) /\ join.step = "join"
    BY PlainSteps
  <2>2. PICK output \in TypedStep : output = Do("drain", 0) /\ output.step = "drain"
    BY PlainSteps
  <2>3. PICK s : s = <<join, output>> \o t
    OBVIOUS
  <2>4. PICK u : u = <<output>> \o t
    OBVIOUS
  <2>5. todo' = s
    BY <1>4, <1>8, <2>1, <2>2, <2>3 DEF Prepare, Before
  <2>6. Starts(s, join, u) /\ Starts(u, output, t)
    BY <2>3, <2>4, PeelOne, PeelTwo
  <2>7. /\ Shaped(stream, s, next) /\ Settled(s)
        /\ Range(s) = {join, output} \cup Range(t)
    <3>1. join.step = "join" /\ output.step = "drain"
      BY <2>1, <2>2
    <3>2. t[1].step = "start" /\ stream[t[1].arg].idr
      BY <1>5, <1>8
    <3> QED BY ONLY <1>5, <2>6, <3>1, <3>2, JoinDrain
  <2>8. join.step \notin Moved /\ output.step \notin Moved
    BY <2>1, <2>2 DEF Moved
  <2> QED BY <1>1, <1>2, <1>3, <1>4, <2>5, <2>7, <2>8, PrepareInserts
<1> QED BY <1>6, <1>7, <1>8

LEMMA SendAgenda ==
  ASSUME DInv, AInv, Send
  PROVE  AInv'
<1>1. CASE ClearReorder \/ EndSequence \/ EndStream
  <2>1. /\ todo # << >> /\ Head(todo).step \in {"clear", "end sequence", "end stream"}
        /\ UNCHANGED fixedVars /\ UNCHANGED pictureVars
        /\ UNCHANGED <<next, discontinuous, checkpoint, first, sent>>
        /\ todo' = Tail(todo)
    BY <1>1 DEF ClearReorder, EndSequence, EndStream, Executes, Continue, codingVars, quietVars,
                spanVars
  <2>2. Head(todo).step \notin Rewinding /\ Head(todo).step # "finish"
    BY <2>1 DEF Rewinding
  <2>3. UNCHANGED <<stream, next, discontinuous, checkpoint, first, sent>> /\ Nothing' = Nothing
    BY <2>1 DEF fixedVars, Nothing, pictureVars
  <2> QED BY <2>1, <2>2, <2>3, Advancing
<1>2. CASE StartSkipped \/ StartRefused \/ Start
  <2>1. /\ todo # << >> /\ Head(todo).step = "start" /\ UNCHANGED fixedVars
        /\ todo' = << >> \/ todo' = Tail(todo)
        /\ UNCHANGED <<next, discontinuous, checkpoint, first, sent>>
    BY <1>2 DEF StartSkipped, StartRefused, Start, Executes, Fail, Return, Continue, quietVars,
                spanVars
  <2>2. Head(todo).step \notin Rewinding \cup {"discard"}
    BY <2>1 DEF Rewinding
  <2>3. UNCHANGED <<stream, next, discontinuous, checkpoint, first, sent>>
    BY <2>1 DEF fixedVars
  <2> QED BY <2>1, <2>2, <2>3, Stopping, Advancing
<1>3. CASE Accepted
  <2>1. /\ todo # << >> /\ Head(todo).step = "accepted" /\ UNCHANGED fixedVars
        /\ todo' = << >> /\ sent' = Arg /\ UNCHANGED <<next, discontinuous, checkpoint, first>>
    BY <1>3 DEF Accepted, Executes, Return
  <2>2. PICK i \in Position : i = Arg
    <3>1. Head(todo) \in TypedStep
      BY <2>1, HeadPlaced
    <3> QED BY <2>1, <3>1 DEF TypedStep, OfPicture, Arg
  <2>3. i = next - 1
    BY <2>1, <2>2, HeadPlaced DEF Placed, Arg
  <2>4. Agenda'
    BY <2>1, AgendaEnded
  <2>5. i \in 0 .. Len(stream) /\ i <= i
    BY DEF Position
  <2>6. Cursor'
    BY <2>1, <2>2, <2>3, <2>5 DEF AInv, Cursor, fixedVars
  <2> QED BY <2>4, <2>6 DEF AInv
<1> QED BY <1>1, <1>2, <1>3, GuardAgenda, PrepareAgenda DEF Send

\* A reset is done for a packet, or for a call that goes on at the cursor.
LEMMA ResetStands ==
  ASSUME DInv, AInv, todo # << >>, Head(todo).step = "reset"
  PROVE  /\ Head(todo).arg \in Position
         /\ \/ /\ Head(todo).arg = next
               /\ Tail(todo) # << >> /\ Tail(todo)[1].step \in Restarting
            \/ /\ Head(todo).arg = next - 1 /\ ~ discontinuous
               /\ \E t \in Range(Tail(todo)) : t.step = "start" /\ t.arg = next - 1
<1>1. /\ Head(todo) \in TypedStep /\ Starts(todo, Head(todo), Tail(todo))
      /\ Range(Tail(todo)) \subseteq Range(todo)
      /\ Shaped(stream, Tail(todo), next) /\ Precedes(stream, Head(todo), Tail(todo), next)
      /\ Tail(todo) \in Seq(TypedStep)
  BY Ahead DEF AInv, Agenda
<1>2. Head(todo).arg \in Position
  BY <1>1 DEF TypedStep, OfPicture
<1>3. PICK t : t = Tail(todo)
  OBVIOUS
<1>4. PICK b \in Range(t) : \/ b.step \in Restarting
                            \/ b.step = "start" /\ b.arg = Head(todo).arg
  BY <1>1, <1>3 DEF Precedes, Promising, Awaits
<1>5. CASE b.step = "start" /\ b.arg = Head(todo).arg
  <2>1. Placed(b)
    BY <1>1, <1>3 DEF AInv, Agenda
  <2> QED BY <1>2, <1>3, <1>5, <2>1 DEF Placed
<1>6. CASE b.step \in Restarting
  <2>1. t \in Seq(TypedStep) /\ Len(t) \in Nat
    BY <1>1, <1>3, LenProperties
  <2>2. PICK k \in 1 .. Len(t) : b = t[k]
    BY <2>1, InRange
  <2>3. k = 1
    <3>1. SUFFICES ASSUME k # 1
                   PROVE  FALSE
      OBVIOUS
    <3>2. k \in 2 .. Len(t) /\ k - 1 \in 1 .. Len(t)
      BY <2>1, <2>2, <3>1
    <3>3. Adjoins(stream, t[k - 1], b, next)
      BY <1>1, <1>3, <2>2, <3>2 DEF Shaped, Adjacent
    <3>4. t[k - 1].step = "reset"
      BY <1>6, <3>3 DEF Adjoins
    <3>5. t[k - 1] \in Range(t)
      BY <2>1, <3>2, InRange
    <3>6. MayPrecede(Head(todo), t[k - 1])
      BY <1>1, <1>3, <3>5 DEF Precedes
    <3> QED BY <3>4, <3>6 DEF MayPrecede, Rewinding
  <2>4. t # << >> /\ t[1] = b
    BY <2>1, <2>2, <2>3, EmptySeq
  <2>5. Adjoins(stream, Head(todo), b, next)
    BY <1>1, <1>3, <2>4 DEF Precedes
  <2>6. Head(todo).arg = next
    BY <1>6, <2>5 DEF Adjoins
  <2> QED BY <1>2, <1>3, <1>6, <2>4, <2>6
<1> QED BY <1>4, <1>5, <1>6

LEMMA ResetAgenda ==
  ASSUME DInv, AInv, Reset
  PROVE  AInv'
<1>1. /\ todo # << >> /\ Head(todo).step = "reset" /\ UNCHANGED fixedVars
      /\ todo' = Tail(todo) /\ first' = Arg /\ sent' = Arg - 1
      /\ UNCHANGED <<next, discontinuous, checkpoint>> /\ Nothing'
  BY DEF Reset, Executes, Continue, Nothing
<1>2. PICK i \in Position : i = Arg /\ (i = next \/ i = next - 1)
  BY <1>1, ResetStands DEF Arg
<1>3. stream' = stream
  BY <1>1 DEF fixedVars
<1>4. Agenda'
  <2>1. sent' = sent \/ Head(todo).step # "poll"
    BY <1>1
  <2> QED BY <1>1, <1>3, <2>1, AgendaTail DEF AInv
<1>5. i - 1 \in 0 .. Len(stream) /\ i \in Nat \ {0} /\ i - 1 <= next - 1
  <2>1. next \in Int /\ Len(stream) \in Nat
    BY DEF DInv, Types, CallerTyped
  <2> QED BY <1>2, <2>1 DEF Position
<1>6. Cursor'
  BY <1>1, <1>2, <1>3, <1>5 DEF AInv, Cursor
<1> QED BY <1>4, <1>6 DEF AInv

LEMMA ReconfigureAgenda ==
  ASSUME DInv, AInv, Reconfigure
  PROVE  AInv'
<1>1. CASE Deliver
  <2>1. /\ todo # << >> /\ Head(todo).step = "deliver" /\ UNCHANGED fixedVars
        /\ todo' = << >> /\ UNCHANGED <<next, discontinuous, checkpoint>> /\ UNCHANGED spanVars
    BY <1>1 DEF Deliver, Executes, Return
  <2>2. Head(todo).step \notin Rewinding \cup {"discard"}
    BY <2>1 DEF Rewinding
  <2> QED BY <2>1, <2>2, Stopping DEF fixedVars, spanVars
<1>2. CASE SetStart \/ Configure
  <2>1. /\ todo # << >> /\ Head(todo).step \in {"set start", "configure"} /\ UNCHANGED fixedVars
        /\ todo' = << >> /\ UNCHANGED <<next, discontinuous, checkpoint>> /\ UNCHANGED spanVars
    BY <1>2 DEF SetStart, Configure, Executes, Return
  <2>2. Head(todo).step \notin Rewinding \cup {"discard"}
    BY <2>1 DEF Rewinding
  <2> QED BY <2>1, <2>2, Stopping DEF fixedVars, spanVars
<1>3. CASE Snapshot
  <2>1. /\ todo # << >> /\ Head(todo).step = "snapshot" /\ UNCHANGED fixedVars
        /\ todo' = << >> /\ UNCHANGED <<next, discontinuous>> /\ UNCHANGED spanVars
        /\ checkpoint' = checkpoint \/ checkpoint'.first = first
    BY <1>3 DEF Snapshot, Executes, Return
  <2>2. Agenda'
    BY <2>1, AgendaEnded
  <2>3. ~ Resetting
    <3>1. Head(todo).step \notin Rewinding \cup {"discard"}
      BY <2>1 DEF Rewinding
    <3> QED BY <2>1, <3>1, Ahead DEF AInv, Agenda
  <2>4. Cursor'
    BY <2>1, <2>3 DEF AInv, Cursor, fixedVars, spanVars
  <2> QED BY <2>2, <2>4 DEF AInv
<1>4. CASE Restore
  <2>1. /\ todo # << >> /\ Head(todo).step = "restore" /\ UNCHANGED fixedVars
        /\ todo' = << >> /\ UNCHANGED <<next, discontinuous, checkpoint>>
        /\ first' = checkpoint.first /\ sent' = checkpoint.position - 1
    BY <1>4 DEF Restore, Executes, Return
  <2>2. Agenda'
    BY <2>1, AgendaEnded
  <2>3. next = checkpoint.position
    BY <2>1, HeadPlaced DEF Placed
  <2>4. PICK c \in Kept : c = checkpoint /\ c.first # 0
    <3>1. todo \in Seq(TypedStep) /\ 1 \in DOMAIN todo /\ todo[1].step = "restore"
      <4>1. todo \in Seq(TypedStep)
        BY DEF DInv, Types, TodoTyped
      <4>2. DOMAIN todo = 1 .. Len(todo) /\ Len(todo) \in Nat /\ Len(todo) >= 1 /\ Head(todo) = todo[1]
        BY <2>1, <4>1, StepShape
      <4> QED BY <2>1, <4>1, <4>2
    <3>2. checkpoint # NoCheckpoint
      BY <3>1 DEF DInv, Control
    <3> QED BY <3>2 DEF DInv, Types, CallerTyped, AInv, Cursor
  <2>5. c.first \in Nat /\ c.position \in 1 .. Len(stream) + 1 /\ Len(stream) \in Nat
    <3>1. Len(stream) \in Nat
      <4>1. stream \in Seq(Picture)
        BY DecoderAssumption DEF DInv, Types, DecoderAssumption
      <4> QED BY <4>1, LenProperties
    <3> QED BY <2>4, <3>1 DEF Kept
  <2>6. c.position - 1 \in 0 .. Len(stream) /\ c.position - 1 <= c.position - 1
    BY <2>5
  <2>7. Cursor'
    BY <2>1, <2>3, <2>4, <2>5, <2>6 DEF AInv, Cursor, fixedVars
  <2> QED BY <2>2, <2>7 DEF AInv
<1> QED BY <1>1, <1>2, <1>3, <1>4, ResetAgenda DEF Reconfigure

LEMMA IdleStands ==
  ASSUME todo = << >>
  PROVE  ~ Resetting
<1>1. PICK nothing : nothing = << >>
  OBVIOUS
<1>2. Range(nothing) = {}
  BY <1>1, NoSteps
<1> QED BY <1>1, <1>2 DEF Resetting

LEMMA CallBegins ==
  ASSUME DInv, AInv, NEW s, Begins(s), Whole(stream, s, next'), \A b \in Range(s) : Placed(b)',
         UNCHANGED checkpoint,
         \/ \E b \in Range(s) : b.step \in Rewinding
         \/ discontinuous'
         \/ UNCHANGED <<next, discontinuous>>
         \/ next' = next + 1 /\ discontinuous' = discontinuous
  PROVE  AInv'
<1>1. /\ todo = << >> /\ todo' = s /\ UNCHANGED fixedVars /\ UNCHANGED spanVars
  BY DEF Begins, Idle
<1>2. stream' = stream /\ first' = first /\ sent' = sent
  BY <1>1 DEF fixedVars, spanVars
<1>3. Agenda' /\ Range(todo)' = Range(s)
  BY <1>1, <1>2, AgendaBegun
<1>4. ~ Resetting
  BY <1>1, IdleStands
<1>5. ~ Resetting' /\ ~ discontinuous' => sent' <= next' - 1
  <2>1. SUFFICES ASSUME ~ Resetting', ~ discontinuous'
                 PROVE  sent' <= next' - 1
    OBVIOUS
  <2>2. \A b \in Range(s) : b.step \notin Rewinding
    BY <1>3, <2>1 DEF Resetting
  <2>3. PICK n \in Int, m \in Int : n = next /\ m = sent
    <3>1. sent \in 0 .. Len(stream) /\ next \in 1 .. Len(stream) + 1
      BY DEF AInv, Cursor, DInv, Types, CallerTyped
    <3>2. sent \in Int /\ next \in Int
      BY <3>1
    <3> QED BY <3>2
  <2>4. ~ discontinuous /\ (next' = n \/ next' = n + 1)
    BY <2>1, <2>2, <2>3
  <2>5. m <= n - 1
    BY <1>4, <2>3, <2>4 DEF AInv, Cursor
  <2> QED BY <1>2, <2>3, <2>4, <2>5
<1>6. Cursor'
  BY <1>2, <1>5 DEF AInv, Cursor
<1> QED BY <1>3, <1>6 DEF AInv

LEMMA SendPacketAgenda ==
  ASSUME DInv, AInv, send_packet
  PROVE  AInv'
<1>1. PICK n \in Int : n = next
  <2>1. next \in 1 .. Len(stream) + 1
    BY DEF DInv, Types, CallerTyped
  <2>2. next \in Int
    BY <2>1
  <2> QED BY <2>2
<1>2. n \in Position
  <2>1. stream \in Seq(Picture)
    BY DecoderAssumption DEF DInv, Types, DecoderAssumption
  <2>2. DOMAIN stream = 1 .. Len(stream)
    BY <2>1, LenProperties
  <2> QED BY <1>1, <2>2 DEF send_packet, Position
<1>3. PICK a \in TypedStep : a = Do("poll", 0) /\ a.step = "poll"
  BY PlainSteps
<1>4. PICK b \in TypedStep : b = Do("guard", n) /\ b.step = "guard" /\ b.arg = n
  BY <1>2, PictureSteps DEF Do
<1>5. PICK s : s = <<a, b>>
  OBVIOUS
<1>6. /\ Begins(s) /\ next' = n + 1 /\ discontinuous' = discontinuous /\ UNCHANGED checkpoint
      /\ todo = << >> /\ UNCHANGED spanVars
  BY <1>1, <1>3, <1>4, <1>5 DEF send_packet, Begins, Idle
<1>7. Whole(stream, s, next') /\ Range(s) = {a, b}
  BY <1>3, <1>4, <1>5, PollThenWhole
<1>8. discontinuous \/ sent' < n
  <2>1. ~ discontinuous => sent <= n - 1
    BY <1>1, <1>6, IdleStands DEF AInv, Cursor
  <2>2. sent' = sent /\ sent \in 0 .. Len(stream)
    BY <1>6 DEF spanVars, AInv, Cursor
  <2>3. PICK m \in Int : m = sent
    BY <2>2
  <2>4. ~ discontinuous => m < n
    BY <2>1, <2>3
  <2> QED BY <2>2, <2>3, <2>4
<1>9. n = next' - 1
  BY <1>6
<1>10. \A c \in Range(s) : Placed(c)'
  <2>1. Placed(a)'
    BY <1>3 DEF Placed
  <2>2. Placed(b)'
    BY <1>4, <1>6, <1>8, <1>9 DEF Placed
  <2> QED BY <1>7, <2>1, <2>2
<1> QED BY <1>1, <1>6, <1>7, <1>10, CallBegins

LEMMA ReceiveFrameAgenda ==
  ASSUME DInv, AInv, receive_frame
  PROVE  AInv'
<1>1. PICK a \in TypedStep : a = Do("poll", 0) /\ a.step = "poll"
  BY PlainSteps
<1>2. PICK b \in TypedStep : b = Do("deliver", 0) /\ b.step = "deliver"
  BY PlainSteps
<1>3. PICK s : s = <<a, b>>
  OBVIOUS
<1>4. Begins(s) /\ UNCHANGED <<next, discontinuous>> /\ UNCHANGED checkpoint
  BY <1>1, <1>2, <1>3 DEF receive_frame, callerVars
<1>5. Whole(stream, s, next') /\ Range(s) = {a, b}
  BY <1>1, <1>2, <1>3, PollThenWhole
<1>6. Placed(a)' /\ Placed(b)'
  BY <1>1, <1>2 DEF Placed
<1> QED BY <1>4, <1>5, <1>6, CallBegins

LEMMA DrainAgenda ==
  ASSUME DInv, AInv, drain
  PROVE  AInv'
<1>1. PICK a \in TypedStep : a = Do("finish", 0) /\ a.step = "finish"
  BY PlainSteps
<1>2. PICK b \in TypedStep : b = Do("join", 0) /\ b.step = "join"
  BY PlainSteps
<1>3. PICK c \in TypedStep : c = Do("drain", 0) /\ c.step = "drain"
  BY PlainSteps
<1>4. PICK d \in TypedStep : d = Do("end stream", 0) /\ d.step = "end stream"
  BY PlainSteps
<1>5. PICK s : s = <<a, b, c, d>>
  OBVIOUS
<1>6. Begins(s) /\ UNCHANGED <<next, discontinuous>> /\ UNCHANGED checkpoint
  BY <1>1, <1>2, <1>3, <1>4, <1>5 DEF drain, callerVars
<1>7. Whole(stream, s, next') /\ Range(s) = {a, b, c, d}
  <2>1. PICK nothing : nothing = << >>
    OBVIOUS
  <2>2. PICK r1 : r1 = <<d>>
    OBVIOUS
  <2>3. PICK r2 : r2 = <<c, d>>
    OBVIOUS
  <2>4. PICK r3 : r3 = <<b, c, d>>
    OBVIOUS
  <2>5. Starts(s, a, r3)
    BY <1>1, <1>2, <1>3, <1>4, <1>5, <2>4, QuadrupleStarts
  <2>6. Starts(r3, b, r2)
    BY <1>2, <1>3, <1>4, <2>3, <2>4, TripleStarts
  <2>7. Starts(r2, c, r1) /\ Starts(r1, d, nothing)
    BY <1>3, <1>4, <2>1, <2>2, <2>3, PairStarts, SoleStarts
  <2>8. a.step = "finish" /\ b.step = "join" /\ c.step = "drain" /\ d.step = "end stream"
    BY <1>1, <1>2, <1>3, <1>4
  <2>9. PICK n : n = next'
    OBVIOUS
  <2>10. DrainSteps(stream, n, s, r3, r2, r1, nothing, a, b, c, d)
    BY <2>1, <2>5, <2>6, <2>7, <2>8 DEF DrainSteps
  <2>11. Whole(stream, s, n) /\ Range(s) = {a, b, c, d}
    BY ONLY <2>10, DrainWhole
  <2> QED BY <2>9, <2>11
<1>8. Placed(a)' /\ Placed(b)' /\ Placed(c)' /\ Placed(d)'
  BY <1>1, <1>2, <1>3, <1>4 DEF Placed
<1> QED BY <1>6, <1>7, <1>8, CallBegins

LEMMA CreateSeekCheckpointAgenda ==
  ASSUME DInv, AInv, create_seek_checkpoint
  PROVE  AInv'
<1>1. PICK a \in TypedStep : a = Do("finish", 0) /\ a.step = "finish"
  BY PlainSteps
<1>2. PICK b \in TypedStep : b = Do("join", 0) /\ b.step = "join"
  BY PlainSteps
<1>3. PICK c \in TypedStep : c = Do("snapshot", 0) /\ c.step = "snapshot"
  BY PlainSteps
<1>4. PICK s : s = <<a, b, c>>
  OBVIOUS
<1>5. /\ Begins(s) /\ UNCHANGED <<next, discontinuous>> /\ UNCHANGED checkpoint
      /\ ~ discontinuous
  BY <1>1, <1>2, <1>3, <1>4 DEF create_seek_checkpoint, callerVars
<1>6. Whole(stream, s, next') /\ Range(s) = {a, b, c}
  BY <1>1, <1>2, <1>3, <1>4, SnapshotWhole
<1>7. Placed(a)' /\ Placed(b)' /\ Placed(c)'
  BY <1>1, <1>2, <1>3, <1>5 DEF Placed
<1> QED BY <1>5, <1>6, <1>7, CallBegins

\* flush, flush_for_seek and configure.
LEMMA RestartAgenda ==
  ASSUME DInv, AInv, NEW k \in Keyframes, NEW c \in TypedStep, c.step \in Restarting,
         NEW s, s = <<Do("discard", 0), Do("reset", k), c>>,
         Begins(s), Restarts(k)
  PROVE  AInv'
<1>1. PICK a \in TypedStep : a = Do("discard", 0) /\ a.step = "discard"
  BY PlainSteps
<1>2. PICK b \in TypedStep : b = Do("reset", k) /\ b.step = "reset" /\ b.arg = k
  BY KeyframeIsPosition, PictureSteps DEF Do
<1>3. next' = k /\ UNCHANGED checkpoint
  BY DEF Restarts
<1>4. s = <<a, b, c>>
  BY <1>1, <1>2
<1>5. Whole(stream, s, k) /\ Range(s) = {a, b, c}
  <2>1. PICK nothing : nothing = << >>
    OBVIOUS
  <2>2. PICK u : u = <<c>>
    OBVIOUS
  <2>3. PICK v : v = <<b, c>>
    OBVIOUS
  <2>4. Starts(s, a, v)
    BY <1>1, <1>2, <1>4, <2>3, TripleStarts
  <2>5. Starts(v, b, u) /\ Starts(u, c, nothing)
    BY <1>2, <2>1, <2>2, <2>3, PairStarts, SoleStarts
  <2>6. a.step = "discard" /\ b.step = "reset" /\ b.arg = k
    BY <1>1, <1>2
  <2>7. RestartSteps(stream, k, s, v, u, nothing, a, b, c)
    BY <2>1, <2>4, <2>5, <2>6 DEF RestartSteps
  <2> QED BY ONLY <2>7, RestartWhole
<1>6. Placed(a)' /\ Placed(b)' /\ Placed(c)'
  BY <1>1, <1>2 DEF Placed, Restarting
<1>7. \E d \in Range(s) : d.step \in Rewinding
  BY <1>2, <1>5 DEF Rewinding
<1>8. \A d \in Range(s) : Placed(d)'
  BY <1>5, <1>6
<1>9. Whole(stream, s, next')
  BY <1>3, <1>5
<1> QED BY <1>3, <1>7, <1>8, <1>9, CallBegins

LEMMA RestoreSeekCheckpointAgenda ==
  ASSUME DInv, AInv, NEW target \in Targets, restore_seek_checkpoint(target)
  PROVE  AInv'
<1>1. checkpoint # NoCheckpoint /\ UNCHANGED checkpoint
  BY DEF restore_seek_checkpoint
<1>2. CASE target <= checkpoint.resume_time
  <2>1. PICK s : s = << >>
    OBVIOUS
  <2>2. Begins(s) /\ UNCHANGED <<next, discontinuous>>
    BY <1>2, <2>1 DEF restore_seek_checkpoint
  <2>3. Whole(stream, s, next') /\ Range(s) = {}
    BY <2>1, NoneWhole
  <2> QED BY <1>1, <2>2, <2>3, CallBegins
<1>3. CASE ~ (target <= checkpoint.resume_time)
  <2>1. target \in Nat
    BY DecoderAssumption DEF DecoderAssumption
  <2>2. PICK a \in TypedStep : a = Do("discard", 0) /\ a.step = "discard"
    BY PlainSteps
  <2>3. PICK b \in TypedStep : b = Do("restore", target) /\ b.step = "restore" /\ b.arg = target
    <3>1. target \in Nat \cup {NoTime} /\ "restore" \in {"set start", "restore"}
      BY <2>1
    <3> QED BY <3>1, TimeStep DEF Do
  <2>4. PICK s : s = <<a, b>>
    OBVIOUS
  <2>5. Begins(s) /\ next' = checkpoint.position /\ discontinuous' = FALSE
    BY <1>3, <2>2, <2>3, <2>4 DEF restore_seek_checkpoint
  <2>6. Whole(stream, s, next') /\ Range(s) = {a, b}
    BY <2>2, <2>3, <2>4, DiscardRestoreWhole
  <2>7. target > checkpoint.resume_time
    <3>1. PICK c \in Kept : c = checkpoint
      BY <1>1 DEF DInv, Types, CallerTyped
    <3>2. PICK time \in Nat : time = checkpoint.resume_time
      BY <3>1 DEF Kept
    <3> QED BY <1>3, <2>1, <3>2
  <2>8. Placed(a)' /\ Placed(b)'
    BY <1>1, <2>2, <2>3, <2>5, <2>7 DEF Placed
  <2>9. \E d \in Range(s) : d.step \in Rewinding
    BY <2>3, <2>6 DEF Rewinding
  <2>10. \A d \in Range(s) : Placed(d)'
    BY <2>6, <2>8
  <2> QED BY <1>1, <2>5, <2>6, <2>9, <2>10, CallBegins
<1> QED BY <1>2, <1>3

LEMMA CallAgenda ==
  ASSUME DInv, AInv, Call
  PROVE  AInv'
<1>1. ASSUME NEW k \in Keyframes, flush(k) \/ configure(k)
      PROVE  AInv'
  <2>1. CASE flush(k)
    <3>1. PICK c \in TypedStep : c = Do("set start", NoTime) /\ c.step \in Restarting
      BY TimeStep DEF Restarting
    <3> QED BY <2>1, <3>1, RestartAgenda DEF flush
  <2>2. CASE configure(k)
    <3>1. PICK c \in TypedStep : c = Do("configure", 0) /\ c.step \in Restarting
      BY ConfigureStep DEF Restarting
    <3> QED BY <2>2, <3>1, RestartAgenda DEF configure
  <2> QED BY <1>1, <2>1, <2>2
<1>2. ASSUME NEW k \in Keyframes, NEW target \in Targets, flush_for_seek(k, target)
      PROVE  AInv'
  <2>1. target \in Nat \cup {NoTime}
    BY DecoderAssumption DEF DecoderAssumption
  <2>2. PICK c \in TypedStep : c = Do("set start", target) /\ c.step \in Restarting
    BY <2>1, TimeStep DEF Restarting
  <2> QED BY <1>2, <2>2, RestartAgenda DEF flush_for_seek
<1>3. ASSUME NEW k \in Keyframes, jump(k)
      PROVE  AInv'
  <2>1. PICK s : s = << >>
    OBVIOUS
  <2>2. Begins(s) /\ discontinuous' /\ UNCHANGED checkpoint
    BY <1>3, <2>1 DEF jump, Restarts
  <2>3. Whole(stream, s, next') /\ Range(s) = {}
    BY <2>1, NoneWhole
  <2> QED BY <2>2, <2>3, CallBegins
<1>4. ASSUME NEW target \in Targets, retarget_seek_forward(target)
      PROVE  AInv'
  <2>1. /\ UNCHANGED <<stream, todo, next, discontinuous, checkpoint, first, sent>>
        /\ Nothing' = Nothing
    BY <1>4, CodingKept DEF retarget_seek_forward, fixedVars, callerVars, spanVars
  <2> QED BY <2>1, Staying
<1> QED BY <1>1, <1>2, <1>3, <1>4, SendPacketAgenda, ReceiveFrameAgenda, DrainAgenda,
           CreateSeekCheckpointAgenda, RestoreSeekCheckpointAgenda DEF Call

LEMMA AgendaKept ==
  ASSUME DInv, AInv, [Next]_vars
  PROVE  AInv'
<1>1. CASE Step
  BY <1>1, CompletionsAgenda, DiscardAgenda, DrainReorderAgenda, FinishAgenda, SendAgenda,
     ReconfigureAgenda DEF Step
<1>2. CASE WorkerAnswers \/ UNCHANGED vars
  <2>1. UNCHANGED <<stream, todo, next, discontinuous, checkpoint, first, sent>>
        /\ UNCHANGED pictureVars
    BY <1>2 DEF WorkerAnswers, vars, fixedVars, callerVars, spanVars, codingVars
  <2>2. Nothing' = Nothing
    BY <2>1 DEF Nothing, pictureVars
  <2> QED BY <2>1, <2>2, Staying
<1> QED BY <1>1, <1>2, CallAgenda DEF Next

LEMMA AgendaInit ==
  ASSUME Init
  PROVE  AInv
<1>1. PICK nothing : nothing = << >>
  OBVIOUS
<1>2. /\ Range(nothing) = {} /\ Settled(nothing) /\ Unsettled(nothing)
      /\ Shaped(stream, nothing, next)
  BY <1>1, NoSteps
<1>3. todo = nothing /\ first = 1 /\ sent = 0 /\ next = 1 /\ checkpoint = NoCheckpoint
  BY <1>1 DEF Init
<1>4. Agenda
  BY <1>2, <1>3 DEF Agenda
<1>5. Len(stream) \in Nat
  <2>1. stream \in Seq(Picture)
    BY DecoderAssumption DEF Init, DecoderAssumption
  <2> QED BY <2>1, LenProperties
<1> QED BY <1>3, <1>4, <1>5 DEF AInv, Cursor

----------
(* What is empty when a step is next *)

\* The reorder buffer is drained after the workers are done, the stream and the
\* sequence end, and an IDR picture starts, with nothing left to output; a reset
\* comes with no picture at a worker, and a new start of output or configuration
\* right after a reset.
Stands(t) ==
  /\ t.step \in {"drain", "clear"} => pending_picture_completions = << >>
  /\ t.step \in Ending => reorder = << >> /\ pending_picture_completions = << >>
  /\ t.step = "start" /\ stream[t.arg].idr =>
       reorder = << >> /\ pending_picture_completions = << >>
  /\ t.step \in Rewinding => pending_picture_completions = << >>
  /\ t.step \in Restarting => /\ first = next /\ sent = next - 1 /\ Nothing
                              /\ reorder = << >> /\ pending_picture_completions = << >>

Heads == todo # << >> => Stands(todo[1])

\* Steps that may come first whatever the decoder holds.
Free == {"poll", "room", "join", "discard", "finish", "push", "guard"}

LEMMA HeadsEnded ==
  ASSUME todo' = << >>
  PROVE  Heads'
BY DEF Heads

LEMMA HeadsFree ==
  ASSUME NEW s, todo' = s, s # << >> => s[1].step \in Free
  PROVE  Heads'
<1>1. \A t : t.step \in Free => Stands(t)'
  BY DEF Stands, Free, Ending, Rewinding, Restarting
<1> QED BY <1>1 DEF Heads

LEMMA HeadsSame ==
  ASSUME DInv, Heads, todo' = todo,
         todo # << >> => \/ Head(todo).step \in Free
                         \/ UNCHANGED <<stream, next, first, sent, reorder,
                                        pending_picture_completions>> /\ Nothing' = Nothing
                         \/ Head(todo).step = "drain" /\ UNCHANGED pending_picture_completions
  PROVE  Heads'
<1>1. todo # << >> => Head(todo) = todo[1]
  BY StepsCounted DEF DInv
<1>2. ASSUME todo # << >>
      PROVE  Stands(todo[1])'
  <2>1. PICK t : t = todo[1] /\ t = Head(todo) /\ Stands(t)
    BY <1>1, <1>2 DEF Heads
  <2>2. Stands(t)'
    BY <1>2, <2>1 DEF Stands, Free, Ending, Rewinding, Restarting
  <2> QED BY <2>1, <2>2
<1> QED BY <1>2 DEF Heads

LEMMA HeadsNext ==
  ASSUME DInv, AInv, Heads, todo # << >>, todo' = Tail(todo), UNCHANGED <<stream, next>>,
         Head(todo).step = "join" => pending_picture_completions' = << >>,
         Head(todo).step = "drain" =>
           reorder' = << >> /\ UNCHANGED pending_picture_completions,
         Head(todo).step = "prepare" => ~ stream[Head(todo).arg].idr,
         Head(todo).step = "clear" => reorder' = << >> /\ UNCHANGED pending_picture_completions,
         Head(todo).step = "discard" => pending_picture_completions' = << >>,
         Head(todo).step = "reset" =>
           /\ first' = Head(todo).arg /\ sent' = Head(todo).arg - 1 /\ Nothing'
           /\ reorder' = << >> /\ UNCHANGED pending_picture_completions
  PROVE  Heads'
<1>1. PICK a : a = Head(todo)
  OBVIOUS
<1>2. PICK t : t = Tail(todo)
  OBVIOUS
<1>3. /\ a = todo[1] /\ Precedes(stream, a, t, next) /\ t \in Seq(TypedStep)
      /\ Range(todo) = {a} \cup Range(t)
  BY <1>1, <1>2, Ahead DEF AInv, Agenda
<1>4. Stands(a)
  BY <1>3 DEF Heads
<1>5. ASSUME t # << >>
      PROVE  Stands(t[1])'
  <2>1. PICK b : b = t[1]
    OBVIOUS
  <2>2. Adjoins(stream, a, b, next) /\ b \in Range(t)
    BY <1>3, <1>5, <2>1, RangeTail DEF Precedes
  <2>3. MayPrecede(a, b) /\ Placed(b) /\ Placed(a)
    BY <1>3, <2>2 DEF Precedes, AInv, Agenda
  <2>4. b.step \in {"drain", "clear"} => pending_picture_completions' = << >>
    BY <1>1, <2>2 DEF Adjoins
  <2>5. b.step \in Ending => reorder' = << >> /\ pending_picture_completions' = << >>
    BY <1>1, <1>4, <2>2 DEF Adjoins, Stands
  <2>6. b.step = "start" /\ stream[b.arg].idr =>
          reorder' = << >> /\ pending_picture_completions' = << >>
    <3>1. a.step \in {"drain", "clear"} => pending_picture_completions = << >>
      BY <1>4 DEF Stands
    <3>2. b.step = "start" /\ stream[b.arg].idr =>
            a.step \in {"drain", "clear"} \/ (a.step = "prepare" /\ a.arg = b.arg)
      BY <2>2 DEF Adjoins
    <3>3. a.step = "prepare" => ~ stream[a.arg].idr
      BY <1>1
    <3>4. a.step \in {"drain", "clear"} =>
            reorder' = << >> /\ UNCHANGED pending_picture_completions
      BY <1>1
    <3> QED BY <3>1, <3>2, <3>3, <3>4
  <2>7. b.step \in Rewinding => pending_picture_completions' = << >>
    BY <1>1, <2>3 DEF MayPrecede
  <2>8. b.step \in Restarting => /\ first' = next' /\ sent' = next' - 1 /\ Nothing'
                                 /\ reorder' = << >> /\ pending_picture_completions' = << >>
    <3>1. b.step \in Restarting => a.step = "reset" /\ a.arg = next
      BY <2>2 DEF Adjoins
    <3>2. a.step = "reset" => pending_picture_completions = << >>
      BY <1>4 DEF Stands, Rewinding
    <3> QED BY <1>1, <3>1, <3>2
  <2>9. stream' = stream /\ b' = b
    BY <2>1
  <2>10. Stands(b)'
    BY <2>4, <2>5, <2>6, <2>7, <2>8, <2>9 DEF Stands
  <2> QED BY <2>1, <2>10
<1> QED BY <1>2, <1>5 DEF Heads

\* A step that neither waits nor empties anything.
Casual == {"poll", "room", "finish", "push", "record", "spawn", "spawn deferred", "start",
           "end sequence", "end stream", "accepted", "deliver", "snapshot"}

LEMMA HeadsPast ==
  ASSUME DInv, AInv, Heads, todo # << >>, todo' = Tail(todo), UNCHANGED <<stream, next>>,
         Head(todo).step \in Casual
  PROVE  Heads'
<1>1. Head(todo).step \notin {"join", "drain", "prepare", "clear", "discard", "reset"}
  BY DEF Casual
<1> QED BY <1>1, HeadsNext

LEMMA CompletionsHeads ==
  ASSUME DInv, AInv, Heads, Poll \/ Join \/ Room
  PROVE  Heads'
<1>1. /\ todo # << >> /\ Head(todo).step \in {"poll", "join", "room"} /\ UNCHANGED fixedVars
      /\ \/ TakeCompletion
         \/ Passes /\ (Head(todo).step = "join" => pending_picture_completions = << >>)
  <2>1. CASE Poll
    BY <2>1 DEF Poll, Executes
  <2>2. CASE Join
    BY <2>2 DEF Join, Executes
  <2>3. CASE Room
    BY <2>3 DEF Room, Executes
  <2> QED BY <2>1, <2>2, <2>3
<1>2. CASE TakeCompletion
  <2>1. todo' = << >> \/ todo' = todo
    BY <1>2 DEF TakeCompletion, Fail, Return
  <2>2. Head(todo).step \in Free
    BY <1>1 DEF Free
  <2> QED BY <2>1, <2>2, HeadsEnded, HeadsSame
<1>3. CASE Passes /\ (Head(todo).step = "join" => pending_picture_completions = << >>)
  <2>1. todo' = Tail(todo) /\ UNCHANGED pending_picture_completions /\ UNCHANGED <<stream, next>>
    BY <1>1, <1>3, QuietKept DEF Passes, Continue, fixedVars
  <2>2. Head(todo).step = "join" => pending_picture_completions' = << >>
    BY <1>3, <2>1
  <2>3. Head(todo).step \notin {"drain", "prepare", "clear", "discard", "reset"}
    BY <1>1
  <2> QED BY <1>1, <2>1, <2>2, <2>3, HeadsNext
<1> QED BY <1>1, <1>2, <1>3

LEMMA SweepingHeads ==
  ASSUME DInv, AInv, Heads, Discard \/ DrainReorder \/ ClearReorder
  PROVE  Heads'
<1>1. /\ todo # << >> /\ UNCHANGED fixedVars /\ UNCHANGED quietVars
      /\ Head(todo).step \in {"discard", "drain", "clear"}
      /\ todo' = todo \/ todo' = Tail(todo)
      /\ Head(todo).step # "discard" => UNCHANGED pending_picture_completions
      /\ todo' = todo => Head(todo).step # "clear"
  <2>1. CASE Discard
    BY <2>1 DEF Discard, Executes, Continue
  <2>2. CASE DrainReorder
    BY <2>2 DEF DrainReorder, Executes, Continue
  <2>3. CASE ClearReorder
    <3>1. /\ todo # << >> /\ UNCHANGED fixedVars /\ UNCHANGED quietVars
          /\ Head(todo).step = "clear" /\ todo' = Tail(todo)
          /\ UNCHANGED pending_picture_completions
      BY <2>3 DEF ClearReorder, Executes, Continue
    <3>2. Tail(todo) # todo
      <4>1. todo \in Seq(TypedStep)
        BY DEF DInv, Types, TodoTyped
      <4>2. Len(Tail(todo)) = Len(todo) - 1 /\ Len(todo) \in Nat
        BY <3>1, <4>1, HeadTailProperties, LenProperties
      <4> QED BY <4>2
    <3> QED BY <3>1, <3>2
  <2> QED BY <2>1, <2>2, <2>3
<1>2. UNCHANGED <<stream, next>>
  BY <1>1, QuietKept DEF fixedVars
<1>3. CASE todo' = todo
  <2>1. Head(todo).step \in Free \/ Head(todo).step = "drain"
    BY <1>1, <1>3 DEF Free
  <2> QED BY <1>1, <1>3, <2>1, HeadsSame
<1>4. CASE todo' = Tail(todo) /\ todo' # todo
  <2>1. CASE Discard
    <3>1. pending_picture_completions' = << >> /\ Head(todo).step = "discard"
      BY <1>4, <2>1 DEF Discard, Executes
    <3> QED BY <1>1, <1>2, <1>4, <3>1, HeadsNext
  <2>2. CASE DrainReorder
    <3>1. reorder' = << >> /\ UNCHANGED pending_picture_completions /\ Head(todo).step = "drain"
      BY <1>4, <2>2 DEF DrainReorder, Executes
    <3> QED BY <1>1, <1>2, <1>4, <3>1, HeadsNext
  <2>3. CASE ClearReorder
    <3>1. reorder' = << >> /\ Head(todo).step = "clear"
      BY <2>3 DEF ClearReorder, Executes
    <3> QED BY <1>1, <1>2, <1>4, <3>1, HeadsNext
  <2> QED BY <2>1, <2>2, <2>3
<1> QED BY <1>1, <1>3, <1>4

LEMMA FinishSkippedIs ==
  ASSUME DInv, AInv, FinishSkipped
  PROVE  /\ todo # << >> /\ Head(todo).step = "finish" /\ ~ Resetting
         /\ current_skipped_picture \in Position /\ current_skipped_picture' = 0
         /\ Plainly(Tail(todo)) /\ todo' \in Seq(TypedStep)
         /\ Finishes(todo', Tail(todo), current_skipped_picture) /\ todo'[1].step = "push"
         /\ \A b \in Range(todo') : b \in Range(Tail(todo)) \/ b.step \in {"push", "record"}
<1>1. /\ todo # << >> /\ Head(todo).step = "finish"
      /\ current_skipped_picture # 0 /\ current_skipped_picture' = 0
  BY DEF FinishSkipped, Executes
<1>2. PICK i \in Position : i = current_skipped_picture
  BY <1>1 DEF DInv, Types, CodingTyped
<1>3. PICK t \in Seq(TypedStep) : t = Tail(todo)
  BY <1>1, FinishingTail
<1>4. PICK push \in TypedStep : push = Do("push", i) /\ push.step = "push" /\ push.arg = i
  BY PictureSteps DEF Do
<1>5. PICK record \in TypedStep : record = Do("record", i) /\ record.step = "record" /\ record.arg = i
  BY PictureSteps DEF Do
<1>6. PICK s : s = <<push, record>> \o t
  OBVIOUS
<1>7. PICK u : u = <<record>> \o t
  OBVIOUS
<1>8. todo' = s
  BY <1>1, <1>2, <1>3, <1>4, <1>5, <1>6 DEF FinishSkipped, Before
<1>9. Starts(s, push, u) /\ Starts(u, record, t)
  BY <1>6, <1>7, PeelOne, PeelTwo
<1>10. Shaped(stream, t, next) /\ Settled(t) /\ Plainly(t) /\ Freely(stream, t) /\ ~ Resetting
  BY <1>1, <1>3, FinishingTail
<1>11. Finishes(s, t, i) /\ s[1] = push /\ Range(s) = {push, record} \cup Range(t)
  <2>1. push.step = "push" /\ push.arg = i /\ record.step = "record" /\ record.arg = i
    BY <1>4, <1>5
  <2> QED BY ONLY <2>1, <1>9, <1>10, PushRecord
<1>12. s \in Seq(TypedStep) /\ \A b \in Range(s) : b \in Range(t) \/ b.step \in {"push", "record"}
  BY <1>4, <1>5, <1>9, <1>11, Parts
<1>13. s[1].step = "push"
  BY <1>4, <1>11
<1> QED BY <1>1, <1>2, <1>3, <1>8, <1>10, <1>11, <1>12, <1>13

LEMMA FinishCurrentIs ==
  ASSUME DInv, AInv, FinishCurrent
  PROVE  /\ todo # << >> /\ Head(todo).step = "finish" /\ ~ Resetting
         /\ current_picture \in Current /\ current_picture' = NoPicture
         /\ Plainly(Tail(todo))
         /\ \/ FinishFails(current_picture) /\ Fail
            \/ /\ todo' \in Seq(TypedStep) /\ UNCHANGED <<result, errors>>
               /\ Finishes(todo', Tail(todo), current_picture.picture)
               /\ todo'[1].step \in {"room", "join"}
<1>1. /\ todo # << >> /\ Head(todo).step = "finish"
      /\ current_picture # NoPicture /\ current_picture' = NoPicture
  BY DEF FinishCurrent, Executes
<1>2. PICK t \in Seq(TypedStep) : t = Tail(todo)
  BY <1>1, FinishingTail
<1>3. Shaped(stream, t, next) /\ Settled(t) /\ Plainly(t) /\ Freely(stream, t) /\ ~ Resetting
  BY <1>1, <1>2, FinishingTail
<1>4. PICK p \in Current : p = current_picture
  BY <1>1 DEF DInv, Types, CodingTyped
<1>5. CASE FinishFails(current_picture)
  <2>1. Fail
    BY <1>5 DEF FinishCurrent
  <2> QED BY <1>1, <1>2, <1>3, <1>4, <1>5, <2>1
<1>6. CASE ~ FinishFails(current_picture)
  <2>1. PICK s : s = FinishSteps(p) \o t
    OBVIOUS
  <2>2. todo' = s /\ UNCHANGED <<result, errors>>
    BY <1>2, <1>4, <1>6, <2>1 DEF FinishCurrent, Before
  <2>3. s \in Seq(TypedStep) /\ Finishes(s, t, p.picture) /\ s[1].step \in {"room", "join"}
    BY <1>3, <2>1, FinishStepsShaped
  <2> QED BY <1>1, <1>2, <1>3, <1>4, <2>2, <2>3
<1> QED BY <1>5, <1>6

LEMMA FinishHeads ==
  ASSUME DInv, AInv, Heads, Finish
  PROVE  Heads'
<1>1. CASE FinishSkipped
  <2>1. todo'[1].step = "push"
    BY <1>1, FinishSkippedIs
  <2>2. PICK s : todo' = s
    OBVIOUS
  <2>3. s # << >> => s[1].step \in Free
    BY <2>1, <2>2 DEF Free
  <2> QED BY <2>2, <2>3, HeadsFree
<1>2. CASE FinishCurrent
  <2>1. todo' = << >> \/ todo'[1].step \in {"room", "join"}
    BY <1>2, FinishCurrentIs DEF Fail, Return
  <2>2. PICK s : todo' = s
    OBVIOUS
  <2>3. s # << >> => s[1].step \in Free
    BY <2>1, <2>2 DEF Free
  <2> QED BY <2>2, <2>3, HeadsFree
<1>3. CASE FinishNothing \/ Spawn \/ Push \/ Record
  <2>1. /\ todo # << >> /\ UNCHANGED fixedVars /\ UNCHANGED quietVars
        /\ Head(todo).step \in {"finish", "spawn", "spawn deferred", "push", "record"}
        /\ todo' = << >> \/ todo' = Tail(todo)
    <3>1. CASE FinishNothing
      BY <3>1 DEF FinishNothing, Passes, Executes, Continue
    <3>2. CASE Spawn
      BY <3>2 DEF Spawn, Executes, Continue, Fail, Return
    <3>3. CASE Push
      BY <3>3 DEF Push, Executes, Continue
    <3>4. CASE Record
      BY <3>4 DEF Record, Executes, Continue
    <3> QED BY <1>3, <3>1, <3>2, <3>3, <3>4
  <2>2. UNCHANGED <<stream, next>> /\ Head(todo).step \in Casual
    BY <2>1, QuietKept DEF fixedVars, Casual
  <2> QED BY <2>1, <2>2, HeadsEnded, HeadsPast
<1> QED BY <1>1, <1>2, <1>3 DEF Finish

\* What a step does, for the steps that do not put others before those left.
LEMMA PacketStepIs ==
  ASSUME StartSkipped \/ StartRefused \/ Start \/ EndSequence \/ EndStream \/ Accepted
  PROVE  /\ todo # << >> /\ UNCHANGED fixedVars
         /\ Head(todo).step \in {"start", "end sequence", "end stream", "accepted"}
         /\ todo' = << >> \/ todo' = Tail(todo)
         /\ UNCHANGED <<next, discontinuous, checkpoint, first, received, output_start_time>>
         /\ UNCHANGED pending_picture_completions /\ UNCHANGED outputVars
<1>1. CASE StartSkipped
  BY <1>1, QuietKept DEF StartSkipped, Executes, Continue
<1>2. CASE StartRefused
  BY <1>2, QuietKept DEF StartRefused, Executes, Fail, Return
<1>3. CASE Start
  BY <1>3 DEF Start, Executes, Continue, Fail, Return, modeVars, toldVars, spanVars
<1>4. CASE EndSequence
  BY <1>4, QuietKept DEF EndSequence, Executes, Continue
<1>5. CASE EndStream
  BY <1>5 DEF EndStream, Executes, Continue, toldVars, spanVars
<1>6. CASE Accepted
  BY <1>6 DEF Accepted, Executes, Return, modeVars, toldVars
<1> QED BY <1>1, <1>2, <1>3, <1>4, <1>5, <1>6

LEMMA PrepareIs ==
  ASSUME DInv, AInv, Prepare
  PROVE  /\ todo # << >> /\ Head(todo).step = "prepare" /\ UNCHANGED fixedVars
         /\ UNCHANGED codingVars /\ UNCHANGED quietVars /\ UNCHANGED reorderVars
         /\ UNCHANGED outputVars /\ UNCHANGED <<pending_picture_completions, result, errors>>
         /\ Tail(todo) \in Seq(TypedStep) /\ Range(Tail(todo)) \subseteq Range(todo)
         /\ \/ ~ stream[Arg].idr /\ todo' = Tail(todo)
            \/ /\ todo' \in Seq(TypedStep) /\ todo' # << >>
               /\ todo'[1].step \in {"discard", "join"}
               /\ Range(Tail(todo)) \subseteq Range(todo')
               /\ \A b \in Range(todo') :
                    b \in Range(Tail(todo)) \/ b.step \in {"discard", "clear", "join", "drain"}
<1>1. /\ todo # << >> /\ Head(todo).step = "prepare" /\ UNCHANGED fixedVars
      /\ UNCHANGED codingVars /\ UNCHANGED quietVars /\ UNCHANGED reorderVars
      /\ UNCHANGED outputVars /\ UNCHANGED <<pending_picture_completions, result, errors>>
  BY DEF Prepare, Executes
<1>2. PICK t \in Seq(TypedStep) : t = Tail(todo) /\ Range(t) \subseteq Range(todo)
  BY <1>1, Ahead DEF AInv, Agenda
<1>3. ASSUME NEW a \in TypedStep, NEW b \in TypedStep, a.step \in {"discard", "join"},
             b.step \in {"clear", "drain"}, todo' = <<a, b>> \o t
      PROVE  /\ todo' \in Seq(TypedStep) /\ todo' # << >>
             /\ todo'[1].step \in {"discard", "join"}
             /\ Range(t) \subseteq Range(todo')
             /\ \A c \in Range(todo') :
                  c \in Range(t) \/ c.step \in {"discard", "clear", "join", "drain"}
  <2>1. PICK s : s = <<a, b>> \o t
    OBVIOUS
  <2>2. PICK u : u = <<b>> \o t
    OBVIOUS
  <2>3. Starts(s, a, u) /\ Starts(u, b, t)
    BY <2>1, <2>2, PeelOne, PeelTwo
  <2>4. s \in Seq(TypedStep) /\ s # << >> /\ s[1] = a /\ Range(s) = {a, b} \cup Range(t)
    BY <2>3, Parts
  <2>5. todo' = s
    BY <1>3, <2>1
  <2> QED BY <1>3, <2>4, <2>5
<1>4. CASE ~ stream[Arg].idr
  <2>1. todo' = Tail(todo)
    BY <1>4 DEF Prepare, Continue
  <2> QED BY <1>1, <1>2, <1>4, <2>1
<1>5. CASE stream[Arg].idr /\ stream[Arg].no_output_of_prior_pictures
  <2>1. PICK a \in TypedStep : a = Do("discard", 0) /\ a.step = "discard"
    BY PlainSteps
  <2>2. PICK b \in TypedStep : b = Do("clear", 0) /\ b.step = "clear"
    BY PlainSteps
  <2>3. todo' = <<a, b>> \o t
    BY <1>2, <1>5, <2>1, <2>2 DEF Prepare, Before
  <2> QED BY <1>1, <1>2, <1>3, <2>1, <2>2, <2>3
<1>6. CASE stream[Arg].idr /\ ~ stream[Arg].no_output_of_prior_pictures
  <2>1. PICK a \in TypedStep : a = Do("join", 0) /\ a.step = "join"
    BY PlainSteps
  <2>2. PICK b \in TypedStep : b = Do("drain", 0) /\ b.step = "drain"
    BY PlainSteps
  <2>3. todo' = <<a, b>> \o t
    BY <1>2, <1>6, <2>1, <2>2 DEF Prepare, Before
  <2> QED BY <1>1, <1>2, <1>3, <2>1, <2>2, <2>3
<1> QED BY <1>4, <1>5, <1>6

\* With these steps, nothing is left to output of a decoder that has drained.
Idling == {"poll", "accepted", "deliver", "finish", "join", "drain", "end stream"}

\* What a call begins with.
CallSteps(s) ==
  /\ s \in Seq(TypedStep) /\ Begins(s) /\ (s # << >> => s[1].step \in {"poll", "finish", "discard"})
  /\ \A b \in Range(s) : b.step \notin Finishing \cup {"start", "end sequence"}
  /\ \/ ~ draining
     \/ \A b \in Range(s) : b.step \in Idling
     \/ \E b \in Range(s) : b.step \in Rewinding

LEMMA EmptyCall ==
  ASSUME Begins(<< >>)
  PROVE  \E s : CallSteps(s)
<1>1. PICK s : s = << >>
  OBVIOUS
<1>2. s \in Seq(TypedStep) /\ Range(s) = {}
  BY <1>1, NoSteps
<1> QED BY <1>1, <1>2 DEF CallSteps

LEMMA PacketCall ==
  ASSUME DInv, AInv, send_packet
  PROVE  \E s : CallSteps(s)
<1>2. PICK n \in Position : n = next
  <2>1. stream \in Seq(Picture)
    BY DecoderAssumption DEF DInv, Types, DecoderAssumption
  <2>2. DOMAIN stream = 1 .. Len(stream)
    BY <2>1, LenProperties
  <2> QED BY <2>2 DEF send_packet, Position
<1>3. PICK a \in TypedStep : a = Do("poll", 0) /\ a.step = "poll"
  BY PlainSteps
<1>4. PICK b \in TypedStep : b = Do("guard", n) /\ b.step = "guard" /\ b.arg = n
  BY <1>2, PictureSteps DEF Do
<1>5. PICK s : s = <<a, b>>
  OBVIOUS
<1>6. s # << >> /\ s[1] = a /\ Range(s) = {a, b} /\ s \in Seq(TypedStep)
  BY <1>3, <1>4, <1>5, PollThenWhole DEF Whole
<1>7. Begins(s) /\ ~ draining
  BY <1>2, <1>3, <1>4, <1>5 DEF send_packet
<1> QED BY <1>3, <1>4, <1>6, <1>7 DEF CallSteps, Finishing, Passing

LEMMA FrameCall ==
  ASSUME receive_frame
  PROVE  \E s : CallSteps(s) /\ \A t \in Range(s) : t.step # "guard"
<1>1. PICK a \in TypedStep : a = Do("poll", 0) /\ a.step = "poll"
  BY PlainSteps
<1>2. PICK b \in TypedStep : b = Do("deliver", 0) /\ b.step = "deliver"
  BY PlainSteps
<1>3. PICK s : s = <<a, b>>
  OBVIOUS
<1>4. s # << >> /\ s[1] = a /\ Range(s) = {a, b} /\ s \in Seq(TypedStep)
  BY <1>1, <1>2, <1>3, PollThenWhole DEF Whole
<1>5. Begins(s)
  BY <1>1, <1>2, <1>3 DEF receive_frame
<1> QED BY <1>1, <1>2, <1>4, <1>5 DEF CallSteps, Finishing, Passing, Idling

LEMMA DrainCall ==
  ASSUME drain
  PROVE  \E s : CallSteps(s) /\ \A t \in Range(s) : t.step # "guard"
<1>1. PICK a \in TypedStep : a = Do("finish", 0) /\ a.step = "finish"
  BY PlainSteps
<1>2. PICK b \in TypedStep : b = Do("join", 0) /\ b.step = "join"
  BY PlainSteps
<1>3. PICK c \in TypedStep : c = Do("drain", 0) /\ c.step = "drain"
  BY PlainSteps
<1>4. PICK d \in TypedStep : d = Do("end stream", 0) /\ d.step = "end stream"
  BY PlainSteps
<1>5. PICK s : s = <<a, b, c, d>>
  OBVIOUS
<1>6. PICK r1 : r1 = <<d>>
  OBVIOUS
<1>7. PICK r2 : r2 = <<c, d>>
  OBVIOUS
<1>8. PICK r3 : r3 = <<b, c, d>>
  OBVIOUS
<1>9. PICK nothing : nothing = << >>
  OBVIOUS
<1>10. Starts(s, a, r3)
  BY <1>1, <1>2, <1>3, <1>4, <1>5, <1>8, QuadrupleStarts
<1>11. Starts(r3, b, r2)
  BY <1>2, <1>3, <1>4, <1>7, <1>8, TripleStarts
<1>12. Starts(r2, c, r1) /\ Starts(r1, d, nothing)
  BY <1>3, <1>4, <1>6, <1>7, <1>9, PairStarts, SoleStarts
<1>13. Range(nothing) = {}
  BY <1>9, NoSteps
<1>14. Range(s) = {a, b, c, d} /\ s \in Seq(TypedStep) /\ s # << >> /\ s[1] = a
  BY <1>10, <1>11, <1>12, <1>13, Parts
<1>15. Begins(s)
  BY <1>1, <1>2, <1>3, <1>4, <1>5 DEF drain
<1>16. \A e \in Range(s) : e.step \in Idling /\ e.step \notin Finishing \cup {"start", "end sequence", "guard"}
  BY <1>1, <1>2, <1>3, <1>4, <1>14 DEF Idling, Finishing, Passing
<1> QED BY <1>1, <1>14, <1>15, <1>16 DEF CallSteps

LEMMA CheckpointCall ==
  ASSUME create_seek_checkpoint
  PROVE  \E s : CallSteps(s) /\ \A t \in Range(s) : t.step # "guard"
<1>1. PICK a \in TypedStep : a = Do("finish", 0) /\ a.step = "finish"
  BY PlainSteps
<1>2. PICK b \in TypedStep : b = Do("join", 0) /\ b.step = "join"
  BY PlainSteps
<1>3. PICK c \in TypedStep : c = Do("snapshot", 0) /\ c.step = "snapshot"
  BY PlainSteps
<1>4. PICK s : s = <<a, b, c>>
  OBVIOUS
<1>5. Begins(s) /\ ~ draining
  BY <1>1, <1>2, <1>3, <1>4 DEF create_seek_checkpoint
<1>6. s # << >> /\ s[1] = a /\ Range(s) = {a, b, c} /\ s \in Seq(TypedStep)
  <2>1. Whole(stream, s, next) /\ s # << >> /\ s[1] = a /\ Range(s) = {a, b, c}
    BY <1>1, <1>2, <1>3, <1>4, SnapshotWhole
  <2> QED BY <2>1 DEF Whole
<1> QED BY <1>1, <1>2, <1>3, <1>5, <1>6 DEF CallSteps, Finishing, Passing

LEMMA RestartCall ==
  ASSUME DInv, NEW k \in Keyframes, NEW c \in TypedStep, c.step \in Restarting,
         NEW s, s = <<Do("discard", 0), Do("reset", k), c>>, Begins(s)
  PROVE  CallSteps(s) /\ \E b \in Range(s) : b.step \in Rewinding
<1>1. PICK a \in TypedStep : a = Do("discard", 0) /\ a.step = "discard"
  BY PlainSteps
<1>2. PICK b \in TypedStep : b = Do("reset", k) /\ b.step = "reset" /\ b.arg = k
  BY KeyframeIsPosition, PictureSteps DEF Do
<1>3. s = <<a, b, c>>
  BY <1>1, <1>2
<1>4. PICK u : u = <<c>>
  OBVIOUS
<1>5. PICK v : v = <<b, c>>
  OBVIOUS
<1>6. PICK nothing : nothing = << >>
  OBVIOUS
<1>7. Starts(s, a, v) /\ Starts(v, b, u) /\ Starts(u, c, nothing)
  <2>1. Starts(s, a, v)
    BY <1>1, <1>2, <1>3, <1>5, TripleStarts
  <2> QED BY <1>2, <1>4, <1>5, <1>6, <2>1, PairStarts, SoleStarts
<1>8. Range(nothing) = {}
  BY <1>6, NoSteps
<1>9. s # << >> /\ s[1] = a /\ Range(s) = {a, b, c} /\ s \in Seq(TypedStep)
  <2>1. s \in Seq(TypedStep) /\ s # << >> /\ s[1] = a /\ Range(s) = {a} \cup Range(v)
    BY ONLY <1>7, Parts
  <2>2. Range(v) = {b} \cup Range(u) /\ Range(u) = {c} \cup Range(nothing)
    BY ONLY <1>7, Parts
  <2> QED BY ONLY <1>8, <2>1, <2>2
<1>10. b.step \in Rewinding /\ b.step \notin Finishing \cup {"start", "end sequence"}
  BY <1>2 DEF Rewinding, Finishing, Passing
<1>11. /\ a.step \notin Finishing \cup {"start", "end sequence"}
       /\ c.step \notin Finishing \cup {"start", "end sequence"}
  BY <1>1 DEF Restarting, Finishing, Passing
<1> QED BY <1>1, <1>9, <1>10, <1>11 DEF CallSteps

LEMMA RestoreCall ==
  ASSUME DInv, AInv, NEW target \in Targets, restore_seek_checkpoint(target)
  PROVE  \E s : /\ CallSteps(s)
                /\ \/ s = << >> /\ UNCHANGED <<next, discontinuous, checkpoint>>
                   \/ UNCHANGED checkpoint /\ \E b \in Range(s) : b.step \in Rewinding
<1>1. CASE target <= checkpoint.resume_time
  <2>1. PICK s : s = << >>
    OBVIOUS
  <2>2. Begins(s) /\ UNCHANGED <<next, discontinuous, checkpoint>>
    BY <1>1, <2>1 DEF restore_seek_checkpoint
  <2>3. s \in Seq(TypedStep) /\ Range(s) = {}
    BY <2>1, NoSteps
  <2> QED BY <2>1, <2>2, <2>3 DEF CallSteps
<1>2. CASE ~ (target <= checkpoint.resume_time)
  <2>1. target \in Nat
    BY DecoderAssumption DEF DecoderAssumption
  <2>2. PICK a \in TypedStep : a = Do("discard", 0) /\ a.step = "discard"
    BY PlainSteps
  <2>3. PICK b \in TypedStep : b = Do("restore", target) /\ b.step = "restore" /\ b.arg = target
    <3>1. target \in Nat \cup {NoTime} /\ "restore" \in {"set start", "restore"}
      BY <2>1
    <3> QED BY <3>1, TimeStep DEF Do
  <2>4. PICK s : s = <<a, b>>
    OBVIOUS
  <2>5. Begins(s) /\ UNCHANGED checkpoint
    BY <1>2, <2>2, <2>3, <2>4 DEF restore_seek_checkpoint
  <2>6. s # << >> /\ s[1] = a /\ Range(s) = {a, b} /\ s \in Seq(TypedStep)
    BY <2>2, <2>3, <2>4, DiscardRestoreWhole DEF Whole
  <2>7. /\ b.step \in Rewinding
        /\ \A e \in Range(s) : e.step \notin Finishing \cup {"start", "end sequence"}
    BY <2>2, <2>3, <2>6 DEF Rewinding, Finishing, Passing
  <2> QED BY <2>2, <2>5, <2>6, <2>7 DEF CallSteps
<1> QED BY <1>1, <1>2

LEMMA CallIs ==
  ASSUME DInv, AInv, Call
  PROVE  \/ \E target \in Targets : retarget_seek_forward(target)
         \/ \E s : CallSteps(s)
<1>1. ASSUME NEW k \in Keyframes, flush(k) \/ configure(k)
      PROVE  \E s : CallSteps(s)
  <2>1. CASE flush(k)
    <3>1. PICK c \in TypedStep : c = Do("set start", NoTime) /\ c.step \in Restarting
      BY TimeStep DEF Restarting
    <3> QED BY <2>1, <3>1, RestartCall DEF flush
  <2>2. CASE configure(k)
    <3>1. PICK c \in TypedStep : c = Do("configure", 0) /\ c.step \in Restarting
      BY ConfigureStep DEF Restarting
    <3> QED BY <2>2, <3>1, RestartCall DEF configure
  <2> QED BY <1>1, <2>1, <2>2
<1>2. ASSUME NEW k \in Keyframes, NEW target \in Targets, flush_for_seek(k, target)
      PROVE  \E s : CallSteps(s)
  <2>1. target \in Nat \cup {NoTime}
    BY DecoderAssumption DEF DecoderAssumption
  <2>2. PICK c \in TypedStep : c = Do("set start", target) /\ c.step \in Restarting
    BY <2>1, TimeStep DEF Restarting
  <2> QED BY <1>2, <2>2, RestartCall DEF flush_for_seek
<1>3. ASSUME NEW k \in Keyframes, jump(k)
      PROVE  \E s : CallSteps(s)
  BY <1>3, EmptyCall DEF jump
<1>4. ASSUME NEW target \in Targets, restore_seek_checkpoint(target)
      PROVE  \E s : CallSteps(s)
  BY <1>4, RestoreCall
<1> QED BY <1>1, <1>2, <1>3, <1>4, PacketCall, FrameCall, DrainCall, CheckpointCall DEF Call

LEMMA GuardIs ==
  ASSUME DInv, AInv, Guard
  PROVE  /\ todo # << >> /\ Head(todo).step = "guard" /\ UNCHANGED fixedVars
         /\ Tail(todo) = << >> /\ Head(todo).arg \in Position /\ ~ Resetting
         /\ \/ outputs # << >> /\ todo' = << >> /\ next' = Arg /\ UNCHANGED discontinuous
            \/ /\ outputs = << >> /\ UNCHANGED <<next, result>>
               /\ todo' \in Seq(TypedStep) /\ todo' # << >> /\ todo'[1].step \in {"discard", "finish"}
               /\ \A b \in Range(todo') : b.step \in OfPacket \cup {"discard", "reset"}
               /\ \A b \in Range(todo') : b.step = "end sequence" => stream[Arg].ends = "sequence"
               /\ \E b \in Range(todo') : b.step = "start" /\ b.arg = Arg
               /\ discontinuous => \E b \in Range(todo') : b.step \in Rewinding
<1>1. /\ todo # << >> /\ Head(todo).step = "guard" /\ UNCHANGED fixedVars
  BY DEF Guard, Executes
<1>2. Tail(todo) = << >> /\ Head(todo) \in TypedStep /\ ~ Resetting
  <2>1. Head(todo).step \in Closing /\ Head(todo).step \notin Rewinding \cup {"discard"}
    BY <1>1 DEF Closing, Rewinding
  <2> QED BY <1>1, <2>1, Ahead DEF AInv, Agenda
<1>3. PICK i \in Position : i = Arg
  BY <1>1, <1>2 DEF TypedStep, OfPicture, Arg
<1>4. CASE outputs # << >>
  <2>1. todo' = << >> /\ next' = Arg /\ UNCHANGED discontinuous
    BY <1>4 DEF Guard, Return
  <2> QED BY <1>1, <1>2, <1>3, <1>4, <2>1 DEF Arg
<1>5. CASE outputs = << >>
  <2>1. /\ UNCHANGED <<next, result>>
        /\ todo' = (IF discontinuous THEN <<Do("discard", 0), Do("reset", i)>> ELSE << >>)
                     \o PacketSteps(i)
    BY <1>3, <1>5 DEF Guard
  <2>2. PICK p : p = PacketSteps(i)
    OBVIOUS
  <2>3. Whole(stream, p, next) /\ Packets(p, i) /\ p \in Seq(TypedStep)
    BY <2>2, PacketWhole DEF Whole, DInv, Types
  <2>4. /\ p # << >> /\ p[1].step = "finish" /\ \A b \in Range(p) : b.step \in OfPacket
        /\ \E b \in Range(p) : b.step = "start" /\ b.arg = i
        /\ \A b \in Range(p) : b.step = "end sequence" => stream[i].ends = "sequence"
    BY <2>3 DEF Packets
  <2>5. PICK s : todo' = s
    OBVIOUS
  <2>6. CASE discontinuous
    <3>1. PICK a \in TypedStep : a = Do("discard", 0) /\ a.step = "discard"
      BY PlainSteps
    <3>2. PICK b \in TypedStep : b = Do("reset", i) /\ b.step = "reset" /\ b.arg = i
      BY PictureSteps DEF Do
    <3>3. s = <<a, b>> \o p
      BY <2>1, <2>2, <2>5, <2>6, <3>1, <3>2
    <3>4. PICK u : u = <<b>> \o p
      OBVIOUS
    <3>5. Starts(s, a, u) /\ Starts(u, b, p)
      BY <2>3, <3>3, <3>4, PeelOne, PeelTwo
    <3>6. s \in Seq(TypedStep) /\ s # << >> /\ s[1] = a /\ Range(s) = {a, b} \cup Range(p)
      BY <3>5, Parts
    <3>7. b.step \in Rewinding
      BY <3>2 DEF Rewinding
    <3>8. \A c \in Range(s) : c.step \in OfPacket \cup {"discard", "reset"}
      BY <2>4, <3>1, <3>2, <3>6
    <3>9. \E c \in Range(s) : c.step = "start" /\ c.arg = i
      BY <2>4, <3>6
    <3>10. s[1].step \in {"discard", "finish"}
      BY <3>1, <3>6
    <3>11. \A c \in Range(s) : c.step = "end sequence" => stream[i].ends = "sequence"
      BY <2>4, <3>1, <3>2, <3>6
    <3> QED BY <1>1, <1>2, <1>3, <1>5, <2>1, <2>5, <3>6, <3>7, <3>8, <3>9, <3>10, <3>11 DEF Arg
  <2>7. CASE ~ discontinuous
    <3>1. s = p
      <4>1. s = << >> \o p
        BY <2>1, <2>2, <2>5, <2>7
      <4> QED BY <2>3, <4>1, ConcatEmptySeq
    <3> QED BY <1>1, <1>2, <1>3, <1>5, <2>1, <2>3, <2>4, <2>5, <2>7, <3>1 DEF Arg
  <2> QED BY <2>6, <2>7
<1> QED BY <1>4, <1>5

LEMMA SendHeads ==
  ASSUME DInv, AInv, Heads, Send
  PROVE  Heads'
<1>1. CASE Guard
  <2>1. PICK s : todo' = s
    OBVIOUS
  <2>2. s # << >> => s[1].step \in Free
    BY <1>1, <2>1, GuardIs DEF Free
  <2> QED BY <2>1, <2>2, HeadsFree
<1>2. CASE Prepare
  <2>1. CASE todo' = Tail(todo) /\ ~ stream[Arg].idr
    <3>1. Head(todo).step = "prepare" /\ UNCHANGED <<stream, next>> /\ todo # << >>
      BY <1>2, PrepareIs, QuietKept DEF fixedVars
    <3>2. Head(todo).step = "prepare" => ~ stream[Head(todo).arg].idr
      BY <2>1 DEF Arg
    <3>3. Head(todo).step \notin {"join", "drain", "clear", "discard", "reset"}
      BY <3>1
    <3> QED BY <2>1, <3>1, <3>2, <3>3, HeadsNext
  <2>2. CASE todo'[1].step \in {"discard", "join"}
    <3>1. PICK s : todo' = s
      OBVIOUS
    <3>2. s # << >> => s[1].step \in Free
      BY <2>2, <3>1 DEF Free
    <3> QED BY <3>1, <3>2, HeadsFree
  <2> QED BY <1>2, <2>1, <2>2, PrepareIs
<1>3. CASE StartSkipped \/ StartRefused \/ Start \/ EndSequence \/ EndStream \/ Accepted
  <2>1. /\ todo # << >> /\ UNCHANGED <<stream, next>>
        /\ Head(todo).step \in {"start", "end sequence", "end stream", "accepted"}
        /\ todo' = << >> \/ todo' = Tail(todo)
    BY <1>3, PacketStepIs DEF fixedVars
  <2>2. Head(todo).step \in Casual
    BY <2>1 DEF Casual
  <2> QED BY <2>1, <2>2, HeadsEnded, HeadsPast
<1> QED BY <1>1, <1>2, <1>3, SweepingHeads DEF Send

\* A call that a step ends, and the one that goes on after it.
LEMMA ReconfigureIs ==
  ASSUME Reconfigure
  PROVE  /\ todo # << >> /\ UNCHANGED fixedVars
         /\ UNCHANGED <<next, discontinuous>> /\ UNCHANGED pending_picture_completions
         /\ \/ Reset /\ Head(todo).step = "reset" /\ todo' = Tail(todo)
            \/ /\ Head(todo).step \in {"deliver", "set start", "configure", "snapshot", "restore"}
               /\ todo' = << >>
<1>1. CASE Deliver
  BY <1>1 DEF Deliver, Executes, Return
<1>2. CASE Reset
  BY <1>2 DEF Reset, Executes, Continue
<1>3. CASE SetStart
  BY <1>3 DEF SetStart, Executes, Return
<1>4. CASE Configure
  BY <1>4 DEF Configure, Executes, Return
<1>5. CASE Snapshot
  BY <1>5 DEF Snapshot, Executes, Return
<1>6. CASE Restore
  BY <1>6 DEF Restore, Executes, Return
<1> QED BY <1>1, <1>2, <1>3, <1>4, <1>5, <1>6 DEF Reconfigure

LEMMA HeadsKept ==
  ASSUME DInv, AInv, Heads, [Next]_vars
  PROVE  Heads'
<1>1. CASE Reconfigure
  <2>1. CASE todo' = << >>
    BY <2>1, HeadsEnded
  <2>2. CASE Reset /\ Head(todo).step = "reset" /\ todo' = Tail(todo)
    <3>1. /\ todo # << >> /\ UNCHANGED <<stream, next>>
          /\ UNCHANGED pending_picture_completions
      BY <1>1, ReconfigureIs DEF fixedVars
    <3>2. first' = Head(todo).arg /\ sent' = Head(todo).arg - 1 /\ Nothing' /\ reorder' = << >>
      BY <2>2 DEF Reset, Nothing, Arg
    <3>3. Head(todo).step \notin {"join", "drain", "prepare", "clear", "discard"}
      BY <2>2
    <3> QED BY <2>2, <3>1, <3>2, <3>3, HeadsNext
  <2> QED BY <1>1, <2>1, <2>2, ReconfigureIs
<1>2. CASE Step /\ ~ Reconfigure
  BY <1>2, CompletionsHeads, SweepingHeads, FinishHeads, SendHeads DEF Step
<1>3. CASE Call
  <2>1. ASSUME NEW s, CallSteps(s)
        PROVE  Heads'
    <3>1. todo' = s /\ (s # << >> => s[1].step \in {"poll", "finish", "discard"})
      BY <2>1 DEF CallSteps, Begins
    <3>2. s # << >> => s[1].step \in Free
      BY <3>1 DEF Free
    <3> QED BY <3>1, <3>2, HeadsFree
  <2>2. ASSUME NEW target \in Targets, retarget_seek_forward(target)
        PROVE  Heads'
    BY <2>2, HeadsEnded DEF retarget_seek_forward, Idle
  <2> QED BY <1>3, <2>1, <2>2, CallIs
<1>4. CASE UNCHANGED vars
  <2>1. /\ UNCHANGED <<stream, todo, next, first, sent, reorder, pending_picture_completions>>
        /\ UNCHANGED pictureVars
    BY <1>4 DEF vars, fixedVars, reorderVars, callerVars, spanVars
  <2>2. Nothing' = Nothing
    BY <2>1 DEF Nothing, pictureVars
  <2> QED BY <2>1, <2>2, HeadsSame
<1>5. CASE WorkerAnswers
  <2>1. /\ UNCHANGED <<stream, todo, next, first, sent, reorder>> /\ UNCHANGED pictureVars
        /\ pending_picture_completions # << >>
    <3>1. PICK k \in DOMAIN pending_picture_completions :
             /\ UNCHANGED fixedVars /\ UNCHANGED todo /\ UNCHANGED codingVars
             /\ UNCHANGED reorderVars /\ UNCHANGED callerVars /\ UNCHANGED spanVars
      BY <1>5 DEF WorkerAnswers
    <3>2. DOMAIN << >> = {}
      OBVIOUS
    <3> QED BY <3>1, <3>2 DEF fixedVars, codingVars, reorderVars, callerVars, spanVars
  <2>2. Nothing' = Nothing
    BY <2>1 DEF Nothing, pictureVars
  <2>3. \A t : Stands(t) => Stands(t)'
    BY <2>1, <2>2 DEF Stands, Ending, Rewinding, Restarting
  <2>4. CASE todo = << >>
    BY <2>1, <2>4 DEF Heads
  <2>5. CASE todo # << >>
    <3>1. PICK t : t = todo[1]
      OBVIOUS
    <3>2. Stands(t)'
      BY <2>3, <2>5, <3>1 DEF Heads
    <3> QED BY <2>1, <3>1, <3>2 DEF Heads
  <2> QED BY <2>4, <2>5
<1> QED BY <1>1, <1>2, <1>3, <1>4, <1>5 DEF Next

----------
(* What is coded *)

\* A picture is only skipped when it has no frame to output, and between
\* sequences no frame is on its way.
Coding ==
  /\ current_skipped_picture # 0 => ~ Materializes(current_skipped_picture)
  /\ dpb_configuration = NoFormat =>
       /\ current_picture = NoPicture /\ pending_picture_completions = << >>
       /\ \A e \in Range(reorder) : ~ Materializes(e.picture)
       /\ \A t \in Range(todo) : /\ t.step \notin Spawning
                                 /\ t.step = "push" => ~ Materializes(t.arg)

\* The current picture is finished before the coding ends.
LEMMA DoneAfterFinish ==
  ASSUME DInv, AInv, todo # << >>, Head(todo).step \in Done
  PROVE  Nothing
<1>1. Starts(todo, Head(todo), Tail(todo))
  BY Ahead DEF AInv, Agenda
<1>2. Head(todo).step # "finish"
  BY DEF Done, Ending
<1>3. ~ Unsettled(todo)
  BY <1>1, <1>2, Prefix
<1> QED BY <1>3 DEF AInv, Agenda

LEMMA CodingLess ==
  ASSUME Coding, UNCHANGED fixedVars, UNCHANGED output_start_time, UNCHANGED pictureVars,
         UNCHANGED dpb_configuration,
         pending_picture_completions = << >> =>
           /\ pending_picture_completions' = << >>
           /\ \A e \in Range(reorder') : e \in Range(reorder) \/ ~ Materializes(e.picture),
         \A t \in Range(todo') : t \in Range(todo) \/ t.step \notin Passing
  PROVE  Coding'
<1>1. \A i : Materializes(i) <=> Materializes(i)'
  BY SameTarget
<1>2. /\ current_picture' = current_picture
      /\ current_skipped_picture' = current_skipped_picture
  BY DEF pictureVars
<1>3. current_skipped_picture' # 0 => ~ Materializes(current_skipped_picture)'
  <2>1. PICK i : i = current_skipped_picture
    OBVIOUS
  <2>2. i # 0 => ~ Materializes(i)
    BY <2>1 DEF Coding
  <2>3. i # 0 => ~ Materializes(i)'
    BY <1>1, <2>2
  <2>4. i' = i
    OBVIOUS
  <2> QED BY <1>1, <1>2, <2>1, <2>2 DEF Materializes, fixedVars
<1>4. ASSUME dpb_configuration' = NoFormat
      PROVE  /\ current_picture' = NoPicture /\ pending_picture_completions' = << >>
             /\ \A e \in Range(reorder') : ~ Materializes(e.picture)'
             /\ \A t \in Range(todo') : /\ t.step \notin Spawning
                                        /\ t.step = "push" => ~ Materializes(t.arg)'
  <2>1. /\ current_picture = NoPicture /\ pending_picture_completions = << >>
        /\ \A e \in Range(reorder) : ~ Materializes(e.picture)
        /\ \A t \in Range(todo) : /\ t.step \notin Spawning
                                  /\ t.step = "push" => ~ Materializes(t.arg)
    BY <1>4 DEF Coding
  <2>2. \A e \in Range(reorder') : ~ Materializes(e.picture)
    BY <2>1
  <2>3. \A e \in Range(reorder') : ~ Materializes(e.picture)'
    BY <1>1, <2>2
  <2>4. \A t : t.step \notin Passing => t.step \notin Spawning /\ t.step # "push"
    BY DEF Passing, Spawning
  <2>5. \A t \in Range(todo') : /\ t.step \notin Spawning
                                /\ t.step = "push" => ~ Materializes(t.arg)
    BY <2>1, <2>4
  <2> QED BY <1>1, <1>2, <2>1, <2>3, <2>5
<1>5. Range(reorder') = Range(reorder)' /\ Range(todo') = Range(todo)'
  OBVIOUS
<1> QED BY <1>3, <1>4, <1>5 DEF Coding

LEMMA CodingCoded ==
  ASSUME Coding, UNCHANGED fixedVars, UNCHANGED output_start_time,
         current_skipped_picture' # 0 => ~ Materializes(current_skipped_picture'),
         dpb_configuration' # NoFormat
  PROVE  Coding'
<1>1. PICK i : i = current_skipped_picture'
  OBVIOUS
<1>2. i # 0 => ~ Materializes(i)
  BY <1>1
<1>3. i # 0 => ~ Materializes(i)'
  BY <1>2, SameTarget
<1> QED BY <1>1, <1>3 DEF Coding

\* What is left in the reorder buffer when a picture is pushed.
LEMMA PushLeaves ==
  ASSUME Types, NEW i \in Position, NEW shown \in BOOLEAN, ReorderPush(i, shown)
  PROVE  \A e \in Range(reorder') : e \in Range(reorder) \/ e.picture = i
<1>1. reorder \in Seq(Entry)
  BY DEF Types, ReorderTyped
<1>2. PICK new : new = [poc |-> stream[i].poc, picture |-> i, shown |-> shown]
  OBVIOUS
<1>3. new \in Entry /\ new.picture = i
  <2>1. stream[i].poc \in Int
    BY Constants
  <2> QED BY <1>2, <2>1 DEF Entry
<1>4. PICK grown : grown = Append(reorder, new)
  OBVIOUS
<1>5. grown \in Seq(Entry) /\ Range(grown) = Range(reorder) \cup {new}
  BY <1>1, <1>3, <1>4, RangeAppend, AppendProperties
<1>6. reorder' = grown \/ reorder' = RemoveAt(grown, Lowest(grown))
  BY <1>2, <1>4 DEF ReorderPush
<1>7. Lowest(grown) \in 1 .. Len(grown)
  <2>1. grown # << >> /\ DOMAIN grown = 1 .. Len(grown)
    BY <1>1, <1>3, <1>4, Appended, EmptySeq
  <2> QED BY <1>5, <2>1, LowestIsThere DEF Entry
<1>8. Range(RemoveAt(grown, Lowest(grown))) \subseteq Range(grown)
  BY <1>5, <1>7, RangeRemove
<1> QED BY <1>3, <1>5, <1>6, <1>8

LEMMA TailsRange ==
  ASSUME DInv, AInv, todo # << >>, todo' = << >> \/ todo' = todo \/ todo' = Tail(todo)
  PROVE  Range(todo') \subseteq Range(todo)
<1>1. Range(Tail(todo)) \subseteq Range(todo)
  BY Ahead DEF AInv, Agenda
<1>2. PICK s : s = todo'
  OBVIOUS
<1>3. s = << >> => Range(s) = {}
  BY NoSteps
<1> QED BY <1>1, <1>2, <1>3

LEMMA EarlierCoding ==
  ASSUME DInv, AInv, Coding,
         Poll \/ Join \/ Room \/ Discard \/ DrainReorder \/ FinishNothing \/ Record \/ Prepare
           \/ ClearReorder \/ StartRefused \/ EndStream \/ Accepted \/ Deliver \/ Snapshot
  PROVE  Coding'
<1>1. CASE Poll \/ Join \/ Room \/ FinishNothing
  <2>1. todo # << >> /\ UNCHANGED fixedVars /\ (TakeCompletion \/ Passes)
    BY <1>1 DEF Poll, Join, Room, FinishNothing, Executes
  <2>2. /\ UNCHANGED output_start_time /\ UNCHANGED pictureVars /\ UNCHANGED dpb_configuration
        /\ todo' = << >> \/ todo' = todo \/ todo' = Tail(todo)
        /\ pending_picture_completions = << >> =>
             pending_picture_completions' = << >> /\ reorder' = reorder
    <3>1. CASE TakeCompletion
      <4>1. UNCHANGED codingVars /\ UNCHANGED quietVars /\ pending_picture_completions # << >>
            /\ (todo' = << >> \/ todo' = todo)
        BY <3>1 DEF TakeCompletion, EarliestReady, Fail, Return
      <4> QED BY <4>1, CodingKept, QuietKept
    <3>2. CASE Passes
      <4>1. UNCHANGED codingVars /\ UNCHANGED quietVars /\ todo' = Tail(todo)
            /\ UNCHANGED pending_picture_completions /\ UNCHANGED reorder
        BY <3>2 DEF Passes, Continue, reorderVars
      <4> QED BY <4>1, CodingKept, QuietKept
    <3> QED BY <2>1, <3>1, <3>2
  <2>3. Range(todo') \subseteq Range(todo)
    BY <2>1, <2>2, TailsRange
  <2> QED BY <2>1, <2>2, <2>3, CodingLess
<1>2. CASE Discard
  <2>1. /\ todo # << >> /\ UNCHANGED fixedVars /\ UNCHANGED codingVars /\ UNCHANGED quietVars
        /\ todo' = << >> \/ todo' = todo \/ todo' = Tail(todo)
        /\ pending_picture_completions = << >> => pending_picture_completions' = << >>
        /\ UNCHANGED reorder
    BY <1>2 DEF Discard, Executes, Continue, reorderVars
  <2>2. Range(todo') \subseteq Range(todo)
    BY <2>1, TailsRange
  <2>3. UNCHANGED output_start_time /\ UNCHANGED pictureVars /\ UNCHANGED dpb_configuration
    BY <2>1, CodingKept, QuietKept
  <2> QED BY <2>1, <2>2, <2>3, CodingLess
<1>3. CASE DrainReorder
  <2>1. /\ todo # << >> /\ UNCHANGED fixedVars /\ UNCHANGED codingVars /\ UNCHANGED quietVars
        /\ todo' = << >> \/ todo' = todo \/ todo' = Tail(todo)
        /\ UNCHANGED pending_picture_completions
        /\ \/ reorder' = reorder
           \/ reorder # << >> /\ reorder' = RemoveAt(reorder, Lowest(reorder))
    BY <1>3 DEF DrainReorder, Executes, Continue
  <2>2. Range(todo') \subseteq Range(todo)
    BY <2>1, TailsRange
  <2>3. UNCHANGED output_start_time /\ UNCHANGED pictureVars /\ UNCHANGED dpb_configuration
    BY <2>1, CodingKept, QuietKept
  <2>4. Range(reorder') \subseteq Range(reorder)
    <3>1. reorder \in Seq(Entry)
      BY DEF DInv, Types, ReorderTyped
    <3>2. reorder # << >> => Lowest(reorder) \in 1 .. Len(reorder)
      BY <3>1, LowestIsThere DEF Entry
    <3> QED BY <2>1, <3>1, <3>2, RangeRemove
  <2> QED BY <2>1, <2>2, <2>3, <2>4, CodingLess
<1>4. CASE Prepare
  <2>1. /\ UNCHANGED fixedVars /\ UNCHANGED codingVars /\ UNCHANGED quietVars
        /\ UNCHANGED reorder /\ UNCHANGED pending_picture_completions
    BY <1>4, PrepareIs DEF reorderVars
  <2>2. \A b \in Range(todo') :
          b \in Range(todo) \/ b.step \in {"discard", "clear", "join", "drain"}
    BY <1>4, PrepareIs
  <2>3. \A b \in Range(todo') : b \in Range(todo) \/ b.step \notin Passing
    BY <2>2 DEF Passing
  <2>4. UNCHANGED output_start_time /\ UNCHANGED pictureVars /\ UNCHANGED dpb_configuration
    BY <2>1, CodingKept, QuietKept
  <2> QED BY <2>1, <2>3, <2>4, CodingLess
<1>5. CASE ClearReorder
  <2>1. /\ todo # << >> /\ UNCHANGED fixedVars /\ UNCHANGED codingVars /\ UNCHANGED quietVars
        /\ todo' = Tail(todo) /\ UNCHANGED pending_picture_completions
        /\ reorder' = << >>
    BY <1>5 DEF ClearReorder, Executes, Continue
  <2>2. Range(todo') \subseteq Range(todo)
    BY <2>1, TailsRange
  <2>3. UNCHANGED output_start_time /\ UNCHANGED pictureVars /\ UNCHANGED dpb_configuration
    BY <2>1, CodingKept, QuietKept
  <2>4. Range(reorder') = {}
    BY <2>1, EmptySeq, InRange
  <2> QED BY <2>1, <2>2, <2>3, <2>4, CodingLess
<1>6. CASE Record \/ StartRefused \/ EndStream \/ Accepted \/ Deliver \/ Snapshot
  <2>1. /\ todo # << >> /\ UNCHANGED fixedVars /\ UNCHANGED pictureVars
        /\ UNCHANGED dpb_configuration /\ UNCHANGED output_start_time
        /\ todo' = << >> \/ todo' = todo \/ todo' = Tail(todo)
        /\ UNCHANGED pending_picture_completions /\ UNCHANGED reorder
    <3>1. CASE Record
      BY <3>1, QuietKept DEF Record, Executes, Continue, reorderVars
    <3>2. CASE StartRefused
      BY <3>2, QuietKept, CodingKept DEF StartRefused, Executes, Fail, Return, reorderVars
    <3>3. CASE EndStream
      BY <3>3, CodingKept DEF EndStream, Executes, Continue, reorderVars
    <3>4. CASE Accepted
      BY <3>4, CodingKept DEF Accepted, Executes, Return, reorderVars, modeVars
    <3>5. CASE Deliver
      BY <3>5, CodingKept DEF Deliver, Executes, Return, reorderVars, modeVars
    <3>6. CASE Snapshot
      BY <3>6, CodingKept DEF Snapshot, Executes, Return, reorderVars, modeVars
    <3> QED BY <1>6, <3>1, <3>2, <3>3, <3>4, <3>5, <3>6
  <2>2. Range(todo') \subseteq Range(todo)
    BY <2>1, TailsRange
  <2> QED BY <2>1, <2>2, CodingLess
<1> QED BY <1>1, <1>2, <1>3, <1>4, <1>5, <1>6

LEMMA FinishCoding ==
  ASSUME DInv, AInv, Coding, FinishSkipped \/ FinishCurrent \/ Spawn \/ Push
  PROVE  Coding'
<1>1. CASE FinishSkipped
  <2>1. /\ UNCHANGED fixedVars /\ UNCHANGED dpb_configuration /\ UNCHANGED current_picture
        /\ UNCHANGED quietVars /\ UNCHANGED pending_picture_completions /\ UNCHANGED reorder
    BY <1>1 DEF FinishSkipped, Executes, reorderVars
  <2>2. PICK i \in Position : i = current_skipped_picture
    BY <1>1, FinishSkippedIs
  <2>3. ~ Materializes(i)
    BY <2>2 DEF Coding, Position
  <2>4. \A b \in Range(todo') : \/ b \in Range(todo)
                                \/ b.step \in {"push", "record"} /\ b.step \notin {"room", "poll", "join"}
                                   /\ (b.step = "push" => b.arg = i)
    <3>1. Range(Tail(todo)) \subseteq Range(todo) /\ Plainly(Tail(todo))
      BY <1>1, FinishSkippedIs, FinishingTail
    <3>2. /\ Finishes(todo', Tail(todo), i)
          /\ \A b \in Range(todo') : b \in Range(Tail(todo)) \/ b.step \in {"push", "record"}
      BY <1>1, <2>2, FinishSkippedIs
    <3> QED BY <3>1, <3>2 DEF Finishes
  <2>5. UNCHANGED output_start_time /\ \A j : Materializes(j) <=> Materializes(j)'
    BY <2>1, QuietKept, SameTarget
  <2>6. current_skipped_picture' = 0
    BY <1>1, FinishSkippedIs
  <2>7. CASE dpb_configuration = NoFormat
    <3>1. /\ current_picture = NoPicture /\ pending_picture_completions = << >>
          /\ \A e \in Range(reorder) : ~ Materializes(e.picture)
          /\ \A t \in Range(todo) : /\ t.step \notin Spawning
                                    /\ t.step = "push" => ~ Materializes(t.arg)
      BY <2>7 DEF Coding
    <3>2. \A t \in Range(todo') : /\ t.step \notin Spawning
                                  /\ t.step = "push" => ~ Materializes(t.arg)
      BY <2>3, <2>4, <3>1 DEF Spawning
    <3>3. /\ \A e \in Range(reorder) : ~ Materializes(e.picture)'
          /\ \A t \in Range(todo') : /\ t.step \notin Spawning
                                     /\ t.step = "push" => ~ Materializes(t.arg)'
      BY <2>5, <3>1, <3>2
    <3>4. Range(reorder)' = Range(reorder) /\ Range(todo)' = Range(todo')
      BY <2>1
    <3> QED BY <2>1, <2>6, <3>1, <3>3, <3>4 DEF Coding
  <2>8. CASE dpb_configuration # NoFormat
    BY <2>1, <2>5, <2>6, <2>8, CodingCoded
  <2> QED BY <2>7, <2>8
<1>2. CASE FinishCurrent
  <2>1. /\ UNCHANGED fixedVars /\ UNCHANGED dpb_configuration /\ current_picture # NoPicture
        /\ UNCHANGED quietVars /\ UNCHANGED current_skipped_picture
    BY <1>2 DEF FinishCurrent, Executes
  <2>2. dpb_configuration' # NoFormat
    BY <2>1 DEF Coding
  <2>3. UNCHANGED output_start_time
    BY <2>1, QuietKept
  <2> QED BY <2>1, <2>2, <2>3, CodingCoded DEF Coding
<1>3. CASE Spawn
  <2>1. /\ UNCHANGED fixedVars /\ UNCHANGED codingVars /\ UNCHANGED quietVars
        /\ todo # << >> /\ Head(todo).step \in Spawning
    BY <1>3 DEF Spawn, Executes, Spawning
  <2>2. UNCHANGED dpb_configuration /\ UNCHANGED current_skipped_picture
        /\ UNCHANGED output_start_time
    BY <2>1, CodingKept, QuietKept
  <2>3. Head(todo) \in Range(todo)
    BY <2>1, Ahead DEF AInv, Agenda
  <2>4. dpb_configuration' # NoFormat
    BY <2>1, <2>2, <2>3 DEF Coding
  <2> QED BY <2>1, <2>2, <2>4, CodingCoded DEF Coding
<1>4. CASE Push
  <2>1. /\ UNCHANGED fixedVars /\ UNCHANGED codingVars /\ UNCHANGED quietVars
        /\ todo # << >> /\ Head(todo).step = "push" /\ todo' = Tail(todo)
        /\ ReorderPush(Arg, Materializes(Arg)) /\ UNCHANGED pending_picture_completions
    BY <1>4 DEF Push, Executes, Continue
  <2>2. UNCHANGED dpb_configuration /\ UNCHANGED current_skipped_picture
        /\ UNCHANGED output_start_time /\ UNCHANGED pictureVars
    BY <2>1, CodingKept, QuietKept
  <2>3. Head(todo) \in Range(todo) /\ Head(todo) \in TypedStep
    BY <2>1, Ahead DEF AInv, Agenda
  <2>4. PICK i \in Position : i = Arg /\ i = Head(todo).arg
    BY <2>1, <2>3 DEF TypedStep, OfPicture, Arg
  <2>5. Types /\ Materializes(i) \in BOOLEAN
    BY DEF DInv, Materializes
  <2>6. \A e \in Range(reorder') : e \in Range(reorder) \/ e.picture = i
    BY <2>1, <2>4, <2>5, PushLeaves
  <2>7. Range(todo') \subseteq Range(todo)
    BY <2>1, TailsRange
  <2>8. CASE dpb_configuration = NoFormat
    <3>1. ~ Materializes(i)
      BY <2>1, <2>3, <2>4, <2>8 DEF Coding
    <3>2. \A e \in Range(reorder') : e \in Range(reorder) \/ ~ Materializes(e.picture)
      BY <2>6, <3>1
    <3> QED BY <2>1, <2>2, <2>7, <3>2, CodingLess
  <2>9. CASE dpb_configuration # NoFormat
    BY <2>1, <2>2, <2>9, CodingCoded DEF Coding
  <2> QED BY <2>8, <2>9
<1> QED BY <1>1, <1>2, <1>3, <1>4

\* A target that is moved forward only leaves out frames.
LEMMA LaterTarget ==
  ASSUME DInv, NEW target \in Targets, retarget_seek_forward(target)
  PROVE  \A i \in Position : Materializes(i)' => Materializes(i) /\ NotBefore(target, i)
<1>1. stream' = stream /\ output_start_time' = target /\ target > output_start_time
      /\ output_start_time # NoTime
  BY DEF retarget_seek_forward, fixedVars
<1>2. target \in Nat /\ target # NoTime
  BY DecoderAssumption DEF DecoderAssumption, NoTime
<1>3. PICK time \in Nat : time = output_start_time
  BY <1>1 DEF DInv, Types, CallerTyped
<1>4. SUFFICES ASSUME NEW i \in Position, Materializes(i)'
               PROVE  Materializes(i) /\ NotBefore(target, i)
  OBVIOUS
<1>5. PICK pts \in Nat : pts = stream[i].pts
  BY Constants DEF DInv
<1>6. pts >= target
  BY <1>1, <1>2, <1>4, <1>5 DEF Materializes
<1>7. pts >= time
  BY <1>1, <1>2, <1>3, <1>6
<1> QED BY <1>3, <1>5, <1>6, <1>7 DEF Materializes, NotBefore

LEMMA StartCoding ==
  ASSUME DInv, AInv, Heads, Coding, StartSkipped \/ Start \/ EndSequence
  PROVE  Coding'
<1>1. CASE StartSkipped
  <2>1. /\ todo # << >> /\ UNCHANGED fixedVars /\ UNCHANGED quietVars /\ UNCHANGED reorder
        /\ todo' = Tail(todo) /\ Head(todo).step = "start" /\ Skips(Arg)
        /\ current_skipped_picture' = Arg /\ UNCHANGED current_picture
        /\ UNCHANGED dpb_configuration /\ UNCHANGED pending_picture_completions
    BY <1>1 DEF StartSkipped, Executes, Continue, reorderVars
  <2>2. PICK i : i = Arg
    OBVIOUS
  <2>3. ~ Materializes(i) /\ UNCHANGED output_start_time
    BY <2>1, <2>2, QuietKept DEF Skips
  <2>4. \A j : Materializes(j) <=> Materializes(j)'
    BY <2>1, <2>3, SameTarget
  <2>5. current_skipped_picture' = i /\ ~ Materializes(i)'
    BY <2>1, <2>2, <2>3, <2>4
  <2>6. Range(todo') \subseteq Range(todo)
    BY <2>1, TailsRange
  <2>7. Range(reorder)' = Range(reorder) /\ Range(todo)' = Range(todo')
    BY <2>1
  <2>8. dpb_configuration' = NoFormat =>
          /\ current_picture' = NoPicture /\ pending_picture_completions' = << >>
          /\ \A e \in Range(reorder) : ~ Materializes(e.picture)
          /\ \A t \in Range(todo') : /\ t.step \notin Spawning
                                     /\ t.step = "push" => ~ Materializes(t.arg)
    BY <2>1, <2>6 DEF Coding
  <2>9. dpb_configuration' = NoFormat =>
          /\ current_picture' = NoPicture /\ pending_picture_completions' = << >>
          /\ \A e \in Range(reorder) : ~ Materializes(e.picture)'
          /\ \A t \in Range(todo') : /\ t.step \notin Spawning
                                     /\ t.step = "push" => ~ Materializes(t.arg)'
    BY <2>4, <2>8
  <2> QED BY <2>5, <2>7, <2>9 DEF Coding
<1>2. CASE Start
  <2>1. /\ todo # << >> /\ UNCHANGED fixedVars /\ Head(todo).step = "start"
        /\ dpb_configuration' = stream[Arg].format /\ UNCHANGED current_skipped_picture
        /\ UNCHANGED output_start_time
    BY <1>2 DEF Start, Executes, modeVars
  <2>2. PICK i \in Position : i = Arg
    BY <2>1, StartsAfresh
  <2>3. stream[i].format \in Formats
    BY <2>2, Constants DEF DInv
  <2>4. dpb_configuration' # NoFormat
    BY <2>1, <2>2, <2>3, DecoderAssumption DEF DecoderAssumption, Formats
  <2> QED BY <2>1, <2>4, CodingCoded DEF Coding
<1>3. CASE EndSequence
  <2>1. /\ todo # << >> /\ UNCHANGED fixedVars /\ Head(todo).step = "end sequence"
        /\ UNCHANGED pictureVars /\ UNCHANGED reorder /\ UNCHANGED pending_picture_completions
        /\ todo' = Tail(todo)
    BY <1>3 DEF EndSequence, Executes, Continue, reorderVars
  <2>2. Head(todo).step \in Ending /\ Ending \subseteq Done
    BY <2>1 DEF Ending, Done
  <2>3. Nothing
    BY <2>1, <2>2, DoneAfterFinish
  <2>4. reorder = << >> /\ pending_picture_completions = << >>
    <3>1. Head(todo) = todo[1]
      BY <2>1, Ahead DEF AInv, Agenda
    <3> QED BY <2>1, <2>2, <3>1 DEF Heads, Stands
  <2>5. \A t \in Range(todo') : t.step \in {"poll", "accepted"}
    <3>1. \A t \in Range(Tail(todo)) : MayPrecede(Head(todo), t)
      BY <2>1, Ahead DEF AInv, Agenda, Precedes
    <3> QED BY <2>1, <2>2, <3>1 DEF MayPrecede
  <2>6. current_picture' = NoPicture /\ current_skipped_picture' = 0
    BY <2>1, <2>3 DEF Nothing, pictureVars
  <2>7. Range(reorder') = {}
    BY <2>1, <2>4, EmptySeq, InRange
  <2>8. Range(reorder)' = {} /\ Range(todo)' = Range(todo')
    BY <2>7
  <2>9. \A t \in Range(todo') : t.step \notin Spawning /\ t.step # "push"
    BY <2>5 DEF Spawning
  <2> QED BY <2>1, <2>4, <2>6, <2>8, <2>9 DEF Coding
<1> QED BY <1>1, <1>2, <1>3

LEMMA RestartCoding ==
  ASSUME DInv, AInv, Heads, Coding, Reset \/ SetStart \/ Configure \/ Restore
  PROVE  Coding'
<1>1. CASE Restore
  <2>1. /\ todo # << >> /\ Head(todo).step = "restore" /\ UNCHANGED fixedVars
        /\ current_skipped_picture' = 0 /\ dpb_configuration' = checkpoint.dpb_configuration
    BY <1>1 DEF Restore, Executes
  <2>2. checkpoint \in Kept
    <3>1. todo \in Seq(TypedStep)
      BY DEF DInv, Types, TodoTyped
    <3>2. 1 \in DOMAIN todo /\ Head(todo) = todo[1]
      BY <2>1, <3>1, StepShape
    <3>3. checkpoint # NoCheckpoint
      BY <2>1, <3>2 DEF DInv, Control
    <3> QED BY <3>3 DEF DInv, Types, CallerTyped
  <2>3. dpb_configuration' \in Formats
    BY <2>1, <2>2 DEF Kept
  <2>4. dpb_configuration' # NoFormat
    BY <2>3, DecoderAssumption DEF DecoderAssumption, Formats
  <2> QED BY <2>1, <2>4 DEF Coding
<1>2. CASE Reset \/ SetStart \/ Configure
  <2>1. /\ todo # << >> /\ UNCHANGED pending_picture_completions
        /\ \/ /\ Head(todo).step = "reset" /\ todo' = Tail(todo)
              /\ Nothing' /\ reorder' = << >>
           \/ /\ Head(todo).step \in Restarting /\ todo' = << >>
              /\ UNCHANGED pictureVars /\ UNCHANGED reorder
    <3>1. CASE Reset
      BY <3>1 DEF Reset, Executes, Continue, Nothing
    <3>2. CASE SetStart
      BY <3>2, CodingKept DEF SetStart, Executes, Return, Restarting, reorderVars
    <3>3. CASE Configure
      BY <3>3, CodingKept DEF Configure, Executes, Return, Restarting, reorderVars
    <3> QED BY <1>2, <3>1, <3>2, <3>3
  <2>2. Stands(Head(todo))
    BY <2>1, Ahead DEF AInv, Agenda, Heads
  <2>3. Nothing' /\ reorder' = << >> /\ pending_picture_completions' = << >>
    <3>1. CASE Head(todo).step = "reset"
      <4>1. Head(todo).step \in Rewinding /\ Head(todo).step \notin Restarting
        BY <3>1 DEF Rewinding, Restarting
      <4> QED BY <2>1, <2>2, <4>1 DEF Stands
    <3>2. CASE Head(todo).step \in Restarting
      <4>1. Nothing /\ reorder = << >> /\ pending_picture_completions = << >>
        BY <2>2, <3>2 DEF Stands
      <4>2. Head(todo).step # "reset"
        BY <3>2 DEF Restarting
      <4> QED BY <2>1, <4>1, <4>2 DEF Nothing, pictureVars
    <3> QED BY <2>1, <3>1, <3>2
  <2>4. \A t \in Range(todo') : t.step \notin Finishing
    <3>1. CASE todo' = << >>
      BY <3>1, NoSteps
    <3>2. CASE Head(todo).step = "reset" /\ todo' = Tail(todo)
      <4>1. \A t \in Range(Tail(todo)) : MayPrecede(Head(todo), t)
        BY <2>1, Ahead DEF AInv, Agenda, Precedes
      <4> QED BY <3>2, <4>1 DEF MayPrecede, Finishing, Passing
    <3> QED BY <2>1, <3>1, <3>2
  <2>5. \A t \in Range(todo') : t.step \notin Spawning /\ t.step # "push"
    BY <2>4 DEF Finishing, Passing, Spawning
  <2>6. Range(reorder') = {}
    BY <2>3, EmptySeq, InRange
  <2>7. Range(reorder)' = {} /\ Range(todo)' = Range(todo')
    BY <2>6
  <2> QED BY <2>3, <2>5, <2>7 DEF Coding, Nothing
<1> QED BY <1>1, <1>2

LEMMA CallCoding ==
  ASSUME DInv, AInv, Coding, Call
  PROVE  Coding'
<1>1. ASSUME NEW s, CallSteps(s)
      PROVE  Coding'
  <2>1. /\ todo' = s /\ UNCHANGED fixedVars /\ UNCHANGED codingVars /\ UNCHANGED modeVars
        /\ UNCHANGED reorder /\ UNCHANGED pending_picture_completions
        /\ \A b \in Range(s) : b.step \notin Finishing
    BY <1>1 DEF CallSteps, Begins, reorderVars
  <2>2. \A b \in Range(todo') : b.step \notin Passing
    BY <2>1 DEF Finishing
  <2>3. UNCHANGED output_start_time /\ UNCHANGED pictureVars /\ UNCHANGED dpb_configuration
    BY <2>1, CodingKept DEF modeVars
  <2> QED BY <2>1, <2>2, <2>3, CodingLess
<1>2. ASSUME NEW target \in Targets, retarget_seek_forward(target)
      PROVE  Coding'
  <2>1. /\ UNCHANGED fixedVars /\ UNCHANGED codingVars /\ UNCHANGED todo /\ UNCHANGED reorder
        /\ UNCHANGED pending_picture_completions /\ todo = << >>
        /\ output_start_time' = target /\ output_start_time # NoTime /\ target > output_start_time
    BY <1>2 DEF retarget_seek_forward, reorderVars, Idle
  <2>2. UNCHANGED pictureVars /\ UNCHANGED dpb_configuration
    BY <2>1, CodingKept
  <2>3. \A i \in Position : ~ Materializes(i) => ~ Materializes(i)'
    BY <1>2, <2>1, LaterTarget
  <2>4. ReorderTyped /\ CodingTyped
    BY DEF DInv, Types
  <2>5. \A e \in Range(reorder) : e.picture \in Position
    <3>1. Range(reorder) \subseteq Entry
      BY <2>4, InRange DEF ReorderTyped
    <3> QED BY <3>1 DEF Entry
  <2>6. current_skipped_picture' # 0 => ~ Materializes(current_skipped_picture)'
    <3>1. PICK i : i = current_skipped_picture
      OBVIOUS
    <3>2. i # 0 => i \in Position /\ ~ Materializes(i)
      BY <2>4, <3>1 DEF Coding, CodingTyped
    <3>3. i # 0 => ~ Materializes(i)'
      BY <2>3, <3>2
    <3>4. current_skipped_picture' = i
      BY <2>2, <3>1 DEF pictureVars
    <3> QED BY <3>3, <3>4
  <2>7. Range(todo)' = {} /\ Range(reorder)' = Range(reorder)
    BY <2>1, NoSteps
  <2>8. dpb_configuration = NoFormat => \A e \in Range(reorder) : ~ Materializes(e.picture)'
    BY <2>3, <2>5 DEF Coding
  <2> QED BY <2>1, <2>2, <2>6, <2>7, <2>8 DEF Coding, pictureVars
<1> QED BY <1>1, <1>2, CallIs

LEMMA CodedKept ==
  ASSUME DInv, AInv, Heads, Coding, [Next]_vars
  PROVE  Coding'
<1>1. CASE Poll \/ Join \/ Room \/ Discard \/ DrainReorder
  BY <1>1, EarlierCoding
<1>2. CASE Finish
  BY <1>2, EarlierCoding, FinishCoding DEF Finish
<1>3. CASE Send
  <2>1. CASE Guard
    <3>1. /\ UNCHANGED fixedVars /\ UNCHANGED codingVars /\ UNCHANGED modeVars
          /\ UNCHANGED reorder /\ UNCHANGED pending_picture_completions
      BY <2>1, GuardIs DEF Guard, reorderVars
    <3>2. todo' = << >> \/ \A b \in Range(todo') : b.step \in OfPacket \cup {"discard", "reset"}
      BY <2>1, GuardIs
    <3>3. \A b \in Range(todo') : b.step \notin Passing
      <4>1. todo' = << >> => Range(todo') = {}
        BY NoSteps
      <4>2. \A step \in OfPacket \cup {"discard", "reset"} : step \notin Passing
        BY DEF OfPacket, Passing
      <4> QED BY <3>2, <4>1, <4>2
    <3>4. UNCHANGED output_start_time /\ UNCHANGED pictureVars /\ UNCHANGED dpb_configuration
      BY <3>1, CodingKept DEF modeVars
    <3> QED BY <3>1, <3>3, <3>4, CodingLess
  <2> QED BY <1>3, <2>1, EarlierCoding, StartCoding DEF Send
<1>4. CASE Reconfigure
  BY <1>4, EarlierCoding, RestartCoding DEF Reconfigure
<1>5. CASE WorkerAnswers \/ UNCHANGED vars
  <2>1. /\ UNCHANGED fixedVars /\ UNCHANGED todo /\ UNCHANGED codingVars
        /\ UNCHANGED output_start_time /\ UNCHANGED reorder
        /\ pending_picture_completions = << >> => UNCHANGED pending_picture_completions
    <3>1. CASE WorkerAnswers
      <4>1. PICK k \in DOMAIN pending_picture_completions :
              UNCHANGED <<fixedVars, todo, codingVars, modeVars, reorderVars>>
        BY <3>1 DEF WorkerAnswers
      <4>2. pending_picture_completions # << >>
        OBVIOUS
      <4> QED BY <4>1, <4>2 DEF modeVars, reorderVars
    <3>2. CASE UNCHANGED vars
      BY <3>2 DEF vars, codingVars, modeVars, reorderVars
    <3> QED BY <1>5, <3>1, <3>2
  <2>2. UNCHANGED pictureVars /\ UNCHANGED dpb_configuration
    BY <2>1, CodingKept
  <2>3. Range(todo') = Range(todo) /\ Range(reorder') = Range(reorder)
    BY <2>1
  <2> QED BY <2>1, <2>2, <2>3, CodingLess
<1> QED BY <1>1, <1>2, <1>3, <1>4, <1>5, CallCoding DEF Next, Step

----------
(* When the decoder has drained *)

Drained ==
  draining /\ ~ Resetting =>
    /\ Nothing /\ reorder = << >> /\ pending_picture_completions = << >>
    /\ \A t \in Range(todo) : t.step \in Idling

LEMMA DrainedStays ==
  ASSUME Drained, draining' => draining, Resetting => Resetting', Nothing => Nothing',
         reorder = << >> => reorder' = << >>,
         pending_picture_completions = << >> => pending_picture_completions' = << >>,
         \A t \in Range(todo') : t \in Range(todo) \/ t.step \in Idling
  PROVE  Drained'
<1>1. Range(todo)' = Range(todo')
  OBVIOUS
<1>2. SUFFICES ASSUME draining', ~ Resetting'
               PROVE  /\ Nothing' /\ reorder' = << >> /\ pending_picture_completions' = << >>
                      /\ \A t \in Range(todo)' : t.step \in Idling
  BY DEF Drained
<1>3. /\ Nothing /\ reorder = << >> /\ pending_picture_completions = << >>
      /\ \A t \in Range(todo) : t.step \in Idling
  BY <1>2 DEF Drained
<1> QED BY <1>1, <1>3

\* A step that is not idle, nor on the way to a new timeline, finds the decoder
\* not drained.
LEMMA NotDrained ==
  ASSUME DInv, AInv, Drained, todo # << >>,
         \/ Head(todo).step \notin Idling
         \/ ~ Nothing \/ reorder # << >> \/ pending_picture_completions # << >>,
         Head(todo).step \notin Rewinding \cup {"discard"}
  PROVE  ~ draining
<1>1. ~ Resetting /\ Head(todo) \in Range(todo)
  BY Ahead DEF AInv, Agenda
<1> QED BY <1>1 DEF Drained

LEMMA UndrainedStays ==
  ASSUME ~ draining, UNCHANGED modeVars \/ UNCHANGED draining
  PROVE  Drained'
BY DEF Drained, modeVars

LEMMA TailResets ==
  ASSUME DInv, AInv, todo # << >>, todo' = todo \/ todo' = Tail(todo),
         Head(todo).step \notin Rewinding
  PROVE  Resetting => Resetting'
<1>1. Range(todo) = {Head(todo)} \cup Range(Tail(todo))
  BY Ahead DEF AInv, Agenda
<1>2. Range(todo') = Range(todo)'
  OBVIOUS
<1> QED BY <1>1, <1>2 DEF Resetting

LEMMA WaitingDrained ==
  ASSUME DInv, AInv, Drained, Poll \/ Join \/ Room \/ Discard \/ DrainReorder
  PROVE  Drained'
<1>1. CASE Poll \/ Join \/ Room
  <2>1. /\ todo # << >> /\ Head(todo).step \in {"poll", "join", "room"}
        /\ TakeCompletion \/ Passes
    BY <1>1 DEF Poll, Join, Room, Executes
  <2>2. Head(todo).step \notin Rewinding \cup {"discard"}
    BY <2>1 DEF Rewinding
  <2>3. CASE TakeCompletion
    <3>1. pending_picture_completions # << >> /\ UNCHANGED quietVars
      BY <2>3 DEF TakeCompletion, EarliestReady
    <3>2. UNCHANGED modeVars
      BY <3>1 DEF quietVars
    <3> QED BY <2>1, <2>2, <3>1, <3>2, NotDrained, UndrainedStays
  <2>4. CASE Passes
    <3>1. /\ UNCHANGED quietVars /\ UNCHANGED codingVars /\ UNCHANGED reorder
          /\ UNCHANGED pending_picture_completions /\ todo' = Tail(todo)
      BY <2>4 DEF Passes, Continue, reorderVars
    <3>2. UNCHANGED draining /\ (Nothing => Nothing')
      BY <3>1 DEF quietVars, modeVars, codingVars, pictureVars, Nothing
    <3>3. Range(todo') \subseteq Range(todo)
      BY <2>1, <3>1, TailsRange
    <3>4. Resetting => Resetting'
      BY <2>1, <2>2, <3>1, TailResets
    <3> QED BY <3>1, <3>2, <3>3, <3>4, DrainedStays
  <2> QED BY <2>1, <2>3, <2>4
<1>2. CASE Discard \/ DrainReorder
  <2>1. /\ todo # << >> /\ Head(todo).step \in {"discard", "drain"}
        /\ UNCHANGED quietVars /\ UNCHANGED codingVars
        /\ todo' = todo \/ todo' = Tail(todo)
        /\ reorder = << >> => reorder' = << >>
        /\ pending_picture_completions = << >> => pending_picture_completions' = << >>
    BY <1>2 DEF Discard, DrainReorder, Executes, Continue, reorderVars
  <2>2. UNCHANGED draining /\ (Nothing => Nothing')
    BY <2>1 DEF quietVars, modeVars, codingVars, pictureVars, Nothing
  <2>3. Range(todo') \subseteq Range(todo)
    BY <2>1, TailsRange
  <2>4. Resetting => Resetting'
    BY <2>1, TailResets DEF Rewinding
  <2> QED BY <2>1, <2>2, <2>3, <2>4, DrainedStays
<1> QED BY <1>1, <1>2

LEMMA WorkingDrained ==
  ASSUME DInv, AInv, Drained,
         Finish \/ Guard \/ Prepare \/ ClearReorder \/ StartSkipped \/ StartRefused \/ Start
           \/ EndSequence \/ SetStart \/ Configure \/ Snapshot
  PROVE  Drained'
<1>1. CASE FinishNothing
  <2>1. /\ todo # << >> /\ Head(todo).step = "finish" /\ UNCHANGED quietVars
        /\ UNCHANGED codingVars /\ UNCHANGED reorder
        /\ UNCHANGED pending_picture_completions /\ todo' = Tail(todo)
    BY <1>1 DEF FinishNothing, Executes, Passes, Continue, reorderVars
  <2>2. UNCHANGED draining /\ (Nothing => Nothing')
    BY <2>1 DEF quietVars, modeVars, codingVars, pictureVars, Nothing
  <2>3. Range(todo') \subseteq Range(todo)
    BY <2>1, TailsRange
  <2>4. Resetting => Resetting'
    BY <2>1, TailResets DEF Rewinding
  <2> QED BY <2>1, <2>2, <2>3, <2>4, DrainedStays
<1>2. CASE FinishSkipped \/ FinishCurrent
  <2>1. todo # << >> /\ Head(todo).step = "finish" /\ UNCHANGED quietVars /\ ~ Nothing
    BY <1>2 DEF FinishSkipped, FinishCurrent, Executes, Nothing
  <2>2. UNCHANGED modeVars
    BY <2>1 DEF quietVars
  <2>3. Head(todo).step \notin Rewinding \cup {"discard"}
    BY <2>1 DEF Rewinding
  <2> QED BY <2>1, <2>2, <2>3, NotDrained, UndrainedStays
<1>3. CASE \/ Spawn \/ Push \/ Record \/ Guard \/ Prepare \/ ClearReorder \/ StartSkipped
           \/ StartRefused \/ Start \/ EndSequence \/ SetStart \/ Configure \/ Snapshot
  <2>1. /\ todo # << >>
        /\ Head(todo).step \in {"spawn", "spawn deferred", "push", "record", "guard", "prepare",
                                "clear", "start", "end sequence", "set start", "configure",
                                "snapshot"}
    BY <1>3 DEF Spawn, Push, Record, Guard, Prepare, ClearReorder, StartSkipped, StartRefused,
                Start, EndSequence, SetStart, Configure, Snapshot, Executes
  <2>2. UNCHANGED draining
    BY <1>3 DEF Spawn, Push, Record, Guard, Prepare, ClearReorder, StartSkipped, StartRefused,
                Start, EndSequence, SetStart, Configure, Snapshot, quietVars, modeVars
  <2>3. Head(todo).step \notin Rewinding \cup {"discard"} /\ Head(todo).step \notin Idling
    BY <2>1 DEF Rewinding, Idling
  <2> QED BY <2>1, <2>2, <2>3, NotDrained, UndrainedStays
<1> QED BY <1>1, <1>2, <1>3 DEF Finish

LEMMA EndingDrained ==
  ASSUME DInv, AInv, Heads, Drained, EndStream \/ Accepted \/ Deliver \/ Reset \/ Restore
  PROVE  Drained'
<1>1. CASE EndStream
  <2>1. /\ todo # << >> /\ Head(todo).step = "end stream" /\ UNCHANGED codingVars
        /\ UNCHANGED reorder /\ UNCHANGED pending_picture_completions /\ todo' = Tail(todo)
    BY <1>1 DEF EndStream, Executes, Continue, reorderVars
  <2>2. Head(todo).step \in Ending /\ Ending \subseteq Done
    BY <2>1 DEF Ending, Done
  <2>3. Nothing
    BY <2>1, <2>2, DoneAfterFinish
  <2>4. reorder = << >> /\ pending_picture_completions = << >>
    <3>1. Head(todo) = todo[1]
      BY <2>1, Ahead DEF AInv, Agenda
    <3> QED BY <2>1, <2>2, <3>1 DEF Heads, Stands
  <2>5. \A t \in Range(todo') : t.step \in {"poll", "accepted"}
    <3>1. \A t \in Range(Tail(todo)) : MayPrecede(Head(todo), t)
      BY <2>1, Ahead DEF AInv, Agenda, Precedes
    <3> QED BY <2>1, <2>2, <3>1 DEF MayPrecede
  <2>6. Nothing'
    BY <2>1, <2>3 DEF Nothing, codingVars, pictureVars
  <2>7. Range(todo)' = Range(todo')
    OBVIOUS
  <2> QED BY <2>1, <2>4, <2>5, <2>6, <2>7 DEF Drained, Idling
<1>2. CASE Accepted \/ Deliver
  <2>1. /\ todo # << >> /\ Head(todo).step \in {"accepted", "deliver"} /\ UNCHANGED codingVars
        /\ UNCHANGED reorder /\ UNCHANGED pending_picture_completions /\ todo' = << >>
        /\ UNCHANGED draining
    BY <1>2 DEF Accepted, Deliver, Executes, Return, reorderVars, modeVars
  <2>2. Range(todo') = {}
    BY <2>1, NoSteps
  <2>3. ~ Resetting
    BY <2>1, Ahead DEF AInv, Agenda, Rewinding
  <2>4. Nothing => Nothing'
    BY <2>1 DEF Nothing, codingVars, pictureVars
  <2> QED BY <2>1, <2>2, <2>3, <2>4, DrainedStays
<1>3. CASE Reset \/ Restore
  BY <1>3 DEF Reset, Restore, Drained
<1> QED BY <1>1, <1>2, <1>3

LEMMA CallDrained ==
  ASSUME DInv, AInv, Drained, Call
  PROVE  Drained'
<1>1. ASSUME NEW s, CallSteps(s)
      PROVE  Drained'
  <2>1. /\ todo' = s /\ todo = << >> /\ UNCHANGED codingVars /\ UNCHANGED draining
        /\ UNCHANGED reorder /\ UNCHANGED pending_picture_completions
    BY <1>1 DEF CallSteps, Begins, Idle, reorderVars, modeVars
  <2>2. Range(todo') = Range(s) /\ Range(todo)' = Range(s)
    BY <2>1
  <2>3. ~ Resetting
    BY <2>1, NoSteps DEF Resetting
  <2>4. Nothing => Nothing'
    BY <2>1 DEF Nothing, codingVars, pictureVars
  <2>5. CASE ~ draining
    BY <2>1, <2>5 DEF Drained
  <2>6. CASE \A b \in Range(s) : b.step \in Idling
    BY <2>1, <2>2, <2>3, <2>4, <2>6, DrainedStays
  <2>7. CASE \E b \in Range(s) : b.step \in Rewinding
    BY <2>2, <2>7 DEF Drained, Resetting
  <2> QED BY <1>1, <2>5, <2>6, <2>7 DEF CallSteps
<1>2. ASSUME NEW target \in Targets, retarget_seek_forward(target)
      PROVE  Drained'
  BY <1>2 DEF retarget_seek_forward, Drained
<1> QED BY <1>1, <1>2, CallIs

LEMMA DrainedKept ==
  ASSUME DInv, AInv, Heads, Drained, [Next]_vars
  PROVE  Drained'
<1>1. CASE Poll \/ Join \/ Room \/ Discard \/ DrainReorder
  BY <1>1, WaitingDrained
<1>2. CASE Finish
  BY <1>2, WorkingDrained
<1>3. CASE Send
  BY <1>3, WorkingDrained, EndingDrained DEF Send
<1>4. CASE Reconfigure
  BY <1>4, WorkingDrained, EndingDrained DEF Reconfigure
<1>5. CASE WorkerAnswers \/ UNCHANGED vars
  <2>1. /\ UNCHANGED todo /\ UNCHANGED codingVars
        /\ UNCHANGED draining /\ UNCHANGED reorder
        /\ pending_picture_completions = << >> => pending_picture_completions' = << >>
    <3>1. CASE WorkerAnswers
      <4>1. PICK k \in DOMAIN pending_picture_completions :
              UNCHANGED <<fixedVars, todo, codingVars, modeVars, reorderVars>>
        BY <3>1 DEF WorkerAnswers
      <4>2. pending_picture_completions # << >>
        OBVIOUS
      <4> QED BY <4>1, <4>2 DEF modeVars, reorderVars
    <3>2. CASE UNCHANGED vars
      BY <3>2 DEF vars, codingVars, modeVars, reorderVars
    <3> QED BY <1>5, <3>1, <3>2
  <2>2. Nothing => Nothing'
    BY <2>1 DEF Nothing, codingVars, pictureVars
  <2>3. Range(todo') = Range(todo)
    BY <2>1
  <2>4. Resetting => Resetting'
    BY <2>1 DEF Resetting
  <2> QED BY <2>1, <2>2, <2>3, <2>4, DrainedStays
<1> QED BY <1>1, <1>2, <1>3, <1>4, <1>5, CallDrained DEF Next, Step

\* The call that has reported the end of the stream is the last one.
Ended == result = "EndOfStream" => todo = << >> /\ draining /\ outputs = << >>

LEMMA StepEnds ==
  ASSUME DInv, Step, ~ Deliver
  PROVE  todo # << >> /\ (result' # "EndOfStream" \/ result' = result)
<1>1. todo # << >>
  BY DEF Step, Poll, Join, Room, Discard, DrainReorder, Finish, FinishSkipped,
         FinishNothing, FinishCurrent, Spawn, Push, Record, Send, Guard, Prepare,
         ClearReorder, StartSkipped, StartRefused, Start, EndSequence, EndStream,
         Accepted, Reconfigure, Deliver, Reset, SetStart, Configure, Snapshot, Restore,
         Executes
<1> DEFINE Other == result' # "EndOfStream" \/ result' = result
<1>2. Fail => Other
  BY DEF Fail, Return
<1>3. Passes => Other
  BY DEF Passes
<1>4. TakeCompletion => Other
  BY <1>2 DEF TakeCompletion
<1>5. Poll \/ Join \/ Room \/ Discard \/ DrainReorder => Other
  BY <1>3, <1>4 DEF Poll, Join, Room, Discard, DrainReorder
<1>6. FinishCurrent \/ Spawn \/ StartRefused \/ Start => Other
  BY <1>2 DEF FinishCurrent, Spawn, StartRefused, Start
<1>7. FinishSkipped \/ FinishNothing \/ Push \/ Record => Other
  BY <1>3 DEF FinishSkipped, FinishNothing, Push, Record
<1>8. Guard \/ Prepare \/ ClearReorder \/ StartSkipped \/ EndSequence \/ EndStream \/ Accepted
        => Other
  BY DEF Guard, Prepare, ClearReorder, StartSkipped, EndSequence, EndStream, Accepted, Return
<1>9. Reset \/ SetStart \/ Configure \/ Snapshot \/ Restore => Other
  BY DEF Reset, SetStart, Configure, Snapshot, Restore, Return
<1>10. Other
  <2> HIDE DEF Other
  <2> QED BY <1>5, <1>6, <1>7, <1>8, <1>9 DEF Step, Finish, Send, Reconfigure
<1> QED BY <1>1, <1>10

LEMMA EndedKept ==
  ASSUME DInv, Ended, [Next]_vars
  PROVE  Ended'
<1>1. CASE Step /\ ~ Deliver
  BY <1>1, StepEnds DEF Ended
<1>2. CASE Deliver
  <2>1. CASE outputs = << >>
    BY <1>2, <2>1 DEF Deliver, Return, modeVars, Ended
  <2>2. CASE outputs # << >>
    <3>1. Head(outputs).kind # "EndOfStream"
      <4>1. outputs \in Seq(Output)
        BY DEF DInv, Types, OutputsTyped
      <4>2. Head(outputs) \in Output
        BY <2>2, <4>1, RangeTail
      <4>3. PICK o \in Output : o = Head(outputs)
        BY <4>2
      <4>4. o.kind = "Frame" \/ o.kind = "FormatChanged"
        BY MarksAndFrames DEF Output
      <4> QED BY <4>3, <4>4
    <3> QED BY <1>2, <2>2, <3>1 DEF Deliver, Return, Ended
  <2> QED BY <2>1, <2>2
<1>3. CASE WorkerAnswers
  BY <1>3 DEF WorkerAnswers, Ended, modeVars, outputVars
<1>4. CASE Call
  <2>1. result' = "none" \/ \E target \in Targets : retarget_seek_forward(target)
    BY <1>4, CallOutput
  <2>2. result' # "EndOfStream"
    BY <2>1 DEF retarget_seek_forward
  <2> QED BY <2>2 DEF Ended
<1>5. CASE UNCHANGED vars
  BY <1>5 DEF vars, Ended, modeVars, outputVars
<1> QED BY <1>1, <1>2, <1>3, <1>4, <1>5 DEF Next

----------
(* Where a picture is *)

Carrying == Passing \cup {"start"}

\* The picture is not finished yet: it is the current one, or a step left is to
\* start it or to pass it on.  A packet that the caller calls discontinuous is
\* on its way only when the decoder has been reset.
EnRoute(i) ==
  \/ current_picture.picture = i
  \/ current_skipped_picture = i
  \/ \E t \in Range(todo) :
       t.arg = i /\ (t.step \in Carrying \/ (t.step = "guard" /\ ~ discontinuous))

Noted(i) == \E t \in Range(todo) : t.step = "record" /\ t.arg = i

Stored(s, i) == \E e \in Range(s) : e.picture = i /\ e.shown

Queued(s, i) == \E o \in Range(s) : o.kind = "Frame" /\ o.value = i

\* Its frame is at a worker, waits for its turn, is queued or has been received.
Shown(i) ==
  \/ Stored(pending_picture_completions, i) \/ Stored(reorder, i)
  \/ Queued(outputs, i) \/ i \in Range(received)

\* Nothing of the picture has been lost: what is to be output is somewhere, and
\* a picture presented after all that are completed is still to be completed.
Accounted(i) ==
  /\ Materializes(i) => EnRoute(i) \/ Shown(i)
  /\ stream[i].pts > maximum_completed_pts => EnRoute(i) \/ Noted(i)

\* The last picture that the caller has handed over in this timeline.
Upto == IF discontinuous THEN sent ELSE next - 1

Owed == {i \in first .. Upto : ~ MaySuppress(i)}

Lapsed == {i \in Owed : ~ Accounted(i)}

\* An error costs at most the picture of a worker, the one being finished and
\* the one being sent.
Charged == ~ Resetting => Cardinality(Lapsed) <= 3 * errors

\* What a checkpoint has lost: pictures before its cursor that are presented
\* after all it has completed.
Later ==
  {i \in checkpoint.first .. checkpoint.position - 1 :
     ~ MaySuppress(i) /\ stream[i].pts > checkpoint.resume_time}

Saved == checkpoint # NoCheckpoint => Cardinality(Later) <= 3 * checkpoint.errors

----------
(* What is lost is counted *)

LEMMA CursorsTyped ==
  ASSUME DInv, AInv
  PROVE  /\ first \in Nat \ {0} /\ sent \in Nat /\ next \in Nat \ {0} /\ errors \in Nat
         /\ sent <= Len(stream) /\ next - 1 <= Len(stream) /\ Len(stream) \in Nat
         /\ Upto \in Int /\ Upto <= Len(stream)
<1>1. Len(stream) \in Nat
  <2>1. stream \in Seq(Picture)
    BY DecoderAssumption DEF DInv, Types, DecoderAssumption
  <2> QED BY <2>1, LenProperties
<1>2. /\ first \in Nat \ {0} /\ sent \in 0 .. Len(stream)
      /\ next \in 1 .. Len(stream) + 1 /\ errors \in Nat
  BY DEF AInv, Cursor, DInv, Types, CallerTyped
<1>3. sent \in Nat /\ sent <= Len(stream) /\ next \in Nat \ {0} /\ next - 1 <= Len(stream)
  BY <1>1, <1>2
<1>4. Upto \in Int /\ Upto <= Len(stream)
  <2>1. CASE discontinuous
    BY <1>3, <2>1 DEF Upto
  <2>2. CASE ~ discontinuous
    BY <1>3, <2>2 DEF Upto
  <2> QED BY <2>1, <2>2
<1> QED BY <1>1, <1>2, <1>3, <1>4

LEMMA OwedPictures ==
  ASSUME DInv, AInv
  PROVE  /\ Owed \subseteq Position /\ 0 \notin Owed
         /\ IsFiniteSet(Lapsed) /\ Cardinality(Lapsed) \in Nat
<1>1. PICK a \in Nat \ {0}, b \in Int, n \in Nat : a = first /\ b = Upto /\ n = Len(stream) /\ b <= n
  BY CursorsTyped
<1>2. a .. b \subseteq 1 .. n /\ 0 \notin a .. b
  BY <1>1
<1>3. Owed \subseteq a .. b
  BY <1>1 DEF Owed
<1>4. IsFiniteSet(a .. b)
  BY <1>1, FS_Interval
<1>5. Lapsed \subseteq a .. b
  BY <1>3 DEF Lapsed
<1>6. IsFiniteSet(Lapsed) /\ Cardinality(Lapsed) \in Nat
  BY <1>4, <1>5, FS_Subset, FS_CardinalityType
<1> QED BY <1>1, <1>2, <1>3, <1>6 DEF Position

\* Nothing is lost.
LEMMA ChargedLess ==
  ASSUME DInv, AInv, Charged, Resetting => Resetting', UNCHANGED errors,
         Lapsed' \subseteq Lapsed
  PROVE  Charged'
<1>1. PICK L : L = Lapsed
  OBVIOUS
<1>2. IsFiniteSet(L) /\ Cardinality(L) \in Nat
  BY <1>1, OwedPictures
<1>3. PICK M : M = Lapsed'
  OBVIOUS
<1>4. Cardinality(M) \in Nat /\ Cardinality(M) <= Cardinality(L)
  BY <1>1, <1>2, <1>3, FS_Subset, FS_CardinalityType
<1>5. PICK e \in Nat : e = errors
  BY DEF DInv, Types, CallerTyped
<1>6. ~ Resetting => Cardinality(L) <= 3 * e
  BY <1>1, <1>5 DEF Charged
<1>7. ~ Resetting' => Cardinality(M) <= 3 * e
  BY <1>2, <1>4, <1>6
<1> QED BY <1>3, <1>5, <1>7 DEF Charged

LEMMA ChargedKept ==
  ASSUME DInv, AInv, Charged, Resetting => Resetting', UNCHANGED errors,
         Owed' \subseteq Owed, \A i \in Owed' : Accounted(i) => Accounted(i)'
  PROVE  Charged'
<1>1. Lapsed' \subseteq Lapsed
  BY DEF Lapsed
<1> QED BY <1>1, ChargedLess

LEMMA ThreeMore ==
  ASSUME NEW L, NEW M, IsFiniteSet(L), NEW a, NEW b, NEW c, M \subseteq L \cup {a, b, c}
  PROVE  Cardinality(M) <= Cardinality(L) + 3 /\ Cardinality(M) \in Nat /\ Cardinality(L) \in Nat
<1>1. PICK A : A = L \cup {a}
  OBVIOUS
<1>2. PICK B : B = A \cup {b}
  OBVIOUS
<1>3. PICK C : C = B \cup {c}
  OBVIOUS
<1>4. IsFiniteSet(A) /\ (Cardinality(A) = Cardinality(L) \/ Cardinality(A) = Cardinality(L) + 1)
  BY <1>1, FS_AddElement
<1>5. IsFiniteSet(B) /\ (Cardinality(B) = Cardinality(A) \/ Cardinality(B) = Cardinality(A) + 1)
  BY <1>2, <1>4, FS_AddElement
<1>6. IsFiniteSet(C) /\ (Cardinality(C) = Cardinality(B) \/ Cardinality(C) = Cardinality(B) + 1)
  BY <1>3, <1>5, FS_AddElement
<1>7. M \subseteq C
  BY <1>1, <1>2, <1>3
<1>8. IsFiniteSet(M) /\ Cardinality(M) <= Cardinality(C)
  BY <1>6, <1>7, FS_Subset
<1>9. /\ Cardinality(M) \in Nat /\ Cardinality(L) \in Nat /\ Cardinality(A) \in Nat
      /\ Cardinality(B) \in Nat /\ Cardinality(C) \in Nat
  BY <1>4, <1>5, <1>6, <1>8, FS_CardinalityType
<1> QED BY <1>4, <1>5, <1>6, <1>8, <1>9

\* An error is reported, and at most three pictures are lost.
LEMMA ChargedMore ==
  ASSUME DInv, AInv, Charged, ~ Resetting, errors' = errors + 1, Owed' \subseteq Owed,
         NEW a, NEW b, NEW c,
         \A i \in Owed' : Accounted(i) => Accounted(i)' \/ i \in {a, b, c}
  PROVE  Charged'
<1>1. Lapsed' \subseteq Lapsed \cup {a, b, c}
  BY DEF Lapsed
<1>2. PICK L : L = Lapsed
  OBVIOUS
<1>3. IsFiniteSet(L) /\ Cardinality(L) \in Nat
  BY <1>2, OwedPictures
<1>4. PICK M : M = Lapsed'
  OBVIOUS
<1>5. Cardinality(M) \in Nat /\ Cardinality(M) <= Cardinality(L) + 3
  BY <1>1, <1>2, <1>3, <1>4, ThreeMore
<1>6. PICK e \in Nat : e = errors
  BY DEF DInv, Types, CallerTyped
<1>7. Cardinality(L) <= 3 * e
  BY <1>2, <1>6 DEF Charged
<1>8. errors' = e + 1 /\ Cardinality(M) <= 3 * (e + 1)
  BY <1>3, <1>5, <1>6, <1>7
<1> QED BY <1>4, <1>8 DEF Charged

LEMMA ChargedResetting ==
  ASSUME Resetting'
  PROVE  Charged'
BY DEF Charged

LEMMA SuppressKept ==
  ASSUME UNCHANGED fixedVars
  PROVE  \A i : MaySuppress(i)' = MaySuppress(i)
BY DEF MaySuppress, fixedVars

LEMMA OwedSame ==
  ASSUME UNCHANGED fixedVars, UNCHANGED <<first, sent, next, discontinuous>>
  PROVE  Owed' = Owed
<1>1. Upto' = Upto /\ first' = first
  BY DEF Upto
<1>2. \A i : MaySuppress(i)' = MaySuppress(i)
  BY SuppressKept
<1> QED BY <1>1, <1>2 DEF Owed

----------
(* What does not lose a picture *)

LEMMA AccountedKept ==
  ASSUME UNCHANGED fixedVars, UNCHANGED output_start_time, UNCHANGED maximum_completed_pts,
         NEW i, Accounted(i), EnRoute(i) => EnRoute(i)', Noted(i) => Noted(i)',
         Materializes(i) /\ Shown(i) => Shown(i)'
  PROVE  Accounted(i)'
<1>1. Materializes(i)' = Materializes(i)
  BY DEF Materializes, fixedVars
<1>2. stream' = stream
  BY DEF fixedVars
<1> QED BY <1>1, <1>2 DEF Accounted

LEMMA UnderWay ==
  ASSUME NEW i, EnRoute(i)'
  PROVE  Accounted(i)'
BY DEF Accounted

\* Steps that neither carry a picture nor note one.
Silent(t) == t.step \notin Finishing \cup {"start", "guard"}

LEMMA RouteKept ==
  ASSUME UNCHANGED pictureVars, UNCHANGED discontinuous,
         \A t \in Range(todo) : t \in Range(todo') \/ Silent(t)
  PROVE  \A i : (EnRoute(i) => EnRoute(i)') /\ (Noted(i) => Noted(i)')
<1>1. Range(todo)' = Range(todo')
  OBVIOUS
<1>2. current_picture' = current_picture /\ current_skipped_picture' = current_skipped_picture
  BY DEF pictureVars
<1>3. \A t : Silent(t) => t.step \notin Carrying \cup {"guard", "record"}
  BY DEF Silent, Carrying, Finishing
<1>4. ASSUME NEW i, EnRoute(i)
      PROVE  EnRoute(i)'
  BY <1>1, <1>2, <1>3, <1>4 DEF EnRoute
<1>5. ASSUME NEW i, Noted(i)
      PROVE  Noted(i)'
  BY <1>1, <1>3, <1>5 DEF Noted
<1> QED BY <1>4, <1>5

LEMMA SilentHead ==
  ASSUME DInv, AInv, todo # << >>, Silent(Head(todo)), todo' = todo \/ todo' = Tail(todo)
  PROVE  \A t \in Range(todo) : t \in Range(todo') \/ Silent(t)
<1>1. Range(todo) = {Head(todo)} \cup Range(Tail(todo))
  BY Ahead DEF AInv, Agenda
<1> QED BY <1>1

\* The steps left of a call finish one picture.
LEMMA OneFinished ==
  ASSUME DInv, AInv
  PROVE  \E f : \A t \in Range(todo) : t.step \in Finishing => t.arg = f
<1>1. todo \in Seq(TypedStep) /\ Ordered(todo)
  BY DEF DInv, Types, TodoTyped, AInv, Agenda, Shaped
<1>2. Len(todo) \in Nat
  BY <1>1, LenProperties
<1>3. CASE \A t \in Range(todo) : t.step \notin Finishing
  BY <1>3
<1>4. CASE \E t \in Range(todo) : t.step \in Finishing
  <2>1. PICK a \in Range(todo) : a.step \in Finishing
    BY <1>4
  <2>2. PICK k \in 1 .. Len(todo) : a = todo[k]
    BY <1>1, <2>1, InRange
  <2>3. ASSUME NEW t \in Range(todo), t.step \in Finishing
        PROVE  t.arg = a.arg
    <3>1. PICK j \in 1 .. Len(todo) : t = todo[j]
      BY <1>1, <2>3, InRange
    <3>2. CASE j < k
      <4>1. j \in 1 .. k - 1
        BY <1>2, <3>2
      <4> QED BY <1>1, <2>1, <2>2, <2>3, <3>1, <4>1 DEF Ordered, MayPrecede
    <3>3. CASE j > k
      <4>1. k \in 1 .. j - 1
        BY <1>2, <3>3
      <4>2. MayPrecede(a, t)
        BY <1>1, <2>2, <3>1, <4>1 DEF Ordered
      <4> QED BY <2>1, <2>3, <4>2 DEF MayPrecede
    <3> QED BY <1>2, <2>2, <3>1, <3>2, <3>3
  <2> QED BY <2>3
<1> QED BY <1>3, <1>4

\* A call that an error ends loses at most picture p, the one being finished and
\* the one being sent.
LEMMA CutShort ==
  ASSUME DInv, AInv, Charged, ~ Resetting, errors' = errors + 1, UNCHANGED fixedVars,
         UNCHANGED <<output_start_time, maximum_completed_pts, first, sent, next,
                     discontinuous>>,
         NEW p,
         \A i \in Position : i # p =>
           /\ current_picture.picture = i => current_picture'.picture = i
           /\ current_skipped_picture = i => current_skipped_picture' = i
           /\ Materializes(i) /\ Shown(i) => Shown(i)'
  PROVE  Charged'
<1>1. PICK f : \A t \in Range(todo) : t.step \in Finishing => t.arg = f
  BY OneFinished
<1>2. \A t \in Range(todo) : t.step \in {"start", "guard"} => t.arg = next - 1
  <2>1. \A t \in Range(todo) : Placed(t)
    BY DEF AInv, Agenda
  <2> QED BY <2>1 DEF Placed
<1>3. Owed' = Owed
  BY OwedSame
<1>4. ASSUME NEW i \in Owed', Accounted(i), i \notin {p, f, next - 1}
      PROVE  Accounted(i)'
  <2>1. i \in Position
    BY <1>3, <1>4, OwedPictures
  <2>2. ~ Noted(i)
    BY <1>1, <1>4 DEF Noted, Finishing
  <2>3. EnRoute(i) => current_picture.picture = i \/ current_skipped_picture = i
    <3>1. Carrying \subseteq Finishing \cup {"start"}
      BY DEF Carrying, Finishing
    <3> QED BY <1>1, <1>2, <1>4, <3>1 DEF EnRoute
  <2>4. EnRoute(i) => EnRoute(i)'
    BY <1>4, <2>1, <2>3 DEF EnRoute
  <2>5. Materializes(i) /\ Shown(i) => Shown(i)'
    BY <1>4, <2>1
  <2>6. UNCHANGED output_start_time /\ UNCHANGED maximum_completed_pts
    OBVIOUS
  <2> QED BY <1>4, <2>2, <2>4, <2>5, <2>6, AccountedKept
<1>5. PICK n : n = next - 1
  OBVIOUS
<1>6. \A i \in Owed' : Accounted(i) => Accounted(i)' \/ i \in {p, f, n}
  BY <1>4, <1>5
<1> QED BY <1>3, <1>6, ChargedMore

\* A step that loses nothing and after which the same pictures are owed.
LEMMA NoneLost ==
  ASSUME DInv, AInv, Charged, UNCHANGED fixedVars, UNCHANGED errors,
         UNCHANGED <<output_start_time, maximum_completed_pts, first, sent, next,
                     discontinuous>>,
         Resetting => Resetting',
         \A i \in Position : /\ EnRoute(i) => EnRoute(i)'
                             /\ Noted(i) => Noted(i)'
                             /\ Materializes(i) /\ Shown(i) => Shown(i)'
  PROVE  Charged'
<1>1. Owed' = Owed
  BY OwedSame
<1>2. UNCHANGED output_start_time /\ UNCHANGED maximum_completed_pts
  OBVIOUS
<1>3. ASSUME NEW i \in Owed', Accounted(i)
      PROVE  Accounted(i)'
  <2>1. i \in Position
    BY <1>1, <1>3, OwedPictures
  <2> QED BY <1>2, <1>3, <2>1, AccountedKept
<1> QED BY <1>1, <1>3, ChargedKept

----------
(* The way of a frame *)

LEMMA QueueShows ==
  ASSUME Types, NEW entry \in Entry, QueueFrame(entry)
  PROVE  \A i : Materializes(i) /\
           (Queued(outputs, i) \/ (entry.picture = i /\ entry.shown)) => Queued(outputs', i)
<1>1. outputs \in Seq(Output)
  BY DEF Types, OutputsTyped
<1>2. CASE ~ entry.shown \/ ~ Materializes(entry.picture)
  BY <1>2 DEF QueueFrame, outputVars
<1>3. CASE entry.shown /\ Materializes(entry.picture)
  <2>1. PICK p \in Position : p = entry.picture
    BY DEF Entry
  <2>2. PICK format \in Formats : format = stream[p].format
    BY Constants
  <2>3. PICK mark \in Announcements : mark = [kind |-> "FormatChanged", value |-> format]
    BY DEF Announcements
  <2>4. PICK frame \in Frames : frame = [kind |-> "Frame", value |-> p]
    BY DEF Frames
  <2>5. mark \in Output /\ frame \in Output
    BY DEF Output
  <2>6. PICK marks : marks = IF announced_format = format THEN << >> ELSE <<mark>>
    OBVIOUS
  <2>12. marks \in Seq(Output) /\ frame.kind = "Frame" /\ frame.value = p
    <3>1. << >> \in Seq(Output) /\ <<mark>> \in Seq(Output)
      BY <2>5, EmptySeq
    <3>2. marks = << >> \/ marks = <<mark>>
      BY <2>6
    <3>3. frame.kind = "Frame" /\ frame.value = p
      BY <2>4
    <3> QED BY <3>1, <3>2, <3>3
  <2>7. outputs' = (outputs \o marks) \o <<frame>>
    BY <1>3, <2>1, <2>2, <2>3, <2>4, <2>6 DEF QueueFrame
  <2>8. PICK q : q = outputs \o marks
    OBVIOUS
  <2>9. q \in Seq(Output) /\ Range(q) = Range(outputs) \cup Range(marks)
    BY <1>1, <2>8, <2>12, RangeConcatenation, ConcatProperties
  <2>10. outputs' = Append(q, frame)
    BY <2>5, <2>7, <2>8, <2>9, AppendIsConcat
  <2>11. Range(outputs') = Range(q) \cup {frame}
    BY <2>5, <2>9, <2>10, RangeAppend
  <2> QED BY <2>1, <2>9, <2>11, <2>12 DEF Queued
<1> QED BY <1>2, <1>3

LEMMA PushShows ==
  ASSUME Types, NEW p \in Position, NEW shown \in BOOLEAN, ReorderPush(p, shown)
  PROVE  \A i : Materializes(i) /\
           (Stored(reorder, i) \/ Queued(outputs, i) \/ (i = p /\ shown)) =>
             Stored(reorder', i) \/ Queued(outputs', i)
<1>1. reorder \in Seq(Entry)
  BY DEF Types, ReorderTyped
<1>2. PICK new : new = [poc |-> stream[p].poc, picture |-> p, shown |-> shown]
  OBVIOUS
<1>3. new \in Entry /\ new.picture = p /\ new.shown = shown
  <2>1. stream[p].poc \in Int
    BY Constants
  <2> QED BY <1>2, <2>1 DEF Entry
<1>4. PICK grown : grown = Append(reorder, new)
  OBVIOUS
<1>5. grown \in Seq(Entry) /\ Range(grown) = Range(reorder) \cup {new}
  BY <1>1, <1>3, <1>4, RangeAppend, AppendProperties
<1>6. \A i : Stored(reorder, i) \/ (i = p /\ shown) => Stored(grown, i)
  BY <1>3, <1>5 DEF Stored
<1>7. CASE reorder' = grown /\ UNCHANGED outputVars
  <2>1. outputs' = outputs
    BY <1>7 DEF outputVars
  <2> QED BY <1>6, <1>7, <2>1
<1>8. CASE reorder' = RemoveAt(grown, Lowest(grown)) /\ QueueFrame(grown[Lowest(grown)])
  <2>1. PICK k : k = Lowest(grown)
    OBVIOUS
  <2>2. k \in 1 .. Len(grown)
    <3>1. grown # << >>
      BY <1>1, <1>3, <1>4, Appended, EmptySeq
    <3> QED BY <1>5, <2>1, <3>1, LowestIsThere DEF Entry
  <2>3. grown[k] \in Entry
    BY <1>5, <2>2, ElementOfSeq
  <2>4. PICK entry \in Entry : entry = grown[k]
    BY <2>3
  <2>5. Range(grown) \subseteq Range(reorder') \cup {entry}
    BY <1>5, <1>8, <2>1, <2>2, <2>4, RangeRemove
  <2>6. \A i : Materializes(i) /\
          (Queued(outputs, i) \/ (entry.picture = i /\ entry.shown)) => Queued(outputs', i)
    <3>1. QueueFrame(entry)
      BY <1>8, <2>1, <2>4
    <3> QED BY <3>1, QueueShows
  <2>7. \A i : Stored(grown, i) => Stored(reorder', i) \/ (entry.picture = i /\ entry.shown)
    BY <2>5 DEF Stored
  <2> QED BY <1>6, <2>6, <2>7
<1> QED BY <1>2, <1>4, <1>7, <1>8 DEF ReorderPush

LEMMA DrainShows ==
  ASSUME Types, reorder # << >>, reorder' = RemoveAt(reorder, Lowest(reorder)),
         QueueFrame(reorder[Lowest(reorder)])
  PROVE  \A i : Materializes(i) /\
           (Stored(reorder, i) \/ Queued(outputs, i)) =>
             Stored(reorder', i) \/ Queued(outputs', i)
<1>1. reorder \in Seq(Entry)
  BY DEF Types, ReorderTyped
<1>2. PICK k : k = Lowest(reorder)
  OBVIOUS
<1>3. k \in 1 .. Len(reorder)
  BY <1>1, <1>2, LowestIsThere DEF Entry
<1>4. PICK entry \in Entry : entry = reorder[k]
  BY <1>1, <1>3, ElementOfSeq
<1>5. Range(reorder) \subseteq Range(reorder') \cup {entry}
  BY <1>1, <1>2, <1>3, <1>4, RangeRemove
<1>6. \A i : Materializes(i) /\
        (Queued(outputs, i) \/ (entry.picture = i /\ entry.shown)) => Queued(outputs', i)
  <2>1. QueueFrame(entry)
    BY <1>2, <1>4
  <2> QED BY <2>1, QueueShows
<1>7. \A i : Stored(reorder, i) => Stored(reorder', i) \/ (entry.picture = i /\ entry.shown)
  BY <1>5 DEF Stored
<1> QED BY <1>6, <1>7

----------
(* No step loses more than it reports *)

LEMMA ShownKept ==
  ASSUME UNCHANGED received, NEW i,
         /\ Materializes(i)
         /\ \/ Stored(pending_picture_completions, i) \/ Stored(reorder, i)
            \/ Queued(outputs, i)
         => \/ Stored(pending_picture_completions', i) \/ Stored(reorder', i)
            \/ Queued(outputs', i)
  PROVE  Materializes(i) /\ Shown(i) => Shown(i)'
<1>1. Range(received)' = Range(received)
  OBVIOUS
<1> QED BY <1>1 DEF Shown

LEMMA CallStepCharged ==
  ASSUME DInv, AInv, Charged, todo # << >>, UNCHANGED fixedVars,
         Head(todo).step \notin Rewinding \cup {"discard"}, Silent(Head(todo)),
         todo' = todo \/ todo' = Tail(todo), UNCHANGED pictureVars,
         UNCHANGED <<output_start_time, maximum_completed_pts, first, sent, next,
                     discontinuous, received, errors>>,
         \A i : Materializes(i) /\ Shown(i) => Shown(i)'
  PROVE  Charged'
<1>1. ~ Resetting
  BY Ahead DEF AInv, Agenda
<1>2. \A i : (EnRoute(i) => EnRoute(i)') /\ (Noted(i) => Noted(i)')
  <2>1. UNCHANGED discontinuous
    OBVIOUS
  <2> QED BY <2>1, SilentHead, RouteKept
<1>3. UNCHANGED errors
  OBVIOUS
<1> QED BY <1>1, <1>2, <1>3, NoneLost

LEMMA TakenCharged ==
  ASSUME DInv, AInv, Charged, todo # << >>, UNCHANGED fixedVars,
         Head(todo).step \in {"poll", "join", "room"}, TakeCompletion
  PROVE  Charged'
<1>1. /\ pending_picture_completions # << >>
      /\ pending_picture_completions' = Tail(pending_picture_completions)
      /\ UNCHANGED codingVars /\ UNCHANGED quietVars
  BY DEF TakeCompletion, EarliestReady
<1>2. UNCHANGED pictureVars /\ UNCHANGED <<output_start_time, maximum_completed_pts, first, sent,
                                           next, discontinuous, received>>
  BY <1>1, CodingKept, QuietKept
<1>3. pending_picture_completions \in Seq(Completion)
  BY DEF DInv, Types, PendingTyped
<1>4. PICK c \in Completion : c = Earliest
  BY <1>1, <1>3, RangeTail DEF Earliest
<1>5. Range(pending_picture_completions) = {c} \cup Range(pending_picture_completions')
  BY <1>1, <1>3, <1>4, RangeTail DEF Earliest
<1>6. Head(todo).step \notin Rewinding \cup {"discard"} /\ Silent(Head(todo))
  BY DEF Rewinding, Silent, Finishing, Passing
<1>7. \A i : Stored(pending_picture_completions, i) =>
        Stored(pending_picture_completions', i) \/ (i = c.picture /\ c.shown)
  BY <1>5 DEF Stored
<1>8. CASE Earliest.failed
  <2>1. /\ todo' = << >> /\ errors' = errors + 1
        /\ UNCHANGED reorder /\ UNCHANGED outputs
    BY <1>8 DEF TakeCompletion, Fail, Return, reorderVars, outputVars
  <2>2. ~ Resetting
    BY <1>6, Ahead DEF AInv, Agenda
  <2>3. PICK p : p = c.picture
    OBVIOUS
  <2>4. UNCHANGED received
    BY <1>2
  <2>5. ASSUME NEW i, i # p
        PROVE  Materializes(i) /\ Shown(i) => Shown(i)'
    BY <1>7, <2>1, <2>3, <2>4, <2>5, ShownKept
  <2>6. current_picture' = current_picture /\ current_skipped_picture' = current_skipped_picture
    BY <1>2 DEF pictureVars
  <2>7. UNCHANGED <<output_start_time, maximum_completed_pts, first, sent, next, discontinuous>>
    BY <1>2
  <2> QED BY <2>1, <2>2, <2>5, <2>6, <2>7, CutShort
<1>9. CASE ~ Earliest.failed
  <2>1. ReorderPush(c.picture, c.shown) /\ UNCHANGED todo /\ UNCHANGED errors
    BY <1>4, <1>9 DEF TakeCompletion
  <2>2. c.picture \in Position /\ c.shown \in BOOLEAN
    BY DEF Completion
  <2>3. PICK p \in Position : p = c.picture
    BY <2>2
  <2>4. PICK shown \in BOOLEAN : shown = c.shown
    BY <2>2
  <2>5. \A i : /\ Materializes(i)
               /\ Stored(reorder, i) \/ Queued(outputs, i) \/ (i = p /\ shown)
               => Stored(reorder', i) \/ Queued(outputs', i)
    <3>1. ReorderPush(p, shown)
      BY <2>1, <2>3, <2>4
    <3> QED BY <3>1, PushShows DEF DInv
  <2>6. UNCHANGED received
    BY <1>2
  <2>7. \A i : Materializes(i) /\ Shown(i) => Shown(i)'
    BY <1>7, <2>3, <2>4, <2>5, <2>6, ShownKept
  <2>8. UNCHANGED <<output_start_time, maximum_completed_pts, first, sent, next, discontinuous,
                    received, errors>>
    BY <1>2, <2>1
  <2> QED BY <1>2, <1>6, <2>1, <2>7, <2>8, CallStepCharged
<1> QED BY <1>8, <1>9

LEMMA PassesCharged ==
  ASSUME DInv, AInv, Charged, todo # << >>, UNCHANGED fixedVars,
         Head(todo).step \in {"poll", "join", "room", "finish"}, Passes
  PROVE  Charged'
<1>1. /\ UNCHANGED codingVars /\ UNCHANGED quietVars /\ todo' = Tail(todo)
      /\ UNCHANGED pending_picture_completions /\ UNCHANGED reorder /\ UNCHANGED outputs
      /\ UNCHANGED errors
  BY DEF Passes, Continue, reorderVars, outputVars
<1>2. UNCHANGED pictureVars /\ UNCHANGED <<output_start_time, maximum_completed_pts, first, sent,
                                           next, discontinuous, received, errors>>
  BY <1>1, CodingKept, QuietKept
<1>3. Head(todo).step \notin Rewinding \cup {"discard"} /\ Silent(Head(todo))
  BY DEF Rewinding, Silent, Finishing, Passing
<1>4. UNCHANGED received
  BY <1>2
<1>5. \A i : Materializes(i) /\ Shown(i) => Shown(i)'
  BY <1>1, <1>4, ShownKept
<1> QED BY <1>1, <1>2, <1>3, <1>5, CallStepCharged

\* What is thrown away belongs to the timeline that ends, or comes before an IDR
\* picture that lets it go.
LEMMA SweepingCharged ==
  ASSUME DInv, AInv, Charged, Discard \/ ClearReorder
  PROVE  Charged'
<1>1. /\ todo # << >> /\ Head(todo).step \in Sweeping /\ UNCHANGED fixedVars
      /\ UNCHANGED codingVars /\ UNCHANGED quietVars /\ UNCHANGED errors
      /\ todo' = todo \/ todo' = Tail(todo)
  BY DEF Discard, ClearReorder, Executes, Continue, Sweeping
<1>2. UNCHANGED <<first, sent, next, discontinuous>>
  BY <1>1, QuietKept
<1>3. /\ Range(todo) = {Head(todo)} \cup Range(Tail(todo))
      /\ Precedes(stream, Head(todo), Tail(todo), next)
  BY <1>1, Ahead DEF AInv, Agenda
<1>4. PICK b \in Range(Tail(todo)) :
        \/ b.step \in Rewinding
        \/ b.step = "start" /\ stream[b.arg].no_output_of_prior_pictures
  BY <1>1, <1>3 DEF Precedes, Promising, Awaits
<1>5. b \in Range(todo') /\ Range(todo)' = Range(todo')
  BY <1>1, <1>3, <1>4
<1>6. CASE b.step \in Rewinding
  BY <1>5, <1>6, ChargedResetting DEF Resetting
<1>7. CASE b.step = "start" /\ stream[b.arg].no_output_of_prior_pictures
  <2>1. b.arg = next - 1 /\ ~ discontinuous
    <3>1. Placed(b)
      BY <1>3, <1>4 DEF AInv, Agenda
    <3> QED BY <1>7, <3>1 DEF Placed
  <2>2. Owed' = Owed
    BY <1>1, <1>2, OwedSame
  <2>3. PICK n \in Int, m \in Nat : n = next - 1 /\ m = Len(stream) /\ n <= m
    BY CursorsTyped
  <2>4. PICK a \in Nat : a = first
    BY CursorsTyped
  <2>5. ASSUME NEW i \in Owed'
        PROVE  EnRoute(i)'
    <3>1. i \in a .. n /\ ~ MaySuppress(i)
      BY <2>1, <2>2, <2>3, <2>4, <2>5 DEF Owed, Upto
    <3>2. i = n
      <4>1. SUFFICES ASSUME i # n
                     PROVE  FALSE
        OBVIOUS
      <4>2. n \in i + 1 .. m
        BY <2>3, <2>4, <3>1, <4>1
      <4> QED BY <1>7, <2>1, <2>3, <3>1, <4>2 DEF MaySuppress
    <3>3. b.arg = i /\ b.step \in Carrying
      BY <1>7, <2>1, <2>3, <3>2 DEF Carrying
    <3> QED BY <1>5, <3>3 DEF EnRoute
  <2>6. \A i \in Owed' : Accounted(i) => Accounted(i)'
    BY <2>5, UnderWay
  <2>7. Resetting => Resetting'
    BY <1>1, TailResets DEF Sweeping, Rewinding
  <2> QED BY <1>1, <2>2, <2>6, <2>7, ChargedKept
<1> QED BY <1>4, <1>6, <1>7

LEMMA DrainReorderCharged ==
  ASSUME DInv, AInv, Charged, DrainReorder
  PROVE  Charged'
<1>1. /\ todo # << >> /\ Head(todo).step = "drain" /\ UNCHANGED fixedVars
      /\ UNCHANGED codingVars /\ UNCHANGED quietVars /\ UNCHANGED errors
      /\ UNCHANGED pending_picture_completions
      /\ todo' = todo \/ todo' = Tail(todo)
      /\ \/ UNCHANGED <<reorder, outputs>>
         \/ /\ reorder # << >> /\ reorder' = RemoveAt(reorder, Lowest(reorder))
            /\ QueueFrame(reorder[Lowest(reorder)])
  BY DEF DrainReorder, Executes, Continue, outputVars
<1>2. UNCHANGED pictureVars /\ UNCHANGED <<output_start_time, maximum_completed_pts, first, sent,
                                           next, discontinuous, received, errors>>
  BY <1>1, CodingKept, QuietKept
<1>3. Head(todo).step \notin Rewinding \cup {"discard"} /\ Silent(Head(todo))
  BY <1>1 DEF Rewinding, Silent, Finishing, Passing
<1>4. UNCHANGED received
  BY <1>2
<1>5. \A i : /\ Materializes(i)
             /\ Stored(reorder, i) \/ Queued(outputs, i)
             => Stored(reorder', i) \/ Queued(outputs', i)
  BY <1>1, DrainShows DEF DInv
<1>6. \A i : Materializes(i) /\ Shown(i) => Shown(i)'
  BY <1>1, <1>4, <1>5, ShownKept
<1> QED BY <1>1, <1>2, <1>3, <1>6, CallStepCharged

\* A picture that is taken to be finished is carried by the steps that do so.
LEMMA FinishesCarries ==
  ASSUME DInv, AInv, todo # << >>, Head(todo).step = "finish", NEW p,
         Finishes(todo', Tail(todo), p), UNCHANGED discontinuous,
         \A i \in Position : i # p =>
           /\ current_picture.picture = i => current_picture'.picture = i
           /\ current_skipped_picture = i => current_skipped_picture' = i
  PROVE  \A i \in Position : (EnRoute(i) => EnRoute(i)') /\ (Noted(i) => Noted(i)')
<1>1. Range(todo) = {Head(todo)} \cup Range(Tail(todo))
  BY Ahead DEF AInv, Agenda
<1>2. /\ Range(Tail(todo)) \subseteq Range(todo') /\ Range(todo)' = Range(todo')
      /\ \E b \in Range(todo') : b.step \in Passing /\ b.arg = p
  BY DEF Finishes
<1>3. Head(todo).step \notin Carrying \cup {"guard", "record"} /\ Passing \subseteq Carrying
  BY DEF Carrying, Passing
<1>4. EnRoute(p)'
  BY <1>2, <1>3 DEF EnRoute
<1>5. ASSUME NEW i \in Position, EnRoute(i), i # p
      PROVE  EnRoute(i)'
  BY <1>1, <1>2, <1>3, <1>5 DEF EnRoute
<1>6. ASSUME NEW i \in Position, Noted(i)
      PROVE  Noted(i)'
  BY <1>1, <1>2, <1>3, <1>6 DEF Noted
<1> QED BY <1>4, <1>5, <1>6

LEMMA FinishingCharged ==
  ASSUME DInv, AInv, Charged, FinishSkipped \/ FinishNothing \/ FinishCurrent
  PROVE  Charged'
<1>1. CASE FinishNothing
  <2>1. /\ todo # << >> /\ Head(todo).step = "finish" /\ UNCHANGED fixedVars /\ Passes
    BY <1>1 DEF FinishNothing, Executes
  <2> QED BY <2>1, PassesCharged
<1>2. CASE FinishSkipped \/ FinishCurrent
  <2>1. /\ UNCHANGED fixedVars /\ UNCHANGED quietVars /\ UNCHANGED maximum_completed_pts
        /\ UNCHANGED pending_picture_completions /\ UNCHANGED reorder /\ UNCHANGED outputs
    BY <1>2 DEF FinishSkipped, FinishCurrent, Executes, reorderVars, outputVars
  <2>2. UNCHANGED <<output_start_time, maximum_completed_pts, first, sent, next, discontinuous,
                    received>>
    BY <2>1, QuietKept
  <2>3. UNCHANGED received /\ UNCHANGED discontinuous
    BY <2>2
  <2>4. \A i : Materializes(i) /\ Shown(i) => Shown(i)'
    BY <2>1, <2>3, ShownKept
  <2>5. PICK p : /\ todo # << >> /\ Head(todo).step = "finish" /\ ~ Resetting
                 /\ \/ Finishes(todo', Tail(todo), p) /\ UNCHANGED errors
                    \/ todo' = << >> /\ errors' = errors + 1
                 /\ \A i \in Position : i # p =>
                      /\ current_picture.picture = i => current_picture'.picture = i
                      /\ current_skipped_picture = i => current_skipped_picture' = i
    <3>1. CASE FinishSkipped
      <4>1. /\ UNCHANGED current_picture /\ UNCHANGED errors
        BY <3>1 DEF FinishSkipped
      <4>2. PICK p : p = current_skipped_picture
        OBVIOUS
      <4> QED BY <3>1, <4>1, <4>2, FinishSkippedIs
    <3>2. CASE FinishCurrent
      <4>1. UNCHANGED current_skipped_picture
        BY <3>2 DEF FinishCurrent
      <4>2. PICK p : p = current_picture.picture
        OBVIOUS
      <4>3. Fail => todo' = << >> /\ errors' = errors + 1
        BY DEF Fail, Return
      <4> QED BY <3>2, <4>1, <4>2, <4>3, FinishCurrentIs
    <3> QED BY <1>2, <3>1, <3>2
  <2>6. UNCHANGED <<output_start_time, maximum_completed_pts, first, sent, next, discontinuous>>
    BY <2>2
  <2>7. CASE Finishes(todo', Tail(todo), p) /\ UNCHANGED errors
    <3>1. \A i \in Position : (EnRoute(i) => EnRoute(i)') /\ (Noted(i) => Noted(i)')
      BY <2>3, <2>5, <2>7, FinishesCarries
    <3> QED BY <2>1, <2>4, <2>5, <2>6, <2>7, <3>1, NoneLost
  <2>8. CASE todo' = << >> /\ errors' = errors + 1
    BY <2>1, <2>4, <2>5, <2>6, <2>8, CutShort
  <2> QED BY <2>5, <2>7, <2>8
<1> QED BY <1>1, <1>2

\* A picture that a worker takes, or that is pushed, is stored and noted.
LEMMA PassingCharged ==
  ASSUME DInv, AInv, Charged, todo # << >>, UNCHANGED fixedVars, Head(todo).step \in Passing,
         todo' = Tail(todo), UNCHANGED codingVars, UNCHANGED quietVars, UNCHANGED errors,
         \A i : /\ Materializes(i)
                /\ \/ Stored(pending_picture_completions, i) \/ Stored(reorder, i)
                   \/ Queued(outputs, i)
                   \/ i = Arg
                => \/ Stored(pending_picture_completions', i) \/ Stored(reorder', i)
                   \/ Queued(outputs', i)
  PROVE  Charged'
<1>1. UNCHANGED pictureVars /\ UNCHANGED <<output_start_time, maximum_completed_pts, first, sent,
                                           next, discontinuous, received>>
  BY CodingKept, QuietKept
<1>2. UNCHANGED received
  BY <1>1
<1>3. /\ Range(todo) = {Head(todo)} \cup Range(Tail(todo))
      /\ Precedes(stream, Head(todo), Tail(todo), next)
  BY Ahead DEF AInv, Agenda
<1>4. PICK b \in Range(Tail(todo)) : b.step = "record" /\ b.arg = Arg
  BY <1>3 DEF Precedes, Promising, Awaits, Arg
<1>5. Range(todo)' = Range(Tail(todo))
  OBVIOUS
<1>6. Head(todo).step # "record" /\ Head(todo).step \notin Rewinding \cup {"discard"}
  BY DEF Passing, Rewinding
<1>7. ~ Resetting
  BY <1>6, Ahead DEF AInv, Agenda
<1>8. \A i : Noted(i) => Noted(i)'
  BY <1>3, <1>5, <1>6 DEF Noted
<1>9. PICK a : a = Arg
  OBVIOUS
<1>10. Noted(a)'
  BY <1>4, <1>5, <1>9 DEF Noted
<1>11. \A i : Materializes(i) /\ (Shown(i) \/ i = a) => Shown(i)'
  <2>1. Range(received)' = Range(received)
    BY <1>2
  <2> QED BY <1>9, <2>1 DEF Shown
<1>12. UNCHANGED output_start_time /\ UNCHANGED maximum_completed_pts
  BY <1>1
<1>13. Accounted(a)'
  <2>1. Materializes(a)' <=> Materializes(a)
    BY <1>12, SameTarget
  <2> QED BY <1>10, <1>11, <2>1 DEF Accounted
<1>14. ASSUME NEW i, i # a, EnRoute(i)
       PROVE  EnRoute(i)'
  <2>1. Head(todo).arg # i
    BY <1>9, <1>14 DEF Arg
  <2> QED BY <1>1, <1>3, <1>5, <1>14, <2>1 DEF EnRoute, pictureVars
<1>15. \A i : Accounted(i) => Accounted(i)'
  <2>1. ASSUME NEW i, Accounted(i), i # a
        PROVE  Accounted(i)'
    BY <1>8, <1>11, <1>12, <1>14, <2>1, AccountedKept
  <2> QED BY <1>13, <2>1
<1>16. Owed' = Owed
  <2>1. UNCHANGED <<first, sent, next, discontinuous>>
    BY <1>1
  <2> QED BY <2>1, OwedSame
<1> QED BY <1>7, <1>15, <1>16, ChargedKept

LEMMA SpawnCharged ==
  ASSUME DInv, AInv, Charged, Spawn
  PROVE  Charged'
<1>1. /\ todo # << >> /\ Head(todo).step \in {"spawn", "spawn deferred"} /\ UNCHANGED fixedVars
      /\ UNCHANGED codingVars /\ UNCHANGED quietVars /\ UNCHANGED reorder /\ UNCHANGED outputs
  BY DEF Spawn, Executes, reorderVars, outputVars
<1>2. UNCHANGED pictureVars /\ UNCHANGED <<output_start_time, maximum_completed_pts, first, sent,
                                           next, discontinuous, received>>
  BY <1>1, CodingKept, QuietKept
<1>3. pending_picture_completions \in Seq(Completion)
  BY DEF DInv, Types, PendingTyped
<1>4. CASE todo' = << >> /\ errors' = errors + 1 /\ UNCHANGED pending_picture_completions
  <2>1. UNCHANGED received
    BY <1>2
  <2>2. \A i : Materializes(i) /\ Shown(i) => Shown(i)'
    BY <1>1, <1>4, <2>1, ShownKept
  <2>3. ~ Resetting
    <3>1. Head(todo).step \notin Rewinding \cup {"discard"}
      BY <1>1 DEF Rewinding
    <3> QED BY <1>1, <3>1, Ahead DEF AInv, Agenda
  <2>4. current_picture' = current_picture /\ current_skipped_picture' = current_skipped_picture
    BY <1>2 DEF pictureVars
  <2>5. UNCHANGED <<output_start_time, maximum_completed_pts, first, sent, next, discontinuous>>
    BY <1>2
  <2> QED BY <1>1, <1>4, <2>2, <2>3, <2>4, <2>5, CutShort
<1>5. CASE /\ todo' = Tail(todo) /\ UNCHANGED errors
           /\ \E failed \in BOOLEAN :
                pending_picture_completions' =
                  Append(pending_picture_completions,
                         [picture |-> Arg, shown |-> Materializes(Arg),
                          ready |-> FALSE, failed |-> failed])
  <2>1. PICK a \in Position : a = Arg
    <3>1. Head(todo) \in TypedStep
      BY <1>1, HeadPlaced
    <3> QED BY <1>1, <3>1 DEF TypedStep, OfPicture, Arg
  <2>2. PICK shown \in BOOLEAN : shown = Materializes(a)
    BY DEF Materializes
  <2>3. PICK failed \in BOOLEAN :
          pending_picture_completions' =
            Append(pending_picture_completions,
                   [picture |-> a, shown |-> shown, ready |-> FALSE, failed |-> failed])
    BY <1>5, <2>1, <2>2
  <2>4. PICK c : c = [picture |-> a, shown |-> shown, ready |-> FALSE, failed |-> failed]
    OBVIOUS
  <2>5. c \in Completion /\ c.picture = a /\ c.shown = shown
    BY <2>4 DEF Completion
  <2>6. Range(pending_picture_completions') = Range(pending_picture_completions) \cup {c}
    <3>1. pending_picture_completions' = Append(pending_picture_completions, c)
      BY <2>3, <2>4
    <3>2. c \in Completion
      BY <2>5
    <3> QED BY <1>3, <3>1, <3>2, RangeAppend
  <2>7. \A i : /\ Materializes(i)
               /\ \/ Stored(pending_picture_completions, i) \/ Stored(reorder, i)
                  \/ Queued(outputs, i)
                  \/ i = Arg
               => \/ Stored(pending_picture_completions', i) \/ Stored(reorder', i)
                  \/ Queued(outputs', i)
    BY <1>1, <2>1, <2>2, <2>5, <2>6 DEF Stored
  <2>8. Head(todo).step \in Passing
    BY <1>1 DEF Passing
  <2> QED BY <1>1, <1>5, <2>7, <2>8, PassingCharged
<1>6. PICK damaged \in BOOLEAN, deferred \in BOOLEAN :
        /\ damaged = (Head(todo).damage = "slice")
        /\ deferred = (Head(todo).step = "spawn deferred")
  OBVIOUS
<1>7. CASE damaged /\ ~ deferred
  BY <1>4, <1>6, <1>7 DEF Spawn, Fail, Return
<1>8. CASE ~ (damaged /\ ~ deferred)
  <2>1. /\ todo' = Tail(todo) /\ UNCHANGED errors
        /\ pending_picture_completions' =
             Append(pending_picture_completions,
                    [picture |-> Arg, shown |-> Materializes(Arg),
                     ready |-> FALSE, failed |-> damaged])
    BY <1>6, <1>8 DEF Spawn, Continue
  <2> QED BY <1>5, <2>1
<1> QED BY <1>7, <1>8

LEMMA PushCharged ==
  ASSUME DInv, AInv, Charged, Push
  PROVE  Charged'
<1>1. /\ todo # << >> /\ Head(todo).step = "push" /\ UNCHANGED fixedVars
      /\ UNCHANGED codingVars /\ UNCHANGED quietVars /\ todo' = Tail(todo)
      /\ UNCHANGED errors /\ UNCHANGED pending_picture_completions
      /\ ReorderPush(Arg, Materializes(Arg))
  BY DEF Push, Executes, Continue
<1>2. PICK a \in Position : a = Arg
  <2>1. Head(todo) \in TypedStep
    BY <1>1, HeadPlaced
  <2> QED BY <1>1, <2>1 DEF TypedStep, OfPicture, Arg
<1>3. PICK shown \in BOOLEAN : shown = Materializes(a)
  BY DEF Materializes
<1>4. ReorderPush(a, shown)
  BY <1>1, <1>2, <1>3
<1>5. \A i : /\ Materializes(i)
             /\ Stored(reorder, i) \/ Queued(outputs, i) \/ (i = a /\ shown)
             => Stored(reorder', i) \/ Queued(outputs', i)
  BY <1>4, PushShows DEF DInv
<1>6. \A i : /\ Materializes(i)
             /\ \/ Stored(pending_picture_completions, i) \/ Stored(reorder, i)
                \/ Queued(outputs, i)
                \/ i = Arg
             => \/ Stored(pending_picture_completions', i) \/ Stored(reorder', i)
                \/ Queued(outputs', i)
  BY <1>1, <1>2, <1>3, <1>5
<1>7. Head(todo).step \in Passing
  BY <1>1 DEF Passing
<1> QED BY <1>1, <1>6, <1>7, PassingCharged

LEMMA RecordCharged ==
  ASSUME DInv, AInv, Charged, Record
  PROVE  Charged'
<1>1. /\ todo # << >> /\ Head(todo).step = "record" /\ UNCHANGED fixedVars
      /\ UNCHANGED pictureVars /\ UNCHANGED quietVars /\ todo' = Tail(todo)
      /\ UNCHANGED errors /\ UNCHANGED pending_picture_completions
      /\ UNCHANGED reorder /\ UNCHANGED outputs
      /\ maximum_completed_pts' = IF stream[Arg].pts > maximum_completed_pts
                                  THEN stream[Arg].pts ELSE maximum_completed_pts
  BY DEF Record, Executes, Continue, reorderVars, outputVars
<1>2. UNCHANGED <<output_start_time, first, sent, next, discontinuous, received>>
  BY <1>1, QuietKept
<1>3. PICK a \in Position : a = Arg
  <2>1. Head(todo) \in TypedStep
    BY <1>1, HeadPlaced
  <2> QED BY <1>1, <2>1 DEF TypedStep, OfPicture, Arg
<1>4. PICK m \in Nat \cup {NoTime} : m = maximum_completed_pts
  BY DEF DInv, Types, CodingTyped
<1>5. /\ Range(todo) = {Head(todo)} \cup Range(Tail(todo))
      /\ Range(todo)' = Range(Tail(todo)) /\ ~ Resetting
  <2>1. Head(todo).step \notin Rewinding \cup {"discard"}
    BY <1>1 DEF Rewinding
  <2> QED BY <1>1, <2>1, Ahead DEF AInv, Agenda
<1>6. \A i : EnRoute(i) => EnRoute(i)'
  <2>1. Head(todo).step \notin Carrying \cup {"guard"}
    BY <1>1 DEF Carrying, Passing
  <2> QED BY <1>1, <1>2, <1>5, <2>1 DEF EnRoute, pictureVars
<1>7. \A i : Noted(i) => Noted(i)' \/ i = a
  BY <1>3, <1>5 DEF Noted, Arg
<1>8. \A i : Materializes(i) /\ Shown(i) => Shown(i)'
  <2>1. UNCHANGED received
    BY <1>2
  <2> QED BY <1>1, <2>1, ShownKept
<1>9. Owed' = Owed
  <2>1. UNCHANGED <<first, sent, next, discontinuous>>
    BY <1>2
  <2> QED BY <1>1, <2>1, OwedSame
<1>10. ASSUME NEW i \in Owed', Accounted(i)
       PROVE  Accounted(i)'
  <2>1. i \in Position /\ stream' = stream
    BY <1>1, <1>9, <1>10, OwedPictures DEF fixedVars
  <2>2. PICK p \in Nat : p = stream[i].pts
    BY <2>1, Constants DEF DInv
  <2>3. PICK q \in Nat : q = stream[a].pts
    BY Constants DEF DInv
  <2>4. PICK n : n = maximum_completed_pts'
    OBVIOUS
  <2>5. (p > n => p > m) /\ ~ (q > n)
    BY <1>1, <1>3, <1>4, <2>2, <2>3, <2>4 DEF NoTime
  <2>6. p > n => EnRoute(i)' \/ Noted(i)'
    <3>1. i = a => p = q
      BY <2>2, <2>3
    <3> QED BY <1>4, <1>6, <1>7, <1>10, <2>2, <2>5, <3>1 DEF Accounted
  <2>7. Materializes(i)' => EnRoute(i)' \/ Shown(i)'
    <3>1. UNCHANGED output_start_time
      BY <1>2
    <3>2. Materializes(i)' <=> Materializes(i)
      BY <1>1, <3>1, SameTarget
    <3> QED BY <1>6, <1>8, <1>10, <3>2 DEF Accounted
  <2> QED BY <2>1, <2>2, <2>4, <2>6, <2>7 DEF Accounted
<1> QED BY <1>1, <1>5, <1>9, <1>10, ChargedKept

LEMMA FewerOwed ==
  ASSUME DInv, AInv, Charged, UNCHANGED fixedVars, UNCHANGED errors,
         UNCHANGED <<output_start_time, maximum_completed_pts>>, ~ Resetting,
         Owed' \subseteq Owed,
         \A i \in Position : i \in Owed' =>
           /\ EnRoute(i) => EnRoute(i)'
           /\ Noted(i) => Noted(i)'
           /\ Materializes(i) /\ Shown(i) => Shown(i)'
  PROVE  Charged'
<1>1. UNCHANGED output_start_time /\ UNCHANGED maximum_completed_pts
  OBVIOUS
<1>2. ASSUME NEW i \in Owed', Accounted(i)
      PROVE  Accounted(i)'
  <2>1. i \in Position
    BY <1>2, OwedPictures
  <2> QED BY <1>1, <1>2, <2>1, AccountedKept
<1> QED BY <1>2, ChargedKept

LEMMA GuardCharged ==
  ASSUME DInv, AInv, Charged, Guard
  PROVE  Charged'
<1>1. /\ todo # << >> /\ Head(todo).step = "guard" /\ UNCHANGED fixedVars
      /\ Tail(todo) = << >> /\ ~ Resetting
      /\ \/ todo' = << >> /\ next' = Arg /\ UNCHANGED discontinuous
         \/ /\ UNCHANGED next /\ discontinuous' = FALSE
            /\ \E b \in Range(todo') : b.step = "start" /\ b.arg = Arg
            /\ discontinuous => \E b \in Range(todo') : b.step \in Rewinding
  BY GuardIs DEF Guard
<1>2. /\ UNCHANGED codingVars /\ UNCHANGED output_start_time /\ UNCHANGED reorder
      /\ UNCHANGED outputs /\ UNCHANGED pending_picture_completions /\ UNCHANGED received
      /\ UNCHANGED first /\ UNCHANGED sent /\ UNCHANGED errors
  BY DEF Guard, modeVars, reorderVars, outputVars, toldVars, spanVars
<1>3. UNCHANGED pictureVars /\ UNCHANGED maximum_completed_pts
  BY <1>2, CodingKept
<1>4. \A i : Materializes(i) /\ Shown(i) => Shown(i)'
  BY <1>2, ShownKept
<1>5. Arg = next - 1
  <2>1. Placed(Head(todo))
    BY <1>1, HeadPlaced
  <2> QED BY <1>1, <2>1 DEF Placed, Arg
<1>6. Range(todo) = {Head(todo)} /\ Range(todo)' = Range(todo')
  <2>1. PICK t : t = Tail(todo)
    OBVIOUS
  <2>2. Range(t) = {}
    BY <1>1, <2>1, NoSteps
  <2> QED BY <1>1, <2>1, <2>2, Ahead DEF AInv, Agenda
<1>7. \A i : ~ Noted(i)
  BY <1>1, <1>6 DEF Noted
<1>8. Head(todo).step \notin Carrying /\ "start" \in Carrying
  BY <1>1 DEF Carrying, Passing
<1>9. \A i : MaySuppress(i)' = MaySuppress(i)
  BY <1>1, SuppressKept
<1>10. PICK n \in Int, a \in Int : n = next /\ a = first
  BY CursorsTyped
<1>11. CASE todo' = << >> /\ next' = Arg /\ UNCHANGED discontinuous /\ discontinuous
  <2>1. Upto' = Upto
    BY <1>2, <1>11 DEF Upto
  <2>2. Owed' = Owed
    BY <1>2, <1>9, <2>1 DEF Owed
  <2>3. \A i : EnRoute(i) => EnRoute(i)'
    BY <1>3, <1>6, <1>8, <1>11 DEF EnRoute, pictureVars
  <2> QED BY <1>1, <1>2, <1>3, <1>4, <1>7, <2>2, <2>3, FewerOwed
<1>12. CASE todo' = << >> /\ next' = Arg /\ UNCHANGED discontinuous /\ ~ discontinuous
  <2>1. Upto = n - 1 /\ Upto' = n - 2
    BY <1>5, <1>10, <1>12 DEF Upto
  <2>2. Owed' \subseteq Owed /\ \A i \in Owed' : i # n - 1
    <3>1. Owed' = {i \in a .. n - 2 : ~ MaySuppress(i)}
      BY <1>2, <1>9, <1>10, <2>1 DEF Owed
    <3>2. Owed = {i \in a .. n - 1 : ~ MaySuppress(i)}
      BY <1>10, <2>1 DEF Owed
    <3> QED BY <1>10, <3>1, <3>2
  <2>3. \A i \in Owed' : EnRoute(i) => EnRoute(i)'
    <3>1. \A i : EnRoute(i) /\ i # n - 1 => EnRoute(i)'
      BY <1>3, <1>5, <1>6, <1>10 DEF EnRoute, pictureVars, Arg
    <3> QED BY <2>2, <3>1
  <2> QED BY <1>1, <1>2, <1>3, <1>4, <1>7, <2>2, <2>3, FewerOwed
<1>13. CASE /\ UNCHANGED next /\ discontinuous' = FALSE /\ ~ discontinuous
            /\ \E b \in Range(todo') : b.step = "start" /\ b.arg = Arg
  <2>1. Upto' = Upto
    BY <1>13 DEF Upto
  <2>2. Owed' = Owed
    BY <1>2, <1>9, <2>1 DEF Owed
  <2>3. \A i : EnRoute(i) => EnRoute(i)'
    BY <1>3, <1>6, <1>8, <1>13 DEF EnRoute, pictureVars, Arg
  <2> QED BY <1>1, <1>2, <1>3, <1>4, <1>7, <2>2, <2>3, FewerOwed
<1>14. CASE \E b \in Range(todo') : b.step \in Rewinding
  BY <1>6, <1>14, ChargedResetting DEF Resetting
<1> QED BY <1>1, <1>11, <1>12, <1>13, <1>14

LEMMA PrepareCharged ==
  ASSUME DInv, AInv, Charged, Prepare
  PROVE  Charged'
<1>1. /\ todo # << >> /\ Head(todo).step = "prepare" /\ UNCHANGED fixedVars
      /\ UNCHANGED codingVars /\ UNCHANGED quietVars /\ UNCHANGED reorder
      /\ UNCHANGED outputs /\ UNCHANGED pending_picture_completions /\ UNCHANGED errors
      /\ Range(Tail(todo)) \subseteq Range(todo')
  BY PrepareIs DEF reorderVars, outputVars
<1>2. UNCHANGED pictureVars /\ UNCHANGED <<output_start_time, maximum_completed_pts, first, sent,
                                           next, discontinuous, received>>
  BY <1>1, CodingKept, QuietKept
<1>3. UNCHANGED received /\ UNCHANGED discontinuous
  BY <1>2
<1>4. \A i : Materializes(i) /\ Shown(i) => Shown(i)'
  BY <1>1, <1>3, ShownKept
<1>5. Range(todo) = {Head(todo)} \cup Range(Tail(todo)) /\ ~ Resetting
  <2>1. Head(todo).step \notin Rewinding \cup {"discard"}
    BY <1>1 DEF Rewinding
  <2> QED BY <1>1, <2>1, Ahead DEF AInv, Agenda
<1>6. Silent(Head(todo))
  BY <1>1 DEF Silent, Finishing, Passing
<1>7. \A i : (EnRoute(i) => EnRoute(i)') /\ (Noted(i) => Noted(i)')
  BY <1>1, <1>2, <1>3, <1>5, <1>6, RouteKept
<1>8. UNCHANGED <<output_start_time, maximum_completed_pts, first, sent, next, discontinuous>>
  BY <1>2
<1> QED BY <1>1, <1>4, <1>5, <1>7, <1>8, NoneLost

LEMMA EndingCharged ==
  ASSUME DInv, AInv, Charged, EndSequence \/ EndStream \/ Accepted
  PROVE  Charged'
<1>1. /\ todo # << >> /\ Head(todo).step \in {"end sequence", "end stream", "accepted"}
      /\ UNCHANGED fixedVars /\ UNCHANGED pictureVars /\ UNCHANGED maximum_completed_pts
      /\ UNCHANGED reorder /\ UNCHANGED outputs /\ UNCHANGED pending_picture_completions
      /\ UNCHANGED errors
      /\ UNCHANGED <<next, discontinuous, first, received, output_start_time>>
  BY DEF EndSequence, EndStream, Accepted, Executes, codingVars, modeVars, quietVars,
         reorderVars, outputVars, toldVars, spanVars
<1>2. UNCHANGED received /\ UNCHANGED discontinuous /\ UNCHANGED next /\ UNCHANGED first
      /\ UNCHANGED output_start_time
  BY <1>1
<1>3. \A i : Materializes(i) /\ Shown(i) => Shown(i)'
  BY <1>1, <1>2, ShownKept
<1>4. Head(todo).step \notin Rewinding \cup {"discard"} /\ Silent(Head(todo))
  BY <1>1 DEF Rewinding, Silent, Finishing, Passing
<1>5. CASE EndSequence \/ EndStream
  <2>1. todo' = Tail(todo) /\ UNCHANGED sent
    BY <1>5 DEF EndSequence, EndStream, Continue, quietVars, spanVars
  <2>2. UNCHANGED <<output_start_time, maximum_completed_pts, first, sent, next,
                    discontinuous, received, errors>>
    BY <1>1, <1>2, <2>1
  <2> QED BY <1>1, <1>3, <1>4, <2>1, <2>2, CallStepCharged
<1>6. CASE Accepted
  <2>1. todo' = << >> /\ sent' = Arg /\ Head(todo).step = "accepted"
    BY <1>6 DEF Accepted, Return, Executes
  <2>2. ~ discontinuous
    <3>1. Placed(Head(todo))
      BY <1>1, HeadPlaced
    <3> QED BY <2>1, <3>1 DEF Placed
  <2>3. Upto' = Upto
    BY <1>2, <2>2 DEF Upto
  <2>4. Owed' = Owed
    <3>1. \A i : MaySuppress(i)' = MaySuppress(i)
      BY <1>1, SuppressKept
    <3> QED BY <1>2, <2>3, <3>1 DEF Owed
  <2>5. Range(todo) = {Head(todo)} /\ ~ Resetting
    <3>1. PICK t : t = Tail(todo)
      OBVIOUS
    <3>2. t = << >>
      BY <1>1, <2>1, <3>1, Ahead DEF AInv, Agenda, Closing
    <3>3. Range(t) = {}
      BY <3>2, NoSteps
    <3> QED BY <1>1, <1>4, <3>1, <3>3, Ahead DEF AInv, Agenda
  <2>6. \A i : (EnRoute(i) => EnRoute(i)') /\ (Noted(i) => Noted(i)')
    BY <1>1, <1>2, <1>4, <2>5, RouteKept
  <2>7. UNCHANGED <<output_start_time, maximum_completed_pts>>
    BY <1>1, <1>2
  <2> QED BY <1>1, <1>3, <2>4, <2>5, <2>6, <2>7, FewerOwed
<1> QED BY <1>5, <1>6

\* A picture that is started is the current one, even when its first slice
\* fails; a buffer that is replaced has no frame to output.
LEMMA StartCharged ==
  ASSUME DInv, AInv, Heads, Coding, Charged, StartSkipped \/ StartRefused \/ Start
  PROVE  Charged'
<1>1. /\ todo # << >> /\ Head(todo).step = "start" /\ UNCHANGED fixedVars
      /\ UNCHANGED maximum_completed_pts /\ UNCHANGED outputs
      /\ UNCHANGED pending_picture_completions
      /\ UNCHANGED <<next, discontinuous, first, sent, received, output_start_time>>
  BY DEF StartSkipped, StartRefused, Start, Executes, codingVars, modeVars, quietVars,
         outputVars, toldVars, spanVars
<1>2. PICK a \in Position : a = Arg
  BY <1>1, StartsAfresh
<1>3. Nothing /\ ~ Resetting
  <2>1. Head(todo).step \notin Rewinding \cup {"discard"}
    BY <1>1 DEF Rewinding
  <2> QED BY <1>1, <2>1, StartsAfresh, Ahead DEF AInv, Agenda
<1>4. \A i \in Position : current_picture.picture # i /\ current_skipped_picture # i
  <2>1. 0 \notin Position
    BY DEF Position
  <2> QED BY <1>3, <2>1 DEF Nothing, NoPicture
<1>5. Range(todo) = {Head(todo)} \cup Range(Tail(todo)) /\ Range(todo)' = Range(todo')
  BY <1>1, Ahead DEF AInv, Agenda
<1>6. \A i : Materializes(i) /\ Shown(i) => Shown(i)'
  <2>1. UNCHANGED received
    BY <1>1
  <2>2. \A i : Materializes(i) /\ Stored(reorder, i) => Stored(reorder', i)
    <3>1. CASE StartSkipped \/ StartRefused
      BY <3>1 DEF StartSkipped, StartRefused, reorderVars
    <3>2. CASE Start
      <4>1. CASE dpb_configuration = stream[Arg].format
        BY <3>2, <4>1 DEF Start, reorderVars
      <4>2. CASE dpb_configuration = NoFormat
        BY <4>2 DEF Coding, Stored
      <4>3. CASE stream[Arg].idr
        <5>1. Head(todo) = todo[1]
          BY <1>1, Ahead DEF AInv, Agenda
        <5>2. reorder = << >>
          BY <1>1, <4>3, <5>1 DEF Heads, Stands, Arg
        <5>3. PICK s : s = reorder
          OBVIOUS
        <5>4. Range(s) = {}
          BY <5>2, <5>3, EmptySeq, InRange
        <5> QED BY <5>3, <5>4 DEF Stored
      <4> QED BY <3>2, <4>1, <4>2, <4>3 DEF Start
    <3> QED BY <3>1, <3>2
  <2> QED BY <1>1, <2>1, <2>2, ShownKept
<1>7. UNCHANGED <<output_start_time, maximum_completed_pts, first, sent, next, discontinuous>>
  BY <1>1
<1>8. CASE todo' = << >> /\ errors' = errors + 1
  BY <1>1, <1>3, <1>4, <1>6, <1>7, <1>8, CutShort
<1>9. CASE /\ todo' = Tail(todo) /\ UNCHANGED errors
           /\ current_picture'.picture = a \/ current_skipped_picture' = a
  <2>1. \A i \in Position : EnRoute(i) => EnRoute(i)'
    <3>1. EnRoute(a)'
      BY <1>9 DEF EnRoute
    <3>2. ASSUME NEW i \in Position, i # a, EnRoute(i)
          PROVE  EnRoute(i)'
      <4>1. Head(todo).arg # i
        BY <1>2, <3>2 DEF Arg
      <4> QED BY <1>1, <1>4, <1>5, <1>9, <3>2, <4>1 DEF EnRoute
    <3> QED BY <3>1, <3>2
  <2>2. \A i : Noted(i) => Noted(i)'
    BY <1>1, <1>5, <1>9 DEF Noted
  <2> QED BY <1>1, <1>3, <1>6, <1>7, <1>9, <2>1, <2>2, NoneLost
<1>10. CASE StartSkipped
  BY <1>2, <1>9, <1>10 DEF StartSkipped, Continue
<1>11. CASE StartRefused
  BY <1>8, <1>11 DEF StartRefused, Fail, Return
<1>12. CASE Start
  <2>1. PICK damage \in {"none", "slice", "marking"} :
          /\ current_picture' = [picture |-> Arg, damage |-> damage, deferred |-> Defers(Arg)]
          /\ IF damage = "slice" /\ ~ Defers(Arg) THEN Fail
             ELSE Continue /\ UNCHANGED <<result, errors>>
    BY <1>12 DEF Start
  <2>2. current_picture'.picture = a
    BY <1>2, <2>1
  <2>3. CASE Fail
    BY <1>8, <2>3 DEF Fail, Return
  <2>4. CASE Continue /\ UNCHANGED <<result, errors>>
    BY <1>9, <2>2, <2>4 DEF Continue
  <2> QED BY <2>1, <2>3, <2>4
<1> QED BY <1>10, <1>11, <1>12

LEMMA ClosingCharged ==
  ASSUME DInv, AInv, Charged, Deliver \/ Snapshot
  PROVE  Charged'
<1>1. /\ todo # << >> /\ Head(todo).step \in {"deliver", "snapshot"} /\ todo' = << >>
      /\ UNCHANGED fixedVars /\ UNCHANGED codingVars /\ UNCHANGED reorder
      /\ UNCHANGED pending_picture_completions /\ UNCHANGED errors
      /\ UNCHANGED <<next, discontinuous, first, sent, output_start_time>>
  BY DEF Deliver, Snapshot, Executes, Return, modeVars, reorderVars, spanVars
<1>2. UNCHANGED pictureVars /\ UNCHANGED maximum_completed_pts
  BY <1>1, CodingKept
<1>3. Range(todo) = {Head(todo)} /\ ~ Resetting
  <2>1. PICK t : t = Tail(todo)
    OBVIOUS
  <2>2. Head(todo).step \in Closing /\ Head(todo).step \notin Rewinding \cup {"discard"}
    BY <1>1 DEF Closing, Rewinding
  <2>3. t = << >>
    BY <1>1, <2>1, <2>2, Ahead DEF AInv, Agenda
  <2>4. Range(t) = {}
    BY <2>3, NoSteps
  <2> QED BY <1>1, <2>1, <2>2, <2>4, Ahead DEF AInv, Agenda
<1>4. Silent(Head(todo))
  BY <1>1 DEF Silent, Finishing, Passing
<1>5. \A i : (EnRoute(i) => EnRoute(i)') /\ (Noted(i) => Noted(i)')
  <2>1. UNCHANGED discontinuous
    BY <1>1
  <2> QED BY <1>2, <1>3, <1>4, <2>1, RouteKept
<1>6. Owed' = Owed
  BY <1>1, OwedSame
<1>7. \A i : Shown(i) => Shown(i)'
  <2>1. CASE UNCHANGED <<outputs, received>>
    <3>1. Range(received)' = Range(received)
      BY <2>1
    <3> QED BY <1>1, <2>1, <3>1 DEF Shown
  <2>2. CASE Deliver /\ outputs # << >>
    <3>1. outputs \in Seq(Output) /\ received \in Seq(Position)
      BY DEF DInv, Types, OutputsTyped, CallerTyped
    <3>2. PICK o \in Output : o = Head(outputs)
      BY <2>2, <3>1, RangeTail
    <3>3. /\ outputs' = Tail(outputs)
          /\ o.kind = "FormatChanged" => received' = received
          /\ o.kind # "FormatChanged" => received' = Append(received, o.value)
      BY <2>2, <3>2 DEF Deliver
    <3>4. Range(outputs) = {o} \cup Range(outputs')
      BY <2>2, <3>1, <3>2, <3>3, RangeTail
    <3>5. Range(received)' = Range(received')
      OBVIOUS
    <3>6. CASE o.kind = "FormatChanged"
      <4>1. \A i : Queued(outputs, i) => Queued(outputs', i)
        BY <3>4, <3>6 DEF Queued
      <4> QED BY <1>1, <3>3, <3>5, <3>6, <4>1 DEF Shown
    <3>7. CASE o.kind # "FormatChanged"
      <4>1. o \in Frames
        BY <3>7, MarksAndFrames DEF Output
      <4>2. PICK v \in Position : v = o.value
        BY <4>1 DEF Frames
      <4>3. received' = Append(received, v)
        BY <3>3, <3>7, <4>2
      <4>4. Range(received') = Range(received) \cup {v}
        BY <3>1, <4>3, RangeAppend
      <4>5. \A i : Queued(outputs, i) => Queued(outputs', i) \/ i = v
        BY <3>4, <4>2 DEF Queued
      <4> QED BY <1>1, <3>5, <4>4, <4>5 DEF Shown
    <3> QED BY <3>6, <3>7
  <2>3. Snapshot \/ (Deliver /\ outputs = << >>) => UNCHANGED <<outputs, received>>
    BY DEF Snapshot, Deliver, outputVars, toldVars
  <2> QED BY <2>1, <2>2, <2>3
<1>8. UNCHANGED <<output_start_time, maximum_completed_pts>>
  BY <1>1, <1>2
<1> QED BY <1>1, <1>3, <1>5, <1>6, <1>7, <1>8, FewerOwed

LEMMA NoneLapsed ==
  ASSUME NEW e \in Nat, errors' = e, Lapsed' = {}
  PROVE  Charged'
<1>1. Cardinality({}) = 0
  BY FS_EmptySet
<1>2. Cardinality(Lapsed)' = 0
  BY <1>1
<1> QED BY <1>2 DEF Charged

\* A new timeline begins with nothing owed, or with the packet being sent.
LEMMA ResetCharged ==
  ASSUME DInv, AInv, Charged, Reset
  PROVE  Charged'
<1>1. /\ todo # << >> /\ Head(todo).step = "reset" /\ UNCHANGED fixedVars /\ todo' = Tail(todo)
      /\ UNCHANGED next /\ UNCHANGED discontinuous
      /\ first' = Arg /\ sent' = Arg - 1 /\ errors' = 0
  BY DEF Reset, Executes, Continue
<1>2. PICK a \in Int, n \in Int : a = Arg /\ n = next
  <2>1. Arg \in Position
    BY <1>1, ResetStands DEF Arg
  <2>2. Arg \in Int
    BY <2>1 DEF Position
  <2> QED BY <2>2, CursorsTyped
<1>3. Lapsed' = {}
  <2>1. CASE a = n
    <3>1. Upto' = a - 1 /\ first' = a
      BY <1>1, <1>2, <2>1 DEF Upto
    <3>2. Owed' = {}
      BY <1>2, <3>1 DEF Owed
    <3> QED BY <3>2 DEF Lapsed
  <2>2. CASE /\ a = n - 1 /\ ~ discontinuous
             /\ \E t \in Range(Tail(todo)) : t.step = "start" /\ t.arg = n - 1
    <3>1. Upto' = a /\ first' = a
      BY <1>1, <1>2, <2>2 DEF Upto
    <3>2. Owed' \subseteq {a}
      BY <1>2, <3>1 DEF Owed
    <3>3. EnRoute(a)'
      <4>1. Range(todo)' = Range(Tail(todo)) /\ "start" \in Carrying
        BY <1>1 DEF Carrying
      <4> QED BY <2>2, <4>1 DEF EnRoute
    <3>4. Accounted(a)'
      BY <3>3, UnderWay
    <3> QED BY <3>2, <3>4 DEF Lapsed
  <2> QED BY <1>1, <1>2, <2>1, <2>2, ResetStands DEF Arg
<1> QED BY <1>1, <1>3, NoneLapsed

LEMMA SetStartCharged ==
  ASSUME DInv, AInv, Heads, Charged, SetStart \/ Configure
  PROVE  Charged'
<1>1. /\ todo # << >> /\ Head(todo).step \in Restarting /\ UNCHANGED fixedVars
      /\ UNCHANGED next /\ UNCHANGED discontinuous
      /\ UNCHANGED first /\ UNCHANGED sent /\ UNCHANGED errors
  BY DEF SetStart, Configure, Executes, Restarting, spanVars
<1>2. first = next /\ sent = next - 1
  <2>1. Head(todo) = todo[1]
    BY <1>1, Ahead DEF AInv, Agenda
  <2> QED BY <1>1, <2>1 DEF Heads, Stands
<1>3. PICK n \in Int, e \in Nat : n = next /\ e = errors
  BY CursorsTyped
<1>4. Upto' = n - 1 /\ first' = n
  BY <1>1, <1>2, <1>3 DEF Upto
<1>5. Owed' = {}
  BY <1>3, <1>4 DEF Owed
<1>6. Lapsed' = {}
  BY <1>5 DEF Lapsed
<1> QED BY <1>1, <1>3, <1>6, NoneLapsed

\* Finitely many positions lie between two of them.
LEMMA SpanFinite ==
  ASSUME NEW x \in Nat, NEW y \in Int
  PROVE  IsFiniteSet(x .. y)
<1>1. x \in Int
  OBVIOUS
<1> QED BY <1>1, FS_Interval

\* What is lost after a checkpoint is restored was lost when it was taken.
LEMMA RestoreCharged ==
  ASSUME DInv, AInv, Saved, Restore
  PROVE  Charged'
<1>1. /\ todo # << >> /\ Head(todo).step = "restore" /\ UNCHANGED fixedVars
      /\ UNCHANGED next /\ UNCHANGED discontinuous
      /\ output_start_time' = Arg /\ maximum_completed_pts' = checkpoint.resume_time
      /\ first' = checkpoint.first /\ errors' = checkpoint.errors
  BY DEF Restore, Executes
<1>2. checkpoint # NoCheckpoint /\ checkpoint \in Kept
  <2>1. todo \in Seq(TypedStep)
    BY DEF DInv, Types, TodoTyped
  <2>2. 1 \in DOMAIN todo /\ Head(todo) = todo[1]
    BY <1>1, <2>1, StepShape
  <2>3. checkpoint # NoCheckpoint
    BY <1>1, <2>2 DEF DInv, Control
  <2> QED BY <2>3 DEF DInv, Types, CallerTyped
<1>3. next = checkpoint.position /\ ~ discontinuous /\ Arg > checkpoint.resume_time
  <2>1. Placed(Head(todo))
    BY <1>1, HeadPlaced
  <2> QED BY <1>1, <2>1 DEF Placed, Arg
<1>4. PICK r \in Nat, a \in Nat, n \in Int, e \in Nat :
        /\ r = checkpoint.resume_time /\ a = checkpoint.first
        /\ n = checkpoint.position /\ e = checkpoint.errors
  <2>1. Len(stream) \in Nat
    BY CursorsTyped
  <2>2. /\ checkpoint.resume_time \in Nat /\ checkpoint.first \in Nat
        /\ checkpoint.position \in 1 .. Len(stream) + 1 /\ checkpoint.errors \in Nat
    BY <1>2 DEF Kept
  <2>3. checkpoint.position \in Int
    BY <2>1, <2>2
  <2> QED BY <2>2, <2>3
<1>5. PICK target \in Int : target = Arg /\ target > r /\ target # NoTime
  <2>1. Head(todo) \in TypedStep
    BY <1>1, HeadPlaced
  <2>2. Arg \in Int
    BY <1>1, <2>1, TimeIsInt DEF TypedStep, Arg
  <2> QED BY <1>3, <1>4, <2>2 DEF NoTime
<1>6. Upto' = n - 1 /\ first' = a
  BY <1>1, <1>3, <1>4 DEF Upto
<1>7. \A i : MaySuppress(i)' = MaySuppress(i)
  BY <1>1, SuppressKept
<1>8. Lapsed' \subseteq Later
  <2>1. SUFFICES ASSUME NEW i \in Lapsed'
                 PROVE  i \in Later
    OBVIOUS
  <2>2. i \in a .. n - 1 /\ ~ MaySuppress(i) /\ ~ Accounted(i)'
    BY <1>6, <1>7, <2>1 DEF Lapsed, Owed
  <2>3. i \in Position
    <3>1. PICK l \in Nat : l = Len(stream) /\ n - 1 <= l
      BY <1>3, <1>4, CursorsTyped
    <3>2. a # 0
      BY <1>2, <1>4 DEF AInv, Cursor
    <3> QED BY <1>4, <2>2, <3>1, <3>2 DEF Position
  <2>4. PICK p \in Nat : p = stream[i].pts
    BY <2>3, Constants DEF DInv
  <2>5. stream' = stream /\ maximum_completed_pts' = r /\ output_start_time' = target
    BY <1>1, <1>4, <1>5 DEF fixedVars
  <2>6. p > r
    <3>1. CASE p >= target
      BY <1>4, <1>5, <2>4, <3>1
    <3>2. CASE ~ (p >= target)
      <4>1. ~ Materializes(i)'
        BY <1>5, <2>4, <2>5, <3>2 DEF Materializes
      <4> QED BY <2>2, <2>4, <2>5, <4>1 DEF Accounted
    <3> QED BY <3>1, <3>2
  <2> QED BY <1>4, <2>2, <2>4, <2>6 DEF Later
<1>9. PICK L : L = Later
  OBVIOUS
<1>10. IsFiniteSet(L)
  <2>1. IsFiniteSet(a .. n - 1)
    <3>1. PICK m \in Int : m = n - 1
      BY <1>4
    <3>2. a \in Nat
      BY <1>4
    <3>3. IsFiniteSet(a .. m)
      BY ONLY <3>1, <3>2, SpanFinite
    <3> QED BY <3>1, <3>3
  <2>2. L \subseteq a .. n - 1
    BY <1>4, <1>9 DEF Later
  <2> QED BY <2>1, <2>2, FS_Subset
<1>11. PICK M : M = Lapsed'
  OBVIOUS
<1>12. Cardinality(M) <= Cardinality(L) /\ Cardinality(M) \in Nat /\ Cardinality(L) \in Nat
  BY <1>8, <1>9, <1>10, <1>11, FS_Subset, FS_CardinalityType
<1>13. Cardinality(L) <= 3 * e
  BY <1>2, <1>4, <1>9 DEF Saved
<1>14. Cardinality(M) <= 3 * e /\ errors' = e
  BY <1>1, <1>4, <1>12, <1>13
<1> QED BY <1>11, <1>14 DEF Charged

LEMMA SavedKept ==
  ASSUME Saved, UNCHANGED fixedVars, UNCHANGED checkpoint
  PROVE  Saved'
<1>1. Later' = Later
  <2>1. \A i : MaySuppress(i)' = MaySuppress(i)
    BY SuppressKept
  <2>2. stream' = stream
    BY DEF fixedVars
  <2> QED BY <2>1, <2>2 DEF Later
<1> QED BY <1>1 DEF Saved

LEMMA SnapshotSaved ==
  ASSUME DInv, AInv, Charged, Saved, Snapshot
  PROVE  Saved'
<1>1. /\ todo # << >> /\ Head(todo).step = "snapshot" /\ UNCHANGED fixedVars
      /\ \/ UNCHANGED checkpoint
         \/ checkpoint' = [resume_time |-> maximum_completed_pts,
                           dpb_configuration |-> dpb_configuration,
                           reorder |-> reorder,
                           max_num_reorder_frames |-> max_num_reorder_frames,
                           position |-> next, first |-> first, errors |-> errors]
  BY DEF Snapshot, Executes
<1>2. CASE UNCHANGED checkpoint
  BY <1>1, <1>2, SavedKept
<1>3. CASE checkpoint' = [resume_time |-> maximum_completed_pts,
                          dpb_configuration |-> dpb_configuration,
                          reorder |-> reorder,
                          max_num_reorder_frames |-> max_num_reorder_frames,
                          position |-> next, first |-> first, errors |-> errors]
  <2>1. /\ checkpoint'.resume_time = maximum_completed_pts /\ checkpoint'.position = next
        /\ checkpoint'.first = first /\ checkpoint'.errors = errors
    BY <1>3
  <2>2. Nothing
    BY <1>1, DoneAfterFinish DEF Done
  <2>3. Range(todo) = {Head(todo)} /\ ~ Resetting
    <3>1. PICK t : t = Tail(todo)
      OBVIOUS
    <3>2. Head(todo).step \in Closing /\ Head(todo).step \notin Rewinding \cup {"discard"}
      BY <1>1 DEF Closing, Rewinding
    <3>3. t = << >>
      BY <1>1, <3>1, <3>2, Ahead DEF AInv, Agenda
    <3>4. Range(t) = {}
      BY <3>3, NoSteps
    <3> QED BY <1>1, <3>1, <3>2, <3>4, Ahead DEF AInv, Agenda
  <2>4. ~ discontinuous
    <3>1. Placed(Head(todo))
      BY <1>1, HeadPlaced
    <3> QED BY <1>1, <3>1 DEF Placed
  <2>5. \A i \in Position : ~ EnRoute(i) /\ ~ Noted(i)
    <3>1. 0 \notin Position
      BY DEF Position
    <3>2. Head(todo).step \notin Carrying
      BY <1>1 DEF Carrying, Passing
    <3> QED BY <1>1, <2>2, <2>3, <3>1, <3>2 DEF EnRoute, Noted, Nothing, NoPicture
  <2>6. Later' \subseteq Lapsed
    <3>1. SUFFICES ASSUME NEW i \in Later'
                   PROVE  i \in Lapsed
      OBVIOUS
    <3>2. /\ i \in first .. next - 1 /\ ~ MaySuppress(i)
          /\ stream[i].pts > maximum_completed_pts
      <4>1. stream' = stream
        BY <1>1 DEF fixedVars
      <4>2. MaySuppress(i)' = MaySuppress(i)
        BY <1>1, SuppressKept
      <4> QED BY <2>1, <3>1, <4>1, <4>2 DEF Later
    <3>3. i \in Owed
      BY <2>4, <3>2 DEF Owed, Upto
    <3>4. i \in Position
      BY <3>3, OwedPictures
    <3>5. ~ Accounted(i)
      BY <2>5, <3>2, <3>4 DEF Accounted
    <3> QED BY <3>3, <3>5 DEF Lapsed
  <2>7. PICK L : L = Lapsed
    OBVIOUS
  <2>8. PICK M : M = Later'
    OBVIOUS
  <2>9. IsFiniteSet(L) /\ Cardinality(L) \in Nat
    BY <2>7, OwedPictures
  <2>10. Cardinality(M) <= Cardinality(L) /\ Cardinality(M) \in Nat
    BY <2>6, <2>7, <2>8, <2>9, FS_Subset, FS_CardinalityType
  <2>11. PICK e \in Nat : e = errors
    BY CursorsTyped
  <2>12. Cardinality(L) <= 3 * e
    BY <2>3, <2>7, <2>11 DEF Charged
  <2>13. Cardinality(M) <= 3 * e /\ checkpoint'.errors = e
    BY <2>1, <2>9, <2>10, <2>11, <2>12
  <2> QED BY <2>8, <2>13 DEF Saved
<1> QED BY <1>1, <1>2, <1>3

LEMMA BegunCharged ==
  ASSUME DInv, AInv, Charged, NEW s, Begins(s), \A i \in Owed' : i \in Owed \/ EnRoute(i)'
  PROVE  Charged'
<1>1. /\ todo = << >> /\ UNCHANGED fixedVars /\ UNCHANGED codingVars
      /\ UNCHANGED output_start_time /\ UNCHANGED reorder /\ UNCHANGED outputs
      /\ UNCHANGED received /\ UNCHANGED pending_picture_completions /\ UNCHANGED errors
  BY DEF Begins, Idle, modeVars, reorderVars, outputVars, toldVars
<1>2. UNCHANGED pictureVars /\ UNCHANGED maximum_completed_pts
  BY <1>1, CodingKept
<1>3. PICK t : t = todo
  OBVIOUS
<1>4. Range(t) = {}
  BY <1>1, <1>3, NoSteps
<1>5. \A i : (EnRoute(i) => EnRoute(i)') /\ ~ Noted(i)
  BY <1>2, <1>3, <1>4 DEF EnRoute, Noted, pictureVars
<1>6. \A i : Materializes(i) /\ Shown(i) => Shown(i)'
  BY <1>1, ShownKept
<1>7. \A i : Accounted(i) => Accounted(i)'
  BY <1>1, <1>2, <1>5, <1>6, AccountedKept
<1>8. Lapsed' \subseteq Lapsed
  <2>1. \A i : EnRoute(i)' => Accounted(i)'
    BY UnderWay
  <2> QED BY <1>7, <2>1 DEF Lapsed
<1>9. ~ Resetting
  BY <1>1, IdleStands
<1> QED BY <1>1, <1>8, <1>9, ChargedLess

LEMMA SendPacketCharged ==
  ASSUME DInv, AInv, Charged, send_packet
  PROVE  Charged'
<1>1. PICK n \in Position : n = next
  <2>1. stream \in Seq(Picture)
    BY DecoderAssumption DEF DInv, Types, DecoderAssumption
  <2>2. DOMAIN stream = 1 .. Len(stream)
    BY <2>1, LenProperties
  <2> QED BY <2>2 DEF send_packet, Position
<1>2. PICK a \in TypedStep : a = Do("poll", 0) /\ a.step = "poll"
  BY PlainSteps
<1>3. PICK b \in TypedStep : b = Do("guard", n) /\ b.step = "guard" /\ b.arg = n
  BY <1>1, PictureSteps DEF Do
<1>4. PICK s : s = <<a, b>>
  OBVIOUS
<1>5. Range(s) = {a, b}
  BY <1>2, <1>3, <1>4, PollThenWhole
<1>6. /\ Begins(s) /\ next' = next + 1 /\ UNCHANGED discontinuous
  BY <1>1, <1>2, <1>3, <1>4 DEF send_packet
<1>7. /\ Range(todo)' = Range(s) /\ UNCHANGED fixedVars /\ first' = first /\ sent' = sent
  BY <1>6 DEF Begins, spanVars
<1>8. \A i : MaySuppress(i)' = MaySuppress(i)
  BY <1>7, SuppressKept
<1>9. ASSUME NEW i \in Owed'
      PROVE  i \in Owed \/ EnRoute(i)'
  <2>1. CASE discontinuous
    <3>1. Upto' = Upto
      BY <1>6, <1>7, <2>1 DEF Upto
    <3>2. Owed' = Owed
      BY <1>7, <1>8, <3>1 DEF Owed
    <3> QED BY <1>9, <3>2
  <2>2. CASE ~ discontinuous
    <3>1. n \in Int
      BY DEF Position
    <3>2. Upto' = n /\ Upto = n - 1
      BY <1>1, <1>6, <2>2, <3>1 DEF Upto
    <3>3. PICK f \in Nat : f = first
      BY CursorsTyped
    <3>4. i \in f .. n /\ ~ MaySuppress(i)
      BY <1>7, <1>8, <1>9, <3>2, <3>3 DEF Owed
    <3>5. CASE i = n
      BY <1>3, <1>5, <1>6, <1>7, <2>2, <3>5 DEF EnRoute
    <3>6. CASE i # n
      <4>1. i \in f .. n - 1
        BY <3>1, <3>3, <3>4, <3>6
      <4> QED BY <3>2, <3>3, <3>4, <4>1 DEF Owed
    <3> QED BY <3>5, <3>6
  <2> QED BY <2>1, <2>2
<1> QED BY <1>6, <1>9, BegunCharged

LEMMA SameCursorCharged ==
  ASSUME DInv, AInv, Charged, NEW s, Begins(s), UNCHANGED <<next, discontinuous>>
  PROVE  Charged'
<1>1. UNCHANGED fixedVars /\ UNCHANGED <<first, sent, next, discontinuous>>
  BY DEF Begins, spanVars
<1>2. Owed' = Owed
  BY <1>1, OwedSame
<1> QED BY <1>2, BegunCharged

LEMMA JumpCharged ==
  ASSUME DInv, AInv, Charged, NEW k \in Keyframes, jump(k)
  PROVE  Charged'
<1>1. PICK s : s = << >>
  OBVIOUS
<1>2. Begins(s) /\ discontinuous' = TRUE
  BY <1>1 DEF jump
<1>3. UNCHANGED fixedVars /\ first' = first /\ sent' = sent /\ todo = << >>
  BY <1>2 DEF Begins, Idle, spanVars
<1>4. PICK m \in Nat, n \in Int, f \in Nat : m = sent /\ n = next /\ f = first
  BY CursorsTyped
<1>5. Upto' = m
  BY <1>2, <1>3, <1>4 DEF Upto
<1>6. PICK u \in Int : u = Upto /\ m <= u
  <2>1. ~ Resetting
    BY <1>3, IdleStands
  <2>2. ~ discontinuous => m <= n - 1
    BY <1>4, <2>1 DEF AInv, Cursor
  <2> QED BY <1>4, <2>2 DEF Upto
<1>7. \A i : MaySuppress(i)' = MaySuppress(i)
  BY <1>3, SuppressKept
<1>8. Owed' \subseteq Owed
  <2>1. Owed' = {i \in f .. m : ~ MaySuppress(i)}
    BY <1>3, <1>4, <1>5, <1>7 DEF Owed
  <2>2. f .. m \subseteq f .. u
    BY <1>4, <1>6
  <2> QED BY <1>4, <1>6, <2>1, <2>2 DEF Owed
<1> QED BY <1>2, <1>8, BegunCharged

\* Retargeting throws away only frames that are no longer to be output.
LEMMA RetargetCharged ==
  ASSUME DInv, AInv, Charged, NEW target \in Targets, retarget_seek_forward(target)
  PROVE  Charged'
<1>1. /\ todo = << >> /\ UNCHANGED fixedVars /\ UNCHANGED todo /\ UNCHANGED codingVars
      /\ UNCHANGED <<first, sent, next, discontinuous, errors>>
      /\ UNCHANGED reorder /\ UNCHANGED pending_picture_completions
      /\ Retarget(target)
      /\ received' = Retain(received, {k \in DOMAIN received : NotBefore(target, received[k])})
  BY DEF retarget_seek_forward, Idle, reorderVars, callerVars, spanVars
<1>2. UNCHANGED pictureVars /\ UNCHANGED maximum_completed_pts /\ UNCHANGED discontinuous
      /\ UNCHANGED errors
  BY <1>1, CodingKept
<1>3. \A i : (EnRoute(i) => EnRoute(i)') /\ (Noted(i) => Noted(i)')
  BY <1>1, <1>2, RouteKept
<1>4. outputs \in Seq(Output) /\ received \in Seq(Position)
  BY DEF DInv, Types, OutputsTyped, CallerTyped
<1>5. ASSUME NEW i, i \in Range(received), NotBefore(target, i)
      PROVE  i \in Range(received')
  <2>1. PICK kept : kept = {k \in DOMAIN received : NotBefore(target, received[k])}
    OBVIOUS
  <2>2. PICK k \in DOMAIN received : i = received[k]
    BY <1>5 DEF Range
  <2>3. k \in kept
    BY <1>5, <2>1, <2>2
  <2>4. received[k] \in Range(Retain(received, kept))
    BY <1>4, <2>3, RangeRetain
  <2> QED BY <1>1, <2>1, <2>2, <2>4
<1>6. ASSUME NEW i, Queued(outputs, i), NotBefore(target, i)
      PROVE  Queued(outputs', i)
  <2>1. PICK kept :
          kept = {k \in DOMAIN outputs : IsFrame(k) => NotBefore(target, outputs[k].value)}
    OBVIOUS
  <2>2. PICK o \in Range(outputs) : o.kind = "Frame" /\ o.value = i
    BY <1>6 DEF Queued
  <2>3. PICK k \in DOMAIN outputs : o = outputs[k]
    BY <2>2 DEF Range
  <2>4. IsFrame(k) /\ NotBefore(target, outputs[k].value)
    BY <1>6, <2>2, <2>3 DEF IsFrame
  <2>5. k \in kept /\ SomeFrameFrom(target)
    BY <2>1, <2>4 DEF SomeFrameFrom
  <2>6. outputs' = Retain(outputs, kept)
    BY <1>1, <2>1, <2>5 DEF Retarget, QueuedFrom
  <2>7. o \in Range(Retain(outputs, kept))
    BY <1>4, <2>3, <2>5, RangeRetain
  <2> QED BY <2>2, <2>6, <2>7 DEF Queued
<1>7. Owed' = Owed
  BY <1>1, OwedSame
<1>8. ASSUME NEW i \in Owed', Accounted(i)
      PROVE  Accounted(i)'
  <2>1. i \in Position
    BY <1>7, <1>8, OwedPictures
  <2>2. Materializes(i)' => Materializes(i) /\ NotBefore(target, i)
    BY <2>1, LaterTarget
  <2>3. Range(received)' = Range(received')
    OBVIOUS
  <2>4. Shown(i) /\ NotBefore(target, i) => Shown(i)'
    BY <1>1, <1>5, <1>6, <2>3 DEF Shown
  <2>5. stream' = stream
    BY <1>1 DEF fixedVars
  <2> QED BY <1>2, <1>3, <1>8, <2>2, <2>4, <2>5 DEF Accounted
<1>9. ~ Resetting
  BY <1>1, IdleStands
<1> QED BY <1>2, <1>7, <1>8, <1>9, ChargedKept

LEMMA CallCharged ==
  ASSUME DInv, AInv, Charged, Call
  PROVE  Charged'
<1>1. ASSUME NEW s, Begins(s), \E b \in Range(s) : b.step \in Rewinding
      PROVE  Charged'
  <2>1. Range(todo)' = Range(s)
    BY <1>1 DEF Begins
  <2> QED BY <1>1, <2>1, ChargedResetting DEF Resetting
<1>2. ASSUME NEW k \in Keyframes, flush(k) \/ configure(k)
      PROVE  Charged'
  <2>1. CASE flush(k)
    <3>1. PICK c \in TypedStep : c = Do("set start", NoTime) /\ c.step \in Restarting
      BY TimeStep DEF Restarting
    <3>2. PICK s : s = <<Do("discard", 0), Do("reset", k), c>>
      OBVIOUS
    <3>3. Begins(s)
      BY <2>1, <3>1, <3>2 DEF flush
    <3> QED BY <1>1, <3>1, <3>2, <3>3, RestartCall
  <2>2. CASE configure(k)
    <3>1. PICK c \in TypedStep : c = Do("configure", 0) /\ c.step \in Restarting
      BY ConfigureStep DEF Restarting
    <3>2. PICK s : s = <<Do("discard", 0), Do("reset", k), c>>
      OBVIOUS
    <3>3. Begins(s)
      BY <2>2, <3>1, <3>2 DEF configure
    <3> QED BY <1>1, <3>1, <3>2, <3>3, RestartCall
  <2> QED BY <1>2, <2>1, <2>2
<1>3. ASSUME NEW k \in Keyframes, NEW target \in Targets, flush_for_seek(k, target)
      PROVE  Charged'
  <2>1. target \in Nat \cup {NoTime}
    BY DecoderAssumption DEF DecoderAssumption
  <2>2. PICK c \in TypedStep : c = Do("set start", target) /\ c.step \in Restarting
    BY <2>1, TimeStep DEF Restarting
  <2>3. PICK s : s = <<Do("discard", 0), Do("reset", k), c>>
    OBVIOUS
  <2>4. Begins(s)
    BY <1>3, <2>2, <2>3 DEF flush_for_seek
  <2> QED BY <1>1, <2>2, <2>3, <2>4, RestartCall
<1>4. ASSUME NEW target \in Targets, restore_seek_checkpoint(target)
      PROVE  Charged'
  <2>1. PICK s : /\ Begins(s)
                 /\ \/ UNCHANGED <<next, discontinuous>>
                    \/ \E b \in Range(s) : b.step \in Rewinding
    BY <1>4, RestoreCall DEF CallSteps
  <2> QED BY <1>1, <2>1, SameCursorCharged
<1>5. CASE receive_frame \/ drain \/ create_seek_checkpoint
  <2>1. UNCHANGED <<next, discontinuous>>
    BY <1>5 DEF receive_frame, drain, create_seek_checkpoint, callerVars
  <2>2. \E s : Begins(s)
    BY <1>5 DEF receive_frame, drain, create_seek_checkpoint
  <2> QED BY <2>1, <2>2, SameCursorCharged
<1> QED BY <1>2, <1>3, <1>4, <1>5, SendPacketCharged, JumpCharged, RetargetCharged DEF Call

LEMMA WorkerCharged ==
  ASSUME DInv, AInv, Charged, WorkerAnswers \/ UNCHANGED vars
  PROVE  Charged'
<1>1. /\ UNCHANGED fixedVars /\ UNCHANGED todo /\ UNCHANGED codingVars
      /\ UNCHANGED output_start_time /\ UNCHANGED reorder /\ UNCHANGED outputs
      /\ UNCHANGED <<first, sent, next, discontinuous, received, errors>>
  <2>1. CASE WorkerAnswers
    BY <2>1 DEF WorkerAnswers, modeVars, reorderVars, outputVars, callerVars, toldVars, spanVars
  <2>2. CASE UNCHANGED vars
    BY <2>2 DEF vars, codingVars, modeVars, reorderVars, outputVars, callerVars, toldVars,
                spanVars
  <2> QED BY <2>1, <2>2
<1>2. \A i : Stored(pending_picture_completions, i) => Stored(pending_picture_completions', i)
  <2>1. CASE UNCHANGED vars
    BY <2>1 DEF vars
  <2>2. CASE WorkerAnswers
    <3>1. pending_picture_completions \in Seq(Completion)
      BY DEF DInv, Types, PendingTyped
    <3>2. PICK q : q = pending_picture_completions'
      OBVIOUS
    <3>3. PICK k \in DOMAIN pending_picture_completions :
            q = [pending_picture_completions EXCEPT ![k].ready = TRUE]
      BY <2>2, <3>2 DEF WorkerAnswers
    <3>4. \A j \in DOMAIN pending_picture_completions :
            /\ pending_picture_completions[j] \in Completion
            /\ j \in DOMAIN q
            /\ q[j] = IF j = k THEN [pending_picture_completions[j] EXCEPT !.ready = TRUE]
                      ELSE pending_picture_completions[j]
      BY <3>1, <3>3, ElementOfSeq, LenProperties
    <3>5. \A c \in Completion : /\ [c EXCEPT !.ready = TRUE].picture = c.picture
                                /\ [c EXCEPT !.ready = TRUE].shown = c.shown
      BY DEF Completion
    <3>6. \A j \in DOMAIN pending_picture_completions :
            /\ q[j].picture = pending_picture_completions[j].picture
            /\ q[j].shown = pending_picture_completions[j].shown
      BY <3>4, <3>5
    <3>7. SUFFICES ASSUME NEW i, Stored(pending_picture_completions, i)
                   PROVE  Stored(q, i)
      BY <3>2
    <3>8. PICK c \in Range(pending_picture_completions) : c.picture = i /\ c.shown
      BY <3>7 DEF Stored
    <3>9. PICK j \in DOMAIN pending_picture_completions :
            c = pending_picture_completions[j]
      BY <3>8 DEF Range
    <3>10. q[j] \in Range(q)
      BY <3>4, <3>9 DEF Range
    <3>11. q[j].picture = i /\ q[j].shown
      BY <3>6, <3>8, <3>9
    <3> QED BY <3>10, <3>11 DEF Stored
  <2> QED BY <2>1, <2>2
<1>3. UNCHANGED pictureVars /\ UNCHANGED maximum_completed_pts
  BY <1>1, CodingKept
<1>4. \A i : Materializes(i) /\ Shown(i) => Shown(i)'
  <2>1. UNCHANGED received
    BY <1>1
  <2> QED BY <1>1, <1>2, <2>1, ShownKept
<1>5. \A i : (EnRoute(i) => EnRoute(i)') /\ (Noted(i) => Noted(i)')
  <2>1. UNCHANGED discontinuous
    BY <1>1
  <2> QED BY <1>1, <1>3, <2>1, RouteKept
<1>6. Resetting => Resetting'
  BY <1>1 DEF Resetting
<1>7. UNCHANGED <<output_start_time, maximum_completed_pts, first, sent, next, discontinuous>>
      /\ UNCHANGED errors
  BY <1>1, <1>3
<1> QED BY <1>1, <1>4, <1>5, <1>6, <1>7, NoneLost

LEMMA ChargedAlways ==
  ASSUME DInv, AInv, Heads, Coding, Charged, Saved, [Next]_vars
  PROVE  Charged'
<1>1. CASE Poll \/ Join \/ Room
  <2>1. /\ todo # << >> /\ UNCHANGED fixedVars /\ Head(todo).step \in {"poll", "join", "room"}
        /\ TakeCompletion \/ Passes
    BY <1>1 DEF Poll, Join, Room, Executes
  <2>2. Head(todo).step \in {"poll", "join", "room", "finish"}
    BY <2>1
  <2> QED BY <2>1, <2>2, TakenCharged, PassesCharged
<1>2. CASE Discard \/ DrainReorder
  BY <1>2, SweepingCharged, DrainReorderCharged
<1>3. CASE Finish
  BY <1>3, FinishingCharged, SpawnCharged, PushCharged, RecordCharged DEF Finish
<1>4. CASE Send
  BY <1>4, GuardCharged, PrepareCharged, SweepingCharged, StartCharged, EndingCharged DEF Send
<1>5. CASE Reconfigure
  BY <1>5, ClosingCharged, ResetCharged, SetStartCharged, RestoreCharged DEF Reconfigure
<1>6. CASE WorkerAnswers \/ UNCHANGED vars
  BY <1>6, WorkerCharged
<1> QED BY <1>1, <1>2, <1>3, <1>4, <1>5, <1>6, CallCharged DEF Next, Step

LEMMA SavedAlways ==
  ASSUME DInv, AInv, Charged, Saved, [Next]_vars
  PROVE  Saved'
<1>1. UNCHANGED fixedVars
  BY AlwaysFixed
<1>2. CASE Snapshot
  BY <1>2, SnapshotSaved
<1>3. CASE Step /\ ~ Snapshot
  <2>1. TakeCompletion \/ Passes => UNCHANGED checkpoint
    BY DEF TakeCompletion, Passes, quietVars
  <2>2. Poll \/ Join \/ Room \/ Discard \/ DrainReorder => UNCHANGED checkpoint
    BY <2>1 DEF Poll, Join, Room, Discard, DrainReorder, quietVars
  <2>3. Finish => UNCHANGED checkpoint
    BY <2>1 DEF Finish, FinishSkipped, FinishNothing, FinishCurrent, Spawn, Push, Record,
                quietVars
  <2>4. Send => UNCHANGED checkpoint
    BY DEF Send, Guard, Prepare, ClearReorder, StartSkipped, StartRefused, Start, EndSequence,
           EndStream, Accepted, quietVars
  <2>5. Reconfigure /\ ~ Snapshot => UNCHANGED checkpoint
    BY DEF Reconfigure, Deliver, Reset, SetStart, Configure, Restore
  <2> QED BY <1>1, <1>3, <2>2, <2>3, <2>4, <2>5, SavedKept DEF Step
<1>4. CASE WorkerAnswers \/ UNCHANGED vars
  <2>1. UNCHANGED checkpoint
    BY <1>4 DEF WorkerAnswers, vars, callerVars
  <2> QED BY <1>1, <2>1, SavedKept
<1>5. CASE Call
  <2>1. UNCHANGED checkpoint
    BY <1>5 DEF Call, send_packet, receive_frame, drain, create_seek_checkpoint, flush,
                configure, jump, flush_for_seek, Restarts, restore_seek_checkpoint,
                retarget_seek_forward, callerVars
  <2> QED BY <1>1, <2>1, SavedKept
<1> QED BY <1>2, <1>3, <1>4, <1>5 DEF Next

----------
(* No picture is lost in silence *)

\* The inductive invariant: what the steps left of a call find, what the coding
\* holds, and what is lost, counted.
LInv == AInv /\ Heads /\ Coding /\ Drained /\ Ended /\ Charged /\ Saved

LEMMA LossInit ==
  ASSUME Init
  PROVE  LInv
<1>1. PICK nothing : nothing = << >>
  OBVIOUS
<1>2. Range(nothing) = {}
  BY <1>1, NoSteps
<1>3. /\ todo = nothing /\ reorder = nothing /\ pending_picture_completions = nothing
      /\ current_picture = NoPicture /\ current_skipped_picture = 0
      /\ draining = FALSE /\ result = "none" /\ checkpoint = NoCheckpoint
      /\ next = 1 /\ discontinuous = FALSE /\ first = 1 /\ sent = 0 /\ errors = 0
  BY <1>1 DEF Init
<1>4. AInv
  BY AgendaInit
<1>5. Heads
  BY <1>1, <1>3 DEF Heads
<1>6. Coding
  BY <1>1, <1>2, <1>3 DEF Coding
<1>7. Drained /\ Ended /\ Saved
  BY <1>3 DEF Drained, Ended, Saved
<1>8. Charged
  <2>1. Upto = 0 /\ first = 1
    BY <1>3 DEF Upto
  <2>2. Owed = {}
    BY <2>1 DEF Owed
  <2>3. Lapsed = {}
    BY <2>2 DEF Lapsed
  <2>4. Cardinality({}) = 0
    BY FS_EmptySet
  <2> QED BY <1>3, <2>3, <2>4 DEF Charged
<1> QED BY <1>4, <1>5, <1>6, <1>7, <1>8 DEF LInv

LEMMA LossKept ==
  ASSUME DInv, LInv, [Next]_vars
  PROVE  LInv'
<1>1. AInv /\ Heads /\ Coding /\ Drained /\ Ended /\ Charged /\ Saved
  BY DEF LInv
<1>2. AInv'
  BY <1>1, AgendaKept
<1>3. Heads'
  BY <1>1, HeadsKept
<1>4. Coding'
  BY <1>1, CodedKept
<1>5. Drained'
  BY <1>1, DrainedKept
<1>6. Ended'
  BY <1>1, EndedKept
<1>7. Charged'
  BY <1>1, ChargedAlways
<1>8. Saved'
  BY <1>1, SavedAlways
<1> QED BY <1>2, <1>3, <1>4, <1>5, <1>6, <1>7, <1>8 DEF LInv

\* At the end of the stream nothing is on its way and nothing is stored: what
\* has not been received is lost.
LEMMA NothingLeft ==
  ASSUME DInv, LInv, result = "EndOfStream"
  PROVE  Missing \subseteq Lapsed
<1>1. todo = << >> /\ draining /\ outputs = << >> /\ ~ Resetting
  <2>1. todo = << >> /\ draining /\ outputs = << >>
    BY DEF LInv, Ended
  <2> QED BY <2>1, IdleStands
<1>2. reorder = << >> /\ pending_picture_completions = << >> /\ Nothing
  BY <1>1 DEF LInv, Drained
<1>3. PICK nothing : nothing = << >>
  OBVIOUS
<1>4. Range(nothing) = {}
  BY <1>3, NoSteps
<1>5. PICK a \in Nat \ {0}, s \in Nat, u \in Int : a = first /\ s = sent /\ u = Upto /\ s <= u
  <2>1. first \in Nat \ {0} /\ sent \in Nat /\ Upto \in Int
    BY CursorsTyped DEF LInv
  <2>2. sent <= Upto
    <3>1. CASE discontinuous
      BY <2>1, <3>1 DEF Upto
    <3>2. CASE ~ discontinuous
      BY <1>1, <3>2 DEF Upto, LInv, AInv, Cursor
    <3> QED BY <3>1, <3>2
  <2> QED BY <2>1, <2>2
<1>6. SUFFICES ASSUME NEW i \in Missing
               PROVE  i \in Lapsed
  OBVIOUS
<1>7. i \in a .. s /\ Materializes(i) /\ ~ MaySuppress(i)
      /\ \A k \in DOMAIN received : received[k] # i
  BY <1>5, <1>6 DEF Missing
<1>8. i \in a .. u /\ i # 0
  BY <1>5, <1>7
<1>9. i \in Owed
  BY <1>5, <1>7, <1>8 DEF Owed
<1>10. ~ EnRoute(i)
  <2>1. current_picture.picture # i /\ current_skipped_picture # i
    BY <1>2, <1>8 DEF Nothing, NoPicture
  <2>2. Range(todo) = {}
    BY <1>1, <1>3, <1>4
  <2> QED BY <2>1, <2>2 DEF EnRoute
<1>11. ~ Shown(i)
  <2>1. /\ Range(pending_picture_completions) = {} /\ Range(reorder) = {}
        /\ Range(outputs) = {}
    BY <1>1, <1>2, <1>3, <1>4
  <2>2. i \notin Range(received)
    BY <1>7 DEF Range
  <2> QED BY <2>1, <2>2 DEF Shown, Stored, Queued
<1>12. ~ Accounted(i)
  BY <1>7, <1>10, <1>11 DEF Accounted
<1> QED BY <1>9, <1>12 DEF Lapsed

LEMMA LossesCounted ==
  ASSUME DInv, LInv
  PROVE  LossesAreReported
<1>1. SUFFICES ASSUME result = "EndOfStream"
               PROVE  Cardinality(Missing) <= 3 * errors
  BY DEF LossesAreReported
<1>2. Missing \subseteq Lapsed
  BY <1>1, NothingLeft
<1>3. IsFiniteSet(Lapsed) /\ Cardinality(Lapsed) \in Nat
  BY OwedPictures DEF LInv
<1>4. Cardinality(Missing) <= Cardinality(Lapsed) /\ Cardinality(Missing) \in Nat
  BY <1>2, <1>3, FS_Subset, FS_CardinalityType
<1>5. ~ Resetting
  BY <1>1, IdleStands DEF LInv, Ended
<1>6. PICK e \in Nat : e = errors
  BY CursorsTyped DEF LInv
<1>7. Cardinality(Lapsed) <= 3 * e
  BY <1>5, <1>6 DEF LInv, Charged
<1> QED BY <1>3, <1>4, <1>6, <1>7

\* The steps left of a call are in order and match the caller's cursor, and at
\* any time the pictures lost in this timeline and those a checkpoint has lost
\* are at most three for each error counted with them.
THEOREM LossInductive == Spec => [](DInv /\ LInv)
<1>1. Init => LInv
  BY LossInit
<1>2. DInv /\ LInv /\ [Next]_vars => LInv'
  BY LossKept
<1>3. Spec => [](DInv /\ Bounded)
  BY ControlInductive
<1> QED BY <1>1, <1>2, <1>3, PTL DEF Spec

\* When receive_frame says that the stream has ended, every picture sent since
\* the last restart that is at the target or after, and that no IDR picture may
\* keep back, has been received, but at most three for each error reported: the
\* picture of a worker, the one being finished and the one being sent.
THEOREM LossesReported == Spec => []LossesAreReported
<1>1. DInv /\ LInv => LossesAreReported
  BY LossesCounted
<1> QED BY <1>1, LossInductive, PTL
=============================================================================
