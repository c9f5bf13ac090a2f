-------------------------- MODULE H264OrderProofs --------------------------
(***************************************************************************)
(* Frames are received in presentation order, each once, as long as no     *)
(* error is reported, in every stream that conforms: whichever pictures    *)
(* are skipped, deferred, finished by the caller or answered for by        *)
(* workers, and whatever calls, targets and checkpoints come between.      *)
(***************************************************************************)
EXTENDS H264LossProofs

----------
(* What holds of the elements of a sequence two by two *)

Paired(s, R) == \A j, k \in 1 .. Len(s) : j < k => <<s[j], s[k]>> \in R

LEMMA PairedNone ==
  ASSUME NEW R
  PROVE  Paired(<< >>, R)
<1>1. Len(<< >>) = 0
  BY EmptySeq
<1> QED BY <1>1 DEF Paired

LEMMA PairedTail ==
  ASSUME NEW S, NEW s \in Seq(S), NEW R, Paired(s, R), s # << >>
  PROVE  Paired(Tail(s), R) /\ \A x \in Range(Tail(s)) : <<Head(s), x>> \in R
<1>1. PICK t : t = Tail(s)
  OBVIOUS
<1>2. t \in Seq(S) /\ Len(t) = Len(s) - 1 /\ Len(s) \in Nat /\ \A k \in 1 .. Len(t) : t[k] = s[k + 1]
  BY <1>1, HeadTailProperties, LenProperties
<1>3. Paired(t, R)
  <2>1. \A j \in 1 .. Len(t) : j + 1 \in 1 .. Len(s)
    BY <1>2
  <2>2. \A j, k \in 1 .. Len(t) : j < k => j + 1 < k + 1
    BY <1>2
  <2> QED BY <1>2, <2>1, <2>2 DEF Paired
<1>4. ASSUME NEW x \in Range(t)
      PROVE  <<Head(s), x>> \in R
  <2>1. PICK k \in 1 .. Len(t) : x = t[k]
    BY <1>2, InRange
  <2>2. k + 1 \in 1 .. Len(s) /\ 1 \in 1 .. Len(s) /\ 1 < k + 1 /\ x = s[k + 1] /\ Head(s) = s[1]
    BY <1>2, <2>1
  <2> QED BY <2>2 DEF Paired
<1> QED BY <1>1, <1>3, <1>4

LEMMA PairedAppend ==
  ASSUME NEW S, NEW s \in Seq(S), NEW x \in S, NEW R, Paired(s, R),
         \A y \in Range(s) : <<y, x>> \in R
  PROVE  Paired(Append(s, x), R)
<1>1. PICK t : t = Append(s, x)
  OBVIOUS
<1>2. /\ t \in Seq(S) /\ Len(t) = Len(s) + 1 /\ Len(s) \in Nat
      /\ \A k \in 1 .. Len(s) : t[k] = s[k]
      /\ t[Len(s) + 1] = x
  BY <1>1, Appended
<1>3. ASSUME NEW j \in 1 .. Len(t), NEW k \in 1 .. Len(t), j < k
      PROVE  <<t[j], t[k]>> \in R
  <2>1. j \in 1 .. Len(s)
    BY <1>2, <1>3
  <2>2. CASE k \in 1 .. Len(s)
    BY <1>2, <1>3, <2>1, <2>2 DEF Paired
  <2>3. CASE k = Len(s) + 1
    <3>1. s[j] \in Range(s)
      BY <2>1, InRange
    <3> QED BY <1>2, <2>1, <2>3, <3>1
  <2> QED BY <1>2, <2>2, <2>3
<1> QED BY <1>1, <1>3 DEF Paired

\* What is left of a sequence: its elements but one, in their order.
LEMMA RemovedIs ==
  ASSUME NEW S, NEW s \in Seq(S), NEW k \in 1 .. Len(s)
  PROVE  /\ RemoveAt(s, k) \in Seq(S) /\ Len(RemoveAt(s, k)) = Len(s) - 1 /\ Len(s) \in Nat
         /\ \A j \in 1 .. Len(s) - 1 : RemoveAt(s, k)[j] = IF j < k THEN s[j] ELSE s[j + 1]
<1>1. Len(s) \in Nat
  BY LenProperties
<1>2. PICK a : a = SubSeq(s, 1, k - 1)
  OBVIOUS
<1>3. PICK b : b = SubSeq(s, k + 1, Len(s))
  OBVIOUS
<1>4. RemoveAt(s, k) = a \o b
  BY <1>2, <1>3 DEF RemoveAt
<1>5. /\ a \in Seq(S) /\ Len(a) = k - 1
      /\ \A i \in 1 .. k - 1 : a[i] = s[i]
  <2>1. \A i \in 1 .. k - 1 : s[i] \in S
    BY <1>1, ElementOfSeq
  <2>2. /\ a \in Seq(S) /\ Len(a) = k - 1
        /\ \A i \in 1 .. (k - 1) - 1 + 1 : a[i] = s[1 + i - 1]
    BY <1>1, <1>2, <2>1, SubSeqProperties
  <2>3. \A i \in 1 .. k - 1 : i \in 1 .. (k - 1) - 1 + 1 /\ 1 + i - 1 = i
    BY <1>1
  <2> QED BY <2>2, <2>3
<1>6. /\ b \in Seq(S) /\ Len(b) = Len(s) - k
      /\ \A i \in 1 .. Len(s) - k : b[i] = s[k + i]
  <2>1. \A i \in k + 1 .. Len(s) : s[i] \in S
    BY <1>1, ElementOfSeq
  <2>2. /\ b \in Seq(S) /\ Len(b) = Len(s) - k
        /\ \A i \in 1 .. Len(s) - (k + 1) + 1 : b[i] = s[k + 1 + i - 1]
    BY <1>1, <1>3, <2>1, SubSeqProperties
  <2>3. \A i \in 1 .. Len(s) - k : i \in 1 .. Len(s) - (k + 1) + 1 /\ k + 1 + i - 1 = k + i
    BY <1>1
  <2> QED BY <2>2, <2>3
<1>7. PICK c : c = a \o b
  OBVIOUS
<1>8. /\ c \in Seq(S) /\ Len(c) = Len(a) + Len(b)
      /\ \A i \in 1 .. Len(a) + Len(b) : c[i] = IF i <= Len(a) THEN a[i] ELSE b[i - Len(a)]
  BY <1>5, <1>6, <1>7, ConcatProperties
<1>9. ASSUME NEW j \in 1 .. Len(s) - 1
      PROVE  c[j] = IF j < k THEN s[j] ELSE s[j + 1]
  <2>1. j \in 1 .. Len(a) + Len(b)
    BY <1>1, <1>5, <1>6
  <2>2. CASE j < k
    <3>1. j <= Len(a) /\ j \in 1 .. k - 1
      BY <1>1, <1>5, <2>2
    <3> QED BY <1>5, <1>8, <2>1, <2>2, <3>1
  <2>3. CASE ~ (j < k)
    <3>1. ~ (j <= Len(a)) /\ j - Len(a) \in 1 .. Len(s) - k /\ k + (j - Len(a)) = j + 1
      BY <1>1, <1>5, <2>3
    <3> QED BY <1>6, <1>8, <2>1, <2>3, <3>1
  <2> QED BY <2>2, <2>3
<1>10. Len(a) + Len(b) = Len(s) - 1
  BY <1>1, <1>5, <1>6
<1> QED BY <1>1, <1>4, <1>7, <1>8, <1>9, <1>10

LEMMA PairedRemove ==
  ASSUME NEW S, NEW s \in Seq(S), NEW k \in 1 .. Len(s), NEW R, Paired(s, R)
  PROVE  /\ Paired(RemoveAt(s, k), R)
         /\ \A x \in Range(RemoveAt(s, k)) : <<x, s[k]>> \in R \/ <<s[k], x>> \in R
         /\ \A x \in Range(RemoveAt(s, k)) : \E j \in 1 .. Len(s) : j # k /\ x = s[j]
<1>1. PICK t : t = RemoveAt(s, k)
  OBVIOUS
<1>2. /\ t \in Seq(S) /\ Len(t) = Len(s) - 1 /\ Len(s) \in Nat
      /\ \A j \in 1 .. Len(s) - 1 : t[j] = IF j < k THEN s[j] ELSE s[j + 1]
  BY <1>1, RemovedIs
<1>3. ASSUME NEW i \in 1 .. Len(t), NEW j \in 1 .. Len(t), i < j
      PROVE  <<t[i], t[j]>> \in R
  <2>1. i \in 1 .. Len(s) /\ i + 1 \in 1 .. Len(s) /\ j \in 1 .. Len(s) /\ j + 1 \in 1 .. Len(s)
        /\ i \in 1 .. Len(s) - 1 /\ j \in 1 .. Len(s) - 1 /\ i < j + 1 /\ i + 1 < j + 1
    BY <1>2, <1>3
  <2>2. CASE i < k
    BY <1>2, <1>3, <2>1, <2>2 DEF Paired
  <2>3. CASE ~ (i < k)
    <3>1. ~ (j < k)
      BY <1>3, <2>1, <2>3
    <3> QED BY <1>2, <2>1, <2>3, <3>1 DEF Paired
  <2> QED BY <2>2, <2>3
<1>4. ASSUME NEW x \in Range(t)
      PROVE  /\ <<x, s[k]>> \in R \/ <<s[k], x>> \in R
             /\ \E j \in 1 .. Len(s) : j # k /\ x = s[j]
  <2>1. PICK i \in 1 .. Len(t) : x = t[i]
    BY <1>2, InRange
  <2>2. i \in 1 .. Len(s) - 1
    BY <1>2
  <2>3. PICK j \in 1 .. Len(s) : j # k /\ x = s[j]
    <3>1. CASE i < k
      BY <1>2, <2>1, <2>2, <3>1
    <3>2. CASE ~ (i < k)
      <4>1. i + 1 \in 1 .. Len(s) /\ i + 1 # k
        BY <2>2, <1>2, <3>2
      <4> QED BY <1>2, <2>1, <2>2, <3>2, <4>1
    <3> QED BY <3>1, <3>2
  <2>4. j < k \/ k < j
    BY <1>2, <2>3
  <2> QED BY <2>3, <2>4 DEF Paired
<1> QED BY <1>1, <1>3, <1>4 DEF Paired

LEMMA PairedRetain ==
  ASSUME NEW S, NEW s \in Seq(S), NEW positions, NEW R, Paired(s, R)
  PROVE  Paired(Retain(s, positions), R)
<1> DEFINE n == Len(s)
<1>1. n \in Nat /\ DOMAIN s = 1 .. n
  BY LenProperties
<1>2. PICK G \in [0 .. n -> Seq(S)] :
        Retains(G, s, positions, n) /\ Retain(s, positions) = G[n]
  BY RetainIs
<1> DEFINE Was(x, m) == \E k \in 1 .. m : x = s[k]
           I == {m \in 0 .. n : Paired(G[m], R) /\ \A x \in Range(G[m]) : Was(x, m)}
<1>3. 0 \in I
  <2>1. G[0] = << >> /\ Range(<< >>) = {}
    BY <1>2, NoSteps DEF Retains
  <2> QED BY <1>1, <2>1, PairedNone
<1>4. ASSUME NEW m \in 1 .. n, m - 1 \in I
      PROVE  m \in I
  <2>1. m \in 0 .. n /\ m - 1 \in 0 .. n /\ s[m] \in S /\ m \in Nat
    BY <1>1, ElementOfSeq
  <2>2. Paired(G[m - 1], R) /\ \A x \in Range(G[m - 1]) : Was(x, m - 1)
    BY <1>4
  <2>3. \A x : Was(x, m - 1) => Was(x, m)
    BY <2>1
  <2>4. CASE m \notin positions
    <3>1. G[m] = G[m - 1]
      BY <1>2, <2>4 DEF Retains
    <3> QED BY <2>1, <2>2, <2>3, <3>1
  <2>5. CASE m \in positions
    <3>1. G[m] = Append(G[m - 1], s[m]) /\ G[m - 1] \in Seq(S)
      BY <1>2, <2>1, <2>5 DEF Retains
    <3>2. \A y \in Range(G[m - 1]) : <<y, s[m]>> \in R
      <4>1. ASSUME NEW y \in Range(G[m - 1])
            PROVE  <<y, s[m]>> \in R
        <5>1. PICK k \in 1 .. m - 1 : y = s[k]
          BY <2>2
        <5>2. k \in 1 .. n /\ m \in 1 .. n /\ k < m
          BY <1>1, <2>1
        <5> QED BY <5>1, <5>2 DEF Paired
      <4> QED BY <4>1
    <3>3. Paired(G[m], R)
      BY <2>1, <2>2, <3>1, <3>2, PairedAppend
    <3>4. Range(G[m]) = Range(G[m - 1]) \cup {s[m]}
      BY <2>1, <3>1, RangeAppend
    <3>5. Was(s[m], m)
      BY <2>1
    <3> HIDE DEF Was
    <3> QED BY <2>1, <2>2, <2>3, <3>3, <3>4, <3>5
  <2> QED BY <2>4, <2>5
<1>5. n \in I
  <2>1. \A m \in 1 .. n : m - 1 \in I => m \in I
    BY <1>4
  <2> HIDE DEF I, n
  <2>2. \A m \in 0 .. n : m \in I
    BY <1>1, <1>3, <2>1, UpTo
  <2> QED BY <1>1, <2>2
<1> QED BY <1>2, <1>5

----------
(* Where the pictures are that have not been output *)

\* In the reorder buffer, at a worker, on its way out of the caller's hands, the
\* current one, about to start, or still to be handed over in this timeline.
Waits(i) == \E e \in Range(reorder) : e.picture = i
AtWorker(i) == \E c \in Range(pending_picture_completions) : c.picture = i
Leaving(i) == \E t \in Range(todo) : t.step \in Passing /\ t.arg = i
InHand(i) == current_picture.picture = i \/ current_skipped_picture = i

\* A packet that the caller calls discontinuous starts another timeline.
Enters(t) == t.step = "start" \/ (t.step = "guard" /\ ~ discontinuous)
Entering(i) == \E t \in Range(todo) : Enters(t) /\ t.arg = i

Open ==
  ~ discontinuous /\ ~ draining /\ \A t \in Range(todo) : t.step # "end stream"
Future(i) == Open /\ i >= next

Early(i) == Leaving(i) \/ InHand(i)
Contained(i) == Waits(i) \/ AtWorker(i) \/ Early(i)
Coming(i) == Contained(i) \/ Entering(i) \/ Future(i)

\* The next picture to start.
Edge == IF \E t \in Range(todo) : Enters(t) THEN next - 1 ELSE next

Emitted(i) == i \in Range(received) \/ Queued(outputs, i)

Sooner(i, n) == stream[i].pts < stream[n].pts

----------
(* The order of pictures *)

Different == {p \in Entry \X Entry : p[1].picture # p[2].picture}
InLine == {p \in Completion \X Completion : p[1].picture < p[2].picture}
InTurn ==
  {p \in Output \X Output :
     p[1] \in Frames /\ p[2] \in Frames => Sooner(p[1].value, p[2].value)}
Rising == {p \in Position \X Position : Sooner(p[1], p[2])}

\* Pictures reach the reorder buffer in decoding order, but for skipped ones,
\* which have no frame, and are of one coded video sequence, the one decoded.
Order ==
  /\ \A e \in Range(reorder) : e.poc = stream[e.picture].poc
  /\ Paired(reorder, Different)
  /\ Paired(pending_picture_completions, InLine)
  /\ \A i, n \in Position :
       /\ (Waits(i) \/ AtWorker(i)) /\ Early(n) => i < n
       /\ Waits(i) /\ AtWorker(n) => i < n \/ (i # n /\ ~ Materializes(i))
       /\ Contained(i) /\ Contained(n) => SameSequence(stream, i, n)
  /\ \A i \in Position :
       /\ Leaving(i) => Nothing
       /\ Contained(i) /\ ~ discontinuous => i < Edge /\ SameSequence(stream, i, Edge - 1)

\* The depth of the buffer and what is to be output are of the format decoded.
Fitting ==
  dpb_configuration # NoFormat =>
    /\ max_num_reorder_frames = ReorderDepth[dpb_configuration]
    /\ \A e \in Range(reorder) : e.shown => stream[e.picture].format = dpb_configuration
    /\ \A c \in Range(pending_picture_completions) :
         c.shown => stream[c.picture].format = dpb_configuration
    /\ \A i \in Position :
         Early(i) /\ Materializes(i) => stream[i].format = dpb_configuration

\* What has been output precedes what is still to be.
Emission ==
  /\ Paired(outputs, InTurn)
  /\ \A i \in Range(received), n \in Position : Queued(outputs, n) => Sooner(i, n)
  /\ \A i, n \in Position : Emitted(i) /\ Coming(n) /\ Materializes(n) => Sooner(i, n)

Tidy == Order /\ Fitting /\ Emission

InOrder == errors = 0 => Paired(received, Rising)

\* The steps left of a call, where the shape of the call does not say it: a
\* picture is pushed behind the workers, or is not output; and a new sequence
\* comes after one that ends.
Pushes ==
  todo # << >> /\ Head(todo).step = "push" =>
    pending_picture_completions = << >> \/ ~ Materializes(Head(todo).arg)
EndsApart ==
  \A t \in Range(todo) :
    t.step = "end sequence" => (next <= Len(stream) => stream[next].idr)

\* The same for what a checkpoint holds.
KeptOrder(c) ==
  /\ \A e \in Range(c.reorder) :
       /\ e.poc = stream[e.picture].poc
       /\ e.picture < c.position /\ SameSequence(stream, e.picture, c.position - 1)
       /\ e.shown => stream[e.picture].format = c.dpb_configuration
  /\ Paired(c.reorder, Different)
  /\ c.max_num_reorder_frames = ReorderDepth[c.dpb_configuration]

----------
(* What a stream conforms to *)

LEMMA StreamConforms ==
  ASSUME ConformingStreams, DInv
  PROVE  /\ Conforms(stream) /\ Len(stream) \in Nat
         /\ \A i \in Position : /\ i \in Nat /\ stream[i].pts \in Nat /\ stream[i].poc \in Int
                                /\ stream[i].format \in Formats
<1>1. stream \in Streams /\ stream \in Seq(Picture)
  BY DecoderAssumption DEF DInv, Types, DecoderAssumption
<1>2. Conforms(stream) /\ Len(stream) \in Nat
  BY <1>1, LenProperties DEF ConformingStreams
<1>3. ASSUME NEW i \in Position
      PROVE  /\ i \in Nat /\ stream[i].pts \in Nat /\ stream[i].poc \in Int
             /\ stream[i].format \in Formats
  <2>1. i \in 1 .. Len(stream) /\ i \in Nat
    BY <1>2 DEF Position
  <2>2. stream[i] \in Picture
    BY <1>1, <2>1, ElementOfSeq
  <2> QED BY <2>1, <2>2 DEF Picture, Formats
<1> QED BY <1>2, <1>3

\* Of two pictures of one sequence the one with the lower count comes first, and
\* of two sequences the first.
LEMMA TwoPictures ==
  ASSUME ConformingStreams, DInv, NEW i \in Position, NEW n \in Position
  PROVE  /\ i < n /\ ~ SameSequence(stream, i, n) => Sooner(i, n)
         /\ i # n /\ SameSequence(stream, i, n) /\ SameSequence(stream, n, i) =>
              /\ stream[i].format = stream[n].format
              /\ Sooner(i, n) <=> stream[i].poc < stream[n].poc
              /\ Sooner(i, n) \/ Sooner(n, i)
         /\ ~ (Sooner(i, n) /\ Sooner(n, i))
<1>1. Conforms(stream) /\ i \in Nat /\ n \in Nat
  BY StreamConforms
<1>2. /\ stream[i].pts \in Nat /\ stream[i].poc \in Int
      /\ stream[n].pts \in Nat /\ stream[n].poc \in Int
  BY StreamConforms
<1>3. \A j, k \in Position :
       j < k => IF SameSequence(stream, j, k)
                THEN /\ stream[j].format = stream[k].format
                     /\ \/ stream[j].pts < stream[k].pts /\ stream[j].poc < stream[k].poc
                        \/ stream[k].pts < stream[j].pts /\ stream[k].poc < stream[j].poc
                ELSE stream[j].pts < stream[k].pts
  BY <1>1 DEF Conforms, Position
<1>4. CASE i < n
  BY <1>1, <1>2, <1>3, <1>4 DEF Sooner
<1>5. CASE n < i
  BY <1>1, <1>2, <1>3, <1>5 DEF Sooner
<1>6. CASE n = i
  BY <1>1, <1>2, <1>6 DEF Sooner
<1> QED BY <1>1, <1>4, <1>5, <1>6

\* A picture of those between is of the sequence too.
LEMMA Between ==
  ASSUME NEW s, NEW i \in Nat, NEW j \in Int, NEW k \in Int, SameSequence(s, i, k), j <= k
  PROVE  SameSequence(s, i, j)
BY DEF SameSequence

----------
(* What keeps the order *)

LEMMA OrderKept ==
  ASSUME Order, UNCHANGED fixedVars, Range(reorder') \subseteq Range(reorder),
         Paired(reorder', Different), Paired(pending_picture_completions', InLine),
         \A i \in Position : Materializes(i)' => Materializes(i),
         \A i \in Position : (AtWorker(i)' => AtWorker(i)) /\ (Early(i)' => Early(i)),
         \A i \in Position : Leaving(i)' => Nothing',
         ~ discontinuous' => ~ discontinuous /\ Edge' = Edge
  PROVE  Order'
<1>1. Position' = Position /\ Entry' = Entry /\ Completion' = Completion /\ stream' = stream
  BY SetsFixed DEF fixedVars
<1>2. Different' = Different /\ InLine' = InLine
  BY <1>1 DEF Different, InLine
<1>3. Range(reorder)' = Range(reorder')
  OBVIOUS
<1>4. \A e \in Range(reorder)' : e.poc = stream'[e.picture].poc
  BY <1>1, <1>3 DEF Order
<1>5. Paired(reorder, Different)' /\ Paired(pending_picture_completions, InLine)'
  BY <1>2 DEF Paired
<1>6. \A i : Waits(i)' => Waits(i)
  BY <1>3 DEF Waits
<1>7. \A i \in Position : Contained(i)' => Contained(i)
  BY <1>6 DEF Contained
<1>8. ASSUME NEW i \in Position, NEW n \in Position
      PROVE  /\ (Waits(i) \/ AtWorker(i))' /\ Early(n)' => i < n
             /\ (Waits(i) /\ AtWorker(n))' => i < n \/ (i # n /\ ~ Materializes(i)')
             /\ (Contained(i) /\ Contained(n))' => SameSequence(stream', i, n)
  <2>1. /\ (Waits(i) \/ AtWorker(i)) /\ Early(n) => i < n
        /\ Waits(i) /\ AtWorker(n) => i < n \/ (i # n /\ ~ Materializes(i))
        /\ Contained(i) /\ Contained(n) => SameSequence(stream, i, n)
    BY DEF Order
  <2>2. (Waits(i) \/ AtWorker(i))' => Waits(i) \/ AtWorker(i)
    BY <1>6
  <2>3. Materializes(i)' => Materializes(i)
    OBVIOUS
  <2>4. (Waits(i) /\ AtWorker(n))' => Waits(i) /\ AtWorker(n)
    BY <1>6
  <2>5. (Contained(i) /\ Contained(n))' => Contained(i) /\ Contained(n)
    BY <1>7
  <2> QED BY <1>1, <2>1, <2>2, <2>3, <2>4, <2>5
<1>9. ASSUME NEW i \in Position
      PROVE  /\ Leaving(i)' => Nothing'
             /\ Contained(i)' /\ ~ discontinuous' =>
                  i < Edge' /\ SameSequence(stream', i, Edge' - 1)
  <2>1. Contained(i) /\ ~ discontinuous => i < Edge /\ SameSequence(stream, i, Edge - 1)
    BY DEF Order
  <2>2. Contained(i)' => Contained(i)
    BY <1>7
  <2> QED BY <1>1, <2>1, <2>2
<1> QED BY <1>1, <1>4, <1>5, <1>8, <1>9 DEF Order

LEMMA FittingKept ==
  ASSUME Fitting, UNCHANGED fixedVars, dpb_configuration' \in {NoFormat, dpb_configuration},
         UNCHANGED max_num_reorder_frames, Range(reorder') \subseteq Range(reorder),
         \A c \in Range(pending_picture_completions') :
           \E d \in Range(pending_picture_completions) : d.picture = c.picture /\ d.shown = c.shown,
         \A i \in Position : Materializes(i)' => Materializes(i),
         \A i \in Position : Early(i)' => Early(i)
  PROVE  Fitting'
<1>1. Position' = Position /\ stream' = stream
  BY SetsFixed DEF fixedVars
<1>2. Range(reorder)' = Range(reorder')
      /\ Range(pending_picture_completions)' = Range(pending_picture_completions')
  OBVIOUS
<1>3. SUFFICES ASSUME dpb_configuration' # NoFormat
               PROVE  Fitting'
  BY DEF Fitting
<1>4. dpb_configuration' = dpb_configuration /\ dpb_configuration # NoFormat
  BY <1>3
<1>5. /\ max_num_reorder_frames = ReorderDepth[dpb_configuration]
      /\ \A e \in Range(reorder) : e.shown => stream[e.picture].format = dpb_configuration
      /\ \A c \in Range(pending_picture_completions) :
           c.shown => stream[c.picture].format = dpb_configuration
      /\ \A i \in Position :
           Early(i) /\ Materializes(i) => stream[i].format = dpb_configuration
  BY <1>4 DEF Fitting
<1>6. \A c \in Range(pending_picture_completions') :
        c.shown => stream[c.picture].format = dpb_configuration
  BY <1>5
<1>7. \A i \in Position :
        (Early(i) /\ Materializes(i))' => stream[i].format = dpb_configuration
  BY <1>5
<1> QED BY <1>1, <1>2, <1>4, <1>5, <1>6, <1>7 DEF Fitting

LEMMA EmissionKept ==
  ASSUME Emission, UNCHANGED fixedVars, Paired(outputs', InTurn),
         \A i \in Range(received'), n \in Position : Queued(outputs', n) => Sooner(i, n),
         \A i \in Position : Materializes(i)' => Materializes(i),
         \A i \in Position : (Emitted(i)' => Emitted(i)) /\ (Coming(i)' => Coming(i))
  PROVE  Emission'
<1>1. Position' = Position /\ stream' = stream /\ Output' = Output /\ Frames' = Frames
  BY SetsFixed DEF fixedVars
<1>2. InTurn' = InTurn /\ \A i, n : Sooner(i, n)' <=> Sooner(i, n)
  BY <1>1 DEF InTurn, Sooner
<1>3. Paired(outputs, InTurn)'
  BY <1>2 DEF Paired
<1>4. \A i \in Range(received)', n \in Position : Queued(outputs, n)' => Sooner(i, n)'
  BY <1>2 DEF Queued
<1>5. \A i, n \in Position : (Emitted(i) /\ Coming(n) /\ Materializes(n))' => Sooner(i, n)'
  BY <1>2 DEF Emission
<1> QED BY <1>1, <1>3, <1>4, <1>5 DEF Emission

LEMMA TidyKept ==
  ASSUME Tidy, UNCHANGED fixedVars,
         Range(reorder') \subseteq Range(reorder), Paired(reorder', Different),
         UNCHANGED max_num_reorder_frames, dpb_configuration' \in {NoFormat, dpb_configuration},
         Paired(pending_picture_completions', InLine),
         \A c \in Range(pending_picture_completions') :
           \E d \in Range(pending_picture_completions) : d.picture = c.picture /\ d.shown = c.shown,
         Paired(outputs', InTurn),
         \A i \in Range(received'), n \in Position : Queued(outputs', n) => Sooner(i, n),
         \A i \in Position : Emitted(i)' => Emitted(i),
         \A i \in Position : Materializes(i)' => Materializes(i),
         \A i \in Position : Early(i)' => Early(i),
         \A i \in Position : Leaving(i)' => Nothing',
         \A i \in Position : (Entering(i)' => Coming(i)) /\ (Future(i)' => Coming(i)),
         ~ discontinuous' => ~ discontinuous /\ Edge' = Edge
  PROVE  Tidy'
<1>1. Order /\ Fitting /\ Emission
  BY DEF Tidy
<1>2. \A i : AtWorker(i)' => AtWorker(i)
  <2>1. Range(pending_picture_completions)' = Range(pending_picture_completions')
    OBVIOUS
  <2> QED BY <2>1 DEF AtWorker
<1>3. \A i : Waits(i)' => Waits(i)
  <2>1. Range(reorder)' = Range(reorder')
    OBVIOUS
  <2> QED BY <2>1 DEF Waits
<1>4. Order'
  BY <1>1, <1>2, OrderKept
<1>5. Fitting'
  BY <1>1, FittingKept
<1>6. \A i \in Position : Coming(i)' => Coming(i)
  BY <1>2, <1>3 DEF Coming, Contained
<1>7. Emission'
  BY <1>1, <1>6, EmissionKept
<1> QED BY <1>4, <1>5, <1>7 DEF Tidy

\* The steps left change, the pictures stay where they are.
LEMMA WaysKept ==
  ASSUME Order, UNCHANGED pictureVars, UNCHANGED <<stream, next, discontinuous>>, draining => draining',
         \A t \in Range(todo') : t \in Range(todo) \/ t.step \notin Passing \cup {"start", "guard"},
         \A t \in Range(todo) : /\ t.step \in {"start", "guard"} => t \in Range(todo')
                                /\ t.step = "end stream" => draining' \/ t \in Range(todo')
  PROVE  /\ \A i \in Position : Early(i)' => Early(i)
         /\ \A i \in Position : Leaving(i)' => Nothing'
         /\ \A i \in Position : (Entering(i)' => Coming(i)) /\ (Future(i)' => Coming(i))
         /\ Edge' = Edge
<1>1. Range(todo)' = Range(todo') /\ Position' = Position
  BY DEF Position
<1>2. /\ current_picture' = current_picture
      /\ current_skipped_picture' = current_skipped_picture
  BY DEF pictureVars
<1>3. \A i : Leaving(i)' => Leaving(i)
  BY <1>1 DEF Leaving
<1>4. \A i : InHand(i)' => InHand(i)
  BY <1>2 DEF InHand
<1>5. \A i \in Position : Early(i)' => Early(i)
  BY <1>3, <1>4 DEF Early
<1>6. \A i \in Position : Leaving(i)' => Nothing'
  BY <1>2, <1>3 DEF Order, Nothing
<1>7. \A t : Enters(t)' => Enters(t)
  BY DEF Enters
<1>8. \A t : Enters(t) => Enters(t)' /\ t.step \in {"start", "guard"}
  BY DEF Enters
<1>9. \A i : Entering(i)' => Entering(i)
  BY <1>1, <1>7, <1>8 DEF Entering
<1>10. Open' => Open
  BY <1>1 DEF Open
<1>11. \A i : Future(i)' => Future(i)
  BY <1>10 DEF Future
<1>12. Edge' = Edge
  BY <1>1, <1>7, <1>8 DEF Edge
<1> QED BY <1>5, <1>6, <1>9, <1>11, <1>12 DEF Coming

\* A step that moves no picture, but may empty the reorder buffer or throw away
\* what a worker has answered.
LEMMA TidyStill ==
  ASSUME DInv, Tidy, UNCHANGED fixedVars, UNCHANGED pictureVars,
         UNCHANGED <<next, discontinuous, output_start_time, max_num_reorder_frames>>,
         UNCHANGED <<outputs, received>>,
         draining => draining', dpb_configuration' \in {NoFormat, dpb_configuration},
         \A t \in Range(todo') : t \in Range(todo) \/ t.step \notin Passing \cup {"start", "guard"},
         \A t \in Range(todo) : /\ t.step \in {"start", "guard"} => t \in Range(todo')
                                /\ t.step = "end stream" => draining' \/ t \in Range(todo'),
         reorder' = reorder \/ reorder' = << >>,
         \/ UNCHANGED pending_picture_completions
         \/ /\ pending_picture_completions # << >>
            /\ pending_picture_completions' = Tail(pending_picture_completions)
  PROVE  Tidy'
<1>1. Order /\ Emission /\ UNCHANGED stream
  BY DEF Tidy, fixedVars
<1>2. Range(reorder') \subseteq Range(reorder) /\ Paired(reorder', Different)
  <2>1. Range(<< >>) = {}
    BY NoSteps
  <2> QED BY <1>1, <2>1, PairedNone DEF Order
<1>3. /\ Paired(pending_picture_completions', InLine)
      /\ Range(pending_picture_completions') \subseteq Range(pending_picture_completions)
  <2>1. Paired(pending_picture_completions, InLine)
    BY <1>1 DEF Order
  <2>2. pending_picture_completions \in Seq(Completion)
    BY DEF DInv, Types, PendingTyped
  <2>3. CASE /\ pending_picture_completions # << >>
             /\ pending_picture_completions' = Tail(pending_picture_completions)
    BY <2>1, <2>2, <2>3, PairedTail, RangeTail
  <2> QED BY <2>1, <2>3
<1>4. /\ \A i \in Position : Early(i)' => Early(i)
      /\ \A i \in Position : Leaving(i)' => Nothing'
      /\ \A i \in Position : (Entering(i)' => Coming(i)) /\ (Future(i)' => Coming(i))
      /\ Edge' = Edge
  BY <1>1, WaysKept
<1>5. /\ Paired(outputs', InTurn)
      /\ \A i \in Range(received'), n \in Position : Queued(outputs', n) => Sooner(i, n)
      /\ \A i \in Position : Emitted(i)' => Emitted(i)
  <2>1. \A n : Queued(outputs, n)' <=> Queued(outputs, n)
    BY DEF Queued
  <2>2. Range(received)' = Range(received)
    OBVIOUS
  <2> QED BY <1>1, <2>1, <2>2 DEF Emission, Emitted
<1>6. \A i : Materializes(i)' => Materializes(i)
  <2>1. UNCHANGED output_start_time
    OBVIOUS
  <2> QED BY <2>1, SameTarget
<1>7. ~ discontinuous' => ~ discontinuous /\ Edge' = Edge
  BY <1>4
<1>8. UNCHANGED max_num_reorder_frames
  OBVIOUS
<1>9. \A c \in Range(pending_picture_completions') :
        \E d \in Range(pending_picture_completions) : d.picture = c.picture /\ d.shown = c.shown
  BY <1>3
<1> QED BY <1>2, <1>3, <1>4, <1>5, <1>6, <1>7, <1>8, <1>9, TidyKept

\* What is left when a step is done, or a call is over.
LEMMA StepsOver ==
  ASSUME DInv, AInv, todo # << >>,
         \/ todo' = todo
         \/ todo' = Tail(todo) /\ Head(todo).step \notin {"start", "guard", "end stream"}
         \/ todo' = Tail(todo) /\ Head(todo).step = "end stream" /\ draining'
         \/ todo' = << >> /\ Head(todo).step \in Closing \ {"guard"}
  PROVE  /\ \A t \in Range(todo') :
              t \in Range(todo) \/ t.step \notin Passing \cup {"start", "guard"}
         /\ \A t \in Range(todo) : /\ t.step \in {"start", "guard"} => t \in Range(todo')
                                   /\ t.step = "end stream" => draining' \/ t \in Range(todo')
<1>1. Range(todo) = {Head(todo)} \cup Range(Tail(todo))
      /\ (Head(todo).step \in Closing => Tail(todo) = << >>)
  BY Ahead DEF AInv, Agenda
<1>2. CASE todo' = todo \/ todo' = Tail(todo)
  BY <1>1, <1>2 DEF Closing
<1>3. CASE todo' = << >> /\ Head(todo).step \in Closing \ {"guard"}
  <2>1. PICK nothing : nothing = << >>
    OBVIOUS
  <2>2. Range(nothing) = {}
    BY <2>1, NoSteps
  <2>3. Range(todo) = {Head(todo)} /\ Range(todo') = {}
    BY <1>1, <1>3, <2>1, <2>2
  <2>4. Head(todo).step \notin {"start", "guard", "end stream"}
    BY <1>3 DEF Closing
  <2> QED BY <2>3, <2>4
<1> QED BY <1>2, <1>3

LEMMA QuietTidy ==
  ASSUME DInv, AInv, Tidy,
         \/ (Poll \/ Join \/ Room) /\ Passes
         \/ FinishNothing \/ Discard \/ Record \/ Prepare \/ ClearReorder \/ EndSequence
         \/ EndStream \/ Accepted \/ Snapshot
         \/ DrainReorder /\ reorder = << >>
  PROVE  Tidy'
<1>1. CASE Prepare
  <2>1. /\ UNCHANGED fixedVars /\ UNCHANGED codingVars /\ UNCHANGED quietVars
        /\ UNCHANGED reorderVars /\ UNCHANGED outputVars /\ UNCHANGED pending_picture_completions
        /\ todo # << >> /\ Head(todo).step = "prepare"
        /\ \A b \in Range(todo') :
             b \in Range(todo) \/ b.step \in {"discard", "clear", "join", "drain"}
        /\ Range(Tail(todo)) \subseteq Range(todo')
    BY <1>1, PrepareIs
  <2>2. Range(todo) = {Head(todo)} \cup Range(Tail(todo))
    BY <2>1, Ahead DEF AInv, Agenda
  <2>3. \A t \in Range(todo') : t \in Range(todo) \/ t.step \notin Passing \cup {"start", "guard"}
    BY <2>1 DEF Passing
  <2>4. \A t \in Range(todo) : /\ t.step \in {"start", "guard"} => t \in Range(todo')
                               /\ t.step = "end stream" => draining' \/ t \in Range(todo')
    BY <2>1, <2>2
  <2>5. /\ UNCHANGED pictureVars /\ UNCHANGED dpb_configuration
        /\ UNCHANGED <<next, discontinuous, output_start_time, max_num_reorder_frames>>
        /\ UNCHANGED <<outputs, received>> /\ UNCHANGED draining /\ UNCHANGED reorder
    BY <2>1, QuietKept, CodingKept DEF reorderVars, outputVars
  <2> QED BY <2>1, <2>3, <2>4, <2>5, TidyStill
<1>2. CASE ~ Prepare
  <2>1. /\ todo # << >> /\ UNCHANGED fixedVars
        /\ \/ todo' = todo
           \/ todo' = Tail(todo) /\ Head(todo).step \notin {"start", "guard", "end stream"}
           \/ todo' = Tail(todo) /\ Head(todo).step = "end stream" /\ draining'
           \/ todo' = << >> /\ Head(todo).step \in Closing \ {"guard"}
    <3>1. (Poll \/ Join \/ Room \/ FinishNothing) /\ Passes =>
            /\ todo # << >> /\ UNCHANGED fixedVars /\ todo' = Tail(todo)
            /\ Head(todo).step \in {"poll", "join", "room", "finish"}
      BY DEF Poll, Join, Room, FinishNothing, Passes, Continue, Executes
    <3>2. Discard \/ ClearReorder \/ Record \/ EndSequence \/ (DrainReorder /\ reorder = << >>) =>
            /\ todo # << >> /\ UNCHANGED fixedVars /\ (todo' = todo \/ todo' = Tail(todo))
            /\ Head(todo).step \in {"discard", "clear", "record", "end sequence", "drain"}
      BY DEF Discard, ClearReorder, Record, EndSequence, DrainReorder, Continue, Executes
    <3>3. EndStream => /\ todo # << >> /\ UNCHANGED fixedVars /\ todo' = Tail(todo)
                       /\ Head(todo).step = "end stream" /\ draining' = TRUE
      BY DEF EndStream, Continue, Executes
    <3>4. Accepted \/ Snapshot => /\ todo # << >> /\ UNCHANGED fixedVars /\ todo' = << >>
                                  /\ Head(todo).step \in {"accepted", "snapshot"}
      BY DEF Accepted, Snapshot, Return, Executes
    <3>5. {"accepted", "snapshot"} \subseteq Closing \ {"guard"}
      BY DEF Closing
    <3>6. FinishNothing => Passes
      BY DEF FinishNothing
    <3> QED BY <1>2, <3>1, <3>2, <3>3, <3>4, <3>5, <3>6
  <2>2. /\ UNCHANGED pictureVars
        /\ UNCHANGED <<next, discontinuous, output_start_time, max_num_reorder_frames>>
        /\ UNCHANGED <<outputs, received>>
        /\ draining => draining'
        /\ dpb_configuration' \in {NoFormat, dpb_configuration}
        /\ reorder' = reorder \/ reorder' = << >>
    <3>1. Passes \/ Discard \/ ClearReorder \/ (DrainReorder /\ reorder = << >>) =>
            /\ UNCHANGED codingVars /\ UNCHANGED quietVars /\ UNCHANGED outputVars
            /\ UNCHANGED max_num_reorder_frames /\ (reorder' = reorder \/ reorder' = << >>)
      BY DEF Passes, Discard, ClearReorder, DrainReorder, reorderVars
    <3>2. CASE Passes \/ Discard \/ ClearReorder \/ (DrainReorder /\ reorder = << >>)
      BY <3>1, <3>2, QuietKept, CodingKept DEF outputVars
    <3>3. CASE Record \/ EndSequence
      <4>1. /\ UNCHANGED pictureVars /\ UNCHANGED quietVars /\ UNCHANGED outputVars
            /\ UNCHANGED reorderVars /\ dpb_configuration' \in {NoFormat, dpb_configuration}
        BY <3>3 DEF Record, EndSequence
      <4> QED BY <4>1, QuietKept DEF outputVars, reorderVars
    <3>4. CASE EndStream \/ Accepted \/ Snapshot
      <4>1. /\ UNCHANGED codingVars /\ UNCHANGED outputVars /\ UNCHANGED reorderVars
            /\ UNCHANGED toldVars /\ UNCHANGED <<next, discontinuous, output_start_time>>
        BY <3>4 DEF EndStream, Accepted, Snapshot, modeVars
      <4>2. draining' = draining \/ draining' = TRUE
        BY <3>4 DEF EndStream, Accepted, Snapshot, modeVars
      <4> QED BY <4>1, <4>2, CodingKept DEF outputVars, reorderVars, toldVars
    <3> QED BY <1>2, <3>2, <3>3, <3>4 DEF FinishNothing
  <2>3. \/ UNCHANGED pending_picture_completions
        \/ /\ pending_picture_completions # << >>
           /\ pending_picture_completions' = Tail(pending_picture_completions)
    BY <1>2 DEF FinishNothing, Passes, Discard, Record, ClearReorder, EndSequence, EndStream,
                Accepted, Snapshot, DrainReorder
  <2>4. /\ \A t \in Range(todo') :
             t \in Range(todo) \/ t.step \notin Passing \cup {"start", "guard"}
        /\ \A t \in Range(todo) : /\ t.step \in {"start", "guard"} => t \in Range(todo')
                                  /\ t.step = "end stream" => draining' \/ t \in Range(todo')
    BY <2>1, StepsOver
  <2> QED BY <2>1, <2>2, <2>3, <2>4, TidyStill
<1> QED BY <1>1, <1>2

----------
(* Calls *)

\* A call begins: the pictures stay where they are.
LEMMA BegunTidy ==
  ASSUME DInv, Tidy, NEW s, Begins(s),
         \A t \in Range(s) : t.step \notin Passing,
         \A i \in Position : (Entering(i)' => Coming(i)) /\ (Future(i)' => Coming(i)),
         ~ discontinuous' => ~ discontinuous /\ Edge' = Edge
  PROVE  Tidy'
<1>1. Order /\ Emission
  BY DEF Tidy
<1>2. /\ UNCHANGED fixedVars /\ UNCHANGED codingVars /\ UNCHANGED reorderVars
      /\ UNCHANGED <<outputs, received, output_start_time, pending_picture_completions>>
      /\ Range(todo)' = Range(s)
  BY DEF Begins, modeVars, outputVars, toldVars
<1>3. /\ UNCHANGED <<current_picture, current_skipped_picture, dpb_configuration>>
      /\ UNCHANGED max_num_reorder_frames /\ reorder' = reorder
  BY <1>2, CodingKept DEF reorderVars
<1>4. \A i : ~ Leaving(i)'
  BY <1>2 DEF Leaving
<1>5. \A i \in Position : (Early(i)' => Early(i)) /\ (Leaving(i)' => Nothing')
  <2>1. \A i : InHand(i)' => InHand(i)
    BY <1>3 DEF InHand
  <2> QED BY <1>4, <2>1 DEF Early
<1>6. /\ Paired(outputs', InTurn)
      /\ \A i \in Range(received'), n \in Position : Queued(outputs', n) => Sooner(i, n)
      /\ \A i \in Position : Emitted(i)' => Emitted(i)
  <2>1. \A n : Queued(outputs, n)' <=> Queued(outputs, n)
    BY <1>2 DEF Queued
  <2>2. Range(received)' = Range(received)
    BY <1>2
  <2> QED BY <1>1, <1>2, <2>1, <2>2 DEF Emission, Emitted
<1>7. \A i : Materializes(i)' => Materializes(i)
  BY <1>2, SameTarget
<1>8. /\ Range(reorder') \subseteq Range(reorder) /\ Paired(reorder', Different)
      /\ Paired(pending_picture_completions', InLine)
      /\ \A c \in Range(pending_picture_completions') :
           \E d \in Range(pending_picture_completions) : d.picture = c.picture /\ d.shown = c.shown
  BY <1>1, <1>2, <1>3 DEF Order
<1> QED BY <1>2, <1>3, <1>5, <1>6, <1>7, <1>8, TidyKept

LEMMA SendPacketTidy ==
  ASSUME DInv, Tidy, send_packet
  PROVE  Tidy'
<1>1. PICK n \in Position : n = next
  <2>1. stream \in Seq(Picture)
    BY DecoderAssumption DEF DInv, Types, DecoderAssumption
  <2>2. DOMAIN stream = 1 .. Len(stream)
    BY <2>1, LenProperties
  <2> QED BY <2>2 DEF send_packet, Position
<1>2. PICK a \in TypedStep : a = Do("poll", 0) /\ a.step = "poll"
  BY PlainSteps
<1>3. PICK b \in TypedStep : b = Do("guard", n) /\ b.step = "guard" /\ b.arg = n
  BY <1>1, PictureSteps DEF Do
<1>4. PICK s : s = <<a, b>>
  OBVIOUS
<1>5. Range(s) = {a, b}
  BY <1>2, <1>3, <1>4, PollThenWhole
<1>6. Begins(s) /\ next' = next + 1 /\ UNCHANGED discontinuous /\ ~ draining
  BY <1>1, <1>2, <1>3, <1>4 DEF send_packet
<1>7. Range(todo') = {a, b} /\ todo = << >>
  BY <1>5, <1>6 DEF Begins, Idle
<1>8. PICK nothing : nothing = todo /\ Range(nothing) = {}
  BY <1>7, NoSteps
<1>9. \A t \in Range(s) : t.step \notin Passing
  BY <1>2, <1>3, <1>5 DEF Passing
<1>10. CASE discontinuous
  <2>1. \A i : ~ Entering(i)'
    BY <1>2, <1>3, <1>6, <1>7, <1>10 DEF Entering, Enters
  <2>2. \A i : ~ Future(i)'
    BY <1>6, <1>10 DEF Future, Open
  <2>3. discontinuous'
    BY <1>6, <1>10
  <2> QED BY <1>6, <1>9, <2>1, <2>2, <2>3, BegunTidy
<1>11. CASE ~ discontinuous
  <2>1. Open
    BY <1>6, <1>8, <1>11 DEF Open
  <2>2. n \in Int
    BY DEF Position
  <2>3. \A i \in Position : i >= n => Coming(i)
    BY <1>1, <2>1 DEF Coming, Future
  <2>4. \A i \in Position : Entering(i)' => i >= n
    BY <1>2, <1>3, <1>7, <2>2 DEF Entering, Enters
  <2>5. \A i \in Position : Future(i)' => i >= n
    <3>1. \A i \in Position : i \in Int
      BY DEF Position
    <3> QED BY <1>1, <1>6, <2>2, <3>1 DEF Future
  <2>6. Edge' = n /\ Edge = n
    <3>1. \E t \in Range(todo') : Enters(t)'
      BY <1>3, <1>6, <1>7, <1>11 DEF Enters
    <3>2. Edge' = next' - 1
      <4>1. Range(todo)' = Range(todo')
        OBVIOUS
      <4> QED BY <3>1, <4>1 DEF Edge
    <3>3. Edge = next
      BY <1>8 DEF Edge
    <3> QED BY <1>1, <1>6, <2>2, <3>2, <3>3
  <2> QED BY <1>6, <1>9, <1>11, <2>3, <2>4, <2>5, <2>6, BegunTidy
<1> QED BY <1>10, <1>11

LEMMA SilentCallTidy ==
  ASSUME DInv, Tidy, NEW s, CallSteps(s), \A t \in Range(s) : t.step # "guard",
         UNCHANGED <<next, discontinuous>>
  PROVE  Tidy'
<1>1. /\ Begins(s) /\ todo = << >> /\ Range(todo)' = Range(s) /\ UNCHANGED draining
      /\ \A t \in Range(s) : t.step \notin Finishing \cup {"start", "guard"}
  BY DEF CallSteps, Begins, Idle, modeVars
<1>2. PICK nothing : nothing = todo /\ Range(nothing) = {}
  BY <1>1, NoSteps
<1>3. \A t \in Range(s) : t.step \notin Passing
  BY <1>1 DEF Finishing
<1>4. \A i : ~ Entering(i)'
  BY <1>1 DEF Entering, Enters
<1>5. \A i : Future(i)' => Future(i)
  BY <1>1, <1>2 DEF Future, Open
<1>6. Edge' = next' /\ Edge = next
  BY <1>1, <1>2 DEF Edge, Enters
<1> QED BY <1>1, <1>3, <1>4, <1>5, <1>6, BegunTidy DEF Coming

LEMMA JumpTidy ==
  ASSUME DInv, Tidy, NEW k, jump(k)
  PROVE  Tidy'
<1>1. PICK s : s = << >>
  OBVIOUS
<1>2. Begins(s) /\ discontinuous' = TRUE /\ Range(s) = {}
  BY <1>1, NoSteps DEF jump
<1>3. Range(todo)' = {}
  BY <1>2 DEF Begins
<1>4. \A i : ~ Entering(i)' /\ ~ Future(i)'
  BY <1>2, <1>3 DEF Entering, Future, Open
<1> QED BY <1>2, <1>4, BegunTidy

LEMMA RetargetTidy ==
  ASSUME DInv, Tidy, NEW target \in Targets, retarget_seek_forward(target)
  PROVE  Tidy'
<1>1. /\ UNCHANGED fixedVars /\ UNCHANGED todo /\ UNCHANGED codingVars
      /\ UNCHANGED <<next, discontinuous, draining, reorder, max_num_reorder_frames>>
      /\ UNCHANGED pending_picture_completions
      /\ outputs' = << >> \/ outputs' = QueuedFrom(target)
      /\ received' = Retain(received, {k \in DOMAIN received : NotBefore(target, received[k])})
  BY DEF retarget_seek_forward, Retarget, reorderVars, callerVars
<1>2. Order /\ Emission
  BY DEF Tidy
<1>3. UNCHANGED pictureVars /\ UNCHANGED <<current_picture, current_skipped_picture>>
      /\ UNCHANGED dpb_configuration
  BY <1>1, CodingKept
<1>4. outputs \in Seq(Output) /\ received \in Seq(Position)
  BY DEF DInv, Types, OutputsTyped, CallerTyped
<1>5. Paired(outputs', InTurn) /\ Range(outputs') \subseteq Range(outputs)
  <2>1. PICK nothing : nothing = << >>
    OBVIOUS
  <2>2. Range(nothing) = {} /\ Paired(nothing, InTurn)
    BY <2>1, NoSteps, PairedNone
  <2>3. PICK kept :
          kept = {k \in DOMAIN outputs : IsFrame(k) => NotBefore(target, outputs[k].value)}
    OBVIOUS
  <2>4. Paired(Retain(outputs, kept), InTurn)
    BY <1>2, <1>4, PairedRetain DEF Emission
  <2>5. Range(Retain(outputs, kept)) \subseteq Range(outputs)
    BY <1>4, RetainedWas DEF Range
  <2> QED BY <1>1, <2>1, <2>2, <2>3, <2>4, <2>5 DEF QueuedFrom
<1>6. Range(received') \subseteq Range(received)
  BY <1>1, <1>4, RetainedWas DEF Range
<1>7. \A n : Queued(outputs', n) => Queued(outputs, n)
  BY <1>5 DEF Queued
<1>8. \A i \in Position : Emitted(i)' => Emitted(i)
  <2>1. Range(received)' = Range(received') /\ \A n : Queued(outputs, n)' <=> Queued(outputs', n)
    BY DEF Queued
  <2> QED BY <1>6, <1>7, <2>1 DEF Emitted
<1>9. \A i \in Range(received'), n \in Position : Queued(outputs', n) => Sooner(i, n)
  BY <1>2, <1>6, <1>7 DEF Emission
<1>10. \A i \in Position : Materializes(i)' => Materializes(i)
  BY LaterTarget
<1>11. Range(todo)' = Range(todo) /\ UNCHANGED <<stream, next, discontinuous>>
  BY <1>1 DEF fixedVars
<1>12. /\ \A i \in Position : Early(i)' => Early(i)
       /\ \A i \in Position : Leaving(i)' => Nothing'
       /\ \A i \in Position : (Entering(i)' => Coming(i)) /\ (Future(i)' => Coming(i))
       /\ Edge' = Edge
  BY <1>1, <1>2, <1>3, <1>11, WaysKept
<1>13. /\ Range(reorder') \subseteq Range(reorder) /\ Paired(reorder', Different)
       /\ Paired(pending_picture_completions', InLine)
       /\ \A c \in Range(pending_picture_completions') :
            \E d \in Range(pending_picture_completions) :
              d.picture = c.picture /\ d.shown = c.shown
  BY <1>1, <1>2 DEF Order
<1> QED BY <1>1, <1>3, <1>5, <1>8, <1>9, <1>10, <1>12, <1>13, TidyKept

LEMMA WorkerTidy ==
  ASSUME DInv, Tidy, WorkerAnswers \/ UNCHANGED vars
  PROVE  Tidy'
<1>1. /\ UNCHANGED fixedVars /\ UNCHANGED todo /\ UNCHANGED codingVars
      /\ UNCHANGED <<next, discontinuous, draining, output_start_time>>
      /\ UNCHANGED <<reorder, max_num_reorder_frames, outputs, received>>
  <2>1. CASE WorkerAnswers
    BY <2>1 DEF WorkerAnswers, modeVars, reorderVars, outputVars, callerVars, toldVars
  <2>2. CASE UNCHANGED vars
    BY <2>2 DEF vars, codingVars, modeVars, reorderVars, outputVars, callerVars, toldVars
  <2> QED BY <2>1, <2>2
<1>2. Order /\ Emission
  BY DEF Tidy
<1>3. UNCHANGED pictureVars /\ UNCHANGED dpb_configuration
  BY <1>1, CodingKept
<1>4. PICK q : q = pending_picture_completions'
  OBVIOUS
<1>5. PICK p : p = pending_picture_completions
  OBVIOUS
<1>6. p \in Seq(Completion) /\ DOMAIN p = 1 .. Len(p) /\ Paired(p, InLine)
  BY <1>2, <1>5, LenProperties DEF DInv, Types, PendingTyped, Order
<1>7. /\ q \in Seq(Completion) /\ Len(q) = Len(p)
      /\ \A j \in 1 .. Len(p) : q[j].picture = p[j].picture /\ q[j].shown = p[j].shown
  <2>1. CASE UNCHANGED vars
    BY <1>4, <1>5, <1>6, <2>1 DEF vars
  <2>2. CASE WorkerAnswers
    <3>1. PICK k \in 1 .. Len(p) : q = [p EXCEPT ![k].ready = TRUE]
      BY <1>4, <1>5, <1>6, <2>2 DEF WorkerAnswers
    <3>2. \A c \in Completion : /\ [c EXCEPT !.ready = TRUE].picture = c.picture
                                /\ [c EXCEPT !.ready = TRUE].shown = c.shown
                                /\ [c EXCEPT !.ready = TRUE] \in Completion
      BY DEF Completion
    <3>3. \A j \in 1 .. Len(p) :
            /\ p[j] \in Completion
            /\ q[j] = IF j = k THEN [p[j] EXCEPT !.ready = TRUE] ELSE p[j]
      BY <1>6, <3>1, ElementOfSeq
    <3>4. \A j \in 1 .. Len(p) : q[j].picture = p[j].picture /\ q[j].shown = p[j].shown
      BY <3>2, <3>3
    <3>5. q \in [1 .. Len(p) -> Completion]
      BY <1>6, <3>1, <3>2, <3>3
    <3>6. Len(p) \in Nat
      BY <1>6, LenProperties
    <3>7. q \in Seq(Completion) /\ Len(q) = Len(p)
      BY <3>5, <3>6, LenProperties
    <3> QED BY <3>4, <3>7
  <2> QED BY <2>1, <2>2
<1>8. Paired(q, InLine)
  <2>1. ASSUME NEW j \in 1 .. Len(q), NEW k \in 1 .. Len(q), j < k
        PROVE  <<q[j], q[k]>> \in InLine
    <3>1. <<p[j], p[k]>> \in InLine
      BY <1>6, <1>7, <2>1 DEF Paired
    <3>2. p[j].picture < p[k].picture
      BY <3>1 DEF InLine
    <3>3. q[j] \in Completion /\ q[k] \in Completion
      BY <1>7, ElementOfSeq
    <3> QED BY <1>7, <3>2, <3>3, <2>1 DEF InLine
  <2> QED BY <2>1 DEF Paired
<1>9. \A c \in Range(q) : \E d \in Range(p) : d.picture = c.picture /\ d.shown = c.shown
  BY <1>6, <1>7, InRange
<1>10. Range(todo)' = Range(todo) /\ UNCHANGED <<stream, next, discontinuous>>
  BY <1>1 DEF fixedVars
<1>11. /\ \A i \in Position : Early(i)' => Early(i)
       /\ \A i \in Position : Leaving(i)' => Nothing'
       /\ \A i \in Position : (Entering(i)' => Coming(i)) /\ (Future(i)' => Coming(i))
       /\ Edge' = Edge
  BY <1>1, <1>2, <1>3, <1>10, WaysKept
<1>12. /\ Paired(outputs', InTurn)
       /\ \A i \in Range(received'), n \in Position : Queued(outputs', n) => Sooner(i, n)
       /\ \A i \in Position : Emitted(i)' => Emitted(i)
  <2>1. \A n : Queued(outputs, n)' <=> Queued(outputs, n)
    BY <1>1 DEF Queued
  <2>2. Range(received)' = Range(received)
    BY <1>1
  <2> QED BY <1>1, <1>2, <2>1, <2>2 DEF Emission, Emitted
<1>13. \A i \in Position : Materializes(i)' => Materializes(i)
  BY <1>1, SameTarget
<1>14. Range(reorder') \subseteq Range(reorder) /\ Paired(reorder', Different)
  BY <1>1, <1>2 DEF Order
<1> QED BY <1>1, <1>3, <1>4, <1>5, <1>8, <1>9, <1>11, <1>12, <1>13, <1>14, TidyKept

----------
(* A decoder that holds no picture *)

LEMMA EmptyTidy ==
  ASSUME UNCHANGED fixedVars, Nothing',
         reorder' = << >>, pending_picture_completions' = << >>,
         outputs' = << >>, received' = << >>,
         \A t \in Range(todo') : t.step \notin Passing,
         dpb_configuration' # NoFormat => max_num_reorder_frames' = ReorderDepth[dpb_configuration']
  PROVE  Tidy'
<1>1. PICK nothing : nothing = << >> /\ Range(nothing) = {}
  BY NoSteps
<1>2. /\ Range(reorder)' = {} /\ Range(pending_picture_completions)' = {}
      /\ Range(outputs)' = {} /\ Range(received)' = {}
  BY <1>1
<1>3. \A i : ~ Waits(i)' /\ ~ AtWorker(i)' /\ ~ Leaving(i)' /\ ~ Emitted(i)'
  BY <1>2 DEF Waits, AtWorker, Leaving, Emitted, Queued
<1>4. \A i \in Position' : ~ InHand(i)'
  <2>1. current_picture' = NoPicture /\ current_skipped_picture' = 0
    BY DEF Nothing
  <2>2. \A i \in Position' : i # 0
    BY DEF Position
  <2> QED BY <2>1, <2>2 DEF InHand, NoPicture
<1>5. \A i \in Position' : ~ Contained(i)' /\ ~ Early(i)'
  BY <1>3, <1>4 DEF Contained, Early
<1>6. /\ Paired(reorder, Different)' /\ Paired(pending_picture_completions, InLine)'
      /\ Paired(outputs, InTurn)'
  BY PairedNone DEF Paired
<1>7. Order'
  BY <1>2, <1>3, <1>5, <1>6 DEF Order
<1>8. Fitting'
  BY <1>2, <1>5 DEF Fitting
<1>9. Emission'
  BY <1>2, <1>3, <1>6 DEF Emission
<1> QED BY <1>7, <1>8, <1>9 DEF Tidy

LEMMA ResetTidy ==
  ASSUME DInv, AInv, Heads, Reset
  PROVE  Tidy'
<1>1. /\ todo # << >> /\ Head(todo).step = "reset" /\ UNCHANGED fixedVars /\ Nothing'
      /\ todo' = Tail(todo) /\ reorder' = << >> /\ outputs' = << >> /\ received' = << >>
      /\ dpb_configuration' = NoFormat /\ UNCHANGED pending_picture_completions
  BY DEF Reset, Executes, Continue, Nothing
<1>2. pending_picture_completions = << >>
  BY <1>1, Ahead DEF Heads, Stands, Rewinding, AInv, Agenda
<1>3. \A t \in Range(todo') : t.step \notin Passing
  <2>1. Head(todo).step \notin {"room", "join", "poll", "discard"} \cup Finishing
    BY <1>1 DEF Finishing, Passing
  <2>2. Plainly(Tail(todo))
    BY <1>1, <2>1, Ahead DEF AInv, Agenda
  <2> QED BY <1>1, <2>2 DEF Plainly, Finishing
<1> QED BY <1>1, <1>2, <1>3, EmptyTidy

LEMMA RestartingTidy ==
  ASSUME DInv, AInv, Heads, Tidy, SetStart \/ Configure
  PROVE  Tidy'
<1>1. /\ todo # << >> /\ Head(todo).step \in Restarting /\ UNCHANGED fixedVars /\ todo' = << >>
      /\ UNCHANGED codingVars /\ UNCHANGED reorderVars /\ UNCHANGED <<outputs, received>>
      /\ UNCHANGED pending_picture_completions
  BY DEF SetStart, Configure, Executes, Return, Restarting, outputVars, toldVars
<1>2. todo[1] = Head(todo)
  BY <1>1, Ahead DEF AInv, Agenda
<1>3. Nothing /\ reorder = << >> /\ pending_picture_completions = << >>
  BY <1>1, <1>2 DEF Heads, Stands
<1>4. outputs = << >> /\ received = << >>
  BY <1>1, <1>2 DEF DInv, Control, HeadReady
<1>5. Nothing' /\ UNCHANGED dpb_configuration /\ UNCHANGED max_num_reorder_frames
      /\ reorder' = reorder
  BY <1>1, <1>3, CodingKept DEF reorderVars
<1>6. dpb_configuration' # NoFormat => max_num_reorder_frames' = ReorderDepth[dpb_configuration']
  BY <1>5 DEF Tidy, Fitting
<1>7. \A t \in Range(todo') : t.step \notin Passing
  BY <1>1, NoSteps
<1> QED BY <1>1, <1>3, <1>4, <1>5, <1>6, <1>7, EmptyTidy

LEMMA CallTidy ==
  ASSUME DInv, AInv, Tidy, Call
  PROVE  Tidy' \/ Resetting'
<1>1. ASSUME NEW s, CallSteps(s), \E b \in Range(s) : b.step \in Rewinding
      PROVE  Resetting'
  <2>1. Range(todo)' = Range(s)
    BY <1>1 DEF CallSteps, Begins
  <2> QED BY <1>1, <2>1 DEF Resetting
<1>2. ASSUME NEW k \in Keyframes, flush(k) \/ configure(k)
      PROVE  Resetting'
  <2>1. CASE flush(k)
    <3>1. PICK c \in TypedStep : c = Do("set start", NoTime) /\ c.step \in Restarting
      BY TimeStep DEF Restarting
    <3> QED BY <1>1, <2>1, <3>1, RestartCall DEF flush
  <2>2. CASE configure(k)
    <3>1. PICK c \in TypedStep : c = Do("configure", 0) /\ c.step \in Restarting
      BY ConfigureStep DEF Restarting
    <3> QED BY <1>1, <2>2, <3>1, RestartCall DEF configure
  <2> QED BY <1>2, <2>1, <2>2
<1>3. ASSUME NEW k \in Keyframes, NEW target \in Targets, flush_for_seek(k, target)
      PROVE  Resetting'
  <2>1. target \in Nat \cup {NoTime}
    BY DecoderAssumption DEF DecoderAssumption
  <2>2. PICK c \in TypedStep : c = Do("set start", target) /\ c.step \in Restarting
    BY <2>1, TimeStep DEF Restarting
  <2> QED BY <1>1, <1>3, <2>2, RestartCall DEF flush_for_seek
<1>4. ASSUME NEW target \in Targets, restore_seek_checkpoint(target)
      PROVE  Tidy' \/ Resetting'
  <2>1. PICK s : /\ CallSteps(s)
                 /\ \/ s = << >> /\ UNCHANGED <<next, discontinuous, checkpoint>>
                    \/ UNCHANGED checkpoint /\ \E b \in Range(s) : b.step \in Rewinding
    BY <1>4, RestoreCall
  <2>2. CASE s = << >> /\ UNCHANGED <<next, discontinuous, checkpoint>>
    <3>1. \A t \in Range(s) : t.step # "guard"
      BY <2>2, NoSteps
    <3> QED BY <2>1, <2>2, <3>1, SilentCallTidy
  <2> QED BY <1>1, <2>1, <2>2
<1>5. CASE receive_frame \/ drain \/ create_seek_checkpoint
  <2>1. \E s : CallSteps(s) /\ \A t \in Range(s) : t.step # "guard"
    BY <1>5, FrameCall, DrainCall, CheckpointCall
  <2>2. UNCHANGED <<next, discontinuous>>
    BY <1>5 DEF receive_frame, drain, create_seek_checkpoint, callerVars
  <2> QED BY <2>1, <2>2, SilentCallTidy
<1> QED BY <1>2, <1>3, <1>4, <1>5, SendPacketTidy, JumpTidy, RetargetTidy DEF Call

----------
(* Packets and pictures *)

LEMMA GuardTidy ==
  ASSUME DInv, AInv, AInv', Tidy, Guard
  PROVE  Tidy' \/ Resetting'
<1>1. /\ todo # << >> /\ Head(todo).step = "guard" /\ UNCHANGED fixedVars /\ Tail(todo) = << >>
      /\ UNCHANGED codingVars /\ UNCHANGED modeVars /\ UNCHANGED reorderVars
      /\ UNCHANGED outputVars /\ UNCHANGED pending_picture_completions /\ UNCHANGED toldVars
  BY GuardIs DEF Guard
<1>2. Order /\ Emission
  BY DEF Tidy
<1>3. PICK n \in Position : n = Arg
  BY GuardIs DEF Arg
<1>4. Range(todo) = {Head(todo)} /\ Head(todo).arg = n
  <2>1. Range(Tail(todo)) = {}
    BY <1>1, NoSteps
  <2> QED BY <1>1, <1>3, <2>1, Ahead DEF AInv, Agenda, Arg
<1>5. n = next - 1 /\ next \in Int /\ n \in Int
  <2>1. next \in Int
    BY CursorsTyped DEF DInv
  <2> QED BY <1>1, <1>4, <2>1, HeadPlaced DEF Placed, Position
<1>6. /\ UNCHANGED pictureVars /\ UNCHANGED <<current_picture, current_skipped_picture>>
      /\ UNCHANGED dpb_configuration /\ UNCHANGED <<output_start_time, draining>>
      /\ reorder' = reorder /\ UNCHANGED max_num_reorder_frames /\ UNCHANGED <<outputs, received>>
      /\ UNCHANGED pending_picture_completions
  BY <1>1, CodingKept DEF reorderVars, outputVars, modeVars, toldVars
<1>7. \A t : Enters(t) <=> t.step = "start" \/ (t.step = "guard" /\ ~ discontinuous)
  BY DEF Enters
<1>8. ~ discontinuous => Entering(n) /\ Edge = n
  BY <1>1, <1>4, <1>5, <1>7 DEF Entering, Edge
<1>9. ASSUME ~ discontinuous, ~ draining
      PROVE  Open
  BY <1>1, <1>4, <1>9 DEF Open
<1>10. ASSUME \A t \in Range(todo') : t.step \notin Passing,
              \A i \in Position : (Entering(i)' => Coming(i)) /\ (Future(i)' => Coming(i)),
              ~ discontinuous' => ~ discontinuous /\ Edge' = Edge
       PROVE  Tidy'
  <2>1. \A i : ~ Leaving(i)'
    BY <1>10 DEF Leaving
  <2>2. \A i : InHand(i)' => InHand(i)
    BY <1>6 DEF InHand
  <2>3. \A i \in Position : (Early(i)' => Early(i)) /\ (Leaving(i)' => Nothing')
    BY <2>1, <2>2 DEF Early
  <2>4. /\ Paired(outputs', InTurn)
        /\ \A i \in Range(received'), j \in Position : Queued(outputs', j) => Sooner(i, j)
        /\ \A i \in Position : Emitted(i)' => Emitted(i)
    <3>1. \A i : Queued(outputs, i)' <=> Queued(outputs, i)
      BY <1>6 DEF Queued
    <3>2. Range(received)' = Range(received)
      BY <1>6
    <3> QED BY <1>2, <1>6, <3>1, <3>2 DEF Emission, Emitted
  <2>5. \A i : Materializes(i)' => Materializes(i)
    BY <1>1, <1>6, SameTarget
  <2>6. /\ Range(reorder') \subseteq Range(reorder) /\ Paired(reorder', Different)
        /\ Paired(pending_picture_completions', InLine)
        /\ \A c \in Range(pending_picture_completions') :
             \E d \in Range(pending_picture_completions) :
               d.picture = c.picture /\ d.shown = c.shown
    BY <1>2, <1>6 DEF Order
  <2> QED BY <1>1, <1>6, <1>10, <2>3, <2>4, <2>5, <2>6, TidyKept
<1>11. CASE outputs # << >> /\ todo' = << >> /\ next' = Arg /\ UNCHANGED discontinuous
  <2>1. Range(todo') = {} /\ Range(todo)' = {}
    BY <1>11, NoSteps
  <2>2. next' = n
    BY <1>3, <1>11
  <2>3. \A i : ~ Entering(i)'
    BY <2>1 DEF Entering
  <2>4. Edge' = n
    BY <2>1, <2>2 DEF Edge
  <2>5. ASSUME NEW i \in Position, Future(i)'
        PROVE  Coming(i)
    <3>1. ~ discontinuous /\ ~ draining /\ i >= n /\ i \in Int
      <4>1. Open' /\ i >= next' /\ i \in Int
        BY <2>5 DEF Future, Position
      <4>2. ~ discontinuous' /\ ~ draining'
        BY <4>1 DEF Open
      <4> QED BY <1>6, <1>11, <2>2, <4>1, <4>2
    <3>2. CASE i = n
      BY <1>8, <3>1, <3>2 DEF Coming
    <3>3. CASE i # n
      BY <1>5, <1>9, <3>1, <3>3 DEF Coming, Future
    <3> QED BY <3>2, <3>3
  <2> QED BY <1>8, <1>10, <1>11, <2>1, <2>3, <2>4, <2>5
<1>12. CASE outputs = << >>
  <2>1. /\ UNCHANGED <<next, result>> /\ todo' \in Seq(TypedStep)
        /\ \A b \in Range(todo') : b.step \in OfPacket \cup {"discard", "reset"}
        /\ \E b \in Range(todo') : b.step = "start" /\ b.arg = Arg
        /\ discontinuous => \E b \in Range(todo') : b.step \in Rewinding
    BY <1>12, GuardIs
  <2>2. CASE discontinuous
    <3>1. Range(todo)' = Range(todo')
      OBVIOUS
    <3> QED BY <2>1, <2>2, <3>1 DEF Resetting
  <2>3. CASE ~ discontinuous
    <3>1. ~ discontinuous' /\ next' = next
      BY <1>12, <2>1 DEF Guard
    <3>2. \A t \in Range(todo') : t.step \notin Passing \cup {"guard"}
      BY <2>1 DEF OfPacket, Passing
    <3>3. \A t \in Range(todo') : t.step = "start" => t.arg = n
      <4>1. \A t \in Range(todo)' : Placed(t)'
        BY DEF AInv, Agenda
      <4>2. Range(todo)' = Range(todo')
        OBVIOUS
      <4> QED BY <1>5, <3>1, <4>1, <4>2 DEF Placed
    <3>4. \A i : Entering(i)' => i = n
      BY <3>2, <3>3 DEF Entering, Enters
    <3>5. \A i \in Position : Future(i)' => Future(i)
      BY <1>6, <1>9, <2>3, <3>1 DEF Future, Open
    <3>6. Edge' = n
      <4>1. \E t \in Range(todo)' : Enters(t)'
        BY <2>1 DEF Enters
      <4> QED BY <1>5, <3>1, <4>1 DEF Edge
    <3> QED BY <1>8, <1>10, <2>3, <3>2, <3>4, <3>5, <3>6 DEF Coming
  <2> QED BY <2>2, <2>3
<1> QED BY <1>11, <1>12, GuardIs

LEMMA FinishTidy ==
  ASSUME DInv, AInv, Tidy, FinishSkipped \/ FinishCurrent, errors' = errors
  PROVE  Tidy'
<1>1. Order /\ Emission
  BY DEF Tidy
<1>2. PICK p : /\ InHand(p) /\ Finishes(todo', Tail(todo), p)
               /\ todo # << >> /\ Head(todo).step = "finish" /\ Plainly(Tail(todo))
               /\ todo' \in Seq(TypedStep)
  <2>1. CASE FinishSkipped
    BY <2>1, FinishSkippedIs DEF InHand
  <2>2. CASE FinishCurrent
    <3>1. ~ Fail
      <4>1. errors \in Nat
        BY DEF DInv, Types, CallerTyped
      <4> QED BY <4>1 DEF Fail
    <3> QED BY <2>2, <3>1, FinishCurrentIs DEF InHand
  <2> QED BY <2>1, <2>2
<1>3. /\ UNCHANGED fixedVars /\ UNCHANGED quietVars /\ UNCHANGED reorderVars
      /\ UNCHANGED outputVars /\ UNCHANGED pending_picture_completions
      /\ UNCHANGED dpb_configuration
      /\ current_picture' \in {NoPicture, current_picture}
      /\ current_skipped_picture' \in {0, current_skipped_picture}
  BY DEF FinishSkipped, FinishCurrent, Executes
<1>4. Nothing'
  <2>1. CASE FinishSkipped
    BY <2>1 DEF FinishSkipped, Nothing, DInv, Control
  <2>2. CASE FinishCurrent
    BY <2>2 DEF FinishCurrent, Nothing
  <2> QED BY <2>1, <2>2
<1>5. /\ UNCHANGED <<output_start_time, draining, next, discontinuous>>
      /\ UNCHANGED <<outputs, received>> /\ reorder' = reorder
      /\ UNCHANGED max_num_reorder_frames
  BY <1>3, QuietKept DEF reorderVars, outputVars
<1>6. Range(todo) = {Head(todo)} \cup Range(Tail(todo))
  BY <1>2, Ahead DEF AInv, Agenda
<1>7. /\ \A t \in Range(todo') : \/ t \in Range(Tail(todo))
                                 \/ t.step \in {"room", "poll", "join"}
                                 \/ t.step \in Finishing /\ t.arg = p
      /\ Range(Tail(todo)) \subseteq Range(todo')
      /\ \A t \in Range(Tail(todo)) : t.step \notin Passing
  BY <1>2 DEF Finishes, Plainly, Finishing
<1>8. \A i : Leaving(i)' => i = p
  <2>1. Range(todo)' = Range(todo')
    OBVIOUS
  <2> QED BY <1>7, <2>1 DEF Leaving, Passing
<1>9. \A i \in Position : InHand(i)' => InHand(i)
  BY <1>3 DEF InHand, NoPicture, Position
<1>10. \A i \in Position : (Early(i)' => Early(i)) /\ (Leaving(i)' => Nothing')
  BY <1>2, <1>4, <1>8, <1>9 DEF Early
<1>11. \A t : Enters(t)' <=> Enters(t)
  BY <1>5 DEF Enters
<1>12. \A t : Enters(t) => (t \in Range(todo)' <=> t \in Range(todo))
  <2>1. \A t : Enters(t) => t.step \in {"start", "guard"}
    BY DEF Enters
  <2>2. ASSUME NEW t, t.step \in {"start", "guard"}
        PROVE  t \in Range(todo') <=> t \in Range(todo)
    <3>1. t.step \notin Finishing \cup {"room", "poll", "join"}
      BY <2>2 DEF Finishing, Passing
    <3>2. t # Head(todo)
      BY <1>2, <2>2
    <3> QED BY <1>6, <1>7, <3>1, <3>2
  <2> QED BY <2>1, <2>2
<1>13. \A i : Entering(i)' <=> Entering(i)
  BY <1>11, <1>12 DEF Entering
<1>14. Edge' = Edge
  <2>1. (\E t \in Range(todo)' : Enters(t)') <=> (\E t \in Range(todo) : Enters(t))
    BY <1>11, <1>12
  <2> QED BY <1>5, <2>1 DEF Edge
<1>15. \A i : Future(i)' => Future(i)
  <2>1. ASSUME NEW t \in Range(todo), t.step = "end stream"
        PROVE  t \in Range(todo')
    BY <1>2, <1>6, <1>7, <2>1
  <2> QED BY <1>5, <2>1 DEF Future, Open
<1>16. /\ Paired(outputs', InTurn)
       /\ \A i \in Range(received'), n \in Position : Queued(outputs', n) => Sooner(i, n)
       /\ \A i \in Position : Emitted(i)' => Emitted(i)
  <2>1. \A n : Queued(outputs, n)' <=> Queued(outputs, n)
    BY <1>5 DEF Queued
  <2>2. Range(received)' = Range(received)
    BY <1>5
  <2> QED BY <1>1, <1>5, <2>1, <2>2 DEF Emission, Emitted
<1>17. \A i : Materializes(i)' => Materializes(i)
  BY <1>3, <1>5, SameTarget
<1>18. /\ Range(reorder') \subseteq Range(reorder) /\ Paired(reorder', Different)
       /\ Paired(pending_picture_completions', InLine)
       /\ \A c \in Range(pending_picture_completions') :
            \E d \in Range(pending_picture_completions) :
              d.picture = c.picture /\ d.shown = c.shown
  BY <1>1, <1>3, <1>5 DEF Order
<1>19. dpb_configuration' \in {NoFormat, dpb_configuration} /\ UNCHANGED fixedVars
       /\ UNCHANGED max_num_reorder_frames
  BY <1>3, <1>5
<1>20. /\ \A i \in Position : (Entering(i)' => Coming(i)) /\ (Future(i)' => Coming(i))
       /\ ~ discontinuous' => ~ discontinuous /\ Edge' = Edge
  BY <1>5, <1>13, <1>14, <1>15 DEF Coming
<1> QED BY <1>10, <1>16, <1>17, <1>18, <1>19, <1>20, TidyKept

LEMMA SpawnTidy ==
  ASSUME DInv, AInv, Tidy, Spawn, errors' = errors
  PROVE  Tidy'
<1>1. Order /\ Fitting /\ Emission
  BY DEF Tidy
<1>2. /\ todo # << >> /\ Head(todo).step \in Spawning /\ UNCHANGED fixedVars
      /\ UNCHANGED codingVars /\ UNCHANGED quietVars /\ UNCHANGED reorderVars
      /\ UNCHANGED outputVars
  BY DEF Spawn, Executes, Spawning
<1>3. /\ todo' = Tail(todo)
      /\ \E ready, failed \in BOOLEAN :
           pending_picture_completions' =
             Append(pending_picture_completions,
                    [picture |-> Arg, shown |-> Materializes(Arg),
                     ready |-> ready, failed |-> failed])
  <2>1. ~ Fail
    <3>1. errors \in Nat
      BY DEF DInv, Types, CallerTyped
    <3> QED BY <3>1 DEF Fail
  <2>2. PICK failed \in BOOLEAN : failed <=> Head(todo).damage = "slice"
    OBVIOUS
  <2> QED BY <2>1, <2>2 DEF Spawn, Continue
<1>4. Head(todo) \in TypedStep /\ Range(todo) = {Head(todo)} \cup Range(Tail(todo))
      /\ \A b \in Range(Tail(todo)) : MayPrecede(Head(todo), b)
  BY <1>2, Ahead DEF AInv, Agenda, Precedes
<1>5. PICK p \in Position : p = Arg /\ p = Head(todo).arg
  BY <1>2, <1>4 DEF TypedStep, OfPicture, Arg, Spawning
<1>6. PICK c \in Completion :
        /\ c.picture = p /\ (c.shown <=> Materializes(p))
        /\ pending_picture_completions' = Append(pending_picture_completions, c)
  <2>1. PICK ready \in BOOLEAN, failed \in BOOLEAN :
          pending_picture_completions' =
            Append(pending_picture_completions,
                   [picture |-> p, shown |-> Materializes(p), ready |-> ready, failed |-> failed])
    BY <1>3, <1>5
  <2>2. Materializes(p) \in BOOLEAN
    BY DEF Materializes
  <2>3. PICK shown \in BOOLEAN : shown = Materializes(p)
    BY <2>2
  <2>4. [picture |-> p, shown |-> shown, ready |-> ready, failed |-> failed] \in Completion
    BY DEF Completion
  <2> QED BY <2>1, <2>3, <2>4
<1>7. pending_picture_completions \in Seq(Completion)
  BY DEF DInv, Types, PendingTyped
<1>8. Range(pending_picture_completions') = Range(pending_picture_completions) \cup {c}
  BY <1>6, <1>7, RangeAppend
<1>9. Leaving(p) /\ Early(p) /\ Contained(p)
  <2>1. Head(todo).step \in Passing
    BY <1>2 DEF Passing, Spawning
  <2> QED BY <1>4, <1>5, <2>1 DEF Leaving, Early, Contained
<1>10. /\ UNCHANGED <<current_picture, current_skipped_picture, dpb_configuration>>
       /\ UNCHANGED <<output_start_time, draining, next, discontinuous>>
       /\ UNCHANGED <<outputs, received>> /\ reorder' = reorder
       /\ max_num_reorder_frames' = max_num_reorder_frames
  BY <1>2, QuietKept, CodingKept DEF reorderVars, outputVars
<1>11. \A i \in Position : ~ InHand(i)' /\ ~ Leaving(i)' /\ ~ Early(i)'
  <2>1. Nothing
    BY <1>1, <1>9 DEF Order
  <2>2. \A i \in Position : ~ InHand(i)'
    BY <1>10, <2>1 DEF InHand, Nothing, NoPicture, Position
  <2>3. \A b \in Range(todo)' : b.step \notin Passing
    <3>1. Range(todo)' = Range(Tail(todo))
      BY <1>3
    <3> QED BY <1>2, <1>4, <3>1 DEF MayPrecede, Spawning
  <2>4. \A i : ~ Leaving(i)'
    BY <2>3 DEF Leaving
  <2> QED BY <2>2, <2>4 DEF Early
<1>12. \A i : (AtWorker(i)' => AtWorker(i) \/ i = p) /\ (Waits(i)' <=> Waits(i))
  <2>1. Range(pending_picture_completions)' = Range(pending_picture_completions')
    OBVIOUS
  <2>2. Range(reorder)' = Range(reorder)
    BY <1>10
  <2> QED BY <1>6, <1>8, <2>1, <2>2 DEF AtWorker, Waits
<1>13. \A i \in Position : Contained(i)' => Contained(i)
  BY <1>9, <1>11, <1>12 DEF Contained
<1>14. \A t : Enters(t)' <=> Enters(t)
  BY <1>10 DEF Enters
<1>15. \A t : Enters(t) => (t \in Range(todo)' <=> t \in Range(todo))
  <2>1. ~ Enters(Head(todo))
    BY <1>2 DEF Enters, Spawning
  <2>2. Range(todo)' = Range(Tail(todo))
    BY <1>3
  <2> QED BY <1>4, <2>1, <2>2
<1>16. \A i : Entering(i)' <=> Entering(i)
  BY <1>14, <1>15 DEF Entering
<1>17. Edge' = Edge
  <2>1. (\E t \in Range(todo)' : Enters(t)') <=> (\E t \in Range(todo) : Enters(t))
    BY <1>14, <1>15
  <2> QED BY <1>10, <2>1 DEF Edge
<1>18. \A i : Future(i)' => Future(i)
  <2>1. Range(todo)' = Range(Tail(todo)) /\ Head(todo).step # "end stream"
    BY <1>2, <1>3 DEF Spawning
  <2> QED BY <1>4, <1>10, <2>1 DEF Future, Open
<1>19. Position' = Position /\ stream' = stream /\ Entry' = Entry /\ Completion' = Completion
  BY <1>2, SetsFixed DEF fixedVars
<1>20. \A i : Materializes(i)' <=> Materializes(i)
  BY <1>2, <1>10, SameTarget
<1>21. Order'
  <2>1. \A e \in Range(reorder)' : e.poc = stream'[e.picture].poc
    BY <1>1, <1>10, <1>19 DEF Order
  <2>2. Paired(reorder, Different)'
    BY <1>1, <1>10, <1>19 DEF Order, Paired, Different
  <2>3. Paired(pending_picture_completions, InLine)'
    <3>1. \A y \in Range(pending_picture_completions) : <<y, c>> \in InLine
      <4>1. ASSUME NEW y \in Range(pending_picture_completions)
            PROVE  <<y, c>> \in InLine
        <5>1. y \in Completion
          BY <1>7, InRange
        <5>2. y.picture \in Position /\ AtWorker(y.picture)
          BY <5>1 DEF Completion, AtWorker
        <5>3. y.picture < p
          BY <1>1, <1>9, <5>2 DEF Order
        <5> QED BY <1>6, <5>1, <5>3 DEF InLine
      <4> QED BY <4>1
    <3>2. Paired(pending_picture_completions', InLine)
      BY <1>1, <1>6, <1>7, <3>1, PairedAppend DEF Order
    <3>3. InLine' = InLine
      BY <1>19 DEF InLine
    <3> QED BY <3>2, <3>3 DEF Paired
  <2>4. ASSUME NEW i \in Position, NEW n \in Position
        PROVE  /\ (Waits(i) \/ AtWorker(i))' /\ Early(n)' => i < n
               /\ (Waits(i) /\ AtWorker(n))' => i < n \/ (i # n /\ ~ Materializes(i)')
               /\ (Contained(i) /\ Contained(n))' => SameSequence(stream', i, n)
    <3>1. ~ Early(n)'
      BY <1>11
    <3>2. /\ Waits(i) /\ Early(n) => i < n
          /\ Waits(i) /\ AtWorker(n) => i < n \/ (i # n /\ ~ Materializes(i))
          /\ Contained(i) /\ Contained(n) => SameSequence(stream, i, n)
      BY <1>1 DEF Order
    <3>3. (Waits(i) /\ AtWorker(n))' => i < n \/ (i # n /\ ~ Materializes(i)')
      BY <1>9, <1>12, <1>20, <3>2
    <3>4. (Contained(i) /\ Contained(n))' => SameSequence(stream', i, n)
      BY <1>13, <1>19, <3>2
    <3> QED BY <3>1, <3>3, <3>4
  <2>5. ASSUME NEW i \in Position
        PROVE  /\ Leaving(i)' => Nothing'
               /\ Contained(i)' /\ ~ discontinuous' =>
                    i < Edge' /\ SameSequence(stream', i, Edge' - 1)
    <3>1. Contained(i) /\ ~ discontinuous => i < Edge /\ SameSequence(stream, i, Edge - 1)
      BY <1>1 DEF Order
    <3> QED BY <1>10, <1>11, <1>13, <1>17, <1>19, <3>1
  <2> QED BY <1>19, <2>1, <2>2, <2>3, <2>4, <2>5 DEF Order
<1>22. Fitting'
  <2>1. SUFFICES ASSUME dpb_configuration' # NoFormat
                 PROVE  Fitting'
    BY DEF Fitting
  <2>2. /\ max_num_reorder_frames = ReorderDepth[dpb_configuration]
        /\ \A e \in Range(reorder) : e.shown => stream[e.picture].format = dpb_configuration
        /\ \A d \in Range(pending_picture_completions) :
             d.shown => stream[d.picture].format = dpb_configuration
        /\ \A i \in Position :
             Early(i) /\ Materializes(i) => stream[i].format = dpb_configuration
    BY <1>1, <1>10, <2>1 DEF Fitting
  <2>3. \A d \in Range(pending_picture_completions') :
          d.shown => stream[d.picture].format = dpb_configuration
    BY <1>6, <1>8, <1>9, <2>2
  <2>4. \A i \in Position : ~ Early(i)'
    BY <1>11
  <2> QED BY <1>10, <1>19, <2>2, <2>3, <2>4 DEF Fitting
<1>23. Emission'
  <2>1. \A i \in Position : Coming(i)' => Coming(i)
    BY <1>13, <1>16, <1>18 DEF Coming
  <2>2. /\ Paired(outputs', InTurn)
        /\ \A i \in Range(received'), n \in Position : Queued(outputs', n) => Sooner(i, n)
        /\ \A i \in Position : Emitted(i)' => Emitted(i)
    <3>1. \A n : Queued(outputs, n)' <=> Queued(outputs, n)
      BY <1>10 DEF Queued
    <3>2. Range(received)' = Range(received)
      BY <1>10
    <3> QED BY <1>1, <1>10, <3>1, <3>2 DEF Emission, Emitted
  <2> QED BY <1>1, <1>2, <1>20, <2>1, <2>2, EmissionKept
<1> QED BY <1>21, <1>22, <1>23 DEF Tidy

\* One picture at most is about to start.
LEMMA StartsOnce ==
  ASSUME DInv, AInv, todo # << >>, Head(todo).step = "start"
  PROVE  \A t \in Range(Tail(todo)) :
           t.step \notin Passing \cup {"start", "guard"}
<1>1. todo \in Seq(TypedStep)
  BY DEF DInv, Types, TodoTyped
<1>2. PICK rest : rest = Tail(todo)
  OBVIOUS
<1>3. rest \in Seq(TypedStep) /\ Head(todo) \in TypedStep /\ Plainly(rest)
  <2>1. Head(todo).step \notin {"room", "join", "poll", "discard"} \cup Finishing
    BY DEF Finishing, Passing
  <2> QED BY <1>2, <2>1, Ahead DEF AInv, Agenda
<1>4. CountIn(rest, Starting) = 0
  <2>1. CountIn(todo, Starting) <= 1
    BY DEF DInv, Control
  <2>2. Head(todo) \in Starting
    BY <1>3 DEF TypedStep, Starting
  <2>3. CountIn(todo, Starting) = 1 + CountIn(rest, Starting)
    BY <1>1, <1>2, <2>2, CountTail
  <2>4. CountIn(rest, Starting) \in Nat
    BY <1>3, CountType
  <2> QED BY <2>1, <2>3, <2>4
<1>5. \A k \in 1 .. Len(rest) : rest[k].step # "start"
  BY <1>3, <1>4, CountSome, StepShape
<1>6. \A t \in Range(rest) : t.step # "start"
  BY <1>3, <1>5, InRange
<1> QED BY <1>2, <1>3, <1>6 DEF Plainly, Finishing

LEMMA StartTidy ==
  ASSUME DInv, AInv, Heads, Coding, Tidy, StartSkipped \/ Start, errors' = errors
  PROVE  Tidy'
<1>1. Order /\ Fitting /\ Emission
  BY DEF Tidy
<1>2. /\ todo # << >> /\ Head(todo).step = "start" /\ UNCHANGED fixedVars
      /\ UNCHANGED <<next, discontinuous, draining, output_start_time, outputs, received>>
      /\ UNCHANGED pending_picture_completions
  BY QuietKept DEF StartSkipped, Start, Executes, modeVars, outputVars, toldVars
<1>3. todo' = Tail(todo)
  <2>1. ~ Fail
    <3>1. errors \in Nat
      BY DEF DInv, Types, CallerTyped
    <3> QED BY <3>1 DEF Fail
  <2> QED BY <2>1 DEF StartSkipped, Start, Continue
<1>4. PICK p \in Position : p = Arg /\ p = Head(todo).arg
  BY <1>2, StartsAfresh DEF Arg
<1>5. Nothing
  BY <1>2, StartsAfresh
<1>6. p = next - 1 /\ ~ discontinuous /\ next \in Int /\ p \in Int
  <2>1. next \in Int
    BY CursorsTyped DEF DInv
  <2> QED BY <1>2, <1>4, <2>1, HeadPlaced DEF Placed, Position
<1>7. Range(todo) = {Head(todo)} \cup Range(Tail(todo)) /\ todo[1] = Head(todo)
  BY <1>2, Ahead DEF AInv, Agenda
<1>8. \A t \in Range(Tail(todo)) : t.step \notin Passing \cup {"start", "guard"}
  BY <1>2, StartsOnce
<1>9. Range(todo)' = Range(Tail(todo))
  BY <1>3
<1>10. Edge = p /\ Edge' = next /\ Entering(p)
  <2>1. Enters(Head(todo))
    BY <1>2 DEF Enters
  <2>2. \A t \in Range(todo)' : ~ Enters(t)'
    BY <1>8, <1>9 DEF Enters
  <2> QED BY <1>2, <1>4, <1>6, <1>7, <2>1, <2>2 DEF Edge, Entering
<1>11. stream[p].idr => reorder = << >> /\ pending_picture_completions = << >>
  <2>1. Stands(Head(todo))
    BY <1>2, <1>7 DEF Heads
  <2> QED BY <1>2, <1>4, <2>1 DEF Stands
<1>12. \A i \in Position : ~ InHand(i) /\ ~ Leaving(i) /\ ~ Leaving(i)'
  <2>1. \A i \in Position : ~ InHand(i)
    BY <1>5 DEF InHand, Nothing, NoPicture, Position
  <2>2. \A i : ~ Leaving(i)
    BY <1>2, <1>7, <1>8 DEF Leaving, Passing
  <2>3. \A i : ~ Leaving(i)'
    BY <1>8, <1>9 DEF Leaving
  <2> QED BY <2>1, <2>2, <2>3
<1>13. \A i \in Position : Early(i)' => i = p
  <2>1. /\ current_picture'.picture \in {0, p}
        /\ current_skipped_picture' \in {0, p}
    <3>1. CASE StartSkipped
      BY <1>4, <1>5, <3>1 DEF StartSkipped, Nothing, NoPicture
    <3>2. CASE Start
      <4>1. PICK damage, deferred :
              current_picture' = [picture |-> p, damage |-> damage, deferred |-> deferred]
        BY <1>4, <3>2 DEF Start
      <4>2. current_picture'.picture = p
        BY <4>1
      <4>3. current_skipped_picture' = 0
        BY <1>5, <3>2 DEF Start, Nothing
      <4> QED BY <4>2, <4>3
    <3> QED BY <3>1, <3>2
  <2>2. \A i \in Position : i # 0
    BY DEF Position
  <2>3. \A i \in Position : InHand(i)' => i = p
    BY <2>1, <2>2 DEF InHand
  <2> QED BY <1>12, <2>3 DEF Early
<1>14. reorder' = reorder \/ reorder' = << >>
  BY DEF StartSkipped, Start, reorderVars
<1>15. Range(reorder') \subseteq Range(reorder)
  <2>1. Range(<< >>) = {}
    BY NoSteps
  <2> QED BY <1>14, <2>1
<1>16. \A i : (Waits(i)' => Waits(i)) /\ (AtWorker(i)' <=> AtWorker(i))
  <2>1. Range(reorder)' = Range(reorder')
    OBVIOUS
  <2>2. Range(pending_picture_completions)' = Range(pending_picture_completions)
    BY <1>2
  <2> QED BY <1>15, <2>1, <2>2 DEF Waits, AtWorker
<1>17. \A i \in Position : Contained(i)' => i = p \/ Waits(i) \/ AtWorker(i)
  BY <1>13, <1>16 DEF Contained
<1>18. \A i \in Position : Waits(i) \/ AtWorker(i) => /\ i < p /\ SameSequence(stream, i, p - 1)
                                                     /\ ~ stream[p].idr
  <2>1. ASSUME NEW i \in Position, Waits(i) \/ AtWorker(i)
        PROVE  i < p /\ SameSequence(stream, i, p - 1) /\ ~ stream[p].idr
    <3>1. Contained(i)
      BY <2>1 DEF Contained
    <3>2. i < Edge /\ SameSequence(stream, i, Edge - 1)
      BY <1>1, <1>6, <3>1 DEF Order
    <3>3. reorder = << >> => ~ Waits(i)
      BY NoSteps DEF Waits
    <3>4. pending_picture_completions = << >> => ~ AtWorker(i)
      BY NoSteps DEF AtWorker
    <3> QED BY <1>10, <1>11, <2>1, <3>2, <3>3, <3>4
  <2> QED BY <2>1
<1>19. \A i \in Position : i \in Int
  BY DEF Position
<1>20. \A i \in Position : Contained(i)' => i <= p /\ SameSequence(stream, i, p)
  <2>1. ASSUME NEW i \in Position, Contained(i)'
        PROVE  i <= p /\ SameSequence(stream, i, p)
    <3>1. CASE i = p
      BY <1>6, <3>1 DEF SameSequence
    <3>2. CASE i # p
      <4>1. i < p /\ SameSequence(stream, i, p - 1) /\ ~ stream[p].idr
        BY <1>17, <1>18, <2>1, <3>2
      <4>2. \A k \in i + 1 .. p : k \in i + 1 .. p - 1 \/ k = p
        BY <1>6, <1>19
      <4> QED BY <1>6, <1>19, <4>1, <4>2 DEF SameSequence
    <3> QED BY <3>1, <3>2
  <2> QED BY <2>1
<1>21. Position' = Position /\ stream' = stream /\ Entry' = Entry /\ Completion' = Completion
  BY <1>2, SetsFixed DEF fixedVars
<1>22. \A i : Materializes(i)' <=> Materializes(i)
  BY <1>2, SameTarget
<1>23. \A i \in Position : Future(i)' => Future(i)
  <2>1. \A t \in Range(todo) : t.step = "end stream" => t \in Range(todo)'
    BY <1>2, <1>7, <1>9
  <2> QED BY <1>2, <2>1 DEF Future, Open
<1>24. \A i \in Position : Coming(i)' => Coming(i)
  <2>1. \A i : ~ Entering(i)'
    BY <1>8, <1>9 DEF Entering, Enters
  <2>2. \A i \in Position : Contained(i)' => Coming(i)
    BY <1>10, <1>17 DEF Coming, Contained
  <2> QED BY <1>23, <2>1, <2>2 DEF Coming
<1>25. Order'
  <2>1. \A e \in Range(reorder)' : e.poc = stream'[e.picture].poc
    <3>1. Range(reorder)' = Range(reorder')
      OBVIOUS
    <3> QED BY <1>1, <1>15, <1>21, <3>1 DEF Order
  <2>2. Paired(reorder, Different)'
    <3>1. Paired(reorder', Different)
      BY <1>1, <1>14, PairedNone DEF Order
    <3>2. Different' = Different
      BY <1>21 DEF Different
    <3> QED BY <3>1, <3>2 DEF Paired
  <2>3. Paired(pending_picture_completions, InLine)'
    BY <1>1, <1>2, <1>21 DEF Order, Paired, InLine
  <2>4. ASSUME NEW i \in Position, NEW n \in Position
        PROVE  /\ (Waits(i) \/ AtWorker(i))' /\ Early(n)' => i < n
               /\ (Waits(i) /\ AtWorker(n))' => i < n \/ (i # n /\ ~ Materializes(i)')
               /\ (Contained(i) /\ Contained(n))' => SameSequence(stream', i, n)
    <3>1. (Waits(i) \/ AtWorker(i))' /\ Early(n)' => i < n
      BY <1>13, <1>16, <1>18
    <3>2. (Waits(i) /\ AtWorker(n))' => i < n \/ (i # n /\ ~ Materializes(i)')
      BY <1>1, <1>16, <1>22 DEF Order
    <3>3. (Contained(i) /\ Contained(n))' => SameSequence(stream', i, n)
      <4>1. ASSUME Contained(i)', Contained(n)'
            PROVE  SameSequence(stream, i, n)
        <5>1. i \in Nat /\ n \in Int /\ p \in Int
          BY DEF Position
        <5>2. n <= p /\ SameSequence(stream, i, p)
          BY <1>20, <4>1
        <5> QED BY <5>1, <5>2, Between
      <4> QED BY <1>21, <4>1
    <3> QED BY <3>1, <3>2, <3>3
  <2>5. ASSUME NEW i \in Position
        PROVE  /\ Leaving(i)' => Nothing'
               /\ Contained(i)' /\ ~ discontinuous' =>
                    i < Edge' /\ SameSequence(stream', i, Edge' - 1)
    <3>1. Edge' - 1 = p /\ (i <= p => i < Edge')
      BY <1>6, <1>10, <1>19
    <3> QED BY <1>12, <1>20, <1>21, <3>1
  <2> QED BY <1>21, <2>1, <2>2, <2>3, <2>4, <2>5 DEF Order
<1>26. Fitting'
  <2>1. CASE StartSkipped
    <3>1. dpb_configuration' = dpb_configuration /\ max_num_reorder_frames' = max_num_reorder_frames
          /\ Skips(p)
      BY <1>4, <2>1 DEF StartSkipped, reorderVars
    <3>2. ~ Materializes(p)
      BY <3>1 DEF Skips
    <3>3. \A i \in Position : ~ (Early(i)' /\ Materializes(i)')
      BY <1>13, <1>22, <3>2
    <3>4. Range(reorder)' = Range(reorder')
          /\ Range(pending_picture_completions)' = Range(pending_picture_completions)
      BY <1>2
    <3> QED BY <1>1, <1>15, <1>21, <3>1, <3>3, <3>4 DEF Fitting
  <2>2. CASE Start
    <3>1. PICK format \in Formats : format = stream[p].format
      BY Constants DEF DInv
    <3>2. dpb_configuration' = format
      BY <1>4, <2>2, <3>1 DEF Start
    <3>3. \A i \in Position : Early(i)' => stream[i].format = format
      BY <1>13, <3>1
    <3>4. CASE dpb_configuration = format
      <4>1. UNCHANGED reorderVars
        BY <1>4, <2>2, <3>1, <3>4 DEF Start
      <4>2. max_num_reorder_frames' = max_num_reorder_frames
            /\ Range(reorder)' = Range(reorder)
            /\ Range(pending_picture_completions)' = Range(pending_picture_completions)
        BY <1>2, <4>1 DEF reorderVars
      <4>3. format # NoFormat
        BY DecoderAssumption DEF DecoderAssumption, Formats
      <4> QED BY <1>1, <1>21, <3>2, <3>3, <3>4, <4>2, <4>3 DEF Fitting
    <3>5. CASE dpb_configuration # format
      <4>1. reorder' = << >> /\ max_num_reorder_frames' = ReorderDepth[format]
        BY <1>4, <2>2, <3>1, <3>5 DEF Start
      <4>2. pending_picture_completions = << >>
        <5>1. dpb_configuration = NoFormat \/ stream[p].idr
          BY <1>4, <2>2, <3>1, <3>5 DEF Start
        <5> QED BY <1>11, <5>1 DEF Coding
      <4>3. Range(reorder)' = {} /\ Range(pending_picture_completions)' = {}
        <5>1. PICK nothing : nothing = << >> /\ Range(nothing) = {}
          BY NoSteps
        <5> QED BY <1>2, <4>1, <4>2, <5>1
      <4> QED BY <1>21, <3>2, <3>3, <4>1, <4>3 DEF Fitting
    <3> QED BY <3>4, <3>5
  <2> QED BY <2>1, <2>2
<1>27. Emission'
  <2>1. /\ Paired(outputs', InTurn)
        /\ \A i \in Range(received'), n \in Position : Queued(outputs', n) => Sooner(i, n)
        /\ \A i \in Position : Emitted(i)' => Emitted(i)
    <3>1. \A n : Queued(outputs, n)' <=> Queued(outputs, n)
      BY <1>2 DEF Queued
    <3>2. Range(received)' = Range(received)
      BY <1>2
    <3> QED BY <1>1, <1>2, <3>1, <3>2 DEF Emission, Emitted
  <2> QED BY <1>1, <1>2, <1>22, <1>24, <2>1, EmissionKept
<1> QED BY <1>25, <1>26, <1>27 DEF Tidy

----------
(* Frames *)

LEMMA DeliverTidy ==
  ASSUME DInv, AInv, Tidy, Deliver
  PROVE  Tidy' /\ (Paired(received, Rising) => Paired(received, Rising)')
<1>1. Order /\ Emission
  BY DEF Tidy
<1>2. /\ todo # << >> /\ Head(todo).step = "deliver" /\ UNCHANGED fixedVars /\ todo' = << >>
      /\ UNCHANGED codingVars /\ UNCHANGED <<output_start_time, draining, next, discontinuous>>
      /\ reorder' = reorder /\ max_num_reorder_frames' = max_num_reorder_frames
      /\ UNCHANGED pending_picture_completions
  BY DEF Deliver, Executes, Return, modeVars, reorderVars
<1>3. outputs \in Seq(Output) /\ received \in Seq(Position)
  BY DEF DInv, Types, OutputsTyped, CallerTyped
<1>4. /\ Paired(outputs', InTurn)
      /\ \A i \in Range(received'), n \in Position : Queued(outputs', n) => Sooner(i, n)
      /\ \A i \in Position : i \in Range(received') \/ Queued(outputs', i) => Emitted(i)
      /\ Paired(received, Rising) => Paired(received', Rising)
  <2>1. CASE outputs = << >>
    <3>1. UNCHANGED <<outputs, received>>
      BY <2>1 DEF Deliver, toldVars
    <3> QED BY <1>1, <3>1 DEF Emission, Emitted
  <2>2. CASE outputs # << >>
    <3>1. PICK h \in Output : h = Head(outputs)
      BY <1>3, <2>2, RangeTail
    <3>2. PICK rest : rest = Tail(outputs) /\ outputs' = rest
      BY <2>2 DEF Deliver
    <3>3. Range(outputs) = {h} \cup Range(rest) /\ rest \in Seq(Output)
      BY <1>3, <2>2, <3>1, <3>2, RangeTail
    <3>4. Paired(rest, InTurn) /\ \A x \in Range(rest) : <<h, x>> \in InTurn
      <4>1. Paired(outputs, InTurn)
        BY <1>1 DEF Emission
      <4> QED BY <1>3, <2>2, <3>1, <3>2, <4>1, PairedTail
    <3>5. \A n : Queued(rest, n) => Queued(outputs, n)
      BY <3>3 DEF Queued
    <3>6. CASE h.kind = "FormatChanged"
      <4>1. received' = received
        BY <2>2, <3>1, <3>6 DEF Deliver
      <4> QED BY <1>1, <3>2, <3>4, <3>5, <4>1 DEF Emission, Emitted
    <3>7. CASE h.kind # "FormatChanged"
      <4>1. h \in Frames /\ h.kind = "Frame"
        BY <3>7, MarksAndFrames DEF Output, Frames, Announcements
      <4>2. PICK v \in Position : v = h.value
        BY <4>1 DEF Frames
      <4>3. received' = Append(received, v)
        BY <2>2, <3>1, <3>7, <4>2 DEF Deliver
      <4>4. Range(received') = Range(received) \cup {v}
        BY <1>3, <4>3, RangeAppend
      <4>5. Queued(outputs, v)
        BY <3>3, <4>1, <4>2 DEF Queued
      <4>6. ASSUME NEW n \in Position, Queued(rest, n)
            PROVE  Sooner(v, n)
        <5>1. PICK x \in Range(rest) : x.kind = "Frame" /\ x.value = n
          BY <4>6 DEF Queued
        <5>2. x \in Output
          BY <3>3, InRange
        <5>3. x \in Frames
          BY <5>1, <5>2, MarksAndFrames
        <5> QED BY <3>4, <4>1, <4>2, <5>1, <5>3 DEF InTurn
      <4>7. \A i \in Range(received'), n \in Position : Queued(rest, n) => Sooner(i, n)
        BY <1>1, <3>5, <4>4, <4>6 DEF Emission
      <4>8. \A i \in Position : i \in Range(received') \/ Queued(rest, i) => Emitted(i)
        BY <3>5, <4>4, <4>5 DEF Emitted
      <4>9. Paired(received, Rising) => Paired(received', Rising)
        <5>1. \A y \in Range(received) : y \in Position /\ <<y, v>> \in Rising
          <6>1. \A y \in Range(received) : y \in Position
            BY <1>3, InRange
          <6>2. \A y \in Range(received) : Sooner(y, v)
            BY <1>1, <4>5 DEF Emission
          <6> QED BY <6>1, <6>2 DEF Rising
        <5> QED BY <1>3, <4>3, <5>1, PairedAppend
      <4> QED BY <3>2, <3>4, <4>7, <4>8, <4>9
    <3> QED BY <3>6, <3>7
  <2> QED BY <2>1, <2>2
<1>5. \A i \in Position : Emitted(i)' => Emitted(i)
  <2>1. Range(received)' = Range(received') /\ \A i : Queued(outputs, i)' <=> Queued(outputs', i)
    BY DEF Queued
  <2> QED BY <1>4, <2>1 DEF Emitted
<1>6. "deliver" \in Closing \ {"guard"}
  BY DEF Closing
<1>7. /\ \A t \in Range(todo') :
           t \in Range(todo) \/ t.step \notin Passing \cup {"start", "guard"}
      /\ \A t \in Range(todo) : /\ t.step \in {"start", "guard"} => t \in Range(todo')
                                /\ t.step = "end stream" => draining' \/ t \in Range(todo')
  BY <1>2, <1>6, StepsOver
<1>8. UNCHANGED pictureVars /\ UNCHANGED dpb_configuration /\ UNCHANGED <<stream, next, discontinuous>>
  BY <1>2, CodingKept DEF fixedVars
<1>9. /\ \A i \in Position : Early(i)' => Early(i)
      /\ \A i \in Position : Leaving(i)' => Nothing'
      /\ \A i \in Position : (Entering(i)' => Coming(i)) /\ (Future(i)' => Coming(i))
      /\ Edge' = Edge
  BY <1>1, <1>2, <1>7, <1>8, WaysKept
<1>10. \A i : Materializes(i)' => Materializes(i)
  BY <1>2, SameTarget
<1>11. /\ Range(reorder') \subseteq Range(reorder) /\ Paired(reorder', Different)
       /\ Paired(pending_picture_completions', InLine)
       /\ \A c \in Range(pending_picture_completions') :
            \E d \in Range(pending_picture_completions) :
              d.picture = c.picture /\ d.shown = c.shown
  BY <1>1, <1>2 DEF Order
<1>12. Tidy'
  BY <1>2, <1>4, <1>5, <1>8, <1>9, <1>10, <1>11, TidyKept
<1>13. Paired(received, Rising) => Paired(received, Rising)'
  <2>1. Rising' = Rising
    <3>1. Position' = Position /\ stream' = stream
      BY <1>2, SetsFixed DEF fixedVars
    <3> QED BY <3>1 DEF Rising, Sooner
  <2> QED BY <1>4, <2>1 DEF Paired
<1> QED BY <1>12, <1>13

\* A picture that leaves the reorder buffer comes after those output already.
LEMMA PoppedEmission ==
  ASSUME DInv, Emission, UNCHANGED fixedVars, UNCHANGED <<output_start_time, received>>,
         NEW e \in Entry, QueueFrame(e), Coming(e.picture),
         \A n \in Position : Coming(n)' => Coming(n),
         \A n \in Position :
           Coming(n)' /\ Materializes(n) /\ e.shown /\ Materializes(e.picture) => Sooner(e.picture, n)
  PROVE  Emission'
<1>1. outputs \in Seq(Output) /\ Types /\ received \in Seq(Position)
  BY DEF DInv, Types, OutputsTyped, CallerTyped
<1>2. Position' = Position /\ stream' = stream /\ Output' = Output /\ Frames' = Frames
  BY SetsFixed DEF fixedVars
<1>3. \A i : Materializes(i)' <=> Materializes(i)
  BY SameTarget
<1>4. /\ Paired(outputs, InTurn)
      /\ \A i \in Range(received), n \in Position : Queued(outputs, n) => Sooner(i, n)
      /\ \A i, n \in Position : Emitted(i) /\ Coming(n) /\ Materializes(n) => Sooner(i, n)
  BY DEF Emission
<1>5. CASE UNCHANGED outputVars
  <2>1. Paired(outputs', InTurn) /\ outputs' = outputs
    BY <1>4, <1>5 DEF outputVars
  <2>2. \A i \in Range(received'), n \in Position : Queued(outputs', n) => Sooner(i, n)
    BY <1>4, <2>1
  <2>3. \A i \in Position : Emitted(i)' => Emitted(i)
    <3>1. \A n : Queued(outputs, n)' <=> Queued(outputs, n)
      BY <2>1 DEF Queued
    <3>2. Range(received)' = Range(received)
      OBVIOUS
    <3> QED BY <3>1, <3>2 DEF Emitted
  <2> QED BY <1>3, <2>1, <2>2, <2>3, EmissionKept
<1>6. ASSUME NEW i \in Position, NEW mark \in Announcements, NEW frame \in Frames,
             i = e.picture, e.shown, Materializes(i), frame.value = i,
             outputs' = Append(outputs, frame) \/ outputs' = Append(Append(outputs, mark), frame)
      PROVE  Emission'
  <2>1. frame \in Output /\ mark \in Output /\ mark \notin Frames
        /\ frame.kind = "Frame" /\ mark.kind # "Frame"
    BY MarksAndFrames DEF Frames, Announcements
  <2>2. PICK q : /\ outputs' = Append(q, frame) /\ q \in Seq(Output)
                 /\ Paired(q, InTurn) /\ \A n : Queued(q, n) <=> Queued(outputs, n)
    <3>1. CASE outputs' = Append(outputs, frame)
      BY <1>1, <1>4, <3>1
    <3>2. CASE outputs' = Append(Append(outputs, mark), frame)
      <4>1. PICK q : q = Append(outputs, mark)
        OBVIOUS
      <4>2. q \in Seq(Output) /\ Range(q) = Range(outputs) \cup {mark}
        BY <1>1, <2>1, <4>1, RangeAppend, AppendProperties
      <4>3. \A y \in Range(outputs) : <<y, mark>> \in InTurn
        <5>1. \A y \in Range(outputs) : y \in Output
          BY <1>1, InRange
        <5> QED BY <2>1, <5>1 DEF InTurn
      <4>4. Paired(q, InTurn)
        BY <1>1, <1>4, <2>1, <4>1, <4>3, PairedAppend
      <4>5. \A n : Queued(q, n) <=> Queued(outputs, n)
        BY <2>1, <4>2 DEF Queued
      <4> QED BY <3>2, <4>1, <4>2, <4>4, <4>5
    <3> QED BY <1>6, <3>1, <3>2
  <2>3. Range(outputs') = Range(q) \cup {frame}
    BY <2>1, <2>2, RangeAppend
  <2>4. \A n : Queued(outputs', n) => Queued(outputs, n) \/ n = i
    BY <1>6, <2>2, <2>3 DEF Queued
  <2>5. \A n \in Position : Emitted(n) => Sooner(n, i)
    BY <1>4, <1>6
  <2>6. Paired(outputs', InTurn)
    <3>1. ASSUME NEW y \in Range(q)
          PROVE  <<y, frame>> \in InTurn
      <4>1. y \in Output
        BY <2>2, InRange
      <4>2. ASSUME y \in Frames
            PROVE  Sooner(y.value, frame.value)
        <5>1. y.kind = "Frame" /\ y.value \in Position
          BY <4>2 DEF Frames
        <5>2. Queued(outputs, y.value)
          BY <2>2, <5>1 DEF Queued
        <5> QED BY <1>6, <2>5, <5>1, <5>2 DEF Emitted
      <4> QED BY <2>1, <4>1, <4>2 DEF InTurn
    <3> QED BY <2>1, <2>2, <3>1, PairedAppend
  <2>7. \A j \in Range(received) : j \in Position /\ Sooner(j, i)
    <3>1. \A j \in Range(received) : j \in Position
      BY <1>1, InRange
    <3> QED BY <2>5, <3>1 DEF Emitted
  <2>8. \A j \in Range(received'), n \in Position : Queued(outputs', n) => Sooner(j, n)
    BY <1>4, <2>4, <2>7
  <2>9. \A j \in Position : Emitted(j)' => Emitted(j) \/ j = i
    <3>1. \A n : Queued(outputs, n)' <=> Queued(outputs', n)
      BY DEF Queued
    <3>2. Range(received)' = Range(received)
      OBVIOUS
    <3> QED BY <2>4, <3>1, <3>2 DEF Emitted
  <2>10. \A j, n : Sooner(j, n)' <=> Sooner(j, n)
    BY <1>2 DEF Sooner
  <2>11. \A j, n \in Position : (Emitted(j) /\ Coming(n) /\ Materializes(n))' => Sooner(j, n)
    <3>1. ASSUME NEW j \in Position, NEW n \in Position, Emitted(j)', Coming(n)', Materializes(n)'
          PROVE  Sooner(j, n)
      <4>1. Materializes(n) /\ Coming(n)
        BY <1>3, <3>1
      <4>2. CASE Emitted(j)
        BY <1>4, <4>1, <4>2
      <4>3. CASE j = i
        BY <1>6, <3>1, <4>1, <4>3
      <4> QED BY <2>9, <3>1, <4>2, <4>3
    <3> QED BY <3>1
  <2>12. InTurn' = InTurn
    BY <1>2, <2>10 DEF InTurn
  <2>13. \A j \in Range(received)', n \in Position : Queued(outputs, n)' => Sooner(j, n)'
    BY <2>8, <2>10 DEF Queued
  <2> QED BY <1>2, <2>6, <2>10, <2>11, <2>12, <2>13 DEF Emission, Paired
<1> QED BY <1>1, <1>5, <1>6, QueueIs

----------
(* What leaves the reorder buffer *)

\* A buffer holds no more pictures decoded early than the stream allows for.
LEMMA FewEarly ==
  ASSUME ConformingStreams, DInv, NEW n \in Position, NEW s \in Seq(Entry), Paired(s, Different),
         \A x \in Range(s) : x.picture \in DecodedEarly(stream, n)
  PROVE  Len(s) <= ReorderDepth[stream[n].format]
<1>1. PICK E : E = DecodedEarly(stream, n)
  OBVIOUS
<1>2. Len(s) \in Nat /\ n \in Int
  BY LenProperties DEF Position
<1>3. IsFiniteSet(E)
  <2>1. IsFiniteSet(1 .. n - 1)
    BY <1>2, FS_Interval
  <2>2. E \in SUBSET (1 .. n - 1)
    BY <1>1 DEF DecodedEarly
  <2> QED BY <2>1, <2>2, FS_Subset
<1>4. PICK f : f = [j \in 1 .. Len(s) |-> s[j].picture]
  OBVIOUS
<1>5. f \in [1 .. Len(s) -> E]
  <2>1. \A j \in 1 .. Len(s) : s[j] \in Range(s)
    BY InRange
  <2> QED BY <1>1, <1>4, <2>1
<1>6. ASSUME NEW j \in 1 .. Len(s), NEW k \in 1 .. Len(s), j < k
      PROVE  f[j] # f[k]
  <2>1. <<s[j], s[k]>> \in Different
    BY <1>6 DEF Paired
  <2> QED BY <1>4, <2>1 DEF Different
<1>7. f \in Injection(1 .. Len(s), E)
  <2>1. ASSUME NEW j \in 1 .. Len(s), NEW k \in 1 .. Len(s), f[j] = f[k]
        PROVE  j = k
    BY <1>2, <1>6, <2>1
  <2> QED BY <1>5, <2>1 DEF Injection, IsInjective
<1>8. Cardinality(1 .. Len(s)) <= Cardinality(E) /\ Cardinality(E) \in Nat
  BY <1>3, <1>7, FS_Injection, FS_CardinalityType
<1>9. Cardinality(1 .. Len(s)) = Len(s)
  <2>1. PICK m \in Nat : m = Len(s)
    BY <1>2
  <2>2. 1 \in Int /\ m \in Int
    OBVIOUS
  <2>3. Cardinality(1 .. m) = IF 1 > m THEN 0 ELSE m - 1 + 1
    BY ONLY <2>2, FS_Interval
  <2>4. (IF 1 > m THEN 0 ELSE m - 1 + 1) = m
    OBVIOUS
  <2> QED BY <2>1, <2>3, <2>4
<1>10. Cardinality(E) <= ReorderDepth[stream[n].format]
  BY <1>1, StreamConforms DEF Conforms, Position
<1>11. ReorderDepth[stream[n].format] \in Int
  BY StreamConforms, DecoderAssumption DEF DecoderAssumption, Formats
<1> QED BY <1>2, <1>8, <1>9, <1>10, <1>11

\* The picture with the lowest count comes before every one that is to come, of
\* those with a frame, when the buffer is fuller than the stream allows for.
LEMMA LowestIsNext ==
  ASSUME ConformingStreams, DInv, NEW n \in Position, NEW s \in Seq(Entry), Paired(s, Different),
         NEW k \in 1 .. Len(s), \A j \in 1 .. Len(s) : s[k].poc <= s[j].poc,
         \A x \in Range(s) : x.poc = stream[x.picture].poc,
         \A x, y \in Range(s) : SameSequence(stream, x.picture, y.picture),
         NEW q \in Position, q = s[k].picture, Materializes(q), Materializes(n),
         \A x \in Range(s) : Materializes(x.picture) =>
           x.picture < n /\ (SameSequence(stream, q, n) => SameSequence(stream, x.picture, n)),
         SameSequence(stream, q, n) => Len(s) > ReorderDepth[stream[n].format]
  PROVE  Sooner(q, n)
<1>1. n \in Int /\ q \in Int /\ \A i \in Position : i \in Nat
  BY DEF Position
<1>2. s[k] \in Range(s) /\ q < n
  <2>1. s[k] \in Range(s)
    BY InRange
  <2> QED BY <2>1
<1>3. CASE ~ SameSequence(stream, q, n)
  BY <1>2, <1>3, TwoPictures
<1>4. CASE SameSequence(stream, q, n)
  <2>1. SUFFICES ASSUME ~ Sooner(q, n)
                 PROVE  FALSE
    OBVIOUS
  <2>2. Sooner(n, q)
    <3>1. SameSequence(stream, n, q)
      BY <1>1, <1>2 DEF SameSequence
    <3> QED BY <1>1, <1>2, <1>4, <2>1, <3>1, TwoPictures
  <2>3. ASSUME NEW x \in Range(s)
        PROVE  x.picture \in DecodedEarly(stream, n)
    <3>1. PICK j \in 1 .. Len(s) : x = s[j]
      BY InRange
    <3>2. x \in Entry
      BY InRange
    <3>3. PICK y \in Position : y = x.picture
      BY <3>2 DEF Entry
    <3>4. stream[q].poc <= stream[y].poc
      BY <1>2, <3>1, <3>3
    <3>5. /\ stream[q].pts \in Nat /\ stream[n].pts \in Nat /\ stream[y].pts \in Nat
          /\ stream[q].poc \in Int /\ stream[y].poc \in Int
      BY StreamConforms
    <3>6. y = q \/ Sooner(q, y)
      <4>1. SUFFICES ASSUME y # q
                     PROVE  Sooner(q, y)
        OBVIOUS
      <4>2. SameSequence(stream, q, y) /\ SameSequence(stream, y, q)
        BY <1>2, <3>3
      <4>3. /\ Sooner(q, y) \/ Sooner(y, q)
            /\ Sooner(y, q) <=> stream[y].poc < stream[q].poc
        BY <4>1, <4>2, TwoPictures
      <4> QED BY <3>4, <3>5, <4>3
    <3>7. stream[y].pts >= stream[q].pts
      BY <3>5, <3>6 DEF Sooner
    <3>8. Sooner(n, y)
      BY <2>2, <3>5, <3>7 DEF Sooner
    <3>9. Materializes(y)
      <4>1. output_start_time \in Int
        BY DEF DInv, Types, CallerTyped, NoTime
      <4> QED BY <3>5, <3>7, <4>1 DEF Materializes
    <3>10. y < n /\ SameSequence(stream, y, n)
      BY <1>4, <3>3, <3>9
    <3>11. y \in 1 .. n - 1
      BY <1>1, <3>10 DEF Position
    <3>12. stream[y].pts > stream[n].pts
      BY <3>5, <3>8 DEF Sooner
    <3> QED BY <3>3, <3>10, <3>11, <3>12 DEF DecodedEarly
  <2>4. Len(s) <= ReorderDepth[stream[n].format]
    BY <2>3, FewEarly
  <2>5. Len(s) \in Int /\ ReorderDepth[stream[n].format] \in Int
    BY StreamConforms, LenProperties, DecoderAssumption DEF DecoderAssumption, Formats
  <2> QED BY <1>4, <2>4, <2>5
<1> QED BY <1>3, <1>4

\* What has still to start is not before the edge.
LEMMA PastEdge ==
  ASSUME DInv, AInv, NEW n \in Position, Entering(n) \/ Future(n)
  PROVE  ~ discontinuous /\ n >= Edge
<1>1. next \in Int /\ n \in Int
  <2>1. next \in Int
    BY CursorsTyped DEF DInv
  <2> QED BY <2>1 DEF Position
<1>2. CASE Entering(n)
  <2>1. PICK t \in Range(todo) : Enters(t) /\ t.arg = n
    BY <1>2 DEF Entering
  <2>2. Placed(t)
    BY DEF AInv, Agenda
  <2>3. n = next - 1 /\ ~ discontinuous
    BY <2>1, <2>2 DEF Enters, Placed
  <2>4. Edge = next - 1
    BY <2>1 DEF Edge
  <2> QED BY <1>1, <2>3, <2>4
<1>3. CASE Future(n)
  <2>1. ~ discontinuous /\ n >= next
    BY <1>3 DEF Future, Open
  <2>2. Edge = next - 1 \/ Edge = next
    BY DEF Edge
  <2> QED BY <1>1, <2>1, <2>2
<1> QED BY <1>2, <1>3

\* The picture p passes into the reorder buffer, from a worker or from the
\* caller's hands: what is left there comes after it.
GoesIn(p, shown) ==
  /\ ReorderPush(p, shown)
  /\ UNCHANGED fixedVars /\ UNCHANGED dpb_configuration
  /\ UNCHANGED <<output_start_time, received, discontinuous>> /\ Edge' = Edge
  /\ Contained(p) /\ ~ Waits(p)
  /\ dpb_configuration # NoFormat /\ shown => stream[p].format = dpb_configuration
  /\ dpb_configuration = NoFormat => ~ Materializes(p)
  /\ Paired(pending_picture_completions', InLine)
  /\ \A c \in Range(pending_picture_completions') :
       \E d \in Range(pending_picture_completions) : d.picture = c.picture /\ d.shown = c.shown
  /\ \A n \in Position :
       /\ AtWorker(n)' => AtWorker(n) /\ (p < n \/ (p # n /\ ~ Materializes(p)))
       /\ Early(n)' => Early(n) /\ p < n
       /\ Leaving(n)' => Nothing'
       /\ (Entering(n)' => Entering(n)) /\ (Future(n)' => Future(n))

\* The buffer with the picture in it.
LEMMA GrownIs ==
  ASSUME DInv, Order, NEW p \in Position, NEW shown \in BOOLEAN, GoesIn(p, shown)
  PROVE  \E grown \in Seq(Entry), k \in Nat, new \in Entry :
           /\ new = [poc |-> stream[p].poc, picture |-> p, shown |-> shown]
           /\ Range(grown) = Range(reorder) \cup {new}
           /\ Paired(grown, Different)
           /\ k \in 1 .. Len(grown) /\ \A j \in 1 .. Len(grown) : grown[k].poc <= grown[j].poc
           /\ \/ reorder' = grown /\ UNCHANGED outputVars
              \/ /\ Len(grown) > max_num_reorder_frames
                 /\ reorder' = RemoveAt(grown, k) /\ QueueFrame(grown[k])
<1>1. reorder \in Seq(Entry) /\ max_num_reorder_frames \in Nat
  BY Constants DEF DInv, Types, ReorderTyped
<1>2. PICK new : new = [poc |-> stream[p].poc, picture |-> p, shown |-> shown]
  OBVIOUS
<1>3. new \in Entry /\ new.picture = p
  <2>1. stream[p].poc \in Int
    BY Constants DEF DInv
  <2> QED BY <1>2, <2>1 DEF Entry
<1>4. PICK grown : grown = Append(reorder, new)
  OBVIOUS
<1>5. grown \in Seq(Entry) /\ Range(grown) = Range(reorder) \cup {new}
  BY <1>1, <1>3, <1>4, RangeAppend, AppendProperties
<1>6. Paired(grown, Different)
  <2>1. \A y \in Range(reorder) : y \in Entry
    BY <1>1, InRange
  <2>2. \A y \in Range(reorder) : <<y, new>> \in Different
    BY <1>3, <2>1 DEF GoesIn, Waits, Different
  <2>3. Paired(reorder, Different)
    BY DEF Order
  <2> QED BY <1>1, <1>3, <1>4, <2>2, <2>3, PairedAppend
<1>7. PICK k : k = Lowest(grown)
  OBVIOUS
<1>8. k \in 1 .. Len(grown) /\ \A j \in 1 .. Len(grown) : grown[k].poc <= grown[j].poc
  <2>1. grown # << >>
    BY <1>1, <1>3, <1>4, Appended, EmptySeq
  <2> QED BY <1>5, <1>7, <2>1, LowestIsThere DEF Entry
<1>9. Len(grown) \in Nat /\ k \in Nat
  BY <1>5, <1>8, LenProperties
<1>10. \/ reorder' = grown /\ UNCHANGED outputVars
       \/ /\ Len(grown) > max_num_reorder_frames
          /\ reorder' = RemoveAt(grown, k) /\ QueueFrame(grown[k])
  <2>1. ReorderPush(p, shown)
    BY DEF GoesIn
  <2>2. IF Len(grown) <= max_num_reorder_frames
        THEN reorder' = grown /\ UNCHANGED outputVars
        ELSE reorder' = RemoveAt(grown, k) /\ QueueFrame(grown[k])
    BY <1>2, <1>4, <1>7, <2>1 DEF ReorderPush
  <2>3. Len(grown) <= max_num_reorder_frames \/ Len(grown) > max_num_reorder_frames
    BY <1>1, <1>9
  <2> QED BY <2>2, <2>3
<1> QED BY <1>2, <1>3, <1>5, <1>6, <1>8, <1>9, <1>10

LEMMA PushTidy ==
  ASSUME ConformingStreams, DInv, AInv, Coding, Tidy,
         NEW p \in Position, NEW shown \in BOOLEAN, GoesIn(p, shown)
  PROVE  Tidy'
<1>1. Order /\ Fitting /\ Emission
  BY DEF Tidy
<1>2. /\ UNCHANGED fixedVars /\ UNCHANGED dpb_configuration
      /\ UNCHANGED <<output_start_time, received, discontinuous>> /\ Edge' = Edge
      /\ UNCHANGED max_num_reorder_frames
      /\ Contained(p)
  BY DEF GoesIn, ReorderPush
<1>3. PICK grown \in Seq(Entry), k \in Nat, new \in Entry :
        /\ new = [poc |-> stream[p].poc, picture |-> p, shown |-> shown]
        /\ Range(grown) = Range(reorder) \cup {new}
        /\ Paired(grown, Different)
        /\ k \in 1 .. Len(grown) /\ \A j \in 1 .. Len(grown) : grown[k].poc <= grown[j].poc
        /\ \/ reorder' = grown /\ UNCHANGED outputVars
           \/ /\ Len(grown) > max_num_reorder_frames
              /\ reorder' = RemoveAt(grown, k) /\ QueueFrame(grown[k])
  BY <1>1, GrownIs
<1>4. new.poc = stream[p].poc /\ new.picture = p /\ new.shown = shown
  BY <1>3
<1>5. /\ Range(reorder') \subseteq Range(grown) /\ Paired(reorder', Different)
  BY <1>3, RangeRemove, PairedRemove
<1>6. \A i : Waits(i)' => Waits(i) \/ i = p
  <2>1. Range(reorder)' = Range(reorder')
    OBVIOUS
  <2> QED BY <1>3, <1>4, <1>5, <2>1 DEF Waits
<1>7. \A n \in Position :
       /\ AtWorker(n)' => AtWorker(n) /\ (p < n \/ (p # n /\ ~ Materializes(p)))
       /\ Early(n)' => Early(n) /\ p < n
       /\ Leaving(n)' => Nothing'
       /\ (Entering(n)' => Entering(n)) /\ (Future(n)' => Future(n))
  BY DEF GoesIn
<1>8. \A n \in Position : Contained(n)' => Contained(n)
  BY <1>2, <1>6, <1>7 DEF Contained
<1>9. \A n \in Position : Coming(n)' => Coming(n)
  BY <1>7, <1>8 DEF Coming
<1>10. /\ Position' = Position /\ stream' = stream /\ Entry' = Entry /\ Completion' = Completion
       /\ Different' = Different /\ InLine' = InLine
  <2>1. Position' = Position /\ stream' = stream /\ Entry' = Entry /\ Completion' = Completion
    BY <1>2, SetsFixed DEF fixedVars
  <2> QED BY <2>1 DEF Different, InLine
<1>11. \A i : Materializes(i)' <=> Materializes(i)
  BY <1>2, SameTarget
<1>12. \A x \in Range(grown) : /\ x \in Entry /\ x.picture \in Position /\ Contained(x.picture)
                               /\ x.poc = stream[x.picture].poc
                               /\ x.picture = p \/ Waits(x.picture)
  <2>1. \A x \in Range(grown) : x \in Entry
    BY InRange
  <2>2. \A x \in Range(grown) : x.picture = p \/ Waits(x.picture)
    BY <1>3, <1>4 DEF Waits
  <2>3. \A x \in Range(grown) : x.poc = stream[x.picture].poc
    BY <1>1, <1>3, <1>4 DEF Order
  <2> QED BY <1>2, <2>1, <2>2, <2>3 DEF Entry, Contained
<1>13. Order'
  <2>1. \A e \in Range(reorder)' : e.poc = stream'[e.picture].poc
    <3>1. Range(reorder)' = Range(reorder')
      OBVIOUS
    <3> QED BY <1>5, <1>10, <1>12, <3>1
  <2>2. Paired(reorder, Different)'
    BY <1>5, <1>10 DEF Paired
  <2>3. Paired(pending_picture_completions, InLine)'
    <3>1. Paired(pending_picture_completions', InLine)
      BY DEF GoesIn
    <3> QED BY <1>10, <3>1 DEF Paired
  <2>4. ASSUME NEW i \in Position, NEW n \in Position
        PROVE  /\ (Waits(i) \/ AtWorker(i))' /\ Early(n)' => i < n
               /\ (Waits(i) /\ AtWorker(n))' => i < n \/ (i # n /\ ~ Materializes(i)')
               /\ (Contained(i) /\ Contained(n))' => SameSequence(stream', i, n)
    <3>1. (Waits(i) \/ AtWorker(i))' /\ Early(n)' => i < n
      BY <1>1, <1>6, <1>7 DEF Order
    <3>2. (Waits(i) /\ AtWorker(n))' => i < n \/ (i # n /\ ~ Materializes(i)')
      BY <1>1, <1>6, <1>7, <1>11 DEF Order
    <3>3. (Contained(i) /\ Contained(n))' => SameSequence(stream', i, n)
      BY <1>1, <1>8, <1>10 DEF Order
    <3> QED BY <3>1, <3>2, <3>3
  <2>5. ASSUME NEW i \in Position
        PROVE  /\ Leaving(i)' => Nothing'
               /\ Contained(i)' /\ ~ discontinuous' =>
                    i < Edge' /\ SameSequence(stream', i, Edge' - 1)
    BY <1>1, <1>2, <1>7, <1>8, <1>10 DEF Order
  <2> QED BY <1>10, <2>1, <2>2, <2>3, <2>4, <2>5 DEF Order
<1>14. dpb_configuration # NoFormat =>
         \A x \in Range(grown) : x.shown => stream[x.picture].format = dpb_configuration
  <2>1. dpb_configuration # NoFormat /\ shown => stream[p].format = dpb_configuration
    BY DEF GoesIn
  <2> QED BY <1>1, <1>3, <1>4, <2>1 DEF Fitting
<1>15. Fitting'
  <2>1. SUFFICES ASSUME dpb_configuration # NoFormat
                 PROVE  Fitting'
    BY <1>2 DEF Fitting
  <2>2. max_num_reorder_frames = ReorderDepth[dpb_configuration]
    BY <1>1, <2>1 DEF Fitting
  <2>3. \A e \in Range(reorder)' : e.shown => stream[e.picture].format = dpb_configuration
    <3>1. Range(reorder)' = Range(reorder')
      OBVIOUS
    <3> QED BY <1>5, <1>14, <2>1, <3>1
  <2>4. \A c \in Range(pending_picture_completions)' :
          c.shown => stream[c.picture].format = dpb_configuration
    <3>1. \A c \in Range(pending_picture_completions') :
            \E d \in Range(pending_picture_completions) :
              d.picture = c.picture /\ d.shown = c.shown
      BY DEF GoesIn
    <3>2. Range(pending_picture_completions)' = Range(pending_picture_completions')
      OBVIOUS
    <3> QED BY <1>1, <2>1, <3>1, <3>2 DEF Fitting
  <2>5. \A i \in Position :
          (Early(i) /\ Materializes(i))' => stream[i].format = dpb_configuration
    BY <1>1, <1>7, <1>11, <2>1 DEF Fitting
  <2> QED BY <1>2, <1>10, <2>2, <2>3, <2>4, <2>5 DEF Fitting
<1>16. CASE reorder' = grown /\ UNCHANGED outputVars
  <2>1. outputs' = outputs
    BY <1>16 DEF outputVars
  <2>2. /\ \A n : Queued(outputs, n)' <=> Queued(outputs, n)
        /\ Range(received)' = Range(received)
    BY <1>2, <2>1 DEF Queued
  <2>3. /\ Paired(outputs', InTurn)
        /\ \A i \in Range(received'), n \in Position : Queued(outputs', n) => Sooner(i, n)
        /\ \A i \in Position : Emitted(i)' => Emitted(i)
    BY <1>1, <1>2, <2>1, <2>2 DEF Emission, Emitted
  <2>4. Emission'
    BY <1>1, <1>2, <1>9, <1>11, <2>3, EmissionKept
  <2> QED BY <1>13, <1>15, <2>4 DEF Tidy
<1>17. CASE /\ Len(grown) > max_num_reorder_frames
            /\ reorder' = RemoveAt(grown, k) /\ QueueFrame(grown[k])
  <2>1. PICK e \in Entry : e = grown[k] /\ e \in Range(grown) /\ QueueFrame(e)
    <3>1. grown[k] \in Range(grown)
      BY <1>3, InRange
    <3> QED BY <1>12, <1>17, <3>1
  <2>2. PICK q \in Position : q = e.picture /\ Contained(q)
    BY <1>12, <2>1
  <2>3. Coming(e.picture)
    BY <2>2 DEF Coming
  <2>4. ASSUME NEW n \in Position, Coming(n)', Materializes(n), e.shown, Materializes(q)
        PROVE  Sooner(q, n)
    <3>1. \A x \in Range(grown) : SameSequence(stream, q, x.picture)
                                  /\ SameSequence(stream, x.picture, q)
      BY <1>1, <1>12, <2>2 DEF Order
    <3>2. CASE Waits(n)'
      <4>1. PICK x \in Range(reorder') : x.picture = n
        <5>1. Range(reorder)' = Range(reorder')
          OBVIOUS
        <5> QED BY <3>2, <5>1 DEF Waits
      <4>2. PICK j \in 1 .. Len(grown) : j # k /\ x = grown[j]
        BY <1>3, <1>17, <4>1, PairedRemove
      <4>3. x.picture # q
        <5>1. <<grown[j], grown[k]>> \in Different \/ <<grown[k], grown[j]>> \in Different
          <6>1. j < k \/ k < j
            BY <1>3, <4>2
          <6> QED BY <1>3, <4>2, <6>1 DEF Paired
        <5> QED BY <2>1, <2>2, <4>2, <5>1 DEF Different
      <4>4. x \in Range(grown) /\ e.poc <= x.poc
        BY <1>3, <1>5, <2>1, <4>1, <4>2
      <4>5. stream[q].poc <= stream[n].poc
        BY <1>12, <2>1, <2>2, <4>1, <4>4
      <4>6. SameSequence(stream, q, n) /\ SameSequence(stream, n, q) /\ n # q
        BY <3>1, <4>1, <4>3, <4>4
      <4>7. /\ Sooner(q, n) \/ Sooner(n, q)
            /\ Sooner(n, q) <=> stream[n].poc < stream[q].poc
        BY <4>6, TwoPictures
      <4>8. stream[n].poc \in Int /\ stream[q].poc \in Int
        BY StreamConforms
      <4> QED BY <4>5, <4>7, <4>8
    <3>3. CASE ~ Waits(n)'
      <4>1. \A x \in Range(grown) : Materializes(x.picture) =>
              x.picture < n /\ (SameSequence(stream, q, n) => SameSequence(stream, x.picture, n))
        <5>1. CASE AtWorker(n)' \/ Early(n)'
          <6>1. Contained(n)
            BY <1>7, <5>1 DEF Contained
          <6>2. \A x \in Range(grown) : Materializes(x.picture) => x.picture < n
            BY <1>1, <1>7, <1>12, <5>1 DEF Order
          <6>3. \A x \in Range(grown) : SameSequence(stream, x.picture, n)
            BY <1>1, <1>12, <6>1 DEF Order
          <6> QED BY <6>2, <6>3
        <5>2. CASE ~ (AtWorker(n)' \/ Early(n)')
          <6>1. ~ discontinuous /\ n >= Edge
            <7>1. Entering(n) \/ Future(n)
              BY <1>7, <2>4, <3>3, <5>2 DEF Coming, Contained
            <7> QED BY <7>1, PastEdge
          <6>2. \A x \in Range(grown) :
                  x.picture < Edge /\ SameSequence(stream, x.picture, Edge - 1)
            BY <1>1, <1>12, <6>1 DEF Order
          <6>3. Edge \in Int /\ n \in Int /\ q \in Int /\ q < Edge
            <7>1. next \in Int
              BY CursorsTyped DEF DInv
            <7> QED BY <2>1, <2>2, <6>2, <7>1 DEF Edge, Position
          <6>4. ASSUME NEW x \in Range(grown), SameSequence(stream, q, n)
                PROVE  SameSequence(stream, x.picture, n)
            <7>1. PICK y \in Position : y = x.picture /\ SameSequence(stream, y, Edge - 1)
              BY <1>12, <6>2
            <7>2. y \in Int
              BY DEF Position
            <7>3. \A m \in y + 1 .. n : m \in y + 1 .. Edge - 1 \/ m \in q + 1 .. n
              BY <6>3, <7>2
            <7> QED BY <6>4, <7>1, <7>3 DEF SameSequence
          <6>5. \A x \in Range(grown) : x.picture < n
            <7>1. \A x \in Range(grown) : x.picture \in Int
              BY <1>12 DEF Position
            <7> QED BY <6>1, <6>2, <6>3, <7>1
          <6> QED BY <6>4, <6>5
        <5> QED BY <5>1, <5>2
      <4>2. ASSUME SameSequence(stream, q, n)
            PROVE  Len(grown) > ReorderDepth[stream[n].format]
        <5>1. q < n
          BY <2>1, <2>2, <2>4, <4>1
        <5>2. SameSequence(stream, n, q) /\ n # q
          BY <5>1 DEF SameSequence, Position
        <5>3. stream[q].format = stream[n].format
          BY <4>2, <5>2, TwoPictures
        <5>4. dpb_configuration # NoFormat
          <6>1. dpb_configuration = NoFormat => ~ Materializes(p)
            BY DEF GoesIn
          <6>2. dpb_configuration = NoFormat => \A x \in Range(reorder) : ~ Materializes(x.picture)
            BY DEF Coding
          <6> QED BY <1>3, <1>4, <2>1, <2>2, <2>4, <6>1, <6>2
        <5>5. stream[q].format = dpb_configuration
          BY <1>14, <2>1, <2>2, <2>4, <5>4
        <5>6. max_num_reorder_frames = ReorderDepth[dpb_configuration]
          BY <1>1, <5>4 DEF Fitting
        <5> QED BY <1>17, <5>3, <5>5, <5>6
      <4>3. \A x, y \in Range(grown) : SameSequence(stream, x.picture, y.picture)
        BY <1>1, <1>12 DEF Order
      <4>4. \A x \in Range(grown) : x.poc = stream[x.picture].poc
        BY <1>12
      <4>5. q = grown[k].picture /\ Materializes(q) /\ Materializes(n)
        BY <2>1, <2>2, <2>4
      <4> QED BY <1>3, <4>1, <4>2, <4>3, <4>4, <4>5, LowestIsNext
    <3> QED BY <3>2, <3>3
  <2>5. \A n \in Position :
          Coming(n)' /\ Materializes(n) /\ e.shown /\ Materializes(e.picture) =>
            Sooner(e.picture, n)
    BY <2>2, <2>4
  <2>6. Emission'
    BY <1>1, <1>2, <1>9, <2>1, <2>3, <2>5, PoppedEmission
  <2> QED BY <1>13, <1>15, <2>6 DEF Tidy
<1> QED BY <1>3, <1>16, <1>17

\* A step goes that starts nothing.
LEMMA StepAside ==
  ASSUME DInv, AInv, todo # << >>, UNCHANGED <<next, discontinuous, draining>>,
         \/ todo' = todo
         \/ todo' = Tail(todo) /\ Head(todo).step \notin {"start", "guard", "end stream"}
  PROVE  /\ \A i : /\ Entering(i)' => Entering(i)
                   /\ Future(i)' => Future(i)
                   /\ Leaving(i)' => Leaving(i)
         /\ Edge' = Edge
<1>1. Range(todo)' = Range(todo') /\ Range(todo) = {Head(todo)} \cup Range(Tail(todo))
  BY Ahead DEF AInv, Agenda
<1>2. /\ Range(todo)' \subseteq Range(todo)
      /\ \A t \in Range(todo) : t.step \in {"start", "guard", "end stream"} => t \in Range(todo)'
  BY <1>1
<1>3. \A t : Enters(t)' <=> Enters(t)
  BY DEF Enters
<1>4. \A t : Enters(t) => (t \in Range(todo)' <=> t \in Range(todo))
  BY <1>2 DEF Enters
<1>5. Edge' = Edge
  <2>1. (\E t \in Range(todo)' : Enters(t)') <=> (\E t \in Range(todo) : Enters(t))
    BY <1>3, <1>4
  <2> QED BY <2>1 DEF Edge
<1>6. \A i : Entering(i)' => Entering(i)
  BY <1>3, <1>4 DEF Entering
<1>7. \A i : Future(i)' => Future(i)
  BY <1>2 DEF Future, Open
<1>8. \A i : Leaving(i)' => Leaving(i)
  BY <1>2 DEF Leaving
<1> QED BY <1>5, <1>6, <1>7, <1>8

LEMMA TakenTidy ==
  ASSUME ConformingStreams, DInv, AInv, Coding, Tidy, todo # << >>, UNCHANGED fixedVars,
         TakeCompletion, errors' = errors
  PROVE  Tidy'
<1>1. Order /\ Fitting
  BY DEF Tidy
<1>2. /\ pending_picture_completions # << >>
      /\ pending_picture_completions' = Tail(pending_picture_completions)
      /\ UNCHANGED codingVars /\ UNCHANGED quietVars
      /\ ReorderPush(Earliest.picture, Earliest.shown) /\ todo' = todo
  <2>1. ~ Fail
    <3>1. errors \in Nat
      BY DEF DInv, Types, CallerTyped
    <3> QED BY <3>1 DEF Fail
  <2> QED BY <2>1 DEF TakeCompletion, EarliestReady
<1>3. /\ UNCHANGED <<current_picture, current_skipped_picture, dpb_configuration>>
      /\ UNCHANGED <<output_start_time, draining, next, discontinuous, received>>
  BY <1>2, QuietKept, CodingKept
<1>4. PICK w \in Seq(Completion) : w = pending_picture_completions /\ w # << >>
  BY <1>2 DEF DInv, Types, PendingTyped
<1>5. PICK c \in Completion : c = Head(w)
  BY <1>4, RangeTail
<1>6. /\ Range(w) = {c} \cup Range(Tail(w))
      /\ Paired(Tail(w), InLine) /\ \A x \in Range(Tail(w)) : <<c, x>> \in InLine
  BY <1>1, <1>4, <1>5, RangeTail, PairedTail DEF Order
<1>7. PICK p \in Position : p = c.picture
  BY <1>5 DEF Completion
<1>8. PICK shown \in BOOLEAN : shown = c.shown
  BY <1>5 DEF Completion
<1>9. ReorderPush(p, shown)
  BY <1>2, <1>4, <1>5, <1>7, <1>8 DEF Earliest
<1>10. AtWorker(p) /\ Contained(p)
  BY <1>4, <1>6, <1>7 DEF AtWorker, Contained
<1>11. ~ Waits(p)
  <2>1. p \in Nat
    BY DEF Position
  <2> QED BY <1>1, <1>10, <2>1 DEF Order
<1>12. /\ \A i : /\ Entering(i)' => Entering(i)
                 /\ Future(i)' => Future(i)
                 /\ Leaving(i)' => Leaving(i)
       /\ Edge' = Edge
  BY <1>2, <1>3, StepAside
<1>13. Range(pending_picture_completions)' = Range(Tail(w))
  BY <1>2, <1>4
<1>14. ASSUME NEW n \in Position
       PROVE  /\ AtWorker(n)' => AtWorker(n) /\ (p < n \/ (p # n /\ ~ Materializes(p)))
              /\ Early(n)' => Early(n) /\ p < n
              /\ Leaving(n)' => Nothing'
              /\ (Entering(n)' => Entering(n)) /\ (Future(n)' => Future(n))
  <2>1. AtWorker(n)' => AtWorker(n) /\ p < n
    <3>1. SUFFICES ASSUME AtWorker(n)'
                   PROVE  AtWorker(n) /\ p < n
      OBVIOUS
    <3>2. PICK x \in Range(Tail(w)) : x.picture = n
      BY <1>13, <3>1 DEF AtWorker
    <3>3. x \in Range(w) /\ <<c, x>> \in InLine
      BY <1>6
    <3> QED BY <1>4, <1>7, <3>2, <3>3 DEF AtWorker, InLine
  <2>2. Early(n)' => Early(n)
    <3>1. InHand(n)' => InHand(n)
      BY <1>3 DEF InHand
    <3> QED BY <1>12, <3>1 DEF Early
  <2>3. Early(n) => p < n
    BY <1>1, <1>10 DEF Order
  <2>4. Leaving(n)' => Nothing'
    BY <1>1, <1>3, <1>12 DEF Order, Nothing
  <2> QED BY <1>12, <2>1, <2>2, <2>3, <2>4
<1>15. Paired(pending_picture_completions', InLine)
  BY <1>2, <1>4, <1>6
<1>16. \A x \in Range(pending_picture_completions') :
         \E d \in Range(pending_picture_completions) : d.picture = x.picture /\ d.shown = x.shown
  BY <1>2, <1>4, <1>6
<1>17. /\ dpb_configuration # NoFormat
       /\ dpb_configuration # NoFormat /\ shown => stream[p].format = dpb_configuration
  <2>1. dpb_configuration # NoFormat
    BY <1>2 DEF Coding
  <2>2. c \in Range(pending_picture_completions)
    BY <1>4, <1>6
  <2> QED BY <1>1, <1>7, <1>8, <2>1, <2>2 DEF Fitting
<1>18. GoesIn(p, shown)
  BY <1>3, <1>9, <1>10, <1>11, <1>12, <1>14, <1>15, <1>16, <1>17 DEF GoesIn
<1> QED BY <1>18, PushTidy

LEMMA PushStepTidy ==
  ASSUME ConformingStreams, DInv, AInv, Coding, Tidy, Pushes, Push
  PROVE  Tidy'
<1>1. Order /\ Fitting
  BY DEF Tidy
<1>2. /\ todo # << >> /\ Head(todo).step = "push" /\ todo' = Tail(todo)
      /\ UNCHANGED fixedVars /\ UNCHANGED codingVars /\ UNCHANGED quietVars
      /\ UNCHANGED pending_picture_completions
      /\ ReorderPush(Arg, Materializes(Arg))
  BY DEF Push, Executes, Continue
<1>3. /\ UNCHANGED <<current_picture, current_skipped_picture, dpb_configuration>>
      /\ UNCHANGED <<output_start_time, draining, next, discontinuous, received>>
  BY <1>2, QuietKept, CodingKept
<1>4. Head(todo) \in TypedStep /\ Range(todo) = {Head(todo)} \cup Range(Tail(todo))
      /\ \A b \in Range(Tail(todo)) : MayPrecede(Head(todo), b)
  BY <1>2, Ahead DEF AInv, Agenda, Precedes
<1>5. PICK p \in Position : p = Arg /\ p = Head(todo).arg
  BY <1>2, <1>4 DEF TypedStep, OfPicture, Arg
<1>6. PICK shown \in BOOLEAN : shown = Materializes(p)
  <2>1. Materializes(p) \in BOOLEAN
    BY DEF Materializes
  <2> QED BY <2>1
<1>7. ReorderPush(p, shown)
  BY <1>2, <1>5, <1>6
<1>8. Leaving(p) /\ Early(p) /\ Contained(p)
  <2>1. Head(todo).step \in Passing
    BY <1>2 DEF Passing
  <2> QED BY <1>4, <1>5, <2>1 DEF Leaving, Early, Contained
<1>9. p \in Nat /\ ~ Waits(p) /\ ~ AtWorker(p)
  <2>1. p \in Nat
    BY DEF Position
  <2> QED BY <1>1, <1>8, <2>1 DEF Order
<1>10. \A i \in Position : ~ Leaving(i)' /\ ~ Early(i)'
  <2>1. Nothing
    BY <1>1, <1>8 DEF Order
  <2>2. \A i \in Position : ~ InHand(i)'
    BY <1>3, <2>1 DEF InHand, Nothing, NoPicture, Position
  <2>3. \A b \in Range(todo)' : b.step \notin Passing
    <3>1. Range(todo)' = Range(Tail(todo))
      BY <1>2
    <3> QED BY <1>2, <1>4, <3>1 DEF MayPrecede
  <2>4. \A i : ~ Leaving(i)'
    BY <2>3 DEF Leaving
  <2> QED BY <2>2, <2>4 DEF Early
<1>11. /\ \A i : /\ Entering(i)' => Entering(i)
                 /\ Future(i)' => Future(i)
       /\ Edge' = Edge
  BY <1>2, <1>3, StepAside
<1>12. \A n \in Position : AtWorker(n)' => AtWorker(n) /\ p # n /\ ~ Materializes(p)
  <2>1. \A n : AtWorker(n)' <=> AtWorker(n)
    <3>1. Range(pending_picture_completions)' = Range(pending_picture_completions)
      BY <1>2
    <3> QED BY <3>1 DEF AtWorker
  <2>2. pending_picture_completions = << >> => \A n : ~ AtWorker(n)
    BY NoSteps DEF AtWorker
  <2>3. pending_picture_completions = << >> \/ ~ Materializes(p)
    BY <1>2, <1>5 DEF Pushes
  <2> QED BY <1>9, <2>1, <2>2, <2>3
<1>13. /\ Paired(pending_picture_completions', InLine)
       /\ \A x \in Range(pending_picture_completions') :
            \E d \in Range(pending_picture_completions) :
              d.picture = x.picture /\ d.shown = x.shown
  BY <1>1, <1>2 DEF Order
<1>14. dpb_configuration = NoFormat => ~ Materializes(p)
  BY <1>2, <1>4, <1>5 DEF Coding
<1>15. dpb_configuration # NoFormat /\ shown => stream[p].format = dpb_configuration
  BY <1>1, <1>6, <1>8 DEF Fitting
<1>16. GoesIn(p, shown)
  BY <1>2, <1>3, <1>7, <1>8, <1>9, <1>10, <1>11, <1>12, <1>13, <1>14, <1>15 DEF GoesIn
<1> QED BY <1>16, PushTidy

\* What is to come after the buffer is emptied is of another sequence.
LEMMA AfterDraining ==
  ASSUME ConformingStreams, DInv, AInv, EndsApart, Order, todo # << >>, Head(todo).step = "drain",
         NEW q \in Position, Waits(q), NEW n \in Position, Entering(n) \/ Future(n)
  PROVE  Sooner(q, n)
<1>1. PICK t : t = Tail(todo)
  OBVIOUS
<1>2. /\ Starts(todo, Head(todo), t) /\ t \in Seq(TypedStep) /\ Head(todo) \in TypedStep
      /\ Range(todo) = {Head(todo)} \cup Range(t)
      /\ Shaped(stream, t, next) /\ Precedes(stream, Head(todo), t, next)
      /\ \A b \in Range(todo) : Placed(b)
  BY <1>1, Ahead DEF AInv, Agenda
<1>3. t # << >>
  <2>1. \E b \in Range(t) : Awaits(stream, Head(todo), b)
    BY <1>2 DEF Precedes, Promising
  <2> QED BY <2>1, NoSteps
<1>4. PICK b \in TypedStep : b = t[1] /\ b = Head(t) /\ b \in Range(t) /\ Range(t) = {b} \cup Range(Tail(t))
  BY <1>2, <1>3, RangeTail
<1>5. Adjoins(stream, Head(todo), b, next)
  BY <1>2, <1>3, <1>4 DEF Precedes
<1>6. b.step \in Ending \/ (b.step = "start" /\ stream[b.arg].idr)
  BY <1>5 DEF Adjoins
<1>7. ~ discontinuous /\ n >= Edge
  BY PastEdge
<1>8. q < Edge
  BY <1>7 DEF Order, Contained
<1>9. next \in Int /\ n \in Int /\ q \in Int /\ n <= Len(stream) /\ Edge \in Int
  <2>1. next \in Int
    BY CursorsTyped DEF DInv
  <2> QED BY <2>1 DEF Position, Edge
<1>10. ASSUME stream[Edge].idr
       PROVE  Sooner(q, n)
  <2>1. Edge \in q + 1 .. n /\ q < n
    BY <1>7, <1>8, <1>9
  <2>2. ~ SameSequence(stream, q, n)
    BY <1>10, <2>1 DEF SameSequence
  <2> QED BY <2>1, <2>2, TwoPictures
<1>11. CASE b.step = "start" /\ stream[b.arg].idr
  <2>1. b.arg = next - 1
    BY <1>2, <1>4, <1>11 DEF Placed
  <2>2. Edge = next - 1
    BY <1>2, <1>4, <1>11 DEF Edge, Enters
  <2> QED BY <1>10, <1>11, <2>1, <2>2
<1>12. CASE b.step \in Ending
  <2>1. \A x \in Range(Tail(t)) : x.step \in {"poll", "accepted"}
    <3>1. Starts(t, b, Tail(t))
      BY <1>2, <1>3, <1>4, RangeTail DEF Starts
    <3>2. Precedes(stream, b, Tail(t), next)
      BY <1>2, <3>1, Prefix
    <3> QED BY <1>12, <3>2 DEF Precedes, MayPrecede
  <2>2. \A x \in Range(todo) : ~ Enters(x)
    <3>1. \A x \in Range(todo) : x.step \notin {"start", "guard"}
      BY <1>2, <1>4, <1>12, <2>1 DEF Ending
    <3> QED BY <3>1 DEF Enters
  <2>3. Edge = next /\ ~ Entering(n)
    BY <2>2 DEF Edge, Entering
  <2>4. b.step # "end stream"
    BY <1>2, <1>4, <2>3 DEF Future, Open
  <2>5. b.step = "end sequence"
    BY <1>12, <2>4 DEF Ending
  <2>6. next <= Len(stream)
    BY <1>7, <1>9, <2>3, StreamConforms
  <2>7. stream[next].idr
    BY <1>2, <1>4, <2>5, <2>6 DEF EndsApart
  <2> QED BY <1>10, <2>3, <2>7
<1> QED BY <1>6, <1>11, <1>12

LEMMA DrainTidy ==
  ASSUME ConformingStreams, DInv, AInv, Heads, EndsApart, Tidy, DrainReorder, reorder # << >>
  PROVE  Tidy'
<1>1. Order /\ Fitting /\ Emission
  BY DEF Tidy
<1>2. PICK k : k = Lowest(reorder)
  OBVIOUS
<1>3. /\ todo # << >> /\ Head(todo).step = "drain" /\ todo' = todo
      /\ UNCHANGED fixedVars /\ UNCHANGED codingVars /\ UNCHANGED quietVars
      /\ UNCHANGED pending_picture_completions /\ UNCHANGED max_num_reorder_frames
      /\ reorder' = RemoveAt(reorder, k) /\ QueueFrame(reorder[k])
  BY <1>2 DEF DrainReorder, Executes
<1>4. /\ UNCHANGED <<current_picture, current_skipped_picture, dpb_configuration>>
      /\ UNCHANGED <<output_start_time, draining, next, discontinuous, received>>
  BY <1>3, QuietKept, CodingKept
<1>5. /\ reorder \in Seq(Entry) /\ k \in 1 .. Len(reorder) /\ Len(reorder) \in Nat
      /\ \A l \in 1 .. Len(reorder) : reorder[k].poc <= reorder[l].poc
  <2>1. reorder \in Seq(Entry)
    BY DEF DInv, Types, ReorderTyped
  <2> QED BY <1>2, <2>1, LowestIsThere, LenProperties DEF Entry
<1>6. /\ Range(reorder') \subseteq Range(reorder) /\ Paired(reorder', Different)
      /\ \A x \in Range(reorder') : \E j \in 1 .. Len(reorder) : j # k /\ x = reorder[j]
  BY <1>1, <1>3, <1>5, RangeRemove, PairedRemove DEF Order
<1>7. PICK e \in Entry : e = reorder[k] /\ e \in Range(reorder) /\ QueueFrame(e)
  <2>1. reorder[k] \in Range(reorder) /\ reorder[k] \in Entry
    BY <1>5, InRange
  <2> QED BY <1>3, <2>1
<1>8. PICK q \in Position : q = e.picture /\ Waits(q) /\ Contained(q) /\ Coming(q)
  BY <1>7 DEF Entry, Waits, Contained, Coming
<1>9. /\ \A i : /\ Entering(i)' => Entering(i)
                /\ Future(i)' => Future(i)
                /\ Leaving(i)' => Leaving(i)
      /\ Edge' = Edge
  BY <1>3, <1>4, StepAside
<1>10. \A i \in Position : ~ Leaving(i) /\ ~ Early(i) /\ ~ AtWorker(i)
  <2>1. Nothing
    BY <1>3, DoneAfterFinish DEF Done
  <2>2. \A i \in Position : ~ InHand(i)
    BY <2>1 DEF InHand, Nothing, NoPicture, Position
  <2>3. \A b \in Range(todo) : b.step \notin Passing
    <3>1. Range(todo) = {Head(todo)} \cup Range(Tail(todo))
          /\ \A b \in Range(Tail(todo)) : MayPrecede(Head(todo), b)
      BY <1>3, Ahead DEF AInv, Agenda, Precedes
    <3> QED BY <1>3, <3>1 DEF MayPrecede, Passing
  <2>4. \A i : ~ Leaving(i)
    BY <2>3 DEF Leaving
  <2>5. \A i : ~ AtWorker(i)
    <3>1. Stands(todo[1]) /\ todo[1] = Head(todo)
      BY <1>3, Ahead DEF Heads, AInv, Agenda
    <3>2. pending_picture_completions = << >>
      BY <1>3, <3>1 DEF Stands
    <3> QED BY <3>2, NoSteps DEF AtWorker
  <2> QED BY <2>2, <2>4, <2>5 DEF Early
<1>11. \A i \in Position : /\ Early(i)' => Early(i)
                           /\ AtWorker(i)' => AtWorker(i)
                           /\ Leaving(i)' => Nothing'
                           /\ Waits(i)' => Waits(i)
  <2>1. Range(pending_picture_completions)' = Range(pending_picture_completions)
        /\ Range(reorder)' = Range(reorder')
    BY <1>3
  <2>2. \A i : InHand(i)' => InHand(i)
    BY <1>4 DEF InHand
  <2> QED BY <1>6, <1>9, <1>10, <2>1, <2>2 DEF Early, AtWorker, Waits
<1>12. \A i \in Position : Coming(i)' => Coming(i)
  BY <1>9, <1>11 DEF Coming, Contained
<1>13. \A i : Materializes(i)' <=> Materializes(i)
  BY <1>3, <1>4, SameTarget
<1>14. Paired(pending_picture_completions', InLine)
       /\ \A c \in Range(pending_picture_completions') :
            \E d \in Range(pending_picture_completions) :
              d.picture = c.picture /\ d.shown = c.shown
  BY <1>1, <1>3 DEF Order
<1>15. Order'
  BY <1>1, <1>3, <1>4, <1>6, <1>9, <1>11, <1>13, <1>14, OrderKept
<1>16. Fitting'
  BY <1>1, <1>3, <1>4, <1>6, <1>11, <1>13, <1>14, FittingKept
<1>17. ASSUME NEW n \in Position, Coming(n)'
       PROVE  Sooner(q, n)
  <2>1. CASE Waits(n)'
    <3>1. PICK x \in Range(reorder') : x.picture = n
      <4>1. Range(reorder)' = Range(reorder')
        OBVIOUS
      <4> QED BY <2>1, <4>1 DEF Waits
    <3>2. PICK j \in 1 .. Len(reorder) : j # k /\ x = reorder[j]
      BY <1>6, <3>1
    <3>3. n # q
      <4>1. <<reorder[j], reorder[k]>> \in Different \/ <<reorder[k], reorder[j]>> \in Different
        <5>1. j < k \/ k < j
          BY <1>5, <3>2
        <5> QED BY <1>1, <1>5, <3>2, <5>1 DEF Order, Paired
      <4> QED BY <1>7, <1>8, <3>1, <3>2, <4>1 DEF Different
    <3>4. stream[q].poc <= stream[n].poc
      <4>1. e.poc <= x.poc
        BY <1>5, <1>7, <3>2
      <4> QED BY <1>1, <1>6, <1>7, <1>8, <3>1, <4>1 DEF Order
    <3>5. SameSequence(stream, q, n) /\ SameSequence(stream, n, q)
      <4>1. Contained(n)
        BY <1>11, <2>1 DEF Contained
      <4> QED BY <1>1, <1>8, <4>1 DEF Order
    <3>6. /\ Sooner(q, n) \/ Sooner(n, q)
          /\ Sooner(n, q) <=> stream[n].poc < stream[q].poc
      BY <3>3, <3>5, TwoPictures
    <3>7. stream[n].poc \in Int /\ stream[q].poc \in Int
      BY StreamConforms
    <3> QED BY <3>4, <3>6, <3>7
  <2>2. CASE ~ Waits(n)'
    <3>1. Entering(n) \/ Future(n)
      BY <1>9, <1>10, <1>11, <1>17, <2>2 DEF Coming, Contained
    <3> QED BY <1>1, <1>3, <1>8, <3>1, AfterDraining
  <2> QED BY <2>1, <2>2
<1>18. Emission'
  <2>1. Coming(e.picture)
    BY <1>8
  <2>2. \A n \in Position :
          Coming(n)' /\ Materializes(n) /\ e.shown /\ Materializes(e.picture) =>
            Sooner(e.picture, n)
    BY <1>8, <1>17
  <2> QED BY <1>1, <1>3, <1>4, <1>7, <1>12, <2>1, <2>2, PoppedEmission
<1> QED BY <1>15, <1>16, <1>18 DEF Tidy

----------
(* Checkpoints *)

\* A restored decoder holds what the checkpoint has kept of its reorder buffer.
LEMMA RestoreTidy ==
  ASSUME DInv, AInv, Heads, Restore, KeptOrder(checkpoint)
  PROVE  Tidy'
<1>1. /\ todo # << >> /\ Head(todo).step = "restore" /\ UNCHANGED fixedVars /\ Nothing'
      /\ todo' = << >> /\ outputs' = << >> /\ received' = << >>
      /\ reorder' = checkpoint.reorder
      /\ dpb_configuration' = checkpoint.dpb_configuration
      /\ max_num_reorder_frames' = checkpoint.max_num_reorder_frames
      /\ UNCHANGED <<next, discontinuous, checkpoint>>
      /\ UNCHANGED pending_picture_completions
  BY DEF Restore, Executes, Return, Nothing
<1>2. checkpoint # NoCheckpoint /\ checkpoint \in Kept
  <2>1. todo \in Seq(TypedStep)
    BY DEF DInv, Types, TodoTyped
  <2>2. 1 \in DOMAIN todo /\ Head(todo) = todo[1]
    BY <1>1, <2>1, StepShape
  <2>3. checkpoint # NoCheckpoint
    BY <1>1, <2>2 DEF DInv, Control
  <2> QED BY <2>3 DEF DInv, Types, CallerTyped
<1>3. next = checkpoint.position /\ ~ discontinuous
  <2>1. Placed(Head(todo))
    BY <1>1, HeadPlaced
  <2> QED BY <1>1, <2>1 DEF Placed
<1>4. pending_picture_completions' = << >>
  BY <1>1, Ahead DEF Heads, Stands, Rewinding, AInv, Agenda
<1>5. PICK p \in Nat : p = checkpoint.position /\ next' = p
  <2>1. next \in Nat
    BY CursorsTyped
  <2> QED BY <1>1, <1>3, <2>1
<1>6. PICK nothing : nothing = << >> /\ Range(nothing) = {}
  BY NoSteps
<1>7. /\ Range(todo)' = {} /\ Range(pending_picture_completions)' = {}
      /\ Range(outputs)' = {} /\ Range(received)' = {}
  BY <1>1, <1>4, <1>6
<1>8. stream' = stream /\ Position' = Position
  BY <1>1, SetsFixed DEF fixedVars
<1>9. \A i : ~ AtWorker(i)' /\ ~ Leaving(i)' /\ ~ Emitted(i)'
  BY <1>7 DEF AtWorker, Leaving, Emitted, Queued
<1>10. \A i \in Position : ~ InHand(i)'
  <2>1. current_picture' = NoPicture /\ current_skipped_picture' = 0
    BY <1>1 DEF Nothing
  <2>2. \A i \in Position : i # 0
    BY DEF Position
  <2> QED BY <2>1, <2>2 DEF InHand, NoPicture
<1>11. Edge' = p
  BY <1>5, <1>7 DEF Edge
<1>12. \A e \in Range(reorder') :
         /\ e.poc = stream[e.picture].poc
         /\ e.picture < p /\ SameSequence(stream, e.picture, p - 1)
         /\ e.shown => stream[e.picture].format = dpb_configuration'
  BY <1>1, <1>5 DEF KeptOrder
<1>13. \A i \in Position : Contained(i)' => i \in Nat /\ i < p /\ SameSequence(stream, i, p - 1)
  <2>1. \A i \in Position : Waits(i)' => i < p /\ SameSequence(stream, i, p - 1)
    BY <1>12 DEF Waits
  <2>2. \A i \in Position : i \in Nat
    BY DEF Position
  <2> QED BY <1>9, <1>10, <2>1, <2>2 DEF Contained, Early
<1>14. ASSUME NEW i \in Position, NEW n \in Position, Contained(i)', Contained(n)'
       PROVE  SameSequence(stream, i, n)
  <2>1. i \in Nat /\ n \in Nat /\ n <= p - 1 /\ SameSequence(stream, i, p - 1) /\ p - 1 \in Int
    BY <1>13, <1>14
  <2>2. PICK q \in Int : q = p - 1
    BY <2>1
  <2> QED BY <2>1, <2>2, Between
<1>15. Order'
  <2>1. Paired(reorder', Different)
    BY <1>1 DEF KeptOrder
  <2>2. Paired(pending_picture_completions, InLine)' /\ Paired(reorder, Different)'
    <3>1. Different' = Different
      BY <1>1, SetsFixed DEF Different
    <3> QED BY <1>4, <2>1, <3>1, PairedNone DEF Paired
  <2>3. \A e \in Range(reorder)' : e.poc = stream'[e.picture].poc
    BY <1>8, <1>12
  <2>4. \A i \in Position' : ~ Early(i)'
    BY <1>8, <1>9, <1>10 DEF Early
  <2>5. \A i, n \in Position' : Contained(i)' /\ Contained(n)' => SameSequence(stream, i, n)'
    BY <1>8, <1>14 DEF SameSequence
  <2>6. \A i \in Position' : Contained(i)' => i < Edge' /\ SameSequence(stream, i, Edge - 1)'
    BY <1>8, <1>11, <1>13 DEF SameSequence
  <2> QED BY <1>9, <2>2, <2>3, <2>4, <2>5, <2>6 DEF Order
<1>16. Fitting'
  <2>1. \A i \in Position' : ~ Early(i)'
    BY <1>8, <1>9, <1>10 DEF Early
  <2>2. max_num_reorder_frames' = ReorderDepth[dpb_configuration']
    BY <1>1 DEF KeptOrder
  <2>3. \A e \in Range(reorder)' : e.shown => stream'[e.picture].format = dpb_configuration'
    BY <1>8, <1>12
  <2> QED BY <1>7, <2>1, <2>2, <2>3 DEF Fitting
<1>17. Emission'
  <2>1. Paired(outputs, InTurn)'
    BY <1>1, PairedNone DEF Paired
  <2> QED BY <1>7, <1>9, <2>1 DEF Emission
<1> QED BY <1>15, <1>16, <1>17 DEF Tidy

\* A checkpoint keeps the order, when nothing but the reorder buffer holds pictures.
LEMMA SnapshotKept ==
  ASSUME DInv, AInv, Snapshot
  PROVE  \/ UNCHANGED checkpoint
         \/ checkpoint'.errors = errors /\ (Tidy => KeptOrder(checkpoint)')
<1>1. /\ todo # << >> /\ Head(todo).step = "snapshot" /\ UNCHANGED fixedVars
      /\ \/ UNCHANGED checkpoint
         \/ /\ dpb_configuration # NoFormat
            /\ checkpoint' = [resume_time |-> maximum_completed_pts,
                              dpb_configuration |-> dpb_configuration,
                              reorder |-> reorder,
                              max_num_reorder_frames |-> max_num_reorder_frames,
                              position |-> next, first |-> first, errors |-> errors]
  BY DEF Snapshot, Executes
<1>2. PICK c : c = [resume_time |-> maximum_completed_pts,
                    dpb_configuration |-> dpb_configuration,
                    reorder |-> reorder,
                    max_num_reorder_frames |-> max_num_reorder_frames,
                    position |-> next, first |-> first, errors |-> errors]
  OBVIOUS
<1>3. /\ c.dpb_configuration = dpb_configuration /\ c.position = next /\ c.reorder = reorder
      /\ c.max_num_reorder_frames = max_num_reorder_frames /\ c.errors = errors
  BY <1>2
<1>4. ASSUME checkpoint' = c, dpb_configuration # NoFormat, Tidy
      PROVE  KeptOrder(checkpoint)'
  <2>1. PICK t : t = Tail(todo)
    OBVIOUS
  <2>2. Range(todo) = {Head(todo)}
    <3>1. Head(todo).step \in Closing
      BY <1>1 DEF Closing
    <3>2. t = << >>
      BY <1>1, <2>1, <3>1, Ahead DEF AInv, Agenda
    <3> QED BY <1>1, <2>1, <3>2, Ahead, NoSteps DEF AInv, Agenda
  <2>3. ~ discontinuous /\ Edge = next
    <3>1. Placed(Head(todo))
      BY <1>1, HeadPlaced
    <3>2. ~ \E s \in Range(todo) : Enters(s)
      BY <1>1, <2>2 DEF Enters
    <3> QED BY <1>1, <3>1, <3>2 DEF Placed, Edge
  <2>4. Order /\ Fitting
    BY <1>4 DEF Tidy
  <2>5. \A e \in Range(reorder) : e.picture \in Position /\ Contained(e.picture)
    <3>1. reorder \in Seq(Entry)
      BY DEF DInv, Types, ReorderTyped
    <3>2. \A e \in Range(reorder) : e \in Entry
      BY <3>1, InRange
    <3> QED BY <3>2 DEF Entry, Contained, Waits
  <2>6. \A e \in Range(reorder) :
          /\ e.poc = stream[e.picture].poc
          /\ e.picture < next /\ SameSequence(stream, e.picture, next - 1)
          /\ e.shown => stream[e.picture].format = dpb_configuration
    BY <1>4, <2>3, <2>4, <2>5 DEF Order, Fitting
  <2>7. /\ Paired(reorder, Different)
        /\ max_num_reorder_frames = ReorderDepth[dpb_configuration]
    BY <1>4, <2>4 DEF Order, Fitting
  <2>8. KeptOrder(c)
    BY <1>3, <2>6, <2>7 DEF KeptOrder
  <2>9. stream' = stream /\ Different' = Different
    BY <1>1, SetsFixed DEF fixedVars, Different
  <2> QED BY <1>4, <2>8, <2>9 DEF KeptOrder, Paired, SameSequence
<1> QED BY <1>1, <1>2, <1>3, <1>4

LEMMA KeptStill ==
  ASSUME UNCHANGED fixedVars, UNCHANGED checkpoint, KeptOrder(checkpoint)
  PROVE  KeptOrder(checkpoint)'
<1>1. stream' = stream /\ Different' = Different
  BY SetsFixed DEF fixedVars, Different
<1> QED BY <1>1 DEF KeptOrder, Paired, SameSequence

\* Only a new checkpoint replaces one.
LEMMA CheckpointChanges ==
  ASSUME [Next]_vars
  PROVE  UNCHANGED checkpoint \/ Snapshot
<1>1. CASE Step
  <2>1. TakeCompletion \/ Passes => UNCHANGED checkpoint
    BY DEF TakeCompletion, Passes, quietVars
  <2>2. Poll \/ Join \/ Room \/ Discard \/ DrainReorder => UNCHANGED checkpoint
    BY <2>1 DEF Poll, Join, Room, Discard, DrainReorder, quietVars
  <2>3. Finish => UNCHANGED checkpoint
    BY <2>1 DEF Finish, FinishSkipped, FinishNothing, FinishCurrent, Spawn, Push, Record,
                quietVars
  <2>4. Send => UNCHANGED checkpoint
    BY DEF Send, Guard, Prepare, ClearReorder, StartSkipped, StartRefused, Start, EndSequence,
           EndStream, Accepted, quietVars
  <2>5. Reconfigure /\ ~ Snapshot => UNCHANGED checkpoint
    BY DEF Reconfigure, Deliver, Reset, SetStart, Configure, Restore
  <2> QED BY <1>1, <2>2, <2>3, <2>4, <2>5 DEF Step
<1>2. CASE WorkerAnswers \/ UNCHANGED vars
  BY <1>2 DEF WorkerAnswers, vars, callerVars
<1>3. CASE Call
  BY <1>3 DEF Call, send_packet, receive_frame, drain, create_seek_checkpoint, flush,
              configure, jump, flush_for_seek, Restarts, restore_seek_checkpoint,
              retarget_seek_forward, callerVars
<1> QED BY <1>1, <1>2, <1>3 DEF Next

----------
(* What a step leaves of the call, of what is received and of the errors *)

LEMMA StepTodo ==
  ASSUME Step
  PROVE  /\ todo # << >> /\ UNCHANGED fixedVars
         /\ \/ todo' = << >>
            \/ /\ todo' = todo
               /\ Head(todo).step \in {"poll", "join", "room", "discard", "drain"}
            \/ /\ todo' = Tail(todo)
               /\ Head(todo).step = "join" => pending_picture_completions' = << >>
            \/ FinishSkipped \/ FinishCurrent \/ Guard \/ Prepare
<1> DEFINE Leaves ==
             /\ todo # << >> /\ UNCHANGED fixedVars
             /\ \/ todo' = << >>
                \/ /\ todo' = todo
                   /\ Head(todo).step \in {"poll", "join", "room", "discard", "drain"}
                \/ /\ todo' = Tail(todo)
                   /\ Head(todo).step = "join" => pending_picture_completions' = << >>
                \/ FinishSkipped \/ FinishCurrent \/ Guard \/ Prepare
<1>1. CASE Poll \/ Join \/ Room
  <2>1. /\ todo # << >> /\ UNCHANGED fixedVars /\ Head(todo).step \in {"poll", "join", "room"}
        /\ \/ TakeCompletion
           \/ Passes /\ (Head(todo).step = "join" => pending_picture_completions = << >>)
    BY <1>1 DEF Poll, Join, Room, Executes
  <2>2. CASE TakeCompletion
    <3>1. todo' = << >> \/ todo' = todo
      BY <2>2 DEF TakeCompletion, Fail, Return
    <3> QED BY <2>1, <3>1
  <2>3. CASE Passes /\ (Head(todo).step = "join" => pending_picture_completions = << >>)
    BY <2>1, <2>3 DEF Passes, Continue
  <2> QED BY <2>1, <2>2, <2>3
<1>2. CASE Discard \/ DrainReorder
  BY <1>2 DEF Discard, DrainReorder, Executes, Continue
<1>3. CASE FinishNothing \/ Spawn \/ Push \/ Record
  <2>1. todo # << >> /\ UNCHANGED fixedVars /\ Head(todo).step # "join"
    <3>1. FinishNothing \/ Push \/ Record =>
            todo # << >> /\ UNCHANGED fixedVars /\ Head(todo).step # "join"
      BY DEF FinishNothing, Push, Record, Executes
    <3>2. Spawn => Executes("spawn") \/ Executes("spawn deferred")
      BY DEF Spawn
    <3>3. Executes("spawn") \/ Executes("spawn deferred") =>
            todo # << >> /\ UNCHANGED fixedVars /\ Head(todo).step # "join"
      BY DEF Executes
    <3> QED BY <1>3, <3>1, <3>2, <3>3
  <2>2. todo' = << >> \/ todo' = Tail(todo)
    <3>1. FinishNothing \/ Push \/ Record => todo' = Tail(todo)
      BY DEF FinishNothing, Push, Record, Passes, Continue
    <3>2. Spawn => Continue \/ Fail
      BY DEF Spawn
    <3> QED BY <1>3, <3>1, <3>2 DEF Continue, Fail, Return
  <2> QED BY <2>1, <2>2
<1>4. CASE ClearReorder \/ StartSkipped \/ StartRefused \/ Start \/ EndSequence \/ EndStream
             \/ Accepted
  <2>1. todo # << >> /\ UNCHANGED fixedVars /\ (todo' = << >> \/ todo' = Tail(todo))
    BY <1>4, PacketStepIs DEF ClearReorder, Executes, Continue
  <2>2. Head(todo).step # "join"
    <3>1. ClearReorder => Head(todo).step # "join"
      BY DEF ClearReorder, Executes
    <3>2. Head(todo).step \in {"start", "end sequence", "end stream", "accepted"} =>
            Head(todo).step # "join"
      OBVIOUS
    <3> QED BY <1>4, <3>1, <3>2, PacketStepIs
  <2> QED BY <2>1, <2>2
<1>5. CASE Reconfigure
  BY <1>5, ReconfigureIs
<1>6. CASE FinishSkipped \/ FinishCurrent \/ Guard \/ Prepare
  BY <1>6 DEF FinishSkipped, FinishCurrent, Guard, Prepare, Executes
<1>7. Leaves
  <2> HIDE DEF Leaves
  <2>1. Poll \/ Join \/ Room \/ Discard \/ DrainReorder => Leaves
    BY <1>1, <1>2 DEF Leaves
  <2>2. Finish => Leaves
    BY <1>3, <1>6 DEF Finish, Leaves
  <2>3. Send => Leaves
    BY <1>4, <1>6 DEF Send, Leaves
  <2>4. Reconfigure => Leaves
    BY <1>5 DEF Leaves
  <2> QED BY <2>1, <2>2, <2>3, <2>4 DEF Step
<1> QED BY <1>7

\* Only the refusal of a packet and the calls move the caller's cursor.
LEMMA CursorMoves ==
  ASSUME Step
  PROVE  UNCHANGED next \/ Guard
<1>1. TakeCompletion \/ Passes => UNCHANGED next
  BY DEF TakeCompletion, Passes, quietVars
<1>2. Poll \/ Join \/ Room \/ Discard \/ DrainReorder => UNCHANGED next
  BY <1>1 DEF Poll, Join, Room, Discard, DrainReorder, quietVars
<1>3. Finish => UNCHANGED next
  BY <1>1 DEF Finish, FinishSkipped, FinishNothing, FinishCurrent, Spawn, Push, Record, quietVars
<1>4. Send /\ ~ Guard => UNCHANGED next
  BY DEF Send, Prepare, ClearReorder, StartSkipped, StartRefused, Start, EndSequence,
         EndStream, Accepted, quietVars
<1>5. Reconfigure => UNCHANGED next
  BY DEF Reconfigure, Deliver, Reset, SetStart, Configure, Snapshot, Restore
<1> QED BY <1>2, <1>3, <1>4, <1>5 DEF Step

LEMMA ErrorsKept ==
  ASSUME [Next]_vars
  PROVE  errors' = errors \/ errors' = errors + 1 \/ Reset \/ Restore
<1> DEFINE Counts == errors' = errors \/ errors' = errors + 1
<1>1. Fail => Counts
  BY DEF Fail
<1>2. TakeCompletion \/ Passes => Counts
  BY <1>1 DEF TakeCompletion, Passes
<1>3. Poll \/ Join \/ Room \/ Discard \/ DrainReorder => Counts
  BY <1>2 DEF Poll, Join, Room, Discard, DrainReorder
<1>4. FinishCurrent \/ Spawn \/ StartRefused \/ Start => Counts
  BY <1>1 DEF FinishCurrent, Spawn, StartRefused, Start
<1>5. FinishSkipped \/ FinishNothing \/ Push \/ Record => Counts
  BY <1>2 DEF FinishSkipped, FinishNothing, Push, Record
<1>6. Guard \/ Prepare \/ ClearReorder \/ StartSkipped \/ EndSequence \/ EndStream \/ Accepted
        => Counts
  BY DEF Guard, Prepare, ClearReorder, StartSkipped, EndSequence, EndStream, Accepted
<1>7. Deliver \/ SetStart \/ Configure \/ Snapshot => Counts
  BY DEF Deliver, SetStart, Configure, Snapshot
<1>8. WorkerAnswers \/ UNCHANGED vars => Counts
  BY DEF WorkerAnswers, vars
<1>9. Call => Counts
  BY DEF Call, send_packet, receive_frame, drain, create_seek_checkpoint, flush, configure,
         jump, flush_for_seek, restore_seek_checkpoint, retarget_seek_forward, Begins
<1> HIDE DEF Counts
<1>10. Step => Counts \/ Reset \/ Restore
  BY <1>3, <1>4, <1>5, <1>6, <1>7 DEF Step, Finish, Send, Reconfigure
<1>11. Counts \/ Reset \/ Restore
  BY <1>8, <1>9, <1>10 DEF Next
<1> QED BY <1>11 DEF Counts

LEMMA ReceivedKept ==
  ASSUME [Next]_vars
  PROVE  \/ UNCHANGED received
         \/ Deliver \/ Reset \/ Restore
         \/ \E target \in Targets : retarget_seek_forward(target)
<1>1. TakeCompletion \/ Passes => UNCHANGED received
  BY DEF TakeCompletion, Passes, quietVars, toldVars
<1>2. Poll \/ Join \/ Room \/ Discard \/ DrainReorder => UNCHANGED received
  BY <1>1 DEF Poll, Join, Room, Discard, DrainReorder, quietVars, toldVars
<1>3. Finish => UNCHANGED received
  BY <1>1 DEF Finish, FinishSkipped, FinishNothing, FinishCurrent, Spawn, Push, Record,
              quietVars, toldVars
<1>4. Send => UNCHANGED received
  BY DEF Send, Guard, Prepare, ClearReorder, StartSkipped, StartRefused, Start, EndSequence,
         EndStream, Accepted, quietVars, toldVars
<1>5. SetStart \/ Configure \/ Snapshot => UNCHANGED received
  BY DEF SetStart, Configure, Snapshot, toldVars
<1>6. WorkerAnswers \/ UNCHANGED vars => UNCHANGED received
  BY DEF WorkerAnswers, vars, toldVars
<1>7. Call => UNCHANGED received \/ \E target \in Targets : retarget_seek_forward(target)
  BY DEF Call, send_packet, receive_frame, drain, create_seek_checkpoint, flush, configure,
         jump, flush_for_seek, restore_seek_checkpoint, Begins, toldVars
<1> QED BY <1>2, <1>3, <1>4, <1>5, <1>6, <1>7 DEF Next, Step, Reconfigure

\* A reset that is to come is left until it is made.
LEMMA ResettingKept ==
  ASSUME DInv, AInv, [Next]_vars, ~ Reset, ~ Restore, ~ Resetting'
  PROVE  ~ Resetting
<1>1. SUFFICES ASSUME Resetting
               PROVE  FALSE
  OBVIOUS
<1>2. todo # << >>
  BY <1>1, IdleStands
<1>3. Head(todo).step \in Rewinding \cup {"discard"}
  BY <1>1, <1>2, Ahead DEF AInv, Agenda
<1>4. ~ Call
  BY <1>2 DEF Call, send_packet, receive_frame, drain, create_seek_checkpoint, flush, configure,
              jump, flush_for_seek, restore_seek_checkpoint, retarget_seek_forward, Begins, Idle
<1>5. todo' # todo
  BY <1>1 DEF Resetting
<1>6. ~ WorkerAnswers /\ ~ UNCHANGED vars
  BY <1>5 DEF WorkerAnswers, vars
<1>7. Step
  BY <1>4, <1>6 DEF Next
<1>8. Head(todo).step \in {"reset", "restore", "discard"}
  BY <1>3 DEF Rewinding
<1>9. Discard
  <2>1. ~ (Poll \/ Join \/ Room \/ DrainReorder)
    BY <1>8 DEF Poll, Join, Room, DrainReorder, Executes
  <2>2. ~ Finish
    BY <1>8 DEF Finish, FinishSkipped, FinishNothing, FinishCurrent, Spawn, Push, Record, Executes
  <2>3. ~ Send
    BY <1>8 DEF Send, Guard, Prepare, ClearReorder, StartSkipped, StartRefused, Start,
                EndSequence, EndStream, Accepted, Executes
  <2>4. ~ Reconfigure
    BY <1>8 DEF Reconfigure, Deliver, SetStart, Configure, Snapshot, Executes
  <2> QED BY <1>7, <2>1, <2>2, <2>3, <2>4 DEF Step
<1>10. Head(todo).step = "discard" /\ (todo' = todo \/ todo' = Tail(todo))
  BY <1>9 DEF Discard, Executes, Continue
<1>11. Resetting'
  BY <1>1, <1>2, <1>10, TailResets DEF Rewinding
<1> QED BY <1>11

----------
(* Every step keeps the order *)

\* The inductive invariant: what is in the decoder, unless it is about to be reset;
\* what has been received; and what the steps left of a call and a checkpoint need.
Orderly ==
  /\ errors = 0 /\ ~ Resetting => Tidy
  /\ InOrder /\ Pushes /\ EndsApart
  /\ checkpoint # NoCheckpoint /\ checkpoint.errors = 0 => KeptOrder(checkpoint)

LEMMA PushesKept ==
  ASSUME DInv, LInv, Pushes, [Next]_vars
  PROVE  Pushes'
<1>0. Head(todo) = todo[1] /\ Head(todo') = todo'[1]
  OBVIOUS
<1>1. SUFFICES ASSUME todo' # << >>, todo'[1].step = "push", NEW i, i = todo'[1].arg
               PROVE  pending_picture_completions' = << >> \/ ~ Materializes(i)'
  BY <1>0 DEF Pushes
<1>2. AInv /\ Coding
  BY DEF LInv
<1>3. CASE Step
  <2>1. todo # << >> /\ UNCHANGED fixedVars
    BY <1>3, StepTodo
  <2>2. CASE todo' = todo /\ Head(todo).step \in {"poll", "join", "room", "discard", "drain"}
    BY <1>0, <1>1, <2>2
  <2>3. CASE todo' = Tail(todo) /\ (Head(todo).step = "join" => pending_picture_completions' = << >>)
    <3>1. Precedes(stream, Head(todo), Tail(todo), next)
      BY <1>2, <2>1, Ahead DEF AInv, Agenda
    <3>2. Head(todo).step = "join"
      BY <1>1, <2>3, <3>1 DEF Precedes, Adjoins
    <3> QED BY <2>3, <3>2
  <2>4. CASE FinishSkipped
    <3>1. /\ current_skipped_picture \in Position
          /\ \A b \in Range(todo') : b \in Range(Tail(todo)) \/ b.step \in {"push", "record"}
          /\ Finishes(todo', Tail(todo), current_skipped_picture)
          /\ Plainly(Tail(todo)) /\ todo' \in Seq(TypedStep)
      BY <1>2, <2>4, FinishSkippedIs
    <3>2. todo'[1] \in Range(todo')
      BY <1>1, <3>1, RangeTail
    <3>3. todo'[1].arg = current_skipped_picture
      <4>1. todo'[1] \notin Range(Tail(todo))
        BY <1>1, <3>1 DEF Plainly, Finishing, Passing
      <4> QED BY <1>1, <3>1, <3>2, <4>1 DEF Finishes
    <3>4. ~ Materializes(current_skipped_picture)
      <4>1. current_skipped_picture # 0
        BY <2>4 DEF FinishSkipped
      <4> QED BY <1>2, <4>1 DEF Coding
    <3>5. UNCHANGED output_start_time
      BY <2>4, QuietKept DEF FinishSkipped
    <3>6. Materializes(i)' => Materializes(i)
      BY <2>1, <3>5, SameTarget
    <3> QED BY <1>1, <3>3, <3>4, <3>6
  <2>5. CASE FinishCurrent
    <3>1. todo'[1].step \in {"room", "join"} \/ todo' = << >>
      BY <1>2, <2>5, FinishCurrentIs DEF Fail, Return
    <3> QED BY <1>1, <3>1
  <2>6. CASE Guard
    <3>1. todo' = << >> \/ todo'[1].step \in {"discard", "finish"}
      BY <1>2, <2>6, GuardIs
    <3> QED BY <1>1, <3>1
  <2>7. CASE Prepare
    <3>1. Head(todo).step = "prepare"
      BY <2>7 DEF Prepare, Executes
    <3>2. CASE todo' = Tail(todo)
      BY <2>3, <3>1, <3>2
    <3>3. todo' = Tail(todo) \/ todo'[1].step \in {"discard", "join"}
      BY <1>2, <2>7, PrepareIs
    <3> QED BY <1>1, <3>2, <3>3
  <2> QED BY <1>1, <1>3, <2>2, <2>3, <2>4, <2>5, <2>6, <2>7, StepTodo
<1>4. CASE Call
  <2>1. \A s : CallSteps(s) =>
          todo' = s /\ (s # << >> => s[1].step \in {"poll", "finish", "discard"})
    BY DEF CallSteps, Begins
  <2>2. \A target \in Targets : retarget_seek_forward(target) => todo' = << >>
    BY DEF retarget_seek_forward, Idle
  <2> QED BY <1>1, <1>2, <1>4, <2>1, <2>2, CallIs
<1>5. CASE WorkerAnswers
  <2>1. /\ todo' = todo /\ UNCHANGED fixedVars /\ UNCHANGED output_start_time
        /\ pending_picture_completions # << >>
    BY <1>5 DEF WorkerAnswers, modeVars
  <2>2. ~ Materializes(todo[1].arg)
    BY <1>0, <1>1, <2>1 DEF Pushes
  <2>3. Materializes(i)' => Materializes(i)
    BY <2>1, SameTarget
  <2> QED BY <1>1, <2>1, <2>2, <2>3
<1>6. CASE UNCHANGED vars
  <2>1. /\ todo' = todo /\ UNCHANGED <<stream, output_start_time>>
        /\ UNCHANGED pending_picture_completions
    BY <1>6 DEF vars, fixedVars, modeVars
  <2>2. pending_picture_completions = << >> \/ ~ Materializes(i)
    BY <1>0, <1>1, <2>1 DEF Pushes
  <2> QED BY <2>1, <2>2 DEF Materializes
<1> QED BY <1>3, <1>4, <1>5, <1>6 DEF Next

LEMMA EndsApartKept ==
  ASSUME ConformingStreams, DInv, AInv, EndsApart, [Next]_vars
  PROVE  EndsApart'
<1>1. UNCHANGED fixedVars /\ stream' = stream
  BY AlwaysFixed DEF fixedVars
<1>2. ASSUME UNCHANGED next,
             \A t \in Range(todo') : t \in Range(todo) \/ t.step # "end sequence"
      PROVE  EndsApart'
  BY <1>1, <1>2 DEF EndsApart
<1>3. ASSUME \A t \in Range(todo') : t.step # "end sequence"
      PROVE  EndsApart'
  <2>1. Range(todo)' = Range(todo')
    OBVIOUS
  <2> QED BY <1>3, <2>1 DEF EndsApart
<1>4. ASSUME todo' = << >>
      PROVE  EndsApart'
  <2>1. Range(todo') = {}
    BY <1>4, NoSteps
  <2> QED BY <1>3, <2>1
<1>5. CASE Guard
  <2>1. CASE todo' = << >>
    BY <1>4, <2>1
  <2>2. CASE /\ UNCHANGED next
             /\ \A b \in Range(todo') : b.step = "end sequence" => stream[Arg].ends = "sequence"
    <3>1. PICK n \in Position : n = Arg
      BY <1>5, GuardIs DEF Arg
    <3>2. PICK l \in Nat, m \in Nat : l = Len(stream) /\ m = next
      BY CursorsTyped
    <3>3. n = m - 1 /\ n \in 1 .. l
      <4>1. todo # << >> /\ Head(todo).step = "guard"
        BY <1>5, GuardIs
      <4> QED BY <3>1, <3>2, <4>1, HeadPlaced DEF Placed, Arg, Position
    <3>4. \A i \in 1 .. l - 1 : stream[i].ends = "sequence" => stream[i + 1].idr
      BY <3>2, StreamConforms DEF Conforms
    <3>5. stream[n].ends = "sequence" => (m <= l => stream[m].idr)
      <4>1. m = n + 1 /\ n \in Nat /\ (m <= l => n \in 1 .. l - 1)
        BY <3>2, <3>3
      <4> QED BY <3>4, <4>1
    <3>6. \A b \in Range(todo)' : b.step = "end sequence" => (next' <= Len(stream') => stream'[next'].idr)
      <4>1. Range(todo)' = Range(todo')
        OBVIOUS
      <4> QED BY <1>1, <2>2, <3>1, <3>2, <3>5, <4>1
    <3> QED BY <3>6 DEF EndsApart
  <2> QED BY <1>5, <2>1, <2>2, GuardIs
<1>6. CASE Step /\ ~ Guard
  <2>1. UNCHANGED next /\ todo # << >>
    BY <1>6, CursorMoves, StepTodo
  <2>2. CASE todo' = << >> \/ todo' = todo \/ todo' = Tail(todo)
    <3>1. Range(todo') \subseteq Range(todo)
      BY <2>1, <2>2, TailsRange
    <3> QED BY <1>2, <2>1, <3>1
  <2>3. Range(Tail(todo)) \subseteq Range(todo)
    BY <2>1, Ahead DEF AInv, Agenda
  <2>4. CASE FinishSkipped
    <3>1. \A b \in Range(todo') : b \in Range(Tail(todo)) \/ b.step \in {"push", "record"}
      BY <2>4, FinishSkippedIs
    <3>2. \A b : b.step \in {"push", "record"} => b.step # "end sequence"
      OBVIOUS
    <3> QED BY <1>2, <2>1, <2>3, <3>1, <3>2
  <2>5. CASE FinishCurrent
    <3>1. \/ todo' = << >>
          \/ Finishes(todo', Tail(todo), current_picture.picture)
      BY <2>5, FinishCurrentIs DEF Fail, Return
    <3>2. \A b : b.step \in {"room", "poll", "join"} \/ b.step \in Finishing =>
                   b.step # "end sequence"
      BY DEF Finishing, Passing
    <3> QED BY <1>2, <1>4, <2>1, <2>3, <3>1, <3>2 DEF Finishes
  <2>6. CASE Prepare
    <3>1. \A b : b.step \in {"discard", "clear", "join", "drain"} => b.step # "end sequence"
      OBVIOUS
    <3>2. \/ todo' = Tail(todo)
          \/ \A b \in Range(todo') :
               b \in Range(Tail(todo)) \/ b.step \in {"discard", "clear", "join", "drain"}
      BY <2>6, PrepareIs
    <3> QED BY <1>2, <2>1, <2>2, <2>3, <3>1, <3>2
  <2> QED BY <1>6, <2>2, <2>4, <2>5, <2>6, StepTodo
<1>7. CASE Call
  <2>1. \A s : CallSteps(s) => \A t \in Range(todo') : t.step # "end sequence"
    BY DEF CallSteps, Begins
  <2>2. \A target \in Targets : retarget_seek_forward(target) => todo' = << >>
    BY DEF retarget_seek_forward, Idle
  <2> QED BY <1>3, <1>4, <1>7, <2>1, <2>2, CallIs
<1>8. CASE WorkerAnswers \/ UNCHANGED vars
  <2>1. todo' = todo /\ UNCHANGED next
    BY <1>8 DEF WorkerAnswers, vars, callerVars
  <2>2. Range(todo') = Range(todo)
    BY <2>1
  <2> QED BY <1>2, <2>1, <2>2
<1> QED BY <1>5, <1>6, <1>7, <1>8 DEF Next

LEMMA TidyAlways ==
  ASSUME ConformingStreams, DInv, LInv, LInv', Orderly, [Next]_vars, errors' = 0, ~ Resetting'
  PROVE  Tidy'
<1>1. AInv /\ AInv' /\ Heads /\ Coding /\ Pushes /\ EndsApart
  BY DEF LInv, Orderly
<1>2. CASE Reset
  BY <1>1, <1>2, ResetTidy
<1>3. CASE Restore
  <2>1. checkpoint.errors = 0
    BY <1>3 DEF Restore
  <2>2. checkpoint # NoCheckpoint
    <3>1. todo \in Seq(TypedStep) /\ todo # << >> /\ Head(todo).step = "restore"
      BY <1>3 DEF DInv, Types, TodoTyped, Restore, Executes
    <3>2. 1 \in DOMAIN todo /\ Head(todo) = todo[1]
      BY <3>1, StepShape
    <3> QED BY <3>1, <3>2 DEF DInv, Control
  <2> QED BY <1>1, <1>3, <2>1, <2>2, RestoreTidy DEF Orderly
<1>4. CASE ~ Reset /\ ~ Restore
  <2>1. errors = 0 /\ errors' = errors
    <3>1. errors \in Nat
      BY <1>1, CursorsTyped
    <3> QED BY <1>4, <3>1, ErrorsKept
  <2>2. Tidy
    BY <1>1, <1>4, <2>1, ResettingKept DEF Orderly
  <2>3. CASE Poll \/ Join \/ Room
    <3>1. /\ todo # << >> /\ UNCHANGED fixedVars
          /\ TakeCompletion \/ Passes
      BY <2>3 DEF Poll, Join, Room, Executes
    <3>2. CASE TakeCompletion
      BY <1>1, <2>1, <2>2, <3>1, <3>2, TakenTidy
    <3>3. CASE Passes
      BY <1>1, <2>2, <2>3, <3>3, QuietTidy
    <3> QED BY <3>1, <3>2, <3>3
  <2>4. CASE Discard \/ DrainReorder
    BY <1>1, <2>2, <2>4, QuietTidy, DrainTidy
  <2>5. CASE Finish
    BY <1>1, <2>1, <2>2, <2>5, QuietTidy, FinishTidy, SpawnTidy, PushStepTidy DEF Finish
  <2>6. CASE Send
    <3>1. CASE Guard
      BY <1>1, <2>2, <3>1, GuardTidy
    <3>2. CASE StartSkipped \/ Start
      BY <1>1, <2>1, <2>2, <3>2, StartTidy
    <3>3. ~ StartRefused
      BY <2>1 DEF StartRefused, Fail
    <3> QED BY <1>1, <2>2, <2>6, <3>1, <3>2, <3>3, QuietTidy DEF Send
  <2>7. CASE Reconfigure
    BY <1>1, <1>4, <2>2, <2>7, QuietTidy, DeliverTidy, RestartingTidy DEF Reconfigure
  <2>8. CASE Call
    BY <1>1, <2>2, <2>8, CallTidy
  <2>9. CASE WorkerAnswers \/ UNCHANGED vars
    BY <2>2, <2>9, WorkerTidy
  <2> QED BY <2>3, <2>4, <2>5, <2>6, <2>7, <2>8, <2>9 DEF Next, Step
<1> QED BY <1>2, <1>3, <1>4

LEMMA InOrderKept ==
  ASSUME DInv, LInv, Orderly, [Next]_vars
  PROVE  InOrder'
<1>1. AInv /\ InOrder
  BY DEF LInv, Orderly
<1>2. Rising' = Rising
  <2>1. stream' = stream /\ Position' = Position
    BY AlwaysFixed, SetsFixed DEF fixedVars
  <2> QED BY <2>1 DEF Rising, Sooner
<1>3. CASE Reset \/ Restore
  <2>1. received' = << >>
    BY <1>3 DEF Reset, Restore
  <2>2. Paired(received', Rising')
    BY <2>1, PairedNone
  <2> QED BY <2>2 DEF InOrder, Paired
<1>4. CASE ~ Reset /\ ~ Restore
  <2>1. SUFFICES ASSUME errors' = 0
                 PROVE  Paired(received', Rising)
    BY <1>2 DEF InOrder, Paired
  <2>2. errors = 0
    <3>1. errors \in Nat
      BY <1>1, CursorsTyped
    <3> QED BY <1>4, <2>1, <3>1, ErrorsKept
  <2>3. Paired(received, Rising)
    BY <1>1, <2>2 DEF InOrder
  <2>4. CASE Deliver
    <3>1. todo # << >> /\ Head(todo).step = "deliver"
      BY <2>4 DEF Deliver, Executes
    <3>2. ~ Resetting
      BY <1>1, <3>1, Ahead DEF AInv, Agenda, Rewinding
    <3>3. Tidy
      BY <2>2, <3>2 DEF Orderly
    <3>4. Paired(received, Rising)'
      BY <1>1, <2>3, <2>4, <3>3, DeliverTidy
    <3> QED BY <1>2, <3>4 DEF Paired
  <2>5. ASSUME NEW target \in Targets, retarget_seek_forward(target)
        PROVE  Paired(received', Rising)
    <3>1. PICK positions :
            received' = Retain(received, positions)
      BY <2>5 DEF retarget_seek_forward
    <3>2. received \in Seq(Position)
      BY DEF DInv, Types, CallerTyped
    <3> QED BY <2>3, <3>1, <3>2, PairedRetain
  <2>6. CASE UNCHANGED received
    BY <2>3, <2>6
  <2> QED BY <1>4, <2>4, <2>5, <2>6, ReceivedKept
<1> QED BY <1>3, <1>4

LEMMA OrderlyKept ==
  ASSUME ConformingStreams, DInv, LInv, LInv', Orderly, [Next]_vars
  PROVE  Orderly'
<1>1. AInv /\ Pushes /\ EndsApart
  BY DEF LInv, Orderly
<1>2. errors' = 0 /\ ~ Resetting' => Tidy'
  BY TidyAlways
<1>3. InOrder' /\ Pushes' /\ EndsApart'
  BY <1>1, InOrderKept, PushesKept, EndsApartKept
<1>4. checkpoint' # NoCheckpoint /\ checkpoint'.errors = 0 => KeptOrder(checkpoint)'
  <2>1. CASE UNCHANGED checkpoint
    BY <2>1, AlwaysFixed, KeptStill DEF Orderly
  <2>2. CASE Snapshot /\ checkpoint' # checkpoint
    <3>1. checkpoint'.errors = errors /\ (Tidy => KeptOrder(checkpoint)')
      BY <1>1, <2>2, SnapshotKept
    <3>2. ~ Resetting
      <4>1. todo # << >> /\ Head(todo).step = "snapshot"
        BY <2>2 DEF Snapshot, Executes
      <4> QED BY <1>1, <4>1, Ahead DEF AInv, Agenda, Rewinding
    <3> QED BY <3>1, <3>2 DEF Orderly
  <2> QED BY <2>1, <2>2, CheckpointChanges
<1> QED BY <1>2, <1>3, <1>4 DEF Orderly

LEMMA OrderlyInit ==
  ASSUME Init
  PROVE  Orderly
<1>1. PICK nothing : nothing = << >> /\ Range(nothing) = {}
  BY NoSteps
<1>2. /\ todo = nothing /\ reorder = nothing /\ pending_picture_completions = nothing
      /\ outputs = nothing /\ received = nothing
      /\ current_picture = NoPicture /\ current_skipped_picture = 0
      /\ dpb_configuration = NoFormat /\ checkpoint = NoCheckpoint
  BY <1>1 DEF Init
<1>3. \A i : ~ Waits(i) /\ ~ AtWorker(i) /\ ~ Leaving(i) /\ ~ Emitted(i)
  BY <1>1, <1>2 DEF Waits, AtWorker, Leaving, Emitted, Queued
<1>4. \A i \in Position : ~ InHand(i)
  <2>1. \A i \in Position : i # 0
    BY DEF Position
  <2> QED BY <1>2, <2>1 DEF InHand, NoPicture
<1>5. \A i \in Position : ~ Contained(i) /\ ~ Early(i)
  BY <1>3, <1>4 DEF Contained, Early
<1>6. \A R : Paired(nothing, R)
  BY <1>1, PairedNone
<1>7. Order
  BY <1>1, <1>2, <1>3, <1>5, <1>6 DEF Order
<1>8. Fitting
  BY <1>2 DEF Fitting
<1>9. Emission
  BY <1>1, <1>2, <1>3, <1>6 DEF Emission
<1>10. Tidy /\ InOrder
  BY <1>2, <1>6, <1>7, <1>8, <1>9 DEF Tidy, InOrder
<1>11. Pushes /\ EndsApart
  BY <1>1, <1>2 DEF Pushes, EndsApart
<1> QED BY <1>2, <1>10, <1>11 DEF Orderly

\* Frames received one after the other are in order, as all are.
LEMMA OrderedFrames ==
  ASSUME DInv, Orderly
  PROVE  PresentationOrder
<1>1. SUFFICES ASSUME errors = 0, NEW k \in 1 .. Len(received) - 1
               PROVE  stream[received[k]].pts < stream[received[k + 1]].pts
  BY DEF PresentationOrder
<1>2. Len(received) \in Nat
  BY LenProperties DEF DInv, Types, CallerTyped
<1>3. k \in 1 .. Len(received) /\ k + 1 \in 1 .. Len(received) /\ k < k + 1
  BY <1>2
<1>4. <<received[k], received[k + 1]>> \in Rising
  BY <1>1, <1>3 DEF Orderly, InOrder, Paired
<1> QED BY <1>4 DEF Rising, Sooner

\* What is in the decoder stays in order, if the streams conform.
THEOREM OrderInductive == ConformingStreams => (Spec => []Orderly)
<1>1. SUFFICES ASSUME ConformingStreams
               PROVE  Spec => []Orderly
  OBVIOUS
<1>2. Init => Orderly
  BY OrderlyInit
<1>3. DInv /\ LInv /\ LInv' /\ Orderly /\ [Next]_vars => Orderly'
  BY <1>1, OrderlyKept
<1> QED BY <1>2, <1>3, LossInductive, PTL DEF Spec

\* As long as no error is reported, the frames received come in presentation
\* order, each once, whichever pictures are skipped, finished by the caller, or
\* answered for by workers, and across checkpoints and new targets.
THEOREM PresentationOrdered == ConformingStreams => (Spec => []PresentationOrder)
<1>1. DInv /\ Orderly => PresentationOrder
  BY OrderedFrames
<1> QED BY <1>1, OrderInductive, LossInductive, PTL
=============================================================================
