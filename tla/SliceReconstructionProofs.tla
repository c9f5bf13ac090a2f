--------------------- MODULE SliceReconstructionProofs ---------------------
(***************************************************************************)
(* Proofs about the reconstruction of a picture: what a completed          *)
(* macroblock leaves, which neighbours a macroblock sees, and that batches *)
(* and workers do what a reconstruction in order does, for any sizes of    *)
(* pictures, batches, slices and numbers of slices.  SInv is inductive.    *)
(*                                                                         *)
(* The macroblocks of a slice are, in order, those completed, those of the *)
(* batch in flight and those pending (Pixels); the grids show just these   *)
(* (Visible).  That holds until an error; then only what is completed      *)
(* counts, and a new id makes the rest invisible (Ids).                    *)
(***************************************************************************)
EXTENDS SliceReconstruction, SequenceTheorems, TLAPS

Steps == {"await", "flush", "spawn", "intra", "fail", "return", "unwind"}

Types ==
  /\ size \in Sizes /\ mode \in Mode
  /\ next_slice_id \in 0 .. MaxSliceId /\ first_slice_id \in 0 .. next_slice_id + 1
  /\ cavlc_slice_id \in Nat
  /\ cells \in [Grids -> [Addresses -> Nat]]
  /\ completed \subseteq Addresses /\ retained \subseteq Addresses
  /\ deblock \in [Addresses -> [slice : Nat, intra : BOOLEAN]]
  /\ image \in [Addresses -> [slice : Nat, intra : BOOLEAN, uses : SUBSET Int]]
  /\ slice \in [id : Nat, type : {"I", "P", "B"}, next : Nat, first : Nat]
  /\ todo \in Seq(Steps)
  /\ pending \in Seq(Nat)
  /\ in_flight \in [jobs : Seq(Nat), state : {"none", "running", "done", "failed"}]

\* Ids that slices have been given, and so have their cells and pixels.
Ids ==
  /\ \A g \in Grids \ {"cavlc"} : \A a \in Addresses : cells[g][a] <= next_slice_id
  /\ \A a \in Addresses : cells["cavlc"][a] <= cavlc_slice_id
  /\ \A a \in completed : /\ image[a].slice \in 1 .. next_slice_id
                          /\ image[a].slice >= first_slice_id
  /\ ~ Idle => /\ slice.id = next_slice_id
               /\ slice.id >= 1 /\ slice.id >= first_slice_id

Completed ==
  /\ \A a \in Addresses \ completed : image[a] = NoPixels
  /\ CompletedMeansWritten

\* The order of steps: a batch is made or flushed after the one before, and an
\* intra macroblock follows a flush.
Within(t, step) == \E i \in DOMAIN t : t[i] = step

Ordered(t) ==
  /\ \A i \in 2 .. Len(t) :
       /\ t[i] \in {"spawn", "flush"} => t[i - 1] = "await"
       /\ t[i] \in {"intra", "return"} => t[i - 1] = "flush"
       /\ t[i] # "unwind"
  /\ \A i, j \in DOMAIN t : t[i] = "intra" /\ t[j] = "intra" => i = j

Schedule ==
  /\ Ordered(todo)
  /\ Within(todo, "intra") \/ Within(todo, "spawn") => mode.entropy = "Cabac"

\* What a step finds waiting.
Settled ==
  /\ todo # << >> /\ Head(todo) \in {"spawn", "flush", "intra", "return"} => in_flight = NoBatch
  /\ todo # << >> /\ Head(todo) \in {"intra", "return"} => pending = << >>

Batches ==
  /\ Idle => todo = << >> /\ pending = << >> /\ in_flight = NoBatch
  /\ in_flight.state = "none" => in_flight.jobs = << >>
  /\ mode.entropy = "Cavlc" => Range(pending) = {} /\ Range(in_flight.jobs) = {}
  /\ Settled

----------
(* Steps *)

\* What can be appended to steps that are in order.
Follows(e) ==
  /\ e \in Seq(Steps) /\ Ordered(e)
  /\ ~ Within(e, "intra") /\ ~ Within(e, "spawn") /\ ~ Within(e, "unwind")
  /\ e # << >> => Head(e) \in {"await", "fail"}

Precedes(s) ==
  /\ s \in Seq(Steps) /\ Ordered(s) /\ ~ Within(s, "unwind")
  /\ s # << >> => Head(s) = "await"

LEMMA Concatenated ==
  ASSUME NEW s, NEW e, Precedes(s), Follows(e)
  PROVE  /\ s \o e \in Seq(Steps)
         /\ Ordered(s \o e)
         /\ Within(s \o e, "intra") <=> Within(s, "intra")
         /\ Within(s \o e, "spawn") => Within(s, "spawn")
         /\ s \o e # << >> => Head(s \o e) \in {"await", "fail"}
         /\ s \o e # <<"unwind">>
<1>1. s \in Seq(Steps) /\ e \in Seq(Steps) /\ Len(s) \in Nat /\ Len(e) \in Nat
  BY LenProperties DEF Precedes, Follows
<1>2. PICK n \in Nat, m \in Nat : n = Len(s) /\ m = Len(e)
  BY <1>1
<1> DEFINE t == s \o e
<1>3. /\ t \in Seq(Steps) /\ Len(t) = n + m /\ DOMAIN t = 1 .. n + m
      /\ \A i \in 1 .. n + m : t[i] = IF i <= n THEN s[i] ELSE e[i - n]
      /\ DOMAIN s = 1 .. n /\ DOMAIN e = 1 .. m
  BY <1>1, <1>2, ConcatProperties, LenProperties
<1> HIDE DEF t
<1>4. \A i \in 1 .. n : i \in DOMAIN t /\ t[i] = s[i]
  BY <1>3
<1>5. \A i \in 1 .. n + m : i \in 1 .. n \/ (i - n \in 1 .. m /\ t[i] = e[i - n])
  BY <1>3
<1>6. \A i \in 1 .. n + m : t[i] # "unwind"
  BY <1>3, <1>4, <1>5 DEF Precedes, Follows, Within
<1>7. \A i \in 1 .. n + m : t[i] = "intra" => i \in 1 .. n /\ s[i] = "intra"
  BY <1>3, <1>4, <1>5 DEF Follows, Within
<1>8. \A i \in 1 .. n + m : t[i] = "spawn" => i \in 1 .. n /\ s[i] = "spawn"
  BY <1>3, <1>4, <1>5 DEF Follows, Within
<1>9. e # << >> => m >= 1 /\ Head(e) = e[1]
  BY <1>1, <1>2, EmptySeq
<1>10. ASSUME NEW i \in 2 .. n + m
       PROVE  /\ t[i] \in {"spawn", "flush"} => t[i - 1] = "await"
              /\ t[i] \in {"intra", "return"} => t[i - 1] = "flush"
  <2>1. CASE i <= n
    <3>1. i \in 2 .. n /\ t[i] = s[i] /\ t[i - 1] = s[i - 1]
      BY <1>3, <2>1
    <3> QED BY <1>2, <3>1 DEF Precedes, Ordered
  <2>2. CASE i = n + 1
    <3>1. m >= 1 /\ t[i] = e[1]
      BY <1>3, <2>2
    <3>2. e # << >>
      BY <1>1, <1>2, <3>1, EmptySeq
    <3> QED BY <1>9, <3>1, <3>2 DEF Follows
  <2>3. CASE i > n + 1
    <3>1. i - n \in 2 .. m /\ t[i] = e[i - n] /\ t[i - 1] = e[(i - n) - 1]
      BY <1>3, <2>3
    <3> QED BY <1>2, <3>1 DEF Follows, Ordered
  <2> QED BY <2>1, <2>2, <2>3
<1>11. Ordered(t)
  <2>1. \A i, j \in 1 .. n + m : t[i] = "intra" /\ t[j] = "intra" => i = j
    BY <1>3, <1>7 DEF Precedes, Ordered
  <2>2. \A i \in 2 .. n + m : i \in 1 .. n + m
    OBVIOUS
  <2> QED BY <1>3, <1>6, <1>10, <2>1, <2>2 DEF Ordered
<1>12. /\ Within(t, "intra") <=> Within(s, "intra")
       /\ Within(t, "spawn") => Within(s, "spawn")
  BY <1>3, <1>4, <1>7, <1>8 DEF Within
<1>13. t # << >> => Head(t) \in {"await", "fail"}
  <2>1. t # << >> => n + m >= 1 /\ Head(t) = t[1]
    BY <1>3, EmptySeq
  <2>2. CASE n >= 1
    <3>1. s # << >> /\ Head(s) = s[1] /\ t[1] = s[1]
      BY <1>1, <1>2, <1>4, <2>2, EmptySeq
    <3> QED BY <2>1, <3>1 DEF Precedes
  <2>3. CASE n = 0 /\ m >= 1
    <3>1. e # << >> /\ t[1] = e[1]
      BY <1>1, <1>2, <1>3, <2>3, EmptySeq
    <3> QED BY <1>9, <2>1, <3>1 DEF Follows
  <2> QED BY <2>1, <2>2, <2>3
<1>14. t # <<"unwind">>
  BY <1>3, <1>6
<1> QED BY <1>3, <1>11, <1>12, <1>13, <1>14 DEF t

LEMMA EndingFollows ==
  ASSUME NEW last
  PROVE  Follows(Ending(last))
<1>1. Follows(<< >>)
  BY DEF Follows, Ordered, Within, Steps
<1>2. Follows(<<"fail">>)
  BY DEF Follows, Ordered, Within, Steps
<1>3. Follows(<<"await", "flush", "return">>)
  <2> DEFINE e == <<"await", "flush", "return">>
  <2>1. /\ e \in Seq(Steps) /\ Len(e) = 3 /\ DOMAIN e = 1 .. 3 /\ Head(e) = "await"
    BY DEF Steps
  <2>2. e[1] = "await" /\ e[2] = "flush" /\ e[3] = "return"
    OBVIOUS
  <2> HIDE DEF e
  <2>3. \A i \in 1 .. 3 : i = 1 \/ i = 2 \/ i = 3
    OBVIOUS
  <2>4. Ordered(e)
    BY <2>1, <2>2, <2>3 DEF Ordered
  <2> QED BY <2>1, <2>2, <2>3, <2>4 DEF Follows, Within, e
<1> QED BY <1>1, <1>2, <1>3 DEF Ending

LEMMA PrefixPrecedes ==
  /\ Precedes(<< >>) /\ ~ Within(<< >>, "intra") /\ ~ Within(<< >>, "spawn")
  /\ \A x \in {"spawn", "flush"} :
       Precedes(<<"await", x>>) /\ ~ Within(<<"await", x>>, "intra")
  /\ ~ Within(<<"await", "flush">>, "spawn")
  /\ Precedes(IntraSteps) /\ Within(IntraSteps, "intra")
<1>1. Precedes(<< >>) /\ ~ Within(<< >>, "intra") /\ ~ Within(<< >>, "spawn")
  BY DEF Precedes, Ordered, Within, Steps
<1>2. ASSUME NEW x \in {"spawn", "flush"}
      PROVE  /\ Precedes(<<"await", x>>) /\ ~ Within(<<"await", x>>, "intra")
             /\ x = "flush" => ~ Within(<<"await", x>>, "spawn")
  <2> DEFINE s == <<"await", x>>
  <2>1. /\ s \in Seq(Steps) /\ Len(s) = 2 /\ DOMAIN s = 1 .. 2 /\ Head(s) = "await"
    BY DEF Steps
  <2>2. s[1] = "await" /\ s[2] = x
    OBVIOUS
  <2> HIDE DEF s
  <2>3. \A i \in 1 .. 2 : i = 1 \/ i = 2
    OBVIOUS
  <2>4. Ordered(s)
    BY <2>1, <2>2, <2>3 DEF Ordered
  <2> QED BY <2>1, <2>2, <2>3, <2>4 DEF Precedes, Within, s
<1>3. Precedes(IntraSteps) /\ Within(IntraSteps, "intra")
  <2> DEFINE s == <<"await", "flush", "intra">>
  <2>1. /\ s \in Seq(Steps) /\ Len(s) = 3 /\ DOMAIN s = 1 .. 3 /\ Head(s) = "await"
    BY DEF Steps
  <2>2. s[1] = "await" /\ s[2] = "flush" /\ s[3] = "intra"
    OBVIOUS
  <2> HIDE DEF s
  <2>3. \A i \in 1 .. 3 : i = 1 \/ i = 2 \/ i = 3
    OBVIOUS
  <2>4. Ordered(s)
    BY <2>1, <2>2, <2>3 DEF Ordered
  <2> QED BY <2>1, <2>2, <2>3, <2>4 DEF Precedes, Within, IntraSteps, s
<1> QED BY <1>1, <1>2, <1>3

\* Doing the first step leaves the others in order.
LEMMA Continued ==
  ASSUME NEW t \in Seq(Steps), t # << >>, Ordered(t)
  PROVE  /\ Tail(t) \in Seq(Steps)
         /\ Ordered(Tail(t))
         /\ Within(Tail(t), "intra") <=> Within(t, "intra") /\ Head(t) # "intra"
         /\ Within(Tail(t), "spawn") => Within(t, "spawn")
         /\ Tail(t) # << >> =>
              /\ Head(Tail(t)) \in {"spawn", "flush"} => Head(t) = "await"
              /\ Head(Tail(t)) \in {"intra", "return"} => Head(t) = "flush"
         /\ Tail(t) # <<"unwind">>
<1>1. /\ Tail(t) \in Seq(Steps) /\ Len(t) \in Nat /\ Len(t) >= 1 /\ Head(t) = t[1]
      /\ Len(Tail(t)) = Len(t) - 1
      /\ \A i \in 1 .. Len(t) - 1 : Tail(t)[i] = t[i + 1]
      /\ DOMAIN t = 1 .. Len(t) /\ DOMAIN Tail(t) = 1 .. Len(t) - 1
  BY HeadTailProperties, EmptySeq, LenProperties
<1> DEFINE u == Tail(t)
<1> HIDE DEF u
<1>2. /\ u \in Seq(Steps) /\ Len(u) = Len(t) - 1 /\ DOMAIN u = 1 .. Len(u)
      /\ \A i \in 1 .. Len(u) : u[i] = t[i + 1]
  BY <1>1 DEF u
<1>3. Ordered(u)
  <2>1. \A i \in 2 .. Len(u) :
          /\ i + 1 \in 2 .. Len(t) /\ u[i] = t[i + 1] /\ u[i - 1] = t[(i + 1) - 1]
    BY <1>1, <1>2
  <2>2. \A i, j \in DOMAIN u : u[i] = "intra" /\ u[j] = "intra" => i = j
    <3>1. \A i \in DOMAIN u : i + 1 \in DOMAIN t /\ u[i] = t[i + 1] /\ i \in Nat
      BY <1>1, <1>2
    <3>2. \A i, j \in DOMAIN u : u[i] = "intra" /\ u[j] = "intra" => i + 1 = j + 1
      BY <3>1 DEF Ordered
    <3> QED BY <3>1, <3>2
  <2> QED BY <2>1, <2>2 DEF Ordered
<1>4. Within(u, "intra") <=> Within(t, "intra") /\ Head(t) # "intra"
  <2>1. ASSUME NEW i \in DOMAIN u, u[i] = "intra"
        PROVE  Within(t, "intra") /\ t[1] # "intra"
    <3>1. i + 1 \in DOMAIN t /\ t[i + 1] = "intra" /\ 1 \in DOMAIN t /\ i + 1 # 1
      BY <1>1, <1>2, <2>1
    <3> QED BY <3>1 DEF Ordered, Within
  <2>2. ASSUME NEW i \in DOMAIN t, t[i] = "intra", t[1] # "intra"
        PROVE  Within(u, "intra")
    <3>1. i - 1 \in DOMAIN u /\ u[i - 1] = "intra"
      BY <1>1, <1>2, <2>2
    <3> QED BY <3>1 DEF Within
  <2> QED BY <1>1, <2>1, <2>2 DEF Within
<1>5. Within(u, "spawn") => Within(t, "spawn")
  <2>1. \A i \in DOMAIN u : i + 1 \in DOMAIN t /\ u[i] = t[i + 1]
    BY <1>1, <1>2
  <2> QED BY <2>1 DEF Within
<1>6. u # << >> => /\ Head(u) \in {"spawn", "flush"} => t[1] = "await"
                   /\ Head(u) \in {"intra", "return"} => t[1] = "flush"
                   /\ Head(u) # "unwind"
  <2>1. u # << >> => Len(u) >= 1 /\ Head(u) = u[1]
    BY <1>2, EmptySeq
  <2>2. u # << >> => 2 \in 2 .. Len(t) /\ Head(u) = t[2] /\ t[1] = t[2 - 1]
    BY <1>1, <1>2, <2>1
  <2> QED BY <2>2 DEF Ordered
<1>7. u # <<"unwind">>
  BY <1>6
<1> QED BY <1>1, <1>2, <1>3, <1>4, <1>5, <1>6, <1>7 DEF u

----------
(* What the batches and the grids hold *)

Active == ~ Idle /\ todo # <<"unwind">>

\* The macroblocks before this one have their parameters, and their pixels
\* or a place in a batch.
Tip == IF Within(todo, "intra") THEN slice.next - 1 ELSE slice.next

Own == Reference!OfSlice(image, slice.id)

Pixels ==
  /\ \E p, q \in slice.first .. Tip :
       /\ p <= q
       /\ Own = slice.first .. p - 1
       /\ Range(in_flight.jobs) = p .. q - 1
       /\ Range(pending) = q .. Tip - 1
  /\ \A a \in Range(in_flight.jobs) \cup Range(pending) :
       /\ a \in Addresses /\ a \in retained
       /\ deblock[a] = [slice |-> slice.id, intra |-> FALSE]
  /\ Within(todo, "intra") => slice.next - 1 \in Addresses

Seen(g) == {a \in Addresses : cells[g][a] = IdIn(g)}

Visible ==
  /\ Seen("modes") = Own
  /\ mode.entropy = "Cabac" => Seen("residual") = slice.first .. slice.next - 1
  /\ mode.entropy = "Cavlc" => Seen("cavlc") = slice.first .. slice.next - 1
  /\ slice.type = "P" => Seen("motion") = slice.first .. Tip - 1
  /\ slice.type = "B" => Seen("b_motion") = slice.first .. Tip - 1
  /\ slice.type # "I" /\ mode.entropy = "Cabac" =>
       Seen(SyntaxGrid) = slice.first .. slice.next - 1

SInv ==
  /\ Types /\ Ids /\ Completed /\ Schedule /\ Batches
  /\ Active => Pixels /\ Visible

LEMMA AddressesType ==
  ASSUME Types
  PROVE  /\ MacroblockCount \in Nat /\ Addresses \subseteq Nat
         /\ Addresses = Reference!Addresses(size)
<1>1. size \in [width : Nat \ {0}, height : Nat \ {0}]
  BY ReconstructionAssumption DEF Types
<1>2. MacroblockCount \in Nat
  BY <1>1 DEF MacroblockCount
<1> QED BY <1>2 DEF Addresses, Reference!Addresses, MacroblockCount

LEMMA AddressesSame ==
  ASSUME size' = size
  PROVE  Addresses' = Addresses
BY DEF Addresses, MacroblockCount

LEMMA RangeOf ==
  /\ Range(<< >>) = {}
  /\ \A s \in Seq(Nat), a \in Nat : Range(Append(s, a)) = Range(s) \cup {a}
<1>1. Range(<< >>) = {}
  BY DEF Range
<1>2. ASSUME NEW s \in Seq(Nat), NEW a \in Nat
      PROVE  Range(Append(s, a)) = Range(s) \cup {a}
  <2>1. /\ Append(s, a) \in Seq(Nat) /\ Len(Append(s, a)) = Len(s) + 1
        /\ \A i \in 1 .. Len(s) : Append(s, a)[i] = s[i]
        /\ Append(s, a)[Len(s) + 1] = a /\ Len(s) \in Nat
    BY AppendProperties, LenProperties
  <2>2. DOMAIN Append(s, a) = 1 .. Len(s) + 1 /\ DOMAIN s = 1 .. Len(s)
    BY <2>1, LenProperties
  <2> DEFINE t == Append(s, a)
  <2> HIDE DEF t
  <2>3. /\ DOMAIN t = 1 .. Len(s) + 1 /\ DOMAIN s = 1 .. Len(s) /\ Len(s) \in Nat
        /\ \A i \in 1 .. Len(s) : t[i] = s[i]
        /\ t[Len(s) + 1] = a
    BY <2>1, <2>2 DEF t
  <2>4. Range(t) = Range(s) \cup {a}
    <3>1. \A i \in DOMAIN t : i \in DOMAIN s \/ i = Len(s) + 1
      BY <2>3
    <3>2. \A i \in DOMAIN s : i \in DOMAIN t
      BY <2>3
    <3>3. Len(s) + 1 \in DOMAIN t
      BY <2>3
    <3> QED BY <2>3, <3>1, <3>2, <3>3 DEF Range
  <2> QED BY <2>4 DEF t
<1> QED BY <1>1, <1>2

LEMMA IdType ==
  ASSUME Types, NEW g \in Grids
  PROVE  IdIn(g) \in Nat
BY DEF Types, IdIn

LEMMA RecordIs ==
  ASSUME Types, NEW grids, NEW set
  PROVE  /\ Record(grids, set) \in [Grids -> [Addresses -> Nat]]
         /\ \A g \in Grids : \A a \in Addresses :
              Record(grids, set)[g][a] = IF g \in grids /\ a \in set THEN IdIn(g)
                                         ELSE cells[g][a]
<1>1. \A g \in Grids : IdIn(g) \in Nat
  BY IdType
<1>2. \A g \in Grids : \A a \in Addresses : cells[g][a] \in Nat
  BY DEF Types
<1> QED BY <1>1, <1>2 DEF Record

LEMMA RecordNone ==
  ASSUME Types
  PROVE  cells = Record({}, {})
<1>1. ASSUME NEW g \in Grids PROVE cells[g] = [a \in Addresses |-> cells[g][a]]
  BY DEF Types
<1>2. cells = [g \in Grids |-> cells[g]]
  BY DEF Types
<1>3. Record({}, {}) = [g \in Grids |-> [a \in Addresses |-> cells[g][a]]]
  BY DEF Record
<1> QED BY <1>1, <1>2, <1>3

\* Recording makes macroblocks visible, those and only those.
LEMMA SeenRecorded ==
  ASSUME Types, NEW grids, NEW set \in SUBSET Addresses, cells' = Record(grids, set),
         size' = size, slice'.id = slice.id, cavlc_slice_id' = cavlc_slice_id,
         NEW g \in Grids
  PROVE  Seen(g)' = IF g \in grids THEN Seen(g) \cup set ELSE Seen(g)
<1>1. IdIn(g)' = IdIn(g) /\ Addresses' = Addresses
  BY AddressesSame DEF IdIn
<1>2. \A a \in Addresses : cells'[g][a] = IF g \in grids /\ a \in set THEN IdIn(g)
                                        ELSE cells[g][a]
  BY RecordIs
<1>3. Seen(g)' = {a \in Addresses' : cells'[g][a] = IdIn(g)'}
  BY DEF Seen
<1> QED BY <1>1, <1>2, <1>3 DEF Seen

LEMMA SeenSame ==
  ASSUME cells' = cells, size' = size, slice'.id = slice.id, cavlc_slice_id' = cavlc_slice_id
  PROVE  \A g : Seen(g)' = Seen(g)
BY AddressesSame DEF Seen, IdIn

\* Nothing records an id that has not been given.
LEMMA IdsRecorded ==
  ASSUME Types, Ids, ~ Idle, NEW grids, NEW set, cells' = Record(grids, set),
         size' = size
  PROVE  /\ \A g \in Grids \ {"cavlc"} : \A a \in Addresses' : cells'[g][a] <= next_slice_id
         /\ \A a \in Addresses' : cells'["cavlc"][a] <= cavlc_slice_id
<1>1. Addresses' = Addresses
  BY AddressesSame
<1>2. \A g \in Grids : \A a \in Addresses :
        cells'[g][a] = IF g \in grids /\ a \in set THEN IdIn(g) ELSE cells[g][a]
  BY RecordIs
<1>3. slice.id <= next_slice_id /\ cavlc_slice_id <= cavlc_slice_id
  BY DEF Types, Ids
<1> QED BY <1>1, <1>2, <1>3 DEF Ids, IdIn, Grids

\* What is completed has been recorded, so it is refused a second time.
LEMMA CompletedIsRecorded ==
  ASSUME Types, Ids, Completed, NEW a \in completed
  PROVE  Recorded("modes", a)
<1>1. /\ cells["modes"][a] = image[a].slice /\ image[a].slice # 0
      /\ image[a].slice >= first_slice_id
  BY DEF Completed, CompletedMeansWritten, Ids
<1> QED BY <1>1 DEF Recorded

LEMMA OwnIs ==
  ASSUME Types
  PROVE  Own = {a \in Addresses : image[a].slice = slice.id}
BY DEF Own, Reference!OfSlice, Types

----------
(* Errors, workers and returns *)

LEMMA UnwindOrdered ==
  /\ <<"unwind">> \in Seq(Steps) /\ Ordered(<<"unwind">>)
  /\ ~ Within(<<"unwind">>, "intra") /\ ~ Within(<<"unwind">>, "spawn")
  /\ Head(<<"unwind">>) = "unwind"
BY DEF Ordered, Within, Steps

\* After an error nothing counts but what has been completed before.
LEMMA FailsStep ==
  ASSUME SInv, ~ Idle, NEW grids, NEW set \in SUBSET Addresses,
         "modes" \in grids => set \cap completed = {},
         SliceFails(Record(grids, set))
  PROVE  SInv'
<1> USE DEF SInv
<1>1. /\ cells' = Record(grids, set) /\ todo' = <<"unwind">>
      /\ size' = size /\ mode' = mode /\ next_slice_id' = next_slice_id
      /\ first_slice_id' = first_slice_id /\ cavlc_slice_id' = cavlc_slice_id
      /\ completed' = completed /\ deblock' = deblock /\ retained' = retained
      /\ image' = image /\ slice' = slice /\ pending' = pending
      /\ in_flight' = in_flight
  BY DEF SliceFails, pictureVars, idVars, resultVars, batchVars
<1>2. Addresses' = Addresses
  BY <1>1, AddressesSame
<1>3. Types'
  <2>1. cells' \in [Grids -> [Addresses -> Nat]]
    BY <1>1, RecordIs
  <2> QED BY <1>1, <1>2, <2>1, UnwindOrdered DEF Types
<1>4. Ids'
  <2>1. /\ \A g \in Grids \ {"cavlc"} : \A a \in Addresses' : cells'[g][a] <= next_slice_id
        /\ \A a \in Addresses' : cells'["cavlc"][a] <= cavlc_slice_id
    BY <1>1, IdsRecorded
  <2> QED BY <1>1, <2>1 DEF Ids, Idle
<1>5. Completed'
  <2>1. \A a \in completed : cells'["modes"][a] = cells["modes"][a]
    <3>1. \A a \in completed : a \in Addresses /\ ~ ("modes" \in grids /\ a \in set)
      BY DEF Types
    <3>2. "modes" \in Grids
      BY DEF Grids
    <3> QED BY <1>1, <3>1, <3>2, RecordIs
  <2> QED BY <1>1, <1>2, <2>1 DEF Completed, CompletedMeansWritten, NoPixels
<1>6. Schedule'
  BY <1>1, UnwindOrdered DEF Schedule
<1>7. Batches'
  <2>1. ~ Idle'
    BY <1>1 DEF Idle
  <2> QED BY <1>1, <2>1, UnwindOrdered DEF Batches, Settled
<1>8. ~ Active'
  BY <1>1 DEF Active
<1> QED BY <1>3, <1>4, <1>5, <1>6, <1>7, <1>8

LEMMA FailsPlainly ==
  ASSUME SInv, ~ Idle, SliceFails(cells)
  PROVE  SInv'
<1>1. cells = Record({}, {})
  BY RecordNone DEF SInv
<1> QED BY <1>1, FailsStep

LEMMA WorkerStep ==
  ASSUME SInv, Worker
  PROVE  SInv'
<1> USE DEF SInv
<1>1. /\ cells' = cells /\ todo' = todo
      /\ size' = size /\ mode' = mode /\ next_slice_id' = next_slice_id
      /\ first_slice_id' = first_slice_id /\ cavlc_slice_id' = cavlc_slice_id
      /\ completed' = completed /\ deblock' = deblock /\ retained' = retained
      /\ image' = image /\ slice' = slice /\ pending' = pending
  BY DEF Worker, WorkerDone, WorkerFails, pictureVars, idVars, resultVars
<1>2. /\ in_flight' \in [jobs : Seq(Nat), state : {"none", "running", "done", "failed"}]
      /\ in_flight'.jobs = in_flight.jobs
      /\ in_flight.state = "running" /\ in_flight'.state # "none"
  BY DEF Worker, WorkerDone, WorkerFails, Busy, Types
<1>3. Addresses' = Addresses
  BY <1>1, AddressesSame
<1>4. Types'
  BY <1>1, <1>2, <1>3 DEF Types
<1>5. Ids'
  BY <1>1, <1>3 DEF Ids, Idle
<1>6. Completed'
  BY <1>1, <1>3 DEF Completed, CompletedMeansWritten, NoPixels
<1>7. Schedule'
  BY <1>1 DEF Schedule
<1>8. Batches'
  <2>1. in_flight # NoBatch
    BY <1>2 DEF NoBatch
  <2> QED BY <1>1, <1>2, <2>1 DEF Batches, Settled, Idle
<1>9. Active' => Pixels' /\ Visible'
  <2>1. Active' => Active
    BY <1>1 DEF Active, Idle
  <2>2. Tip' = Tip /\ Own' = Own
    BY <1>1 DEF Tip, Own
  <2>3. \A g : Seen(g)' = Seen(g)
    BY <1>1, SeenSame
  <2>4. Pixels => Pixels'
    BY <1>1, <1>2, <1>3, <2>2 DEF Pixels
  <2>5. Visible => Visible'
    BY <1>1, <2>2, <2>3 DEF Visible, SyntaxGrid
  <2> QED BY <2>1, <2>4, <2>5
<1> QED BY <1>4, <1>5, <1>6, <1>7, <1>8, <1>9

LEMMA ReturnStep ==
  ASSUME SInv, Return
  PROVE  SInv'
<1> USE DEF SInv
<1>1. /\ cells' = cells /\ todo' = << >> /\ slice' = NoSlice
      /\ size' = size /\ mode' = mode /\ next_slice_id' = next_slice_id
      /\ first_slice_id' = first_slice_id /\ cavlc_slice_id' = cavlc_slice_id
      /\ completed' = completed /\ deblock' = deblock /\ retained' = retained
      /\ image' = image /\ pending' = << >> /\ in_flight' = NoBatch
  BY DEF Return, pictureVars, idVars, resultVars
<1>2. Idle'
  BY <1>1 DEF Idle
<1>3. Addresses' = Addresses
  BY <1>1, AddressesSame
<1>4. /\ << >> \in Seq(Steps) /\ << >> \in Seq(Nat) /\ Ordered(<< >>)
      /\ ~ Within(<< >>, "intra") /\ ~ Within(<< >>, "spawn")
  BY DEF Ordered, Within
<1>5. Types'
  BY <1>1, <1>3, <1>4 DEF Types, NoSlice, NoBatch
<1>6. Ids'
  BY <1>1, <1>2, <1>3 DEF Ids
<1>7. Completed'
  BY <1>1, <1>3 DEF Completed, CompletedMeansWritten, NoPixels
<1>8. Schedule'
  BY <1>1, <1>4 DEF Schedule
<1>9. Batches'
  BY <1>1, <1>4, RangeOf DEF Batches, Settled, NoBatch
<1>10. ~ Active'
  BY <1>2 DEF Active
<1> QED BY <1>5, <1>6, <1>7, <1>8, <1>9, <1>10

----------
(* Pictures and slices *)

LEMMA SInvInit == SliceInit => SInv
<1> SUFFICES ASSUME SliceInit PROVE SInv
  OBVIOUS
<1>1. /\ << >> \in Seq(Steps) /\ << >> \in Seq(Nat) /\ Ordered(<< >>)
      /\ ~ Within(<< >>, "intra") /\ ~ Within(<< >>, "spawn")
  BY DEF Ordered, Within
<1>2. EmptyGrid(size) = [a \in Addresses |-> 0]
  BY DEF EmptyGrid, Addresses, MacroblockCount, Reference!Addresses
<1>3. MaxSliceId \in Nat
  BY ReconstructionAssumption
<1>4. Types
  <2>1. cells \in [Grids -> [Addresses -> Nat]]
    BY <1>2 DEF SliceInit
  <2>2. image \in [Addresses -> [slice : Nat, intra : BOOLEAN, uses : SUBSET Int]]
    BY DEF SliceInit, NoPixels, Reference!NoPixels
  <2>3. mode \in Mode
    BY ReconstructionAssumption DEF SliceInit
  <2> QED BY <1>1, <1>3, <2>1, <2>2, <2>3 DEF SliceInit, Types, NoSlice, NoBatch, NoDeblock
<1>5. Ids
  BY <1>2 DEF SliceInit, Ids, Idle, Grids
<1>6. Completed
  BY DEF SliceInit, Completed, CompletedMeansWritten
<1>7. Schedule
  BY <1>1 DEF SliceInit, Schedule
<1>8. Batches
  BY RangeOf DEF SliceInit, Batches, Settled, NoBatch
<1>9. ~ Active
  BY DEF SliceInit, Active, Idle
<1> QED BY <1>4, <1>5, <1>6, <1>7, <1>8, <1>9 DEF SInv

LEMMA NewPictureStep ==
  ASSUME SInv, NEW s \in Sizes, NewPicture(s)
  PROVE  SInv'
<1> USE DEF SInv
<1>1. /\ size' = s /\ mode' = mode /\ slice' = slice /\ todo' = todo
      /\ cavlc_slice_id' = 0 /\ completed' = {} /\ retained' = {}
      /\ deblock' = [a \in Reference!Addresses(s) |-> NoDeblock]
      /\ image' = [a \in Reference!Addresses(s) |-> NoPixels]
      /\ pending' = pending /\ in_flight' = in_flight /\ Idle
  BY DEF NewPicture, batchVars
<1>2. Addresses' = Reference!Addresses(s)
  BY <1>1 DEF Addresses, MacroblockCount, Reference!Addresses
<1> DEFINE exhausted == next_slice_id = MaxSliceId
<1>3. /\ next_slice_id' \in 0 .. MaxSliceId /\ first_slice_id' \in 0 .. next_slice_id' + 1
      /\ exhausted => next_slice_id' = 0
      /\ next_slice_id' = 0 \/ next_slice_id' = next_slice_id
  BY ReconstructionAssumption DEF NewPicture, Types
<1>4. ASSUME NEW g \in Grids
      PROVE  \/ cells'[g] = EmptyGrid(s)
             \/ /\ cells'[g] = cells[g] /\ DOMAIN cells[g] = Reference!Addresses(s)
                /\ g # "cavlc" /\ next_slice_id' = next_slice_id
  BY DEF NewPicture, ResetGrid
<1>5. DOMAIN cells' = Grids /\ cells' = [g \in Grids |-> cells'[g]]
  BY DEF NewPicture
<1>6. EmptyGrid(s) = [a \in Addresses' |-> 0]
  BY <1>2 DEF EmptyGrid
<1>7. ASSUME NEW g \in Grids
      PROVE  /\ cells'[g] \in [Addresses' -> Nat]
             /\ \A a \in Addresses' :
                  (cells'[g][a] = 0) \/ (g # "cavlc" /\ cells'[g][a] <= next_slice_id')
  <2>1. CASE cells'[g] = EmptyGrid(s)
    BY <1>6, <2>1
  <2>2. CASE /\ cells'[g] = cells[g] /\ DOMAIN cells[g] = Reference!Addresses(s)
             /\ g # "cavlc" /\ next_slice_id' = next_slice_id
    <3>1. cells[g] \in [Addresses -> Nat] /\ Addresses = Addresses'
      BY <1>2, <2>2 DEF Types
    <3> QED BY <2>2, <3>1 DEF Ids
  <2> QED BY <1>4, <2>1, <2>2
<1>8. Types'
  <2>1. cells' \in [Grids -> [Addresses' -> Nat]]
    BY <1>5, <1>7
  <2>2. image' \in [Addresses' -> [slice : Nat, intra : BOOLEAN, uses : SUBSET Int]]
    BY <1>1, <1>2 DEF NoPixels, Reference!NoPixels
  <2> QED BY <1>1, <1>2, <1>3, <2>1, <2>2 DEF Types, NoDeblock
<1>9. Ids'
  <2>1. \A g \in Grids : \A a \in Addresses' :
          /\ g # "cavlc" => cells'[g][a] <= next_slice_id'
          /\ g = "cavlc" => cells'[g][a] <= cavlc_slice_id'
    BY <1>1, <1>3, <1>7
  <2> QED BY <1>1, <2>1 DEF Ids, Idle, Grids
<1>10. Completed'
  BY <1>1, <1>2 DEF Completed, CompletedMeansWritten, NoPixels
<1>11. Schedule'
  BY <1>1 DEF Schedule
<1>12. Batches'
  BY <1>1 DEF Batches, Settled, Idle
<1>13. ~ Active'
  BY <1>1 DEF Active, Idle
<1> QED BY <1>8, <1>9, <1>10, <1>11, <1>12, <1>13

LEMMA BeginStep ==
  ASSUME SInv, NEW type \in {"I", "P", "B"}, NEW first \in Addresses, BeginSlice(type, first)
  PROVE  SInv'
<1> USE DEF SInv
<1>1. /\ cells' = cells /\ todo' = todo /\ Idle
      /\ size' = size /\ mode' = mode /\ next_slice_id' = next_slice_id + 1
      /\ first_slice_id' = first_slice_id /\ next_slice_id < MaxSliceId
      /\ slice' = [id |-> next_slice_id + 1, type |-> type, next |-> first, first |-> first]
      /\ cavlc_slice_id' = IF mode.entropy = "Cavlc" THEN cavlc_slice_id + 1
                           ELSE cavlc_slice_id
      /\ completed' = completed /\ deblock' = deblock /\ retained' = retained
      /\ image' = image /\ pending' = pending /\ in_flight' = in_flight
  BY DEF BeginSlice, pictureVars, resultVars, batchVars
<1>2. Addresses' = Addresses /\ first \in Nat
  BY <1>1, AddressesSame, AddressesType
<1>3. /\ next_slice_id \in Nat /\ first_slice_id \in Nat /\ MaxSliceId \in Nat
      /\ first_slice_id <= next_slice_id + 1 /\ cavlc_slice_id \in Nat
  BY ReconstructionAssumption DEF Types
<1>4. Types'
  <2>1. /\ next_slice_id' \in 0 .. MaxSliceId /\ first_slice_id' \in 0 .. next_slice_id' + 1
        /\ cavlc_slice_id' \in Nat
    BY <1>1, <1>3
  <2>2. slice' \in [id : Nat, type : {"I", "P", "B"}, next : Nat, first : Nat]
    BY <1>1, <1>2, <1>3
  <2> QED BY <1>1, <1>2, <2>1, <2>2 DEF Types
<1>c. \A g \in Grids : \A a \in Addresses : cells[g][a] \in Nat
  BY DEF Types
<1>5. Ids'
  <2>1. ~ Idle'
    BY <1>1, <1>3 DEF Idle, NoSlice
  <2>2. /\ \A g \in Grids \ {"cavlc"} : \A a \in Addresses' : cells'[g][a] <= next_slice_id'
        /\ \A a \in Addresses' : cells'["cavlc"][a] <= cavlc_slice_id'
    BY <1>1, <1>2, <1>3, <1>c DEF Ids, Grids
  <2>3. \A a \in completed' : /\ image'[a].slice \in 1 .. next_slice_id'
                              /\ image'[a].slice >= first_slice_id'
    BY <1>1, <1>3 DEF Ids
  <2> QED BY <1>1, <1>3, <2>1, <2>2, <2>3 DEF Ids
<1>6. Completed'
  BY <1>1, <1>2 DEF Completed, CompletedMeansWritten, NoPixels
<1>7. Schedule'
  BY <1>1 DEF Schedule
<1>8. /\ todo = << >> /\ pending = << >> /\ in_flight = NoBatch
      /\ Range(pending') = {} /\ Range(in_flight'.jobs) = {}
  BY <1>1, RangeOf DEF Batches, NoBatch
<1>9. Batches'
  BY <1>1, <1>8 DEF Batches, Settled, NoBatch
<1>10. Tip' = first
  BY <1>1, <1>8 DEF Tip, Within
<1>11. Own' = {}
  <2>1. \A a \in Addresses : image[a].slice # next_slice_id + 1
    BY <1>3 DEF Ids, Completed, NoPixels, Reference!NoPixels
  <2>2. DOMAIN image = Addresses
    BY DEF Types
  <2> QED BY <1>1, <2>1, <2>2 DEF Own, Reference!OfSlice
<1>12. Pixels'
  <2>1. first .. first - 1 = {} /\ first \in first .. first
    BY <1>2
  <2>2. /\ first \in first .. Tip' /\ first <= first /\ slice'.first = first
        /\ Own' = first .. first - 1 /\ Range(in_flight'.jobs) = first .. first - 1
        /\ Range(pending') = first .. Tip' - 1
    <3>1. slice'.first = first /\ first <= first
      BY <1>1, <1>2
    <3> QED BY <1>8, <1>10, <1>11, <2>1, <3>1
  <2>3. ~ Within(todo', "intra")
    BY <1>1, <1>8 DEF Within
  <2> QED BY <1>8, <2>2, <2>3 DEF Pixels
<1>13. Visible'
  <2>0. ASSUME NEW g \in Grids, NEW id, id = IdIn(g)', \A a \in Addresses : cells[g][a] # id
        PROVE  Seen(g)' = {}
    BY <1>1, <1>2, <2>0 DEF Seen
  <2>1. ASSUME NEW g \in Grids \ {"cavlc"} PROVE Seen(g)' = {}
    <3>1. IdIn(g)' = next_slice_id + 1
      BY <1>1 DEF IdIn
    <3>2. \A a \in Addresses : cells[g][a] # next_slice_id + 1
      BY <1>3, <1>c DEF Ids
    <3> QED BY <2>0, <3>1, <3>2
  <2>2. mode.entropy = "Cavlc" => Seen("cavlc")' = {}
    <3>1. SUFFICES ASSUME mode.entropy = "Cavlc" PROVE Seen("cavlc")' = {}
      OBVIOUS
    <3>2. IdIn("cavlc")' = cavlc_slice_id + 1 /\ "cavlc" \in Grids
      BY <1>1, <3>1 DEF IdIn, Grids
    <3>3. \A a \in Addresses : cells["cavlc"][a] # cavlc_slice_id + 1
      BY <1>3, <1>c, <3>2 DEF Ids
    <3> QED BY <2>0, <3>2, <3>3
  <2>3. slice'.first .. slice'.next - 1 = {} /\ slice'.first .. Tip' - 1 = {}
    BY <1>1, <1>2, <1>10
  <2>4. SyntaxGrid' \in Grids \ {"cavlc"}
    BY DEF SyntaxGrid, Grids
  <2> QED BY <1>1, <1>11, <2>1, <2>2, <2>3, <2>4 DEF Visible, Grids
<1> QED BY <1>4, <1>5, <1>6, <1>7, <1>9, <1>12, <1>13

----------
(* Parsing with CABAC *)

LEMMA Intervals ==
  /\ \A lo, hi \in Int : lo <= hi => (lo .. hi - 1) \cup {hi} = lo .. (hi + 1) - 1
  /\ \A lo, mid, hi \in Int : lo <= mid /\ mid <= hi =>
       (lo .. mid - 1) \cup (mid .. hi - 1) = lo .. hi - 1
  /\ \A lo, hi \in Int : lo .. hi - 1 = {} /\ lo <= hi => lo = hi
<1>1. \A lo, hi \in Int : lo <= hi => (lo .. hi - 1) \cup {hi} = lo .. (hi + 1) - 1
  OBVIOUS
<1>2. \A lo, mid, hi \in Int : lo <= mid /\ mid <= hi =>
       (lo .. mid - 1) \cup (mid .. hi - 1) = lo .. hi - 1
  OBVIOUS
<1>3. \A lo, hi \in Int : lo .. hi - 1 = {} /\ lo <= hi => lo = hi
  <2>1. \A lo, hi \in Int : lo < hi => lo \in lo .. hi - 1
    OBVIOUS
  <2> QED BY <2>1
<1> QED BY <1>1, <1>2, <1>3

LEMMA ParsingMeans ==
  ASSUME SInv, Parsing
  PROVE  /\ todo = << >> /\ ~ Idle /\ Active /\ Tip = slice.next
         /\ Pixels /\ Visible
         /\ slice.id \in Nat /\ slice.id >= 1 /\ slice.next \in Nat /\ slice.first \in Nat
<1>1. todo = << >> /\ ~ Idle /\ Active
  BY DEF Parsing, Active
<1>2. ~ Within(todo, "intra")
  BY <1>1 DEF Within
<1> QED BY <1>1, <1>2 DEF SInv, Tip, Types, Ids

LEMMA ParseRefusedStep ==
  ASSUME SInv, ParseRefused \/ ParseDamaged
  PROVE  SInv'
<1>1. ~ Idle
  BY DEF ParseRefused, ParseDamaged, Parsing
<1>2. CASE SliceFails(cells)
  BY <1>1, <1>2, FailsPlainly
<1>3. CASE /\ slice.next \in Addresses \ completed
           /\ SliceFails(Record({"residual"}, {slice.next}))
  BY <1>1, <1>3, FailsStep
<1> QED BY <1>2, <1>3 DEF ParseRefused, ParseDamaged

\* What the steps after a macroblock that is not intra look like.
LEMMA ScheduledInter ==
  ASSUME SInv, Parsing, NEW last, NEW x \in {"spawn", "flush"}, NEW enough \in BOOLEAN,
         mode.entropy = "Cabac", mode' = mode,
         todo' = (IF enough THEN <<"await", x>> ELSE << >>) \o Ending(last)
  PROVE  /\ todo' \in Seq(Steps) /\ Schedule' /\ ~ Within(todo', "intra")
         /\ todo' # << >> => Head(todo') \in {"await", "fail"}
         /\ todo' # <<"unwind">>
<1> DEFINE s == IF enough THEN <<"await", x>> ELSE << >>
<1>1. Precedes(s) /\ ~ Within(s, "intra")
  BY PrefixPrecedes
<1>2. Follows(Ending(last))
  BY EndingFollows
<1> HIDE DEF s
<1>3. todo' = s \o Ending(last)
  BY DEF s
<1> QED BY <1>1, <1>2, <1>3, Concatenated DEF Schedule

LEMMA ParseInterStep ==
  ASSUME SInv, NEW last \in BOOLEAN, NEW syntax, NEW motion,
         ParseInter(syntax, motion, last),
         \/ slice.type = "P" /\ syntax = "cabac_p" /\ motion = "motion"
         \/ slice.type = "B" /\ syntax = "cabac_b" /\ motion = "b_motion"
  PROVE  SInv'
<1> USE DEF SInv
<1> DEFINE a == slice.next
           grids == {"residual", syntax, motion}
<1>1. /\ Parsing /\ mode.entropy = "Cabac" /\ a \in Addresses \ completed
      /\ syntax = SyntaxGrid /\ {syntax, motion} \subseteq Grids
  BY DEF ParseInter, SyntaxGrid, Grids
<1>2. /\ todo = << >> /\ ~ Idle /\ Tip = a /\ Pixels /\ Visible
      /\ slice.id \in Nat /\ slice.id >= 1 /\ a \in Nat /\ slice.first \in Nat
  BY <1>1, ParsingMeans
<1>3. CASE SliceFails(Record({"residual"}, {a})) \/ SliceFails(Record({"residual", syntax}, {a}))
  <2>1. "modes" \notin {"residual", syntax} /\ {a} \in SUBSET Addresses
    BY <1>1
  <2> QED BY <1>2, <1>3, <2>1, FailsStep
<1>4. CASE ~ (SliceFails(Record({"residual"}, {a})) \/ SliceFails(Record({"residual", syntax}, {a})))
  <2>1. /\ cells' = Record(grids, {a}) /\ retained' = retained \cup {a}
        /\ deblock' = [deblock EXCEPT ![a] = [slice |-> slice.id, intra |-> FALSE]]
        /\ pending' = Append(pending, a)
        /\ slice' = [slice EXCEPT !.next = a + 1]
        /\ todo' = (IF Enough THEN <<"await", IF Scoped THEN "spawn" ELSE "flush">>
                    ELSE << >>) \o Ending(last)
        /\ size' = size /\ mode' = mode /\ next_slice_id' = next_slice_id
        /\ first_slice_id' = first_slice_id /\ cavlc_slice_id' = cavlc_slice_id
        /\ completed' = completed /\ image' = image /\ in_flight' = in_flight
    BY <1>4 DEF ParseInter, pictureVars, idVars
  <2>2. /\ slice'.next = a + 1 /\ slice'.id = slice.id /\ slice'.first = slice.first
        /\ slice'.type = slice.type /\ ~ Idle'
        /\ slice' \in [id : Nat, type : {"I", "P", "B"}, next : Nat, first : Nat]
    <3>1. slice \in [id : Nat, type : {"I", "P", "B"}, next : Nat, first : Nat]
      BY DEF Types
    <3>2. slice' = [slice EXCEPT !.next = a + 1] /\ a + 1 \in Nat
      BY <1>2, <2>1
    <3>3. /\ slice'.next = a + 1 /\ slice'.id = slice.id /\ slice'.first = slice.first
          /\ slice'.type = slice.type
          /\ slice' \in [id : Nat, type : {"I", "P", "B"}, next : Nat, first : Nat]
      BY ONLY <3>1, <3>2
    <3> QED BY <1>2, <3>3 DEF Idle, NoSlice
  <2>3. Addresses' = Addresses
    BY <2>1, AddressesSame
  <2>4. /\ todo' \in Seq(Steps) /\ Schedule' /\ ~ Within(todo', "intra")
        /\ todo' # << >> => Head(todo') \in {"await", "fail"}
    <3>1. PICK x \in {"spawn", "flush"}, enough \in BOOLEAN :
            todo' = (IF enough THEN <<"await", x>> ELSE << >>) \o Ending(last)
      BY <2>1
    <3> QED BY <1>1, <2>1, <3>1, ScheduledInter
  <2>5. /\ pending' \in Seq(Nat) /\ Range(pending') = Range(pending) \cup {a}
    BY <1>2, <2>1, AppendProperties, RangeOf DEF Types
  <2>6. Types'
    <3>1. cells' \in [Grids -> [Addresses -> Nat]]
      BY <2>1, RecordIs
    <3>2. deblock' \in [Addresses -> [slice : Nat, intra : BOOLEAN]]
      BY <1>2, <2>1 DEF Types
    <3> QED BY <1>1, <2>1, <2>2, <2>3, <2>4, <2>5, <3>1, <3>2 DEF Types
  <2>7. Ids'
    <3>1. /\ \A g \in Grids \ {"cavlc"} : \A b \in Addresses' : cells'[g][b] <= next_slice_id
          /\ \A b \in Addresses' : cells'["cavlc"][b] <= cavlc_slice_id
      BY <1>2, <2>1, IdsRecorded
    <3> QED BY <1>2, <2>1, <2>2, <3>1 DEF Ids
  <2>8. \A b \in Addresses : b # a => deblock'[b] = deblock[b]
    BY <2>1 DEF Types
  <2>9. Completed'
    <3>1. "modes" \in Grids /\ "modes" \notin grids
      BY <1>1 DEF Grids
    <3>2. \A b \in completed : b \in Addresses /\ b # a
      BY <1>1 DEF Types
    <3>3. \A b \in completed : cells'["modes"][b] = cells["modes"][b]
      BY <2>1, <3>1, <3>2, RecordIs
    <3> QED BY <2>1, <2>3, <2>8, <3>2, <3>3 DEF Completed, CompletedMeansWritten, NoPixels
  <2>10. Batches'
    BY <1>1, <2>1, <2>2, <2>4 DEF Batches, Settled
  <2>11. Tip' = a + 1 /\ Own' = Own
    BY <2>1, <2>2, <2>4 DEF Tip, Own
  <2>12. Pixels'
    <3>1. PICK p, q \in slice.first .. a :
            /\ p <= q
            /\ Own = slice.first .. p - 1
            /\ Range(in_flight.jobs) = p .. q - 1
            /\ Range(pending) = q .. a - 1
      BY <1>2 DEF Pixels
    <3>2. /\ p \in slice.first .. a + 1 /\ q \in slice.first .. a + 1
          /\ (q .. a - 1) \cup {a} = q .. (a + 1) - 1
      BY <1>2, <3>1, Intervals
    <3>3. \A b \in Range(in_flight.jobs) \cup Range(pending) : b # a
      BY <1>2, <3>1
    <3>4. \A b \in Range(in_flight'.jobs) \cup Range(pending') :
            /\ b \in Addresses /\ b \in retained'
            /\ deblock'[b] = [slice |-> slice'.id, intra |-> FALSE]
      <4>1. deblock'[a] = [slice |-> slice.id, intra |-> FALSE]
        BY <1>1, <2>1 DEF Types
      <4> QED BY <1>1, <1>2, <2>1, <2>2, <2>5, <2>8, <3>3, <4>1 DEF Pixels
    <3> QED BY <2>1, <2>2, <2>3, <2>4, <2>5, <2>11, <3>1, <3>2, <3>4 DEF Pixels
  <2>13. Visible'
    <3>1. \A g \in Grids : Seen(g)' = IF g \in grids THEN Seen(g) \cup {a} ELSE Seen(g)
      <4>1. PICK some : some = grids
        OBVIOUS
      <4>2. /\ {a} \in SUBSET Addresses /\ cells' = Record(some, {a})
            /\ size' = size /\ slice'.id = slice.id /\ cavlc_slice_id' = cavlc_slice_id
        BY <1>1, <2>1, <2>2, <4>1
      <4>3. \A g \in Grids : Seen(g)' = IF g \in some THEN Seen(g) \cup {a} ELSE Seen(g)
        BY <4>2, SeenRecorded
      <4> QED BY <4>1, <4>3
    <3>2. slice.first <= a /\ (slice.first .. a - 1) \cup {a} = slice.first .. (a + 1) - 1
      BY <1>2, Intervals DEF Pixels
    <3>3. SyntaxGrid' = SyntaxGrid
      BY <2>2 DEF SyntaxGrid
    <3>4. Seen("modes")' = Own'
      BY <1>1, <1>2, <2>11, <3>1 DEF Visible, Grids
    <3>5. /\ Seen("residual")' = slice.first .. (a + 1) - 1
          /\ Seen(syntax)' = slice.first .. (a + 1) - 1
          /\ Seen(motion)' = slice.first .. (a + 1) - 1
      BY <1>1, <1>2, <3>1, <3>2 DEF Visible, Grids
    <3> QED BY <1>1, <2>1, <2>2, <2>11, <3>3, <3>4, <3>5 DEF Visible
  <2> QED BY <2>6, <2>7, <2>9, <2>4, <2>10, <2>12, <2>13
<1> QED BY <1>3, <1>4

LEMMA ParseIntraStep ==
  ASSUME SInv, NEW last \in BOOLEAN, ParseIntra(last)
  PROVE  SInv'
<1> USE DEF SInv
<1> DEFINE a == slice.next
           grids == {"residual"} \cup IF slice.type = "I" THEN {} ELSE {SyntaxGrid}
<1>1. /\ Parsing /\ mode.entropy = "Cabac" /\ a \in Addresses \ completed
      /\ grids \subseteq Grids /\ "modes" \notin grids /\ "motion" \notin grids
      /\ "b_motion" \notin grids /\ "residual" \in grids
      /\ SyntaxGrid \in Grids
  BY DEF ParseIntra, SyntaxGrid, Grids
<1>2. /\ todo = << >> /\ ~ Idle /\ Tip = a /\ Pixels /\ Visible
      /\ slice.id \in Nat /\ slice.id >= 1 /\ a \in Nat /\ slice.first \in Nat
  BY <1>1, ParsingMeans
<1>3. CASE SliceFails(Record({"residual"}, {a}))
  BY <1>1, <1>2, <1>3, FailsStep
<1>4. CASE ~ SliceFails(Record({"residual"}, {a}))
  <2>1. /\ cells' = Record(grids, {a}) /\ retained' = retained /\ deblock' = deblock
        /\ pending' = pending /\ slice' = [slice EXCEPT !.next = a + 1]
        /\ todo' = IntraSteps \o Ending(last)
        /\ size' = size /\ mode' = mode /\ next_slice_id' = next_slice_id
        /\ first_slice_id' = first_slice_id /\ cavlc_slice_id' = cavlc_slice_id
        /\ completed' = completed /\ image' = image /\ in_flight' = in_flight
    BY <1>4 DEF ParseIntra, pictureVars, idVars, resultVars, batchVars
  <2>2. /\ slice'.next = a + 1 /\ slice'.id = slice.id /\ slice'.first = slice.first
        /\ slice'.type = slice.type /\ ~ Idle'
        /\ slice' \in [id : Nat, type : {"I", "P", "B"}, next : Nat, first : Nat]
    <3>1. slice \in [id : Nat, type : {"I", "P", "B"}, next : Nat, first : Nat]
      BY DEF Types
    <3>2. slice' = [slice EXCEPT !.next = a + 1] /\ a + 1 \in Nat
      BY <1>2, <2>1
    <3>3. /\ slice'.next = a + 1 /\ slice'.id = slice.id /\ slice'.first = slice.first
          /\ slice'.type = slice.type
          /\ slice' \in [id : Nat, type : {"I", "P", "B"}, next : Nat, first : Nat]
      BY ONLY <3>1, <3>2
    <3> QED BY <1>2, <3>3 DEF Idle, NoSlice
  <2>3. Addresses' = Addresses
    BY <2>1, AddressesSame
  <2>4. /\ todo' \in Seq(Steps) /\ Schedule' /\ Within(todo', "intra")
        /\ todo' # << >> => Head(todo') \in {"await", "fail"}
    <3>1. Precedes(IntraSteps) /\ Within(IntraSteps, "intra") /\ Follows(Ending(last))
      BY PrefixPrecedes, EndingFollows
    <3> QED BY <1>1, <2>1, <3>1, Concatenated DEF Schedule
  <2>5. Types'
    <3>1. cells' \in [Grids -> [Addresses -> Nat]]
      BY <2>1, RecordIs
    <3> QED BY <2>1, <2>2, <2>3, <2>4, <3>1 DEF Types
  <2>6. Ids'
    <3>1. /\ \A g \in Grids \ {"cavlc"} : \A b \in Addresses' : cells'[g][b] <= next_slice_id
          /\ \A b \in Addresses' : cells'["cavlc"][b] <= cavlc_slice_id
      BY <1>2, <2>1, IdsRecorded
    <3> QED BY <1>2, <2>1, <2>2, <3>1 DEF Ids
  <2>7. Completed'
    <3>1. "modes" \in Grids
      BY DEF Grids
    <3>2. \A b \in completed : cells'["modes"][b] = cells["modes"][b]
      <4>1. PICK some : some = grids
        OBVIOUS
      <4>2. cells' = Record(some, {a}) /\ "modes" \notin some
        BY <1>1, <2>1, <4>1
      <4>3. \A b \in completed : b \in Addresses
        BY DEF Types
      <4> QED BY <3>1, <4>2, <4>3, RecordIs
    <3> QED BY <2>1, <2>3, <3>2 DEF Completed, CompletedMeansWritten, NoPixels
  <2>8. Batches'
    BY <1>1, <2>1, <2>2, <2>4 DEF Batches, Settled
  <2>9. Tip' = a /\ Own' = Own
    BY <1>2, <2>1, <2>2, <2>4 DEF Tip, Own
  <2>10. Pixels'
    <3>1. slice'.next - 1 \in Addresses'
      BY <1>1, <1>2, <2>2, <2>3
    <3> QED BY <1>2, <2>1, <2>2, <2>3, <2>9, <3>1 DEF Pixels
  <2>11. Visible'
    <3>1. \A g \in Grids : Seen(g)' = IF g \in grids THEN Seen(g) \cup {a} ELSE Seen(g)
      BY <1>1, <2>1, <2>2, SeenRecorded
    <3>2. slice.first <= a /\ (slice.first .. a - 1) \cup {a} = slice.first .. (a + 1) - 1
      BY <1>2, Intervals DEF Pixels
    <3>3. SyntaxGrid' = SyntaxGrid
      BY <2>2 DEF SyntaxGrid
    <3>4. /\ Seen("modes")' = Seen("modes") /\ Seen("motion")' = Seen("motion")
          /\ Seen("b_motion")' = Seen("b_motion")
      BY <1>1, <3>1 DEF Grids
    <3>5. /\ Seen("residual")' = slice.first .. (a + 1) - 1
          /\ slice.type # "I" => Seen(SyntaxGrid)' = slice.first .. (a + 1) - 1
      BY <1>1, <1>2, <3>1, <3>2, <3>3 DEF Visible, Grids
    <3> QED BY <1>1, <1>2, <2>1, <2>2, <2>9, <3>3, <3>4, <3>5 DEF Visible
  <2> QED BY <2>4, <2>5, <2>6, <2>7, <2>8, <2>10, <2>11
<1> QED BY <1>3, <1>4

----------
(* Pixels *)

\* What completing macroblocks of the slice must find and leave.
Completes(set, grids) ==
  /\ set \subseteq Addresses /\ set \cap completed = {}
  /\ grids \subseteq Grids /\ "modes" \in grids
  /\ cells' = Record(grids, set)
  /\ completed' = completed \cup set
  /\ retained' \in SUBSET Addresses /\ retained \cup set \subseteq retained'
  /\ deblock' \in [Addresses -> [slice : Nat, intra : BOOLEAN]]
  /\ image' \in [Addresses -> [slice : Nat, intra : BOOLEAN, uses : SUBSET Int]]
  /\ \A a \in Addresses \ set : image'[a] = image[a] /\ deblock'[a] = deblock[a]
  /\ \A a \in set : /\ image'[a].slice = slice.id
                    /\ deblock'[a] = [slice |-> slice.id, intra |-> image'[a].intra]
  /\ UNCHANGED <<size, mode, next_slice_id, first_slice_id, cavlc_slice_id>>
  /\ slice'.id = slice.id

LEMMA CompletesKeeps ==
  ASSUME SInv, ~ Idle, ~ Idle', NEW set, NEW grids, Completes(set, grids)
  PROVE  /\ cells' \in [Grids -> [Addresses' -> Nat]]
         /\ Addresses' = Addresses
         /\ Ids' /\ Completed'
         /\ Own' = Own \cup set
         /\ \A g \in Grids : Seen(g)' = IF g \in grids THEN Seen(g) \cup set ELSE Seen(g)
<1> USE DEF SInv
<1>1. Addresses' = Addresses
  BY AddressesSame DEF Completes
<1>2. cells' \in [Grids -> [Addresses' -> Nat]]
  BY <1>1, RecordIs DEF Completes
<1>3. \A a \in completed : a \in Addresses \ set
  BY DEF Types, Completes
<1>4. slice.id = next_slice_id /\ slice.id >= 1 /\ slice.id >= first_slice_id /\ slice.id \in Nat
  BY DEF Ids, Types
<1>5. Ids'
  <2>1. /\ \A g \in Grids \ {"cavlc"} : \A a \in Addresses' : cells'[g][a] <= next_slice_id
        /\ \A a \in Addresses' : cells'["cavlc"][a] <= cavlc_slice_id
    BY IdsRecorded DEF Completes
  <2>2. \A a \in completed' : /\ image'[a].slice \in 1 .. next_slice_id
                              /\ image'[a].slice >= first_slice_id
    <3>1. completed' = completed \cup set
      BY DEF Completes
    <3>2. \A a \in completed : image'[a] = image[a]
      BY <1>3 DEF Completes
    <3>3. \A a \in set : image'[a].slice = slice.id
      BY DEF Completes
    <3>4. slice.id \in 1 .. next_slice_id
      BY <1>4
    <3>5. \A a \in completed : image[a].slice \in 1 .. next_slice_id
                             /\ image[a].slice >= first_slice_id
      BY DEF Ids
    <3> QED BY <1>4, <3>1, <3>2, <3>3, <3>4, <3>5
  <2> QED BY <1>4, <2>1, <2>2 DEF Ids, Completes
<1>6. Completed'
  <2>1. \A a \in Addresses' \ completed' : image'[a] = NoPixels
    BY <1>1 DEF Completes, Completed
  <2>2. NoPixels' = NoPixels
    BY DEF NoPixels
  <2>3. ASSUME NEW a \in completed'
        PROVE  /\ deblock'[a] = [slice |-> image'[a].slice, intra |-> image'[a].intra]
               /\ image'[a].slice # 0 /\ a \in retained'
               /\ cells'["modes"][a] = image'[a].slice
    <3>1. "modes" \in Grids /\ "modes" \in grids /\ IdIn("modes") = slice.id
      BY DEF Completes, Grids, IdIn
    <3>2. CASE a \in set
      <4>1. cells'["modes"][a] = slice.id
        <5>1. a \in Addresses /\ Types /\ cells' = Record(grids, set)
          BY <3>2 DEF Completes
        <5>2. Record(grids, set)["modes"][a] = IdIn("modes")
          BY <3>1, <3>2, <5>1, RecordIs
        <5> QED BY <3>1, <5>1, <5>2
      <4>2. /\ image'[a].slice = slice.id /\ a \in retained'
            /\ deblock'[a] = [slice |-> slice.id, intra |-> image'[a].intra]
        BY <3>2 DEF Completes
      <4>3. slice.id # 0
        BY <1>4
      <4> QED BY <4>1, <4>2, <4>3
    <3>3. CASE a \in completed
      <4>1. cells'["modes"][a] = cells["modes"][a]
        BY <1>3, <3>1, <3>3, RecordIs DEF Completes
      <4>2. /\ image'[a] = image[a] /\ deblock'[a] = deblock[a]
            /\ retained \subseteq retained'
        BY <1>3, <3>3 DEF Completes
      <4>3. /\ deblock[a] = [slice |-> image[a].slice, intra |-> image[a].intra]
            /\ image[a].slice # 0 /\ a \in retained
            /\ cells["modes"][a] = image[a].slice
        BY <3>3 DEF Completed, CompletedMeansWritten
      <4> QED BY <4>1, <4>2, <4>3
    <3>4. a \in set \/ a \in completed
      BY DEF Completes
    <3> QED BY <3>2, <3>3, <3>4
  <2> QED BY <2>1, <2>2, <2>3 DEF Completed, CompletedMeansWritten
<1>7. Own' = Own \cup set
  <2>1. DOMAIN image = Addresses /\ DOMAIN image' = Addresses
    BY DEF Completes, Types
  <2>2. Own' = {a \in Addresses : image'[a].slice = slice.id}
    BY <2>1 DEF Own, Reference!OfSlice, Completes
  <2>3. Own = {a \in Addresses : image[a].slice = slice.id}
    BY <2>1 DEF Own, Reference!OfSlice
  <2> QED BY <2>2, <2>3 DEF Completes
<1>8. \A g \in Grids : Seen(g)' = IF g \in grids THEN Seen(g) \cup set ELSE Seen(g)
  BY SeenRecorded DEF Completes
<1> QED BY <1>1, <1>2, <1>5, <1>6, <1>7, <1>8

LEMMA IntraPixelsType ==
  ASSUME SInv, NEW a
  PROVE  /\ IntraPixels(a) \in [slice : Nat, intra : BOOLEAN, uses : SUBSET Int]
         /\ IntraPixels(a).slice = slice.id /\ IntraPixels(a).intra = TRUE
         /\ InterPixels \in [slice : Nat, intra : BOOLEAN, uses : SUBSET Int]
         /\ InterPixels.slice = slice.id /\ InterPixels.intra = FALSE
<1>1. Available(a) \subseteq Int
  BY AddressesType DEF Available, SInv, Types
<1>2. slice.id \in Nat
  BY DEF SInv, Types
<1> QED BY <1>1, <1>2 DEF IntraPixels, InterPixels

\* A macroblock whose pixels and parameters are made at once.
LEMMA OneCompletes ==
  ASSUME SInv, NEW a \in Addresses \ completed, NEW grids,
         NEW x, x \in [slice : Nat, intra : BOOLEAN, uses : SUBSET Int], x.slice = slice.id,
         grids \subseteq Grids, "modes" \in grids,
         cells' = Record(grids, {a}), retained' = retained \cup {a},
         image' = [image EXCEPT ![a] = x],
         deblock' = [deblock EXCEPT ![a] = [slice |-> slice.id, intra |-> x.intra]],
         completed' = completed \cup {a},
         UNCHANGED <<size, mode, next_slice_id, first_slice_id, cavlc_slice_id>>,
         slice'.id = slice.id
  PROVE  Completes({a}, grids)
<1>1. /\ image \in [Addresses -> [slice : Nat, intra : BOOLEAN, uses : SUBSET Int]]
      /\ deblock \in [Addresses -> [slice : Nat, intra : BOOLEAN]]
      /\ retained \subseteq Addresses /\ slice.id \in Nat
  BY DEF SInv, Types
<1>2. /\ image' \in [Addresses -> [slice : Nat, intra : BOOLEAN, uses : SUBSET Int]]
      /\ deblock' \in [Addresses -> [slice : Nat, intra : BOOLEAN]]
      /\ image'[a] = x /\ deblock'[a] = [slice |-> slice.id, intra |-> x.intra]
      /\ \A b \in Addresses \ {a} : image'[b] = image[b] /\ deblock'[b] = deblock[b]
  BY <1>1
<1> QED BY <1>1, <1>2 DEF Completes

\* A CAVLC macroblock: nothing is in a batch.
LEMMA CavlcStep ==
  ASSUME SInv, NEW last \in BOOLEAN, Parsing, mode.entropy = "Cavlc",
         NEW grids, Completes({slice.next}, grids), "cavlc" \in grids,
         slice.type = "P" => "motion" \in grids, slice.type = "B" => "b_motion" \in grids,
         CavlcNext(last)
  PROVE  SInv'
<1> USE DEF SInv
<1> DEFINE a == slice.next
<1>1. /\ todo = << >> /\ ~ Idle /\ Tip = a /\ Pixels /\ Visible
      /\ slice.id \in Nat /\ slice.id >= 1 /\ a \in Nat /\ slice.first \in Nat
  BY ParsingMeans
<1>2. /\ slice' = [slice EXCEPT !.next = a + 1] /\ todo' = Ending(last)
      /\ mode' = mode /\ pending' = pending /\ in_flight' = in_flight /\ size' = size
  BY DEF CavlcNext, pictureVars, idVars, batchVars
<1>3. /\ slice'.next = a + 1 /\ slice'.id = slice.id /\ slice'.first = slice.first
      /\ slice'.type = slice.type
      /\ slice' \in [id : Nat, type : {"I", "P", "B"}, next : Nat, first : Nat]
  <2>1. slice \in [id : Nat, type : {"I", "P", "B"}, next : Nat, first : Nat] /\ a + 1 \in Nat
    BY <1>1 DEF Types
  <2> QED BY ONLY <1>2, <2>1
<1>4. ~ Idle'
  BY <1>1, <1>3 DEF Idle, NoSlice
<1>5. /\ todo' \in Seq(Steps) /\ Ordered(todo') /\ ~ Within(todo', "intra")
      /\ ~ Within(todo', "spawn")
      /\ todo' # << >> => Head(todo') \in {"await", "fail"}
  BY <1>2, EndingFollows DEF Follows
<1>6. /\ cells' \in [Grids -> [Addresses' -> Nat]]
      /\ Addresses' = Addresses
      /\ Ids' /\ Completed'
      /\ Own' = Own \cup {a}
      /\ \A g \in Grids : Seen(g)' = IF g \in grids THEN Seen(g) \cup {a} ELSE Seen(g)
  BY <1>1, <1>4, CompletesKeeps
<1>7. Types'
  <2>1. completed' \subseteq Addresses
    BY DEF Completes, Types
  <2> QED BY <1>2, <1>3, <1>5, <1>6, <2>1 DEF Types, Completes
<1>8. Schedule'
  BY <1>5 DEF Schedule
<1>9. Batches'
  BY <1>2, <1>4, <1>5 DEF Batches, Settled
<1>10. Range(pending) = {} /\ Range(in_flight.jobs) = {}
  BY DEF Batches
<1>11. /\ Own = slice.first .. a - 1 /\ slice.first <= a
       /\ (slice.first .. a - 1) \cup {a} = slice.first .. (a + 1) - 1
  <2>1. PICK p, q \in slice.first .. a :
          /\ p <= q
          /\ Own = slice.first .. p - 1
          /\ Range(in_flight.jobs) = p .. q - 1
          /\ Range(pending) = q .. a - 1
    BY <1>1 DEF Pixels
  <2>2. p \in Int /\ q \in Int /\ a \in Int /\ q <= a
    BY <1>1
  <2>3. p = q
    BY <1>10, <2>1, <2>2, Intervals
  <2>4. q = a
    BY <1>10, <2>1, <2>2, Intervals
  <2> QED BY <1>1, <2>1, <2>2, <2>3, <2>4, Intervals
<1>12. Tip' = a + 1
  BY <1>3, <1>5 DEF Tip
<1>13. Pixels'
  <2>1. /\ (a + 1) \in slice.first .. a + 1 /\ a + 1 <= a + 1
        /\ (a + 1) .. (a + 1) - 1 = {}
    BY <1>1, <1>11
  <2> QED BY <1>2, <1>3, <1>5, <1>6, <1>10, <1>11, <1>12, <2>1 DEF Pixels
<1>14. Visible'
  <2>1. {"modes", "cavlc", "motion", "b_motion"} \subseteq Grids /\ "modes" \in grids
    BY DEF Grids, Completes
  <2>2. /\ Seen("modes")' = Own'
        /\ Seen("cavlc")' = slice.first .. (a + 1) - 1
        /\ slice.type = "P" => Seen("motion")' = slice.first .. (a + 1) - 1
        /\ slice.type = "B" => Seen("b_motion")' = slice.first .. (a + 1) - 1
    BY <1>1, <1>6, <1>11, <2>1 DEF Visible
  <2> QED BY <1>2, <1>3, <1>12, <2>2 DEF Visible
<1> QED BY <1>6, <1>7, <1>8, <1>9, <1>13, <1>14

LEMMA CavlcIntraStep ==
  ASSUME SInv, NEW last \in BOOLEAN, CavlcIntra(last)
  PROVE  SInv'
<1> DEFINE a == slice.next
<1>1. Parsing /\ mode.entropy = "Cavlc" /\ a \in Addresses \ completed /\ ~ Idle
  BY DEF CavlcIntra, Parsing
<1>2. CASE SliceFails(FailedModes(a))
  <2>1. CASE SliceFails(cells)
    BY <1>1, <2>1, FailsPlainly
  <2>2. CASE SliceFails(Record({"modes"}, {a}))
    BY <1>1, <2>2, FailsStep
  <2> QED BY <1>2, <2>1, <2>2 DEF FailedModes
<1>3. CASE CompleteIntra(a, {"cavlc"}) /\ CavlcNext(last)
  <2> DEFINE grids == {"modes", "b_motion", "motion"} \cup {"cavlc"}
  <2>1. PICK x : x = IntraPixels(a)
    OBVIOUS
  <2>2. PICK some : some = grids
    OBVIOUS
  <2>3. some \subseteq Grids /\ {"modes", "cavlc", "motion", "b_motion"} \subseteq some
    BY <2>2 DEF Grids
  <2>4. slice'.id = slice.id
    BY <1>3 DEF CavlcNext, SInv, Types
  <2>5. Completes({a}, some)
    BY <1>1, <1>3, <2>1, <2>2, <2>3, <2>4, IntraPixelsType, OneCompletes
       DEF CompleteIntra, CavlcNext, pictureVars, idVars
  <2> QED BY <1>1, <1>3, <2>3, <2>5, CavlcStep
<1> QED BY <1>2, <1>3 DEF CavlcIntra

LEMMA CavlcInterStep ==
  ASSUME SInv, NEW last \in BOOLEAN, NEW motion, CavlcInter(motion, last),
         \/ slice.type = "P" /\ motion = "motion"
         \/ slice.type = "B" /\ motion = "b_motion"
  PROVE  SInv'
<1> DEFINE a == slice.next
<1>1. Parsing /\ mode.entropy = "Cavlc" /\ a \in Addresses \ completed /\ ~ Idle
  BY DEF CavlcInter, Parsing
<1>2. CASE SliceFails(cells)
  BY <1>1, <1>2, FailsPlainly
<1>3. CASE ~ SliceFails(cells)
  <2> DEFINE grids == {"cavlc", motion, "modes"}
  <2>1. PICK x : x = InterPixels
    OBVIOUS
  <2>2. PICK some : some = grids
    OBVIOUS
  <2>3. some \subseteq Grids /\ {"modes", "cavlc", motion} \subseteq some
    BY <2>2 DEF Grids
  <2>4. /\ cells' = Record(some, {a}) /\ retained' = retained \cup {a}
        /\ image' = [image EXCEPT ![a] = x]
        /\ deblock' = [deblock EXCEPT ![a] = [slice |-> slice.id, intra |-> FALSE]]
        /\ completed' = completed \cup {a} /\ CavlcNext(last)
    BY <1>3, <2>1, <2>2 DEF CavlcInter
  <2>5. slice'.id = slice.id
    BY <2>4 DEF CavlcNext, SInv, Types
  <2>6. Completes({a}, some)
    BY <1>1, <2>1, <2>3, <2>4, <2>5, IntraPixelsType, OneCompletes
       DEF CavlcNext, pictureVars, idVars
  <2> QED BY <1>1, <2>3, <2>4, <2>6, CavlcStep
<1> QED BY <1>2, <1>3

----------
(* The steps after parsing a macroblock *)

LEMMA HeadFirst ==
  ASSUME SInv, todo # << >>
  PROVE  /\ \A step : Head(todo) = step => Within(todo, step)
         /\ ~ Idle
<1>1. todo \in Seq(Steps)
  BY DEF SInv, Types
<1>2. Len(todo) >= 1 /\ Head(todo) = todo[1] /\ DOMAIN todo = 1 .. Len(todo) /\ Len(todo) \in Nat
  BY <1>1, EmptySeq, LenProperties
<1>3. 1 \in DOMAIN todo
  BY <1>2
<1> QED BY <1>2, <1>3 DEF Within, SInv, Batches

\* A step that keeps what is to be done for the slice but for itself.
LEMMA ContinueStep ==
  ASSUME SInv, todo # << >>, todo' = Tail(todo), mode' = mode
  PROVE  /\ todo' \in Seq(Steps) /\ Schedule' /\ todo' # <<"unwind">>
         /\ Within(todo', "intra") <=> Within(todo, "intra") /\ Head(todo) # "intra"
         /\ todo' # << >> =>
              /\ Head(todo') \in {"spawn", "flush"} => Head(todo) = "await"
              /\ Head(todo') \in {"intra", "return"} => Head(todo) = "flush"
<1>1. todo \in Seq(Steps) /\ Ordered(todo)
  BY DEF SInv, Types, Schedule
<1> QED BY <1>1, Continued DEF SInv, Schedule

\* A batch that cannot be committed.
LEMMA Unwound ==
  ASSUME SInv, ~ Idle, todo' = <<"unwind">>, in_flight' \in {in_flight, NoBatch},
         UNCHANGED <<cells, resultVars, pictureVars, idVars, slice, pending>>
  PROVE  SInv'
<1> USE DEF SInv
<1>1. /\ cells' = cells /\ todo' = <<"unwind">>
      /\ size' = size /\ mode' = mode /\ next_slice_id' = next_slice_id
      /\ first_slice_id' = first_slice_id /\ cavlc_slice_id' = cavlc_slice_id
      /\ completed' = completed /\ deblock' = deblock /\ retained' = retained
      /\ image' = image /\ slice' = slice /\ pending' = pending
  BY DEF pictureVars, idVars, resultVars
<1>2. Addresses' = Addresses /\ ~ Idle'
  BY <1>1, AddressesSame DEF Idle
<1>3. /\ in_flight' \in [jobs : Seq(Nat), state : {"none", "running", "done", "failed"}]
      /\ in_flight'.state = "none" => in_flight'.jobs = << >>
      /\ mode.entropy = "Cavlc" => Range(in_flight'.jobs) = {}
  <2>1. CASE in_flight' = in_flight
    BY <2>1 DEF Types, Batches
  <2>2. CASE in_flight' = NoBatch
    <3>1. << >> \in Seq(Nat) /\ in_flight'.jobs = << >> /\ in_flight'.state = "none"
      BY <2>2 DEF NoBatch
    <3>2. in_flight' \in [jobs : Seq(Nat), state : {"none", "running", "done", "failed"}]
      BY <2>2, <3>1 DEF NoBatch
    <3> QED BY <3>1, <3>2, RangeOf
  <2> QED BY <2>1, <2>2
<1>4. Types'
  BY <1>1, <1>2, <1>3, UnwindOrdered DEF Types
<1>5. Ids' /\ Completed'
  BY <1>1, <1>2 DEF Ids, Completed, CompletedMeansWritten, NoPixels, Idle
<1>6. Schedule'
  BY <1>1, UnwindOrdered DEF Schedule
<1>7. Batches'
  BY <1>1, <1>2, <1>3, UnwindOrdered DEF Batches, Settled
<1>8. ~ Active'
  BY <1>1 DEF Active
<1> QED BY <1>4, <1>5, <1>6, <1>7, <1>8

\* A batch that has not been refused completes its macroblocks.
LEMMA CommitCompletes ==
  ASSUME SInv, ~ Idle, NEW jobs \in Seq(Nat), Commit(jobs), ~ Refused(jobs),
         \A a \in Range(jobs) : /\ a \in Addresses /\ a \in retained
                                /\ deblock[a] = [slice |-> slice.id, intra |-> FALSE],
         UNCHANGED <<pictureVars, idVars, slice>>
  PROVE  Completes(Range(jobs), {"modes"})
<1> USE DEF SInv
<1> DEFINE set == Range(jobs)
<1>1. /\ cells' = Record({"modes"}, set)
      /\ image' = [a \in Addresses |-> IF a \in set THEN InterPixels ELSE image[a]]
      /\ completed' = completed \cup set /\ retained' = retained /\ deblock' = deblock
      /\ size' = size /\ mode' = mode /\ next_slice_id' = next_slice_id
      /\ first_slice_id' = first_slice_id /\ cavlc_slice_id' = cavlc_slice_id
      /\ slice' = slice
  BY DEF Commit, pictureVars, idVars
<1>2. set \cap completed = {}
  BY CompletedIsRecorded DEF Refused
<1>3. /\ image' \in [Addresses -> [slice : Nat, intra : BOOLEAN, uses : SUBSET Int]]
      /\ \A a \in set : image'[a].slice = slice.id /\ image'[a].intra = FALSE
  BY <1>1, IntraPixelsType DEF Types
<1>4. /\ retained \in SUBSET Addresses
      /\ deblock \in [Addresses -> [slice : Nat, intra : BOOLEAN]]
  BY DEF Types
<1>5. {"modes"} \subseteq Grids
  BY DEF Grids
<1> QED BY <1>1, <1>2, <1>3, <1>4, <1>5 DEF Completes

\* What is common to committing the batch in flight and the pending one.
LEMMA Committed ==
  ASSUME SInv, Active, NEW set, Completes(set, {"modes"}), slice' = slice,
         retained' = retained, deblock' = deblock,
         todo # << >>, todo' = Tail(todo), Head(todo) # "intra",
         pending' \in Seq(Nat), Range(pending') \subseteq Range(pending),
         in_flight' \in [jobs : Seq(Nat), state : {"none", "running", "done", "failed"}],
         Range(in_flight'.jobs) \subseteq Range(in_flight.jobs),
         Batches',
         NEW p \in slice.first .. Tip, NEW q \in slice.first .. Tip, p <= q,
         Own \cup set = slice.first .. p - 1,
         Range(in_flight'.jobs) = p .. q - 1, Range(pending') = q .. Tip - 1
  PROVE  SInv'
<1> USE DEF SInv
<1>1. ~ Idle /\ ~ Idle' /\ mode' = mode /\ size' = size
  BY DEF Active, Idle, Completes
<1>2. /\ todo' \in Seq(Steps) /\ Schedule'
      /\ Within(todo', "intra") <=> Within(todo, "intra")
  BY <1>1, ContinueStep
<1>3. /\ cells' \in [Grids -> [Addresses' -> Nat]]
      /\ Addresses' = Addresses
      /\ Ids' /\ Completed'
      /\ Own' = Own \cup set
      /\ \A g \in Grids : Seen(g)' = IF g \in {"modes"} THEN Seen(g) \cup set ELSE Seen(g)
  BY <1>1, CompletesKeeps
<1>4. Types'
  <2>1. completed' \subseteq Addresses
    BY DEF Completes, Types
  <2> QED BY <1>1, <1>2, <1>3, <2>1 DEF Types, Completes
<1>5. Tip' = Tip
  BY <1>2 DEF Tip
<1>6. Pixels'
  BY <1>2, <1>3, <1>5 DEF Pixels
<1>7. Visible'
  <2>1. /\ {"modes", "residual", "cavlc", "motion", "b_motion", "cabac_p", "cabac_b"} = Grids
        /\ SyntaxGrid \in Grids \ {"modes"} /\ SyntaxGrid' = SyntaxGrid
    BY DEF Grids, SyntaxGrid
  <2>2. Seen("modes")' = Own'
    BY <1>3, <2>1 DEF Visible
  <2>3. \A g \in Grids \ {"modes"} : Seen(g)' = Seen(g)
    BY <1>3
  <2> QED BY <1>1, <1>5, <2>1, <2>2, <2>3 DEF Visible
<1> QED BY <1>2, <1>3, <1>4, <1>6, <1>7

\* The macroblocks of a batch in flight, then those pending.
LEMMA DoingMeans ==
  ASSUME SInv, NEW step, Doing(step), step # "unwind"
  PROVE  /\ todo # << >> /\ Head(todo) = step /\ ~ Idle /\ Active
         /\ Pixels /\ Visible
         /\ \A a, b \in slice.first .. Tip : a \in Int /\ b \in Int
         /\ Tip \in Int /\ slice.first \in Int
<1>1. todo # << >> /\ Head(todo) = step /\ ~ Idle
  BY HeadFirst DEF Doing
<1>2. Active
  BY <1>1, UnwindOrdered DEF Active
<1>3. Tip \in Int /\ slice.first \in Int
  BY DEF Tip, SInv, Types
<1> QED BY <1>1, <1>2, <1>3 DEF SInv

LEMMA AwaitStep ==
  ASSUME SInv, Await
  PROVE  SInv'
<1> USE DEF SInv
<1>1. /\ todo # << >> /\ Head(todo) = "await" /\ ~ Idle /\ Active /\ Pixels /\ Visible
      /\ Tip \in Int /\ slice.first \in Int
  BY DoingMeans DEF Await
<1>2. /\ in_flight' = NoBatch /\ slice' = slice /\ pending' = pending
      /\ UNCHANGED <<pictureVars, idVars>> /\ mode' = mode
  BY DEF Await, pictureVars
<1>3. PICK p, q \in slice.first .. Tip :
        /\ p <= q
        /\ Own = slice.first .. p - 1
        /\ Range(in_flight.jobs) = p .. q - 1
        /\ Range(pending) = q .. Tip - 1
  BY <1>1 DEF Pixels
<1>4. in_flight' \in [jobs : Seq(Nat), state : {"none", "running", "done", "failed"}]
      /\ Range(in_flight'.jobs) = {}
  BY <1>2, RangeOf DEF NoBatch
<1>5. p \in Int /\ q \in Int /\ q .. q - 1 = {} /\ slice.first <= p
  BY <1>1
<1>6. ASSUME todo' = Tail(todo) PROVE Batches'
  <2>1. ~ Idle'
    BY <1>1, <1>2 DEF Idle
  <2>2. todo' # << >> => Head(todo') \notin {"intra", "return"}
    BY <1>1, <1>2, <1>6, ContinueStep
  <2> QED BY <1>2, <1>4, <2>1, <2>2 DEF Batches, Settled, NoBatch
<1>7. CASE in_flight.state = "done" /\ ~ Refused(in_flight.jobs)
  <2>1. Commit(in_flight.jobs) /\ todo' = Tail(todo) /\ in_flight.jobs \in Seq(Nat)
    BY <1>7 DEF Await, Continue, Types
  <2>2. Completes(Range(in_flight.jobs), {"modes"})
    BY <1>1, <1>2, <1>7, <2>1, CommitCompletes DEF Pixels
  <2>3. retained' = retained /\ deblock' = deblock
    BY <2>1 DEF Commit
  <2>4. Own \cup Range(in_flight.jobs) = slice.first .. q - 1
    BY <1>1, <1>3, <1>5, Intervals
  <2>5. /\ pending' \in Seq(Nat) /\ Range(pending') \subseteq Range(pending)
        /\ Range(in_flight'.jobs) \subseteq Range(in_flight.jobs)
        /\ Range(pending') = q .. Tip - 1 /\ Range(in_flight'.jobs) = q .. q - 1
        /\ q <= q /\ Head(todo) # "intra"
    BY <1>1, <1>2, <1>3, <1>4, <1>5 DEF Types
  <2>6. Batches'
    BY <1>6, <2>1
  <2> QED BY <1>1, <1>2, <1>3, <1>4, <2>1, <2>2, <2>3, <2>4, <2>5, <2>6, Committed
<1>8. CASE in_flight.state = "none"
  <2>1. /\ todo' = Tail(todo) /\ UNCHANGED <<cells, resultVars>>
        /\ in_flight.jobs = << >>
    BY <1>8 DEF Await, Batches
  <2>2. UNCHANGED <<size, mode, next_slice_id, first_slice_id, cavlc_slice_id, cells,
                    completed, retained, deblock, image>>
    BY <1>2, <2>1 DEF pictureVars, idVars, resultVars
  <2>3. Addresses' = Addresses /\ ~ Idle'
    BY <1>1, <1>2, <2>2, AddressesSame DEF Idle
  <2>4. /\ todo' \in Seq(Steps) /\ Schedule'
        /\ Within(todo', "intra") <=> Within(todo, "intra")
    BY <1>1, <2>1, <2>2, ContinueStep
  <2>5. Types'
    BY <1>2, <1>4, <2>2, <2>3, <2>4 DEF Types
  <2>6. Ids' /\ Completed'
    BY <1>1, <1>2, <2>2, <2>3 DEF Ids, Completed, CompletedMeansWritten, NoPixels
  <2>7. Tip' = Tip /\ Own' = Own
    BY <1>2, <2>2, <2>4 DEF Tip, Own
  <2>8. Range(in_flight.jobs) = {}
    BY <2>1, RangeOf
  <2>9. Pixels'
    BY <1>1, <1>2, <1>4, <2>2, <2>3, <2>4, <2>7, <2>8 DEF Pixels
  <2>10. Visible'
    <3>1. \A g : Seen(g)' = Seen(g)
      BY <1>2, <2>2, SeenSame
    <3>2. SyntaxGrid' = SyntaxGrid
      BY <1>2 DEF SyntaxGrid
    <3> QED BY <1>1, <1>2, <2>2, <2>7, <3>1, <3>2 DEF Visible
  <2> QED BY <1>6, <2>1, <2>4, <2>5, <2>6, <2>9, <2>10
<1>9. CASE ~ (in_flight.state = "done" /\ ~ Refused(in_flight.jobs)) /\ in_flight.state # "none"
  <2>1. todo' = <<"unwind">> /\ UNCHANGED <<cells, resultVars>>
    BY <1>9 DEF Await
  <2> QED BY <1>1, <1>2, <2>1, Unwound
<1> QED BY <1>7, <1>8, <1>9

LEMMA FlushStep ==
  ASSUME SInv, Flush
  PROVE  SInv'
<1> USE DEF SInv
<1>1. /\ todo # << >> /\ Head(todo) = "flush" /\ ~ Idle /\ Active /\ Pixels /\ Visible
      /\ Tip \in Int /\ slice.first \in Int
  BY DoingMeans DEF Flush
<1>2. /\ in_flight' = in_flight /\ slice' = slice
      /\ UNCHANGED <<pictureVars, idVars>> /\ mode' = mode
  BY DEF Flush, pictureVars
<1>3. in_flight = NoBatch /\ Range(in_flight.jobs) = {}
  BY <1>1, RangeOf DEF Batches, Settled, NoBatch
<1>4. PICK p, q \in slice.first .. Tip :
        /\ p <= q
        /\ Own = slice.first .. p - 1
        /\ Range(in_flight.jobs) = p .. q - 1
        /\ Range(pending) = q .. Tip - 1
  BY <1>1 DEF Pixels
<1>5. p \in Int /\ q \in Int /\ slice.first <= p /\ q <= Tip
  BY <1>1
<1>6. p = q
  BY <1>3, <1>4, <1>5, Intervals
<1>7. CASE Refused(pending)
  BY <1>1, <1>2, <1>7, Unwound DEF Flush
<1>8. CASE ~ Refused(pending)
  <2>1. Commit(pending) /\ todo' = Tail(todo) /\ pending' = << >> /\ pending \in Seq(Nat)
    BY <1>8 DEF Flush, Continue, Types
  <2>2. Completes(Range(pending), {"modes"})
    BY <1>1, <1>2, <1>8, <2>1, CommitCompletes DEF Pixels
  <2>3. retained' = retained /\ deblock' = deblock
    BY <2>1 DEF Commit
  <2>4. Own \cup Range(pending) = slice.first .. Tip - 1
    BY <1>1, <1>4, <1>5, <1>6, Intervals
  <2>5. Range(pending') = {} /\ pending' \in Seq(Nat) /\ Tip .. Tip - 1 = {}
        /\ Tip \in slice.first .. Tip /\ Tip <= Tip
    BY <1>1, <1>5, <2>1, RangeOf
  <2>6. Batches'
    <3>1. ~ Idle'
      BY <1>1, <1>2 DEF Idle
    <3> QED BY <1>2, <1>3, <2>1, <2>5, <3>1 DEF Batches, Settled, NoBatch
  <2>7. in_flight' \in [jobs : Seq(Nat), state : {"none", "running", "done", "failed"}]
    BY <1>2 DEF Types
  <2> QED BY <1>1, <1>2, <1>3, <2>1, <2>2, <2>3, <2>4, <2>5, <2>6, <2>7, Committed
<1> QED BY <1>7, <1>8

LEMMA SpawnStep ==
  ASSUME SInv, Spawn
  PROVE  SInv'
<1> USE DEF SInv
<1>1. /\ todo # << >> /\ Head(todo) = "spawn" /\ ~ Idle /\ Active /\ Pixels /\ Visible
      /\ Tip \in Int /\ slice.first \in Int
  BY DoingMeans DEF Spawn
<1>2. /\ in_flight' = [jobs |-> pending, state |-> "running"] /\ pending' = << >>
      /\ todo' = Tail(todo) /\ slice' = slice
      /\ UNCHANGED <<size, mode, next_slice_id, first_slice_id, cavlc_slice_id, cells,
                     completed, retained, deblock, image>>
  BY DEF Spawn, Continue, pictureVars, idVars, resultVars
<1>3. in_flight = NoBatch /\ Range(in_flight.jobs) = {} /\ mode.entropy = "Cabac"
  <2>1. Within(todo, "spawn")
    BY <1>1, HeadFirst
  <2> QED BY <1>1, <2>1, RangeOf, ReconstructionAssumption
         DEF Batches, Settled, NoBatch, Schedule
<1>4. Addresses' = Addresses /\ ~ Idle'
  BY <1>1, <1>2, AddressesSame DEF Idle
<1>5. /\ todo' \in Seq(Steps) /\ Schedule'
      /\ Within(todo', "intra") <=> Within(todo, "intra")
      /\ todo' # << >> => Head(todo') \notin {"spawn", "flush", "intra", "return"}
  BY <1>1, <1>2, ContinueStep
<1>6. /\ in_flight' \in [jobs : Seq(Nat), state : {"none", "running", "done", "failed"}]
      /\ in_flight'.jobs = pending /\ in_flight'.state = "running"
      /\ pending' \in Seq(Nat) /\ Range(pending') = {}
  <2>1. pending \in Seq(Nat) /\ << >> \in Seq(Nat)
    BY DEF Types
  <2>2. /\ in_flight' \in [jobs : Seq(Nat), state : {"none", "running", "done", "failed"}]
        /\ in_flight'.jobs = pending /\ in_flight'.state = "running"
    BY ONLY <1>2, <2>1
  <2> QED BY <1>2, <2>1, <2>2, RangeOf
<1>7. Types'
  BY <1>2, <1>4, <1>5, <1>6 DEF Types
<1>8. Ids' /\ Completed'
  BY <1>1, <1>2, <1>4 DEF Ids, Completed, CompletedMeansWritten, NoPixels
<1>9. Batches'
  BY <1>2, <1>3, <1>4, <1>5, <1>6 DEF Batches, Settled
<1>10. Tip' = Tip /\ Own' = Own
  BY <1>2, <1>5 DEF Tip, Own
<1>11. Pixels'
  <2>1. PICK p, q \in slice.first .. Tip :
          /\ p <= q
          /\ Own = slice.first .. p - 1
          /\ Range(in_flight.jobs) = p .. q - 1
          /\ Range(pending) = q .. Tip - 1
    BY <1>1 DEF Pixels
  <2>2. p \in Int /\ q \in Int /\ p <= q /\ slice.first <= p /\ p <= Tip
    BY <1>1, <2>1
  <2>3. p = q
    BY <1>3, <2>1, <2>2, Intervals
  <2>4. Tip \in slice.first .. Tip /\ p <= Tip /\ Tip .. Tip - 1 = {}
    BY <1>1, <2>2
  <2> QED BY <1>1, <1>2, <1>4, <1>5, <1>6, <1>10, <2>1, <2>3, <2>4 DEF Pixels
<1>12. Visible'
  <2>1. \A g : Seen(g)' = Seen(g)
    BY <1>2, SeenSame
  <2>2. SyntaxGrid' = SyntaxGrid
    BY <1>2 DEF SyntaxGrid
  <2> QED BY <1>1, <1>2, <1>10, <2>1, <2>2 DEF Visible
<1> QED BY <1>5, <1>7, <1>8, <1>9, <1>11, <1>12

\* What an intra macroblock finds.
LEMMA IntraFinds ==
  ASSUME SInv, Doing("intra")
  PROVE  /\ slice.next - 1 \in Addresses /\ slice.first <= slice.next - 1
         /\ Own = slice.first .. slice.next - 2
         /\ pending = << >> /\ in_flight = NoBatch
         /\ Range(pending) = {} /\ Range(in_flight.jobs) = {}
         /\ mode.entropy = "Cabac" /\ Tip = slice.next - 1
         /\ slice.first \in Nat /\ slice.next \in Nat
<1> USE DEF SInv
<1>1. /\ todo # << >> /\ Head(todo) = "intra" /\ ~ Idle /\ Active /\ Pixels
  BY DoingMeans
<1>2. Within(todo, "intra")
  BY <1>1, HeadFirst
<1>3. /\ pending = << >> /\ in_flight = NoBatch
      /\ Range(pending) = {} /\ Range(in_flight.jobs) = {}
  BY <1>1, RangeOf DEF Batches, Settled, NoBatch
<1>4. mode.entropy = "Cabac" /\ Tip = slice.next - 1 /\ slice.next - 1 \in Addresses
  BY <1>1, <1>2 DEF Schedule, Tip, Pixels
<1>5. slice.first \in Nat /\ slice.next \in Nat
  BY DEF Types
<1>6. PICK p, q \in slice.first .. Tip :
        /\ p <= q
        /\ Own = slice.first .. p - 1
        /\ Range(in_flight.jobs) = p .. q - 1
        /\ Range(pending) = q .. Tip - 1
  BY <1>1 DEF Pixels
<1>7. p \in Int /\ q \in Int /\ p <= q /\ q <= Tip /\ slice.first <= p /\ Tip \in Int
  BY <1>4, <1>5, <1>6
<1>8. p = q /\ q = Tip
  BY <1>3, <1>6, <1>7, Intervals
<1>9. Own = slice.first .. slice.next - 2
  <2>1. Tip - 1 = slice.next - 2
    BY <1>4, <1>5
  <2> QED BY <1>6, <1>8, <2>1
<1> QED BY <1>3, <1>4, <1>5, <1>7, <1>8, <1>9

\* An intra macroblock that is not refused.
LEMMA IntraCompletes ==
  ASSUME SInv, Doing("intra"), ~ IntraRefused(slice.next - 1),
         CompleteIntra(slice.next - 1, {}),
         UNCHANGED <<pictureVars, idVars, slice>>
  PROVE  Completes({slice.next - 1}, {"modes", "b_motion", "motion"})
<1> DEFINE a == slice.next - 1
           grids == {"modes", "b_motion", "motion"}
<1>1. PICK x : x = IntraPixels(a)
  OBVIOUS
<1>2. PICK some : some = grids
  OBVIOUS
<1>3. some \subseteq Grids /\ "modes" \in some /\ grids \cup {} = some
  BY <1>2 DEF Grids
<1>4. a \in Addresses \ completed
  BY IntraFinds DEF IntraRefused
<1>5. /\ cells' = Record(some, {a}) /\ retained' = retained \cup {a}
      /\ image' = [image EXCEPT ![a] = x]
      /\ deblock' = [deblock EXCEPT ![a] = [slice |-> slice.id, intra |-> TRUE]]
      /\ completed' = completed \cup {a}
  BY <1>1, <1>3 DEF CompleteIntra
<1>6. /\ x \in [slice : Nat, intra : BOOLEAN, uses : SUBSET Int]
      /\ x.slice = slice.id /\ x.intra = TRUE
  BY <1>1, IntraPixelsType
<1>7. Completes({a}, some)
  BY <1>3, <1>4, <1>5, <1>6, OneCompletes DEF pictureVars, idVars
<1> QED BY <1>2, <1>7

LEMMA IntraStep ==
  ASSUME SInv, Intra
  PROVE  SInv'
<1> USE DEF SInv
<1> DEFINE a == slice.next - 1
           grids == {"modes", "b_motion", "motion"}
<1>1. /\ todo # << >> /\ Head(todo) = "intra" /\ ~ Idle /\ Active /\ Pixels /\ Visible
  BY DoingMeans DEF Intra
<1>2. /\ a \in Addresses /\ slice.first <= a /\ Own = slice.first .. slice.next - 2
      /\ pending = << >> /\ in_flight = NoBatch
      /\ Range(pending) = {} /\ Range(in_flight.jobs) = {}
      /\ mode.entropy = "Cabac" /\ Tip = a /\ slice.first \in Nat /\ slice.next \in Nat
  BY IntraFinds DEF Intra
<1>3. CASE IntraRefused(a)
  <2>1. SliceFails(FailedModes(a))
    BY <1>3 DEF Intra
  <2>2. CASE a \in completed \/ Recorded("modes", a)
    <3>1. FailedModes(a) = cells
      BY <2>2 DEF FailedModes
    <3> QED BY <1>1, <2>1, <3>1, FailsPlainly
  <2>3. CASE ~ (a \in completed \/ Recorded("modes", a))
    <3>1. FailedModes(a) = Record({"modes"}, {a})
      BY <2>3 DEF FailedModes
    <3>2. SliceFails(Record({"modes"}, {a})) /\ {a} \cap completed = {} /\ {a} \in SUBSET Addresses
      BY <1>2, <2>1, <2>3, <3>1
    <3> QED BY <1>1, <3>2, FailsStep
  <2> QED BY <2>2, <2>3
<1>4. CASE ~ IntraRefused(a)
  <2>1. /\ CompleteIntra(a, {}) /\ todo' = Tail(todo)
        /\ mode' = mode /\ slice' = slice /\ pending' = pending /\ in_flight' = in_flight
        /\ UNCHANGED <<pictureVars, idVars, slice>>
    BY <1>4 DEF Intra, Continue, pictureVars, batchVars
  <2>2. Completes({a}, grids)
    BY <1>4, <2>1, IntraCompletes DEF Intra
  <2>3. ~ Idle'
    BY <1>1, <2>1 DEF Idle
  <2>4. /\ todo' \in Seq(Steps) /\ Schedule' /\ ~ Within(todo', "intra")
        /\ todo' # << >> => Head(todo') \notin {"spawn", "flush", "intra", "return"}
    BY <1>1, <2>1, ContinueStep
  <2>5. PICK some : some = grids
    OBVIOUS
  <2>6. /\ cells' \in [Grids -> [Addresses' -> Nat]]
        /\ Addresses' = Addresses
        /\ Ids' /\ Completed'
        /\ Own' = Own \cup {a}
        /\ \A g \in Grids : Seen(g)' = IF g \in some THEN Seen(g) \cup {a} ELSE Seen(g)
    <3>1. Completes({a}, some)
      BY <2>2, <2>5
    <3> QED BY <1>1, <2>3, <3>1, CompletesKeeps
  <2>7. Types'
    <3>1. completed' \subseteq Addresses
      BY <2>2 DEF Completes, Types
    <3> QED BY <2>1, <2>2, <2>4, <2>6, <3>1 DEF Types, Completes
  <2>8. Batches'
    BY <1>2, <2>1, <2>3, <2>4 DEF Batches, Settled, NoBatch
  <2>9. Tip' = slice.next
    BY <2>1, <2>4 DEF Tip
  <2>10. /\ slice.first .. slice.next - 2 = slice.first .. a - 1
         /\ (slice.first .. a - 1) \cup {a} = slice.first .. slice.next - 1
    <3>1. slice.next - 2 = a - 1 /\ (a + 1) - 1 = slice.next - 1 /\ a \in Int
      BY <1>2
    <3> QED BY <1>2, <3>1, Intervals
  <2>11. Pixels'
    <3>1. /\ slice.next \in slice.first .. slice.next /\ slice.next <= slice.next
          /\ slice.next .. slice.next - 1 = {}
      BY <1>2
    <3> QED BY <1>2, <2>1, <2>4, <2>6, <2>9, <2>10, <3>1 DEF Pixels
  <2>12. Visible'
    <3>1. /\ {"modes", "residual", "motion", "b_motion", "cabac_p", "cabac_b"} \subseteq Grids
          /\ SyntaxGrid' = SyntaxGrid /\ SyntaxGrid \in Grids \ some
          /\ "residual" \notin some /\ {"modes", "motion", "b_motion"} \subseteq some
      BY <2>1, <2>5 DEF Grids, SyntaxGrid
    <3>2. Seen("modes")' = Own'
      BY <1>1, <2>6, <3>1 DEF Visible
    <3>3. /\ Seen("residual")' = slice.first .. slice.next - 1
          /\ slice.type # "I" => Seen(SyntaxGrid)' = slice.first .. slice.next - 1
      BY <1>1, <1>2, <2>6, <3>1 DEF Visible
    <3>4. /\ slice.type = "P" => Seen("motion")' = slice.first .. slice.next - 1
          /\ slice.type = "B" => Seen("b_motion")' = slice.first .. slice.next - 1
      BY <1>1, <1>2, <2>6, <2>10, <3>1 DEF Visible
    <3> QED BY <1>2, <2>1, <2>9, <3>1, <3>2, <3>3, <3>4 DEF Visible
  <2> QED BY <2>4, <2>6, <2>7, <2>8, <2>11, <2>12
<1> QED BY <1>3, <1>4

LEMMA StoppedStep ==
  ASSUME SInv, FlushDamaged \/ IntraDamaged \/ NotEnded
  PROVE  SInv'
<1>1. todo # << >> /\ SliceFails(cells)
  BY DEF FlushDamaged, IntraDamaged, NotEnded, Doing
<1> QED BY <1>1, HeadFirst, FailsPlainly

LEMMA StutterStep ==
  ASSUME SInv, UNCHANGED sliceVars
  PROVE  SInv'
<1> USE DEF SInv
<1>1. /\ cells' = cells /\ todo' = todo
      /\ size' = size /\ mode' = mode /\ next_slice_id' = next_slice_id
      /\ first_slice_id' = first_slice_id /\ cavlc_slice_id' = cavlc_slice_id
      /\ completed' = completed /\ deblock' = deblock /\ retained' = retained
      /\ image' = image /\ slice' = slice /\ pending' = pending /\ in_flight' = in_flight
  BY DEF sliceVars, pictureVars, idVars, resultVars, batchVars
<1>2. Addresses' = Addresses
  BY <1>1, AddressesSame
<1>3. Types'
  BY <1>1, <1>2 DEF Types
<1>4. Ids' /\ Completed'
  BY <1>1, <1>2 DEF Ids, Idle, Completed, CompletedMeansWritten, NoPixels
<1>5. Schedule' /\ Batches'
  BY <1>1 DEF Schedule, Batches, Settled, Idle
<1>6. Active' => Pixels' /\ Visible'
  <2>1. Active' => Active
    BY <1>1 DEF Active, Idle
  <2>2. Tip' = Tip /\ Own' = Own
    BY <1>1 DEF Tip, Own
  <2>3. \A g : Seen(g)' = Seen(g)
    BY <1>1, SeenSame
  <2>4. Pixels => Pixels'
    BY <1>1, <1>2, <2>2 DEF Pixels
  <2>5. Visible => Visible'
    BY <1>1, <2>2, <2>3 DEF Visible, SyntaxGrid
  <2> QED BY <2>1, <2>4, <2>5
<1> QED BY <1>3, <1>4, <1>5, <1>6

LEMMA SInvStep ==
  ASSUME SInv, [SliceNext]_sliceVars
  PROVE  SInv'
<1>1. CASE UNCHANGED sliceVars
  BY <1>1, StutterStep
<1>2. ASSUME NEW s \in Sizes, NewPicture(s) PROVE SInv'
  BY <1>2, NewPictureStep
<1>3. ASSUME NEW first \in Addresses, BeginISlice(first) \/ BeginPSlice(first) \/ BeginBSlice(first)
      PROVE  SInv'
  BY <1>3, BeginStep DEF BeginISlice, BeginPSlice, BeginBSlice
<1>4. CASE ParseRefused \/ ParseDamaged
  BY <1>4, ParseRefusedStep
<1>5. ASSUME NEW last \in BOOLEAN, ParsePInter(last) PROVE SInv'
  BY <1>5, ParseInterStep DEF ParsePInter
<1>6. ASSUME NEW last \in BOOLEAN, ParseBInter(last) PROVE SInv'
  BY <1>6, ParseInterStep DEF ParseBInter
<1>7. ASSUME NEW last \in BOOLEAN, ParseIntra(last) PROVE SInv'
  BY <1>7, ParseIntraStep
<1>8. ASSUME NEW last \in BOOLEAN, CavlcIntra(last) PROVE SInv'
  BY <1>8, CavlcIntraStep
<1>9. ASSUME NEW last \in BOOLEAN, CavlcPInter(last) PROVE SInv'
  BY <1>9, CavlcInterStep DEF CavlcPInter
<1>10. ASSUME NEW last \in BOOLEAN, CavlcBInter(last) PROVE SInv'
  BY <1>10, CavlcInterStep DEF CavlcBInter
<1>11. CASE SliceStep
  BY <1>11, AwaitStep, FlushStep, SpawnStep, IntraStep, StoppedStep, ReturnStep DEF SliceStep
<1>12. CASE Worker
  BY <1>12, WorkerStep
<1> QED BY <1>1, <1>2, <1>3, <1>4, <1>5, <1>6, <1>7, <1>8, <1>9, <1>10, <1>11, <1>12
       DEF SliceNext, Parse

----------
(* Invariance *)

LEMMA SInvAlways == SliceSpec => []SInv
<1>1. SInv /\ [SliceNext]_sliceVars => SInv'
  BY SInvStep
<1> QED BY SInvInit, <1>1, PTL DEF SliceSpec

\* A completed macroblock has its filter parameters, its motion field and its
\* prediction modes, all of the slice its pixels are of: readers of
\* intra_reconstruction.rs take them as initialized without looking.
THEOREM CompletedIsWritten == SliceSpec => []CompletedMeansWritten
<1>1. SInv => CompletedMeansWritten
  BY DEF SInv, Completed
<1> QED BY <1>1, SInvAlways, PTL

\* The grids are not cleared between pictures, yet a slice never takes what
\* an earlier slice or picture has left for a neighbour of its own.
THEOREM NeighboursAreOwn == SliceSpec => []NeighboursAreOfThisSlice
<1>1. SInv => NeighboursAreOfThisSlice
  <2> SUFFICES ASSUME SInv PROVE NeighboursAreOfThisSlice
    OBVIOUS
  <2> DEFINE Shown(g) == {a \in Addresses : cells[g][a] = IdIn(g)}
  <2>1. \A g : Shown(g) = Seen(g)
    BY DEF Seen
  <2>2. ASSUME Parsing, NEW g \in Consulted
        PROVE  Shown(g) = slice.first .. slice.next - 1
    <3>1. Tip = slice.next /\ Visible
      BY <2>2, ParsingMeans
    <3>2. /\ slice.type \in {"I", "P", "B"} /\ mode.entropy \in {"Cabac", "Cavlc"}
      BY DEF SInv, Types, Mode
    <3> QED BY <2>1, <2>2, <3>1, <3>2 DEF Consulted, Visible, SyntaxGrid
  <2>3. ASSUME Doing("intra") PROVE Shown("modes") = slice.first .. slice.next - 2
    BY <2>1, <2>3, IntraFinds, DoingMeans DEF Visible
  <2> QED BY <2>2, <2>3 DEF NeighboursAreOfThisSlice
<1> QED BY <1>1, SInvAlways, PTL

----------
(* Batches and workers do what a reconstruction in order does *)

\* The macroblocks of a slice, completed together, continue it.
Grows(set) ==
  /\ \E lo, mid, hi \in Int : /\ Own = lo .. mid - 1 /\ set = mid .. hi - 1
                              /\ lo <= mid /\ mid <= hi
  /\ \A a \in set :
       image'[a].uses = IF ~ image'[a].intra THEN {}
                        ELSE {n \in Reference!Neighbours(size, a) :
                                /\ n < a /\ image'[n].slice = slice.id
                                /\ mode.constrained => image'[n].intra}

LEMMA RunIsRun ==
  ASSUME NEW lo \in Int, NEW hi \in Int
  PROVE  Reference!IsRun(lo .. hi)
BY DEF Reference!IsRun

LEMMA GrownInOrder ==
  ASSUME SInv, ~ Idle, ~ Idle', NEW set, NEW grids, Completes(set, grids), Grows(set)
  PROVE  Reference!Reconstruct(slice.id)
<1> USE DEF SInv
<1>1. Own' = Own \cup set /\ slice'.id = slice.id
  BY CompletesKeeps DEF Completes
<1>2. PICK lo, mid, hi \in Int : /\ Own = lo .. mid - 1 /\ set = mid .. hi - 1
                                 /\ lo <= mid /\ mid <= hi
  BY DEF Grows
<1>3. Reference!IsRun(Reference!OfSlice(image', slice.id))
  <2>1. Own' = lo .. hi - 1
    BY <1>1, <1>2, Intervals
  <2>2. Own' = Reference!OfSlice(image', slice.id)
    BY <1>1 DEF Own
  <2> QED BY <2>1, <2>2, RunIsRun
<1>4. size' = size /\ mode' = mode /\ DOMAIN image' = DOMAIN image
  BY DEF Completes, Types
<1>5. ASSUME NEW a \in Reference!Addresses(size), image'[a] # image[a]
      PROVE  /\ image[a] = NoPixels
             /\ \A b \in Reference!OfSlice(image, slice.id) : b < a
             /\ image'[a].slice = slice.id
             /\ image'[a].uses =
                  IF ~ image'[a].intra THEN {}
                  ELSE {n \in Reference!Neighbours(size, a) :
                          /\ n < a /\ image'[n].slice = slice.id
                          /\ mode.constrained => image'[n].intra}
  <2>1. a \in set /\ a \in Addresses
    BY <1>5, AddressesType DEF Completes
  <2>2. image[a] = NoPixels /\ image'[a].slice = slice.id
    BY <2>1 DEF Completes, Completed
  <2>3. \A b \in Own : b < a
    BY <1>2, <2>1
  <2> QED BY <2>1, <2>2, <2>3 DEF Grows, Own
<1> QED BY <1>3, <1>4, <1>5 DEF Reference!Reconstruct, NoPixels

LEMMA SliceIdInRange ==
  ASSUME SInv, ~ Idle
  PROVE  slice.id \in 1 .. MaxSliceId
BY ReconstructionAssumption DEF SInv, Ids, Types

\* Batches take nothing from their own picture.
LEMMA BatchGrows ==
  ASSUME SInv, NEW jobs, Commit(jobs), slice' = slice,
         NEW lo \in Int, NEW mid \in Int, NEW hi \in Int, lo <= mid, mid <= hi,
         Own = lo .. mid - 1, Range(jobs) = mid .. hi - 1, Range(jobs) \subseteq Addresses
  PROVE  Grows(Range(jobs))
<1>1. \A a \in Range(jobs) : image'[a] = InterPixels
  BY DEF Commit
<1>2. \A a \in Range(jobs) : ~ image'[a].intra /\ image'[a].uses = {}
  BY <1>1 DEF InterPixels
<1> QED BY <1>2 DEF Grows

\* A macroblock by itself, at the end of what its slice has completed.
LEMMA OneGrows ==
  ASSUME SInv, ~ Idle, NEW a \in Addresses \ completed, NEW lo \in Int, lo <= a,
         Own = lo .. a - 1, NEW x, image' = [image EXCEPT ![a] = x],
         x \in {IntraPixels(a), InterPixels}
  PROVE  Grows({a})
<1> USE DEF SInv
<1>1. Addresses = Reference!Addresses(size) /\ Addresses \subseteq Nat /\ a \in Int
  BY AddressesType
<1>2. \E l, mid, hi \in Int : /\ Own = l .. mid - 1 /\ {a} = mid .. hi - 1
                              /\ l <= mid /\ mid <= hi
  <2>1. {a} = a .. (a + 1) - 1 /\ a <= a + 1 /\ a + 1 \in Int
    BY <1>1
  <2> QED BY <1>1, <2>1
<1>3. image'[a] = x /\ \A n \in Addresses \ {a} : image'[n] = image[n]
  BY DEF Types
<1>4. CASE x = InterPixels
  <2>1. ~ image'[a].intra /\ image'[a].uses = {}
    BY <1>3, <1>4 DEF InterPixels
  <2> QED BY <1>2, <2>1 DEF Grows
<1>5. CASE x = IntraPixels(a)
  <2> DEFINE used == {n \in Reference!Neighbours(size, a) :
                        /\ n < a /\ image'[n].slice = slice.id
                        /\ mode.constrained => image'[n].intra}
  <2>1. image'[a].intra = TRUE /\ image'[a].uses = Reference!Neighbours(size, a) \cap Available(a)
    BY <1>3, <1>5 DEF IntraPixels
  <2>2. Reference!Neighbours(size, a) \subseteq Addresses
    BY <1>1 DEF Reference!Neighbours
  <2>3. ASSUME NEW n \in Available(a)
        PROVE  /\ n < a /\ image'[n].slice = slice.id
               /\ mode.constrained => image'[n].intra
    <3>1. /\ n \in completed /\ deblock[n].slice = slice.id
          /\ mode.constrained => deblock[n].intra
      BY <2>3 DEF Available
    <3>2. n \in Addresses /\ n # a
      BY <3>1 DEF Types
    <3>3. deblock[n] = [slice |-> image[n].slice, intra |-> image[n].intra]
      BY <3>1 DEF Completed, CompletedMeansWritten
    <3>4. image[n].slice = slice.id /\ (mode.constrained => image[n].intra)
      BY <3>1, <3>3
    <3>5. n \in Own
      BY <3>2, <3>4, OwnIs
    <3> QED BY <1>1, <1>3, <3>2, <3>4, <3>5
  <2>4. ASSUME NEW n \in Addresses, n < a, image'[n].slice = slice.id,
               mode.constrained => image'[n].intra
        PROVE  n \in Available(a)
    <3>1. n # a /\ image'[n] = image[n]
      BY <1>1, <1>3, <2>4
    <3>2. n \in completed
      <4>1. slice.id # 0
        BY DEF Ids, Types
      <4> QED BY <2>4, <3>1, <4>1 DEF Completed, NoPixels, Reference!NoPixels
    <3>3. deblock[n] = [slice |-> image[n].slice, intra |-> image[n].intra]
      BY <3>2 DEF Completed, CompletedMeansWritten
    <3> QED BY <2>4, <3>1, <3>2, <3>3 DEF Available
  <2>5. Reference!Neighbours(size, a) \cap Available(a) = used
    BY <2>2, <2>3, <2>4
  <2> QED BY <1>2, <2>1, <2>5 DEF Grows
<1> QED BY <1>4, <1>5

\* Completing macroblocks is a step of the reconstruction in order.
LEMMA ContinuesInOrder ==
  ASSUME SInv, ~ Idle, ~ Idle', NEW set, NEW grids, Completes(set, grids), Grows(set)
  PROVE  Reference!Next
<1>1. PICK id : id = slice.id
  OBVIOUS
<1>2. id \in 1 .. MaxSliceId
  BY <1>1, SliceIdInRange
<1>3. Reference!Reconstruct(id)
  BY <1>1, GrownInOrder
<1> QED BY <1>2, <1>3 DEF Reference!Next

LEMMA CavlcInOrder ==
  ASSUME SInv, NEW last \in BOOLEAN,
         \/ CavlcIntra(last)
         \/ CavlcPInter(last)
         \/ CavlcBInter(last)
  PROVE  Reference!Next \/ UNCHANGED <<size, mode, image>>
<1> USE DEF SInv
<1> DEFINE a == slice.next
<1>1. Parsing /\ mode.entropy = "Cavlc" /\ a \in Addresses \ completed
  BY DEF CavlcIntra, CavlcPInter, CavlcBInter, CavlcInter
<1>2. /\ ~ Idle /\ Tip = a /\ Pixels /\ a \in Nat /\ slice.first \in Nat
  BY <1>1, ParsingMeans
<1>3. Own = slice.first .. a - 1 /\ slice.first <= a
  <2>1. PICK p, q \in slice.first .. a :
          /\ p <= q
          /\ Own = slice.first .. p - 1
          /\ Range(in_flight.jobs) = p .. q - 1
          /\ Range(pending) = q .. a - 1
    BY <1>2 DEF Pixels
  <2>2. /\ p \in Int /\ q \in Int /\ a \in Int /\ q <= a /\ slice.first <= a
        /\ Range(pending) = {} /\ Range(in_flight.jobs) = {}
    BY <1>1, <1>2, <2>1 DEF Batches
  <2>3. p = q /\ q = a
    BY <2>1, <2>2, Intervals
  <2> QED BY <2>1, <2>2, <2>3
<1>4. CASE \E recorded : SliceFails(recorded)
  BY <1>4 DEF SliceFails, pictureVars, resultVars
<1>5. CASE ~ \E recorded : SliceFails(recorded)
  <2>1. CavlcNext(last)
    BY <1>5 DEF CavlcIntra, CavlcPInter, CavlcBInter, CavlcInter
  <2>2. slice'.id = slice.id /\ ~ Idle'
    <3>1. slice' = [slice EXCEPT !.next = a + 1]
      BY <2>1 DEF CavlcNext
    <3>2. slice \in [id : Nat, type : {"I", "P", "B"}, next : Nat, first : Nat]
      BY DEF Types
    <3>3. slice'.id = slice.id
      BY ONLY <3>1, <3>2
    <3> QED BY <1>2, <3>3 DEF Idle, NoSlice, Ids
  <2>3. \E x \in {IntraPixels(a), InterPixels}, grids \in SUBSET Grids :
          /\ cells' = Record(grids, {a}) /\ "modes" \in grids
          /\ retained' = retained \cup {a}
          /\ image' = [image EXCEPT ![a] = x]
          /\ deblock' = [deblock EXCEPT ![a] = [slice |-> slice.id, intra |-> x.intra]]
          /\ completed' = completed \cup {a}
    <3>1. CASE CavlcIntra(last)
      <4>1. CompleteIntra(a, {"cavlc"})
        BY <1>5, <3>1 DEF CavlcIntra
      <4>2. /\ {"modes", "b_motion", "motion"} \cup {"cavlc"} \in SUBSET Grids
            /\ IntraPixels(a).intra = TRUE
        BY DEF Grids, IntraPixels
      <4> QED BY <4>1, <4>2 DEF CompleteIntra
    <3>2. ASSUME NEW motion \in {"motion", "b_motion"}, CavlcInter(motion, last)
          PROVE  \E x \in {IntraPixels(a), InterPixels}, grids \in SUBSET Grids :
                   /\ cells' = Record(grids, {a}) /\ "modes" \in grids
                   /\ retained' = retained \cup {a}
                   /\ image' = [image EXCEPT ![a] = x]
                   /\ deblock' = [deblock EXCEPT ![a] = [slice |-> slice.id, intra |-> x.intra]]
                   /\ completed' = completed \cup {a}
      <4>1. /\ {"cavlc", motion, "modes"} \in SUBSET Grids /\ InterPixels.intra = FALSE
        BY DEF Grids, InterPixels
      <4> QED BY <1>5, <3>2, <4>1 DEF CavlcInter
    <3> QED BY <3>1, <3>2 DEF CavlcPInter, CavlcBInter
  <2>4. PICK x, grids : /\ x \in {IntraPixels(a), InterPixels} /\ grids \in SUBSET Grids
                        /\ cells' = Record(grids, {a}) /\ "modes" \in grids
                        /\ retained' = retained \cup {a}
                        /\ image' = [image EXCEPT ![a] = x]
                        /\ deblock' = [deblock EXCEPT ![a] = [slice |-> slice.id, intra |-> x.intra]]
                        /\ completed' = completed \cup {a}
    BY <2>3
  <2>5. x \in [slice : Nat, intra : BOOLEAN, uses : SUBSET Int] /\ x.slice = slice.id
    BY <2>4, IntraPixelsType
  <2>6. Completes({a}, grids)
    BY <1>1, <2>1, <2>2, <2>4, <2>5, OneCompletes DEF CavlcNext, pictureVars, idVars
  <2>7. Grows({a})
    <3>1. PICK b, lo : b = a /\ lo = slice.first
      OBVIOUS
    <3>2. /\ b \in Addresses \ completed /\ lo \in Int /\ lo <= b /\ Own = lo .. b - 1
          /\ image' = [image EXCEPT ![b] = x] /\ x \in {IntraPixels(b), InterPixels}
      BY <1>1, <1>2, <1>3, <2>4, <3>1
    <3>3. Grows({b})
      BY <1>2, <3>2, OneGrows
    <3> QED BY <3>1, <3>3
  <2> QED BY <1>2, <2>2, <2>6, <2>7, ContinuesInOrder
<1> QED BY <1>4, <1>5

LEMMA BatchesInOrder ==
  ASSUME SInv, Await \/ Flush
  PROVE  Reference!Next \/ UNCHANGED <<size, mode, image>>
<1> USE DEF SInv
<1>1. PICK step \in {"await", "flush"} : Doing(step)
  BY DEF Await, Flush
<1>2. /\ todo # << >> /\ Head(todo) = step /\ ~ Idle /\ Active /\ Pixels
      /\ Tip \in Int /\ slice.first \in Int
  BY <1>1, DoingMeans
<1>3. PICK p, q \in slice.first .. Tip :
        /\ p <= q
        /\ Own = slice.first .. p - 1
        /\ Range(in_flight.jobs) = p .. q - 1
        /\ Range(pending) = q .. Tip - 1
  BY <1>2 DEF Pixels
<1>4. p \in Int /\ q \in Int /\ slice.first <= p /\ q <= Tip
  BY <1>2
<1>5. slice' = slice /\ ~ Idle' /\ UNCHANGED <<pictureVars, idVars, slice>>
  BY <1>2 DEF Await, Flush, Idle
<1>6. ASSUME NEW jobs \in Seq(Nat), Commit(jobs), ~ Refused(jobs),
             NEW mid \in Int, NEW hi \in Int, slice.first <= mid, mid <= hi,
             Own = slice.first .. mid - 1, Range(jobs) = mid .. hi - 1,
             Range(jobs) \subseteq Range(in_flight.jobs) \cup Range(pending)
      PROVE  Reference!Next
  <2>1. Completes(Range(jobs), {"modes"})
    BY <1>2, <1>5, <1>6, CommitCompletes DEF Pixels
  <2>2. Range(jobs) \subseteq Addresses
    BY <1>2, <1>6 DEF Pixels
  <2>3. Grows(Range(jobs))
    BY <1>2, <1>5, <1>6, <2>2, BatchGrows
  <2> QED BY <1>2, <1>5, <2>1, <2>3, ContinuesInOrder
<1>7. CASE Await /\ in_flight.state = "done" /\ ~ Refused(in_flight.jobs)
  <2>1. Commit(in_flight.jobs) /\ in_flight.jobs \in Seq(Nat)
    BY <1>7 DEF Await, Types
  <2> QED BY <1>3, <1>4, <1>6, <1>7, <2>1
<1>8. CASE Flush /\ ~ Refused(pending)
  <2>1. in_flight = NoBatch /\ Range(in_flight.jobs) = {}
    <3>1. Head(todo) = "flush"
      BY <1>8 DEF Flush, Doing
    <3> QED BY <1>2, <3>1, RangeOf DEF Batches, Settled, NoBatch
  <2>2. p = q
    BY <1>3, <1>4, <2>1, Intervals
  <2>3. Commit(pending) /\ pending \in Seq(Nat)
    BY <1>8 DEF Flush, Types
  <2> QED BY <1>2, <1>3, <1>4, <1>6, <1>8, <2>2, <2>3
<1>9. CASE UNCHANGED resultVars
  BY <1>5, <1>9 DEF pictureVars, resultVars
<1> QED BY <1>7, <1>8, <1>9 DEF Await, Flush

LEMMA IntraInOrder ==
  ASSUME SInv, Intra
  PROVE  Reference!Next \/ UNCHANGED <<size, mode, image>>
<1> USE DEF SInv
<1> DEFINE a == slice.next - 1
<1>1. /\ ~ Idle /\ a \in Addresses /\ slice.first <= a /\ slice.first \in Nat
      /\ Own = slice.first .. slice.next - 2 /\ slice.next \in Nat
  BY IntraFinds, DoingMeans DEF Intra
<1>2. CASE IntraRefused(a)
  BY <1>2 DEF Intra, SliceFails, pictureVars, resultVars
<1>3. CASE ~ IntraRefused(a)
  <2>1. /\ CompleteIntra(a, {}) /\ UNCHANGED <<pictureVars, idVars, slice>> /\ slice' = slice
    BY <1>3 DEF Intra
  <2>2. Completes({a}, {"modes", "b_motion", "motion"})
    BY <1>3, <2>1, IntraCompletes DEF Intra
  <2>3. a \notin completed /\ ~ Idle'
    BY <1>1, <1>3, <2>1 DEF IntraRefused, Idle
  <2>4. Own = slice.first .. a - 1
    <3>1. slice.next - 2 = a - 1
      BY <1>1
    <3> QED BY <1>1, <3>1
  <2>5. PICK x : x = IntraPixels(a)
    OBVIOUS
  <2>6. image' = [image EXCEPT ![a] = x] /\ x \in {IntraPixels(a), InterPixels}
    BY <2>1, <2>5 DEF CompleteIntra
  <2>7. Grows({a})
    <3>1. PICK b, lo : b = a /\ lo = slice.first
      OBVIOUS
    <3>2. /\ b \in Addresses \ completed /\ lo \in Int /\ lo <= b /\ Own = lo .. b - 1
          /\ image' = [image EXCEPT ![b] = x] /\ x \in {IntraPixels(b), InterPixels}
      BY <1>1, <2>3, <2>4, <2>6, <3>1
    <3>3. Grows({b})
      BY <1>1, <3>2, OneGrows
    <3> QED BY <3>1, <3>3
  <2> QED BY <1>1, <2>2, <2>3, <2>7, ContinuesInOrder
<1> QED BY <1>2, <1>3

LEMMA NewPictureInOrder ==
  ASSUME SInv, NEW s \in Sizes, NewPicture(s)
  PROVE  Reference!Next
<1>1. /\ size' = s /\ mode' = mode
      /\ image' = [a \in Reference!Addresses(s) |-> NoPixels]
  BY DEF NewPicture
<1>2. image' = Reference!Blank(size')
  BY <1>1 DEF Reference!Blank, NoPixels
<1> QED BY <1>1, <1>2 DEF Reference!Next, Reference!NewPicture

LEMMA NextInOrder ==
  ASSUME SInv, [SliceNext]_sliceVars
  PROVE  [Reference!Next]_<<size, mode.constrained, image>>
<1>1. CASE UNCHANGED <<size, mode, image>>
  BY <1>1
<1>2. CASE UNCHANGED sliceVars
  BY <1>1, <1>2 DEF sliceVars, pictureVars, resultVars
<1>3. ASSUME NEW s \in Sizes, NewPicture(s)
      PROVE  Reference!Next
  BY <1>3, NewPictureInOrder
<1>4. ASSUME NEW first \in Addresses, BeginISlice(first) \/ BeginPSlice(first) \/ BeginBSlice(first)
      PROVE  UNCHANGED <<size, mode, image>>
  BY <1>4 DEF BeginISlice, BeginPSlice, BeginBSlice, BeginSlice, pictureVars, resultVars
<1>5. CASE ParseRefused \/ ParseDamaged
  BY <1>1, <1>5 DEF ParseRefused, ParseDamaged, SliceFails, pictureVars, resultVars
<1>6. ASSUME NEW last \in BOOLEAN, ParsePInter(last) \/ ParseBInter(last) \/ ParseIntra(last)
      PROVE  UNCHANGED <<size, mode, image>>
  BY <1>6 DEF ParsePInter, ParseBInter, ParseInter, ParseIntra, SliceFails, pictureVars, resultVars
<1>7. ASSUME NEW last \in BOOLEAN,
             CavlcIntra(last) \/ CavlcPInter(last) \/ CavlcBInter(last)
      PROVE  Reference!Next \/ UNCHANGED <<size, mode, image>>
  BY <1>7, CavlcInOrder
<1>8. CASE Await \/ Flush
  BY <1>1, <1>8, BatchesInOrder
<1>9. CASE Intra
  BY <1>1, <1>9, IntraInOrder
<1>10. CASE FlushDamaged \/ Spawn \/ IntraDamaged \/ NotEnded \/ Return
  BY <1>1, <1>10
     DEF FlushDamaged, Spawn, IntraDamaged, NotEnded, Return, SliceFails, pictureVars, resultVars
<1>11. CASE Worker
  BY <1>1, <1>11 DEF Worker, WorkerDone, WorkerFails, pictureVars, resultVars
<1> QED BY <1>1, <1>2, <1>3, <1>4, <1>5, <1>6, <1>7, <1>8, <1>9, <1>10, <1>11
       DEF SliceNext, Parse, SliceStep

\* Batches, the worker and failed slices cannot be seen in the pixels: each
\* step is one of reconstructing the next macroblocks of the slice in order,
\* every intra macroblock from exactly the neighbours that precede it.
THEOREM InOrder == SliceSpec => ReconstructsInOrder
<1>1. SliceInit => Reference!Init
  <2> SUFFICES ASSUME SliceInit PROVE Reference!Init
    OBVIOUS
  <2>1. mode.constrained \in BOOLEAN
    BY ReconstructionAssumption DEF SliceInit, Mode
  <2>2. image = Reference!Blank(size)
    BY DEF SliceInit, Reference!Blank, NoPixels, Addresses, MacroblockCount, Reference!Addresses
  <2> QED BY <2>1, <2>2 DEF SliceInit, Reference!Init
<1>2. SInv /\ [SliceNext]_sliceVars => [Reference!Next]_<<size, mode.constrained, image>>
  BY NextInOrder
<1> QED BY <1>1, <1>2, SInvAlways, PTL DEF SliceSpec, ReconstructsInOrder, Reference!Spec
=============================================================================
