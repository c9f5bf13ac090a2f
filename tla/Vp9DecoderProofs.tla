-------------------------- MODULE Vp9DecoderProofs --------------------------
(***************************************************************************)
(* Proofs about Vp9Decoder, for any packets, sizes, slots and contexts.    *)
(* That a key frame leaves no trace of what came before is a fact about    *)
(* one frame: nothing its state after it is made from differs between the  *)
(* decoder and the encoder.  What is shown then follows from counting.     *)
(***************************************************************************)
EXTENDS Vp9Decoder, SequenceTheorems, TLAPS

----------
(* One frame *)

\* What the header of an inter frame names exists in it.
WellFormed(f) ==
  /\ f \in FrameHeader
  /\ f.type = "inter" => f.refs # << >> /\ f.size_from \in 0 .. Len(f.refs)

\* A header whose size is known; its color may be that of a slot never filled.
Known(h) ==
  /\ h \in [type : {"key", "intra", "inter", "existing"}, show : BOOLEAN,
            error_resilient : BOOLEAN, reset_frame_context : 0 .. 3, size : Sizes,
            color : Colors \cup {None}, size_from : Nat, slot : Slots,
            refresh : SUBSET Slots, refs : Seq(Slots), context_index : ContextIndices,
            refresh_frame_context : BOOLEAN, parallel : BOOLEAN, updates_deltas : BOOLEAN,
            segmentation : {"off", "kept", "temporal", "read"}, updates_data : BOOLEAN]

LEMMA HeaderKnown ==
  ASSUME NEW d \in States, NEW f, WellFormed(f), Parsable(d, f)
  PROVE  Known(Header(d, f))
<1>1. CASE f.type = "existing"
  BY <1>1 DEF Known, Header, WellFormed, FrameHeader, States, Parsable
<1>2. CASE f.type = "inter"
  <2>1. f.refs \in Seq(Slots) /\ Len(f.refs) \in Nat /\ Len(f.refs) > 0
    BY <1>2 DEF WellFormed, FrameHeader
  <2>2. f.refs[1] \in Slots /\ (f.size_from # 0 => f.refs[f.size_from] \in Slots)
    BY <1>2, <2>1 DEF WellFormed, FrameHeader
  <2>3. d.reference_colors[f.refs[1]] \in Colors \cup {None}
    BY <2>2 DEF States
  <2>4. f.size_from # 0 => d.reference_sizes[f.refs[f.size_from]] \in Sizes
    BY <1>2, <2>2 DEF States, Parsable
  <2> QED BY <1>2, <2>3, <2>4 DEF Known, Header, WellFormed, FrameHeader
<1>3. CASE f.type \in {"key", "intra"}
  BY <1>3 DEF Known, Header, WellFormed, FrameHeader
<1> QED BY <1>1, <1>2, <1>3 DEF WellFormed, FrameHeader

LEMMA MadeType ==
  ASSUME NEW n \in Nat, NEW exact \in BOOLEAN
  PROVE  Made(n, exact) \in Values /\ Default \in Values
BY DEF Made, Default, Values

LEMMA PreparedType ==
  ASSUME NEW d \in States, NEW i, NEW h, Known(h), NEW n \in Nat
  PROVE  /\ Prepared(d, i, h, n) \in States
         /\ Prepared(d, i, h, n).references = d.references
<1> DEFINE r == reset_independent_state(d, h)
           p == Parse(d, i, h, n)
<1>1. r \in States /\ r.references = d.references
  BY MadeType DEF reset_independent_state, States
<1>2. p \in States /\ p.references = d.references
  <2>1. PICK exact \in BOOLEAN : exact = (r.deltas = reset_independent_state(i, h).deltas)
    OBVIOUS
  <2>2. Made(n, exact) \in Values /\ Made(n, TRUE) \in Values
    BY MadeType
  <2>3. [s \in Slots |-> IF s \in Refreshed(h) THEN h.size ELSE r.reference_sizes[s]]
          \in [Slots -> Sizes \cup {NoSize}]
    BY <1>1 DEF Known, States
  <2>4. [s \in Slots |-> IF s \in Refreshed(h) THEN h.color ELSE r.reference_colors[s]]
          \in [Slots -> Colors \cup {None}]
    BY <1>1 DEF Known, States
  <2>5. p = [r EXCEPT
              !.deltas = IF h.updates_deltas THEN Made(n, exact) ELSE @,
              !.features = IF h.segmentation # "off" /\ h.updates_data THEN Made(n, TRUE) ELSE @,
              !.reference_sizes = [s \in Slots |-> IF s \in Refreshed(h) THEN h.size ELSE @[s]],
              !.reference_colors = [s \in Slots |-> IF s \in Refreshed(h) THEN h.color ELSE @[s]]]
    BY <2>1 DEF Parse
  <2> HIDE DEF r, p
  <2> QED BY <1>1, <2>2, <2>3, <2>4, <2>5 DEF States
<1>3. [c \in ContextIndices |-> Default] \in [ContextIndices -> Values]
  BY MadeType
<1>4. [p.probability_contexts EXCEPT ![ContextIndex(h)] = Default] \in [ContextIndices -> Values]
  <2> HIDE DEF p
  <2> QED BY <1>2, MadeType DEF States
<1> HIDE DEF r, p
<1>5. reset_probability_contexts(p, h) \in States
      /\ reset_probability_contexts(p, h).references = p.references
  BY <1>2, <1>3, <1>4 DEF reset_probability_contexts, States
<1> QED BY <1>2, <1>5 DEF Prepared, p

LEMMA SegmentsType ==
  ASSUME NEW d \in States, NEW h, Known(h), NEW n \in Nat, NEW exact \in BOOLEAN
  PROVE  SegmentIds(d, h, n, exact) \in Values
<1>1. PreviousSegments(d, h) \in Values
  BY MadeType DEF PreviousSegments, States
<1>2. Made(n, exact) \in Values /\ Default \in Values
  BY MadeType
<1> QED BY <1>1, <1>2 DEF SegmentIds, Known

LEMMA CommitType ==
  ASSUME NEW d \in States, NEW i, NEW h, Known(h), NEW n \in Nat, NEW picture \in Pictures
  PROVE  Commit(d, i, h, n, picture) \in States
<1> DEFINE adapted == Adapted(d, i, h, n, picture.exact)
           ids == SegmentIds(d, h, n, picture.exact)
           contexts == [d.probability_contexts EXCEPT ![ContextIndex(h)] =
                          IF h.refresh_frame_context /\ ~ h.error_resilient
                          THEN adapted ELSE @]
           references == [s \in Slots |-> IF s \in Refreshed(h) THEN picture ELSE d.references[s]]
           modes == IF h.type = "inter" THEN Made(n, picture.exact) ELSE Default
<1>1. picture.exact \in BOOLEAN
  BY DEF Pictures
<1>2. adapted \in Values
  <2>1. PICK exact \in BOOLEAN :
          exact = (picture.exact /\ \/ h.parallel \/ h.type # "inter"
                                    \/ d.previous_was_key = i.previous_was_key)
    BY <1>1 DEF Known
  <2> QED BY <2>1, MadeType DEF Adapted
<1>3. ids \in Values /\ modes \in Values
  BY <1>1, SegmentsType, MadeType
<1>4. contexts \in [ContextIndices -> Values]
  <2> HIDE DEF adapted
  <2> QED BY <1>2 DEF States
<1>5. references \in [Slots -> Pictures]
  BY DEF States
<1>6. h.size \in Sizes /\ h.show \in BOOLEAN
  BY DEF Known
<1>7. PICK key \in BOOLEAN : key = (h.type = "key")
  OBVIOUS
<1>9. PICK intra \in BOOLEAN : intra = (h.type = "key" \/ h.type = "intra")
  OBVIOUS
<1>10. intra = (h.type \in {"key", "intra"})
  BY <1>9
<1>8. Commit(d, i, h, n, picture) =
        [d EXCEPT !.probability_contexts = contexts, !.references = references,
                  !.previous_was_key = key, !.previous_modes = modes,
                  !.previous_segment_ids = ids, !.previous_size = h.size,
                  !.previous_was_intra_only = intra, !.previous_was_shown = h.show]
  BY <1>7, <1>10 DEF Commit, States
<1> HIDE DEF contexts, references, modes, ids
<1> QED BY <1>3, <1>4, <1>5, <1>6, <1>8 DEF States

\* What one frame leaves behind and shows.
LEMMA DecodeType ==
  ASSUME ConstantsAssumption,
         NEW d \in States, NEW i, NEW f, WellFormed(f), NEW n \in Nat, NEW fault
  PROVE  /\ Decode(d, i, f, n, fault).ok \in BOOLEAN
         /\ Decode(d, i, f, n, fault).after \in States
         /\ Decode(d, i, f, n, fault).shows \in Seq(Shown)
         /\ \A k \in DOMAIN Decode(d, i, f, n, fault).shows :
              Decode(d, i, f, n, fault).shows[k].format.size # NoSize
<1> DEFINE h == Header(d, f)
           w == Header(i, f)
           prepared == Prepared(d, i, h, n)
           meant == Prepared(i, i, w, n)
           picture == [frame |-> n, exact |-> Inputs(prepared, h) = Inputs(meant, w),
                       format |-> Format(h)]
           old == [picture |-> d.references[f.slot], format |-> Format(h)]
           new == [picture |-> picture, format |-> Format(h)]
           result == Decode(d, i, f, n, fault)
<1>1. CASE fault = "header" \/ ~ Parsable(d, f)
  BY <1>1 DEF Decode
<1>2. CASE fault # "header" /\ Parsable(d, f)
  <2>1. Known(h)
    BY <1>2, HeaderKnown
  <2>2. Format(h) \in Formats /\ Format(h).size # NoSize
    BY <2>1, ConstantsAssumption DEF Known, Format, Formats
  <2>3. prepared \in States
    BY <2>1, PreparedType
  <2>4. picture \in Pictures
    <3>1. PICK exact \in BOOLEAN : exact = (Inputs(prepared, h) = Inputs(meant, w))
      OBVIOUS
    <3>2. picture = [frame |-> n, exact |-> exact, format |-> Format(h)]
      BY <3>1
    <3> QED BY ONLY <2>2, <3>1, <3>2, n \in Nat DEF Pictures
  <2>5. Commit(prepared, meant, h, n, picture) \in States
    BY <2>1, <2>3, <2>4, CommitType
  <2>6. new \in Shown
    BY <2>2, <2>4 DEF Shown
  <2>7. old \in Shown
    BY <2>2 DEF Shown, States, WellFormed, FrameHeader
  <2>8. Decode(d, i, f, n, fault) =
          IF f.type = "existing"
          THEN IF d.references[f.slot] = NoPicture THEN [ok |-> FALSE, after |-> d, shows |-> << >>]
               ELSE [ok |-> TRUE, after |-> d, shows |-> <<old>>]
          ELSE IF fault = "body" \/ Incompatible(d, h)
          THEN [ok |-> FALSE, after |-> prepared, shows |-> << >>]
          ELSE [ok |-> TRUE, after |-> Commit(prepared, meant, h, n, picture),
                shows |-> IF f.show THEN <<new>> ELSE << >>]
    BY <1>2 DEF Decode
  <2>9. old.format.size # NoSize /\ new.format.size # NoSize
    BY <2>2
  <2> HIDE DEF old, new, prepared, meant, picture, h
  <2>10. <<old>> \in Seq(Shown) /\ <<new>> \in Seq(Shown) /\ << >> \in Seq(Shown)
    BY <2>6, <2>7
  <2>11. /\ \A k \in DOMAIN <<old>> : <<old>>[k].format.size # NoSize
         /\ \A k \in DOMAIN <<new>> : <<new>>[k].format.size # NoSize
    BY <2>9
  <2>12. CASE f.type = "existing"
    BY <2>8, <2>10, <2>11, <2>12
  <2>13. CASE f.type # "existing" /\ (fault = "body" \/ Incompatible(d, h))
    BY <2>3, <2>8, <2>13
  <2>14. CASE f.type # "existing" /\ ~ (fault = "body" \/ Incompatible(d, h)) /\ f.show
    BY <2>5, <2>8, <2>10, <2>11, <2>14
  <2>15. CASE f.type # "existing" /\ ~ (fault = "body" \/ Incompatible(d, h)) /\ ~ f.show
    BY <2>5, <2>8, <2>10, <2>15
  <2> QED BY <2>12, <2>13, <2>14, <2>15
<1> QED BY <1>1, <1>2

\* A decoder in the encoder's state that decodes a frame makes of it what the
\* encoder did.
LEMMA SameFromSame ==
  ASSUME NEW i, NEW f, NEW n, NEW fault, Decode(i, i, f, n, fault).ok
  PROVE  Decode(i, i, f, n, fault) = Decode(i, i, f, n, None)
<1>1. fault # "header" /\ Parsable(i, f)
  BY DEF Decode
<1>2. f.type = "existing" \/ fault # "body"
  BY <1>1 DEF Decode
<1> QED BY <1>1, <1>2 DEF Decode, None

\* From any two states, a key frame that keeps no segment map leaves the same.
LEMMA KeyForgets ==
  ASSUME NEW d \in States, NEW i \in States, NEW f, WellFormed(f), NEW n \in Nat, NEW fault,
         f.type = "key", f.segmentation # "kept", Decode(d, i, f, n, fault).ok
  PROVE  /\ Decode(d, i, f, n, fault).after = Decode(i, i, f, n, None).after
         /\ Decode(d, i, f, n, fault).shows = Decode(i, i, f, n, None).shows
<1> DEFINE p == Prepared(d, i, f, n)
           q == Prepared(i, i, f, n)
           picture == [frame |-> n, exact |-> Inputs(p, f) = Inputs(q, f), format |-> Format(f)]
           same == [frame |-> n, exact |-> TRUE, format |-> Format(f)]
<1>1. Header(d, f) = f /\ Header(i, f) = f /\ Parsable(d, f) /\ Parsable(i, f)
  BY DEF Header, Parsable
<1>2. ~ Incompatible(i, f)
  BY DEF Incompatible, References
<1>3. fault # "header" /\ fault # "body" /\ ~ Incompatible(d, f)
  BY <1>1 DEF Decode
<1>4. Known(f)
  BY DEF Known, WellFormed, FrameHeader
<1>5. /\ p.reference_sizes = q.reference_sizes /\ p.reference_colors = q.reference_colors
      /\ p.deltas = q.deltas /\ p.features = q.features
      /\ p.probability_contexts = q.probability_contexts
  <2>1. Independent(f)
    BY DEF Independent
  <2> DEFINE r == reset_independent_state(d, f)
             t == reset_independent_state(i, f)
  <2>2. r.deltas = Default /\ r.features = Default /\ t.deltas = Default /\ t.features = Default
    BY <2>1 DEF reset_independent_state, States
  <2>3. r \in States /\ t \in States
    BY <2>1, MadeType DEF reset_independent_state, States
  <2> DEFINE x == Parse(d, i, f, n)
             y == Parse(i, i, f, n)
  <2>4. /\ x.deltas = IF f.updates_deltas THEN Made(n, r.deltas = t.deltas) ELSE r.deltas
        /\ x.features = IF f.segmentation # "off" /\ f.updates_data THEN Made(n, TRUE) ELSE r.features
        /\ x.reference_sizes =
             [s \in Slots |-> IF s \in Refreshed(f) THEN f.size ELSE r.reference_sizes[s]]
        /\ x.reference_colors =
             [s \in Slots |-> IF s \in Refreshed(f) THEN f.color ELSE r.reference_colors[s]]
    <3> HIDE DEF r, t
    <3> QED BY <2>3 DEF Parse, States, r, t
  <2>5. /\ y.deltas = IF f.updates_deltas THEN Made(n, t.deltas = t.deltas) ELSE t.deltas
        /\ y.features = IF f.segmentation # "off" /\ f.updates_data THEN Made(n, TRUE) ELSE t.features
        /\ y.reference_sizes =
             [s \in Slots |-> IF s \in Refreshed(f) THEN f.size ELSE t.reference_sizes[s]]
        /\ y.reference_colors =
             [s \in Slots |-> IF s \in Refreshed(f) THEN f.color ELSE t.reference_colors[s]]
    BY <2>3 DEF Parse, States
  <2>6. Refreshed(f) = Slots
    BY DEF Refreshed
  <2>7. /\ x.reference_sizes = y.reference_sizes /\ x.reference_colors = y.reference_colors
        /\ x.deltas = y.deltas /\ x.features = y.features
    <3> HIDE DEF x, y, r, t
    <3> QED BY <2>2, <2>4, <2>5, <2>6
  <2>8. /\ p = [x EXCEPT !.probability_contexts = [c \in ContextIndices |-> Default]]
        /\ q = [y EXCEPT !.probability_contexts = [c \in ContextIndices |-> Default]]
    BY <2>1 DEF Prepared, reset_probability_contexts
  <2>10. "probability_contexts" \in DOMAIN x /\ "probability_contexts" \in DOMAIN y
    BY <2>3 DEF Parse, States
  <2> HIDE DEF x, y
  <2> QED BY <2>7, <2>8, <2>10
<1>6. p \in States /\ q \in States
  BY <1>4, PreparedType
<1> HIDE DEF p, q
<1>7. Inputs(p, f) = Inputs(q, f)
  BY <1>5 DEF Inputs, References, UsesPreviousModes
<1>8. picture = same
  BY <1>7
<1>9. Commit(p, q, f, n, same) = Commit(q, q, f, n, same)
  <2>1. Adapted(p, q, f, n, TRUE) = Made(n, TRUE) /\ Adapted(q, q, f, n, TRUE) = Made(n, TRUE)
    BY DEF Adapted
  <2>2. SegmentIds(p, f, n, TRUE) = SegmentIds(q, f, n, TRUE)
    BY DEF SegmentIds
  <2>3. Refreshed(f) = Slots
    BY DEF Refreshed
  <2>4. ContextIndex(f) = 0
    BY DEF ContextIndex, Independent
  <2> DEFINE contexts(x) == [x.probability_contexts EXCEPT ![0] =
                               IF f.refresh_frame_context /\ ~ f.error_resilient
                               THEN Made(n, TRUE) ELSE @]
             kept(x) == SegmentIds(x, f, n, TRUE)
  <2>5. /\ contexts(p) = contexts(q) /\ kept(p) = kept(q)
    BY <1>5, <2>2
  <2>6. PICK key, intra : key = (f.type = "key") /\ intra = (f.type \in {"key", "intra"})
    OBVIOUS
  <2>7. ASSUME NEW x \in States, Adapted(x, q, f, n, TRUE) = Made(n, TRUE)
        PROVE  Commit(x, q, f, n, same) =
                 [reference_sizes |-> x.reference_sizes, reference_colors |-> x.reference_colors,
                  deltas |-> x.deltas, features |-> x.features,
                  probability_contexts |-> contexts(x),
                  references |-> [s \in Slots |-> same],
                  previous_was_key |-> key, previous_modes |-> Default,
                  previous_segment_ids |-> kept(x), previous_size |-> f.size,
                  previous_was_intra_only |-> intra, previous_was_shown |-> f.show]
    <3>1. same.exact = TRUE
      OBVIOUS
    <3>2. [s \in Slots |-> IF s \in Refreshed(f) THEN same ELSE x.references[s]] = [s \in Slots |-> same]
      BY <2>3
    <3>3. Commit(x, q, f, n, same) =
            [x EXCEPT !.probability_contexts = contexts(x), !.references = [s \in Slots |-> same],
                      !.previous_was_key = key, !.previous_modes = Default,
                      !.previous_segment_ids = kept(x), !.previous_size = f.size,
                      !.previous_was_intra_only = intra, !.previous_was_shown = f.show]
      BY <2>4, <2>6, <2>7, <3>1, <3>2 DEF Commit, States
    <3> HIDE DEF contexts, kept, same
    <3> QED BY <3>3 DEF States
  <2> HIDE DEF contexts, kept, same
  <2> QED BY <1>5, <1>6, <2>1, <2>5, <2>7
<1>10. Decode(d, i, f, n, fault) =
         [ok |-> TRUE, after |-> Commit(p, q, f, n, picture),
          shows |-> IF f.show THEN <<[picture |-> picture, format |-> Format(f)]>> ELSE << >>]
  BY <1>1, <1>3 DEF Decode, p, q
<1>11. Decode(i, i, f, n, None) =
         [ok |-> TRUE, after |-> Commit(q, q, f, n, same),
          shows |-> IF f.show THEN <<[picture |-> same, format |-> Format(f)]>> ELSE << >>]
  BY <1>1, <1>2 DEF Decode, q, None
<1> QED BY <1>8, <1>9, <1>10, <1>11

----------
(* What has been delivered, as a sequence *)

FrameAt(D, k) == D[k].kind = "frame"

Numbered(D, next) ==
  /\ \A j, k \in DOMAIN D : j < k /\ FrameAt(D, j) /\ FrameAt(D, k) => D[j].id < D[k].id
  /\ {D[k].id : k \in {k \in DOMAIN D : FrameAt(D, k)}} = 0 .. next - 1

\* The last announcement among the first n outputs is of this format.
LastAnnounced(D, n, format) ==
  \E j \in 1 .. n :
    /\ ~ FrameAt(D, j) /\ D[j].format = format
    /\ \A m \in j + 1 .. n : FrameAt(D, m)

AllAnnounced(D) == \A k \in DOMAIN D : FrameAt(D, k) => LastAnnounced(D, k - 1, D[k].format)

Pays(D, next, shows, dues) ==
  LET before == next + Len(shows) - Len(dues)
  IN  /\ before >= 0
      /\ \A k \in DOMAIN D : FrameAt(D, k) /\ D[k].id >= before =>
           LET o == dues[D[k].id - before + 1]
           IN  D[k].picture = o.picture /\ D[k].format = o.format
      /\ \A k \in DOMAIN shows : next + k - 1 >= before => shows[k] = dues[next + k - before]

LEMMA OutputKinds ==
  ASSUME NEW x \in Outputs
  PROVE  \/ x.kind = "format" /\ x \in [kind : {"format"}, format : Formats]
         \/ /\ x.kind = "frame" /\ x.id \in Nat
            /\ x \in [kind : {"frame"}, id : Nat, format : Formats, picture : Pictures]
BY DEF Outputs

LEMMA FrameNumbered ==
  ASSUME NEW D \in Seq(Outputs), NEW x \in Outputs, NEW next \in Nat,
         x.kind = "frame", x.id = next, Numbered(D, next)
  PROVE  Numbered(Append(D, x), next + 1)
<1> DEFINE E == Append(D, x)
<1>1. /\ Len(D) \in Nat /\ Len(E) = Len(D) + 1 /\ E[Len(D) + 1] = x
      /\ DOMAIN D = 1 .. Len(D) /\ DOMAIN E = 1 .. Len(D) + 1
      /\ \A k \in DOMAIN D : E[k] = D[k]
  OBVIOUS
<1> HIDE DEF E
<1>2. \A k \in DOMAIN D : FrameAt(D, k) => D[k].id \in 0 .. next - 1
  BY DEF Numbered
<1>3. \A j, k \in DOMAIN E : j < k /\ FrameAt(E, j) /\ FrameAt(E, k) => E[j].id < E[k].id
  <2> SUFFICES ASSUME NEW j \in DOMAIN E, NEW k \in DOMAIN E, j < k, FrameAt(E, j), FrameAt(E, k)
               PROVE  E[j].id < E[k].id
    OBVIOUS
  <2>1. j \in DOMAIN D /\ E[j] = D[j] /\ FrameAt(D, j)
    BY <1>1 DEF FrameAt
  <2>2. CASE k \in DOMAIN D
    BY <1>1, <2>1, <2>2 DEF Numbered, FrameAt
  <2>3. CASE k = Len(D) + 1
    BY <1>1, <1>2, <2>1, <2>3
  <2> QED BY <1>1, <2>2, <2>3
<1>4. \A i : i \in {E[k].id : k \in {k \in DOMAIN E : FrameAt(E, k)}} <=> i \in 0 .. next
  <2>1. \A i : i \in {D[k].id : k \in {k \in DOMAIN D : FrameAt(D, k)}} <=> i \in 0 .. next - 1
    BY DEF Numbered
  <2>2. ASSUME NEW k \in DOMAIN E, FrameAt(E, k)
        PROVE  E[k].id \in 0 .. next
    <3>1. CASE k \in DOMAIN D
      BY <1>1, <1>2, <2>2, <3>1 DEF FrameAt
    <3>2. CASE k = Len(D) + 1
      BY <1>1, <3>2
    <3> QED BY <1>1, <3>1, <3>2
  <2>3. ASSUME NEW i \in 0 .. next - 1
        PROVE  \E k \in DOMAIN E : FrameAt(E, k) /\ E[k].id = i
    <3>1. PICK k \in DOMAIN D : FrameAt(D, k) /\ D[k].id = i
      BY <2>1
    <3> QED BY <1>1, <3>1 DEF FrameAt
  <2>4. Len(D) + 1 \in DOMAIN E /\ FrameAt(E, Len(D) + 1) /\ E[Len(D) + 1].id = next
    BY <1>1 DEF FrameAt
  <2>5. \A i : i \in 0 .. next => i \in 0 .. next - 1 \/ i = next
    OBVIOUS
  <2> QED BY <2>2, <2>3, <2>4, <2>5
<1>5. {E[k].id : k \in {k \in DOMAIN E : FrameAt(E, k)}} = 0 .. (next + 1) - 1
  BY <1>4
<1> QED BY <1>3, <1>5 DEF Numbered, E

LEMMA FormatNumbered ==
  ASSUME NEW D \in Seq(Outputs), NEW x \in Outputs, NEW next \in Nat,
         x.kind = "format", Numbered(D, next)
  PROVE  Numbered(Append(D, x), next)
<1> DEFINE E == Append(D, x)
<1>1. /\ Len(D) \in Nat /\ Len(E) = Len(D) + 1 /\ E[Len(D) + 1] = x
      /\ DOMAIN D = 1 .. Len(D) /\ DOMAIN E = 1 .. Len(D) + 1
      /\ \A k \in DOMAIN D : E[k] = D[k]
  OBVIOUS
<1> HIDE DEF E
<1>2. \A k \in DOMAIN E : FrameAt(E, k) => k \in DOMAIN D /\ FrameAt(D, k) /\ E[k] = D[k]
  BY <1>1 DEF FrameAt
<1>3. \A k \in DOMAIN D : k \in DOMAIN E /\ (FrameAt(D, k) => FrameAt(E, k))
  BY <1>1 DEF FrameAt
<1>4. \A j, k \in DOMAIN E : j < k /\ FrameAt(E, j) /\ FrameAt(E, k) => E[j].id < E[k].id
  BY <1>2 DEF Numbered
<1>5. {E[k].id : k \in {k \in DOMAIN E : FrameAt(E, k)}}
        = {D[k].id : k \in {k \in DOMAIN D : FrameAt(D, k)}}
  BY <1>2, <1>3
<1> QED BY <1>4, <1>5 DEF Numbered, E

LEMMA AppendedAnnounced ==
  ASSUME NEW D \in Seq(Outputs), NEW x \in Outputs, AllAnnounced(D),
         x.kind = "frame" => LastAnnounced(D, Len(D), x.format)
  PROVE  /\ AllAnnounced(Append(D, x))
         /\ LastAnnounced(Append(D, x), Len(D) + 1, x.format)
<1> DEFINE E == Append(D, x)
<1>1. /\ Len(D) \in Nat /\ Len(E) = Len(D) + 1 /\ E[Len(D) + 1] = x
      /\ DOMAIN D = 1 .. Len(D) /\ DOMAIN E = 1 .. Len(D) + 1
      /\ \A k \in 1 .. Len(D) : E[k] = D[k]
  OBVIOUS
<1> HIDE DEF E
<1>2. ASSUME NEW n \in 0 .. Len(D), NEW format, LastAnnounced(D, n, format)
      PROVE  LastAnnounced(E, n, format)
  <2>1. PICK j \in 1 .. n : /\ ~ FrameAt(D, j) /\ D[j].format = format
                            /\ \A m \in j + 1 .. n : FrameAt(D, m)
    BY <1>2 DEF LastAnnounced
  <2>2. ~ FrameAt(E, j) /\ E[j].format = format
    BY <1>1, <2>1 DEF FrameAt
  <2>3. \A m \in j + 1 .. n : FrameAt(E, m)
    BY <1>1, <2>1 DEF FrameAt
  <2> QED BY <2>2, <2>3 DEF LastAnnounced
<1>3. AllAnnounced(E)
  <2> SUFFICES ASSUME NEW k \in DOMAIN E, FrameAt(E, k)
               PROVE  LastAnnounced(E, k - 1, E[k].format)
    BY DEF AllAnnounced
  <2>1. CASE k \in DOMAIN D
    <3>1. FrameAt(D, k) /\ E[k] = D[k] /\ k - 1 \in 0 .. Len(D)
      BY <1>1, <2>1 DEF FrameAt
    <3> QED BY <1>2, <2>1, <3>1 DEF AllAnnounced
  <2>2. CASE k = Len(D) + 1
    <3>1. x.kind = "frame" /\ k - 1 = Len(D) /\ E[k].format = x.format
      BY <1>1, <2>2 DEF FrameAt
    <3> QED BY <1>1, <1>2, <3>1
  <2> QED BY <1>1, <2>1, <2>2
<1>4. LastAnnounced(E, Len(D) + 1, x.format)
  <2>1. CASE x.kind = "format"
    <3>1. ~ FrameAt(E, Len(D) + 1) /\ E[Len(D) + 1].format = x.format
      BY <1>1, <2>1 DEF FrameAt
    <3> QED BY <1>1, <3>1 DEF LastAnnounced
  <2>2. CASE x.kind = "frame"
    <3>1. PICK j \in 1 .. Len(D) : /\ ~ FrameAt(E, j) /\ E[j].format = x.format
                                  /\ \A m \in j + 1 .. Len(D) : FrameAt(E, m)
      <4>1. Len(D) \in 0 .. Len(D)
        BY <1>1
      <4>2. LastAnnounced(E, Len(D), x.format)
        BY <1>2, <2>2, <4>1
      <4> QED BY <4>2 DEF LastAnnounced
    <3>2. FrameAt(E, Len(D) + 1)
      BY <1>1, <2>2 DEF FrameAt
    <3>3. \A m \in j + 1 .. Len(D) + 1 : m \in j + 1 .. Len(D) \/ m = Len(D) + 1
      BY <1>1
    <3> QED BY <1>1, <3>1, <3>2, <3>3 DEF LastAnnounced
  <2> QED BY <2>1, <2>2, OutputKinds
<1> QED BY <1>3, <1>4 DEF E

LEMMA NothingOwed ==
  ASSUME NEW D \in Seq(Outputs), NEW next \in Nat, Numbered(D, next), NEW shows \in Seq(Shown)
  PROVE  Pays(D, next, shows, << >>)
<1>1. Len(shows) \in Nat /\ DOMAIN shows = 1 .. Len(shows) /\ Len(<< >>) = 0
  OBVIOUS
<1>2. \A k \in DOMAIN D : FrameAt(D, k) => D[k].id \in 0 .. next - 1
  BY DEF Numbered
<1> QED BY <1>1, <1>2 DEF Pays

LEMMA FormatPays ==
  ASSUME NEW D \in Seq(Outputs), NEW x \in Outputs, NEW next, NEW shows, NEW dues,
         x.kind = "format", Pays(D, next, shows, dues)
  PROVE  Pays(Append(D, x), next, shows, dues)
<1> DEFINE E == Append(D, x)
<1>1. /\ Len(D) \in Nat /\ E[Len(D) + 1] = x
      /\ DOMAIN D = 1 .. Len(D) /\ DOMAIN E = 1 .. Len(D) + 1
      /\ \A k \in DOMAIN D : E[k] = D[k]
  OBVIOUS
<1> HIDE DEF E
<1>2. \A k \in DOMAIN E : FrameAt(E, k) => k \in DOMAIN D /\ FrameAt(D, k) /\ E[k] = D[k]
  BY <1>1 DEF FrameAt
<1>3. Pays(E, next, shows, dues)
  BY <1>2 DEF Pays
<1> QED BY <1>3 DEF E

LEMMA FramePays ==
  ASSUME NEW D \in Seq(Outputs), NEW x \in Outputs, NEW next \in Nat,
         NEW shows \in Seq(Shown), NEW dues \in Seq(Shown), shows # << >>,
         x.kind = "frame", x.id = next,
         x.picture = Head(shows).picture, x.format = Head(shows).format,
         Pays(D, next, shows, dues)
  PROVE  Pays(Append(D, x), next + 1, Tail(shows), dues)
<1> DEFINE E == Append(D, x)
           rest == Tail(shows)
           before == next + Len(shows) - Len(dues)
<1>1. /\ Len(D) \in Nat /\ E[Len(D) + 1] = x
      /\ DOMAIN D = 1 .. Len(D) /\ DOMAIN E = 1 .. Len(D) + 1
      /\ \A k \in DOMAIN D : E[k] = D[k]
  OBVIOUS
<1>2. /\ Len(shows) \in Nat /\ Len(shows) > 0 /\ Len(dues) \in Nat
      /\ rest \in Seq(Shown) /\ Len(rest) = Len(shows) - 1
      /\ DOMAIN rest = 1 .. Len(shows) - 1 /\ DOMAIN shows = 1 .. Len(shows)
      /\ Head(shows) = shows[1]
      /\ \A k \in DOMAIN rest : rest[k] = shows[k + 1]
  OBVIOUS
<1> HIDE DEF E, rest
<1>3. /\ before >= 0 /\ before \in Int
      /\ (next + 1) + Len(rest) - Len(dues) = before
  <2>1. before >= 0
    BY DEF Pays
  <2> QED BY <1>2, <2>1
<1>4. /\ \A k \in DOMAIN D : FrameAt(D, k) /\ D[k].id >= before =>
           LET o == dues[D[k].id - before + 1]
           IN  D[k].picture = o.picture /\ D[k].format = o.format
      /\ \A k \in DOMAIN shows : next + k - 1 >= before => shows[k] = dues[next + k - before]
  BY DEF Pays
<1> HIDE DEF before
<1>5. ASSUME NEW k \in DOMAIN E, FrameAt(E, k), E[k].id >= before
      PROVE  LET o == dues[E[k].id - before + 1]
             IN  E[k].picture = o.picture /\ E[k].format = o.format
  <2>1. CASE k \in DOMAIN D
    BY <1>1, <1>4, <1>5, <2>1 DEF FrameAt
  <2>2. CASE k = Len(D) + 1
    <3>1. next >= before /\ next + 1 - 1 >= before
      BY <1>1, <1>3, <1>5, <2>2
    <3>2. 1 \in DOMAIN shows
      BY <1>2
    <3>3. shows[1] = dues[next + 1 - before]
      BY <1>4, <3>1, <3>2
    <3>4. next + 1 - before = next - before + 1
      BY <1>3
    <3> QED BY <1>1, <1>2, <2>2, <3>3, <3>4
  <2> QED BY <1>1, <2>1, <2>2
<1>6. ASSUME NEW k \in DOMAIN rest, (next + 1) + k - 1 >= before
      PROVE  rest[k] = dues[(next + 1) + k - before]
  <2>1. k + 1 \in DOMAIN shows /\ next + (k + 1) - 1 >= before
    BY <1>2, <1>3, <1>6
  <2>2. shows[k + 1] = dues[next + (k + 1) - before]
    BY <1>4, <2>1
  <2>3. next + (k + 1) - before = (next + 1) + k - before
    BY <1>2, <1>3
  <2> QED BY <1>2, <2>2, <2>3
<1>7. Pays(E, next + 1, rest, dues)
  BY <1>3, <1>5, <1>6 DEF Pays
<1> QED BY <1>7 DEF E, rest

LEMMA PlaceInDues ==
  ASSUME NEW a \in Int, NEW b \in Nat, NEW l \in Nat, NEW s \in Nat, b - a = l - s
  PROVE  /\ \A i \in 0 .. b - 1 : i >= a => i - a + 1 \in 1 .. l
         /\ \A m \in Nat : b + (s + m) - a = l + m
OBVIOUS

LEMMA MoreOwed ==
  ASSUME NEW D \in Seq(Outputs), NEW next \in Nat, Numbered(D, next),
         NEW shows \in Seq(Shown), NEW dues \in Seq(Shown), NEW more \in Seq(Shown),
         Pays(D, next, shows, dues)
  PROVE  Pays(D, next, shows \o more, dues \o more)
<1> DEFINE s == shows \o more
           o == dues \o more
           before == next + Len(shows) - Len(dues)
<1>1. /\ Len(shows) \in Nat /\ Len(dues) \in Nat /\ Len(more) \in Nat
      /\ DOMAIN s = 1 .. Len(shows) + Len(more) /\ Len(s) = Len(shows) + Len(more)
      /\ Len(o) = Len(dues) + Len(more) /\ DOMAIN shows = 1 .. Len(shows)
      /\ \A k \in 1 .. Len(shows) : s[k] = shows[k]
      /\ \A k \in 1 .. Len(dues) : o[k] = dues[k]
      /\ \A k \in 1 .. Len(more) : s[Len(shows) + k] = more[k] /\ o[Len(dues) + k] = more[k]
  OBVIOUS
<1> HIDE DEF s, o
<1>2. before >= 0
  BY DEF Pays
<1>3. before \in Int /\ next + Len(s) - Len(o) = before
  BY <1>1
<1>4. /\ \A k \in DOMAIN D : FrameAt(D, k) /\ D[k].id >= before =>
           LET x == dues[D[k].id - before + 1]
           IN  D[k].picture = x.picture /\ D[k].format = x.format
      /\ \A k \in DOMAIN shows : next + k - 1 >= before => shows[k] = dues[next + k - before]
  BY DEF Pays
<1>5. next - before = Len(dues) - Len(shows) /\ before + Len(dues) = next + Len(shows)
  BY <1>1
<1> HIDE DEF before
<1>6. ASSUME NEW k \in DOMAIN D, FrameAt(D, k), D[k].id >= before
      PROVE  LET x == o[D[k].id - before + 1]
             IN  D[k].picture = x.picture /\ D[k].format = x.format
  <2>1. D[k].id \in 0 .. next - 1
    BY <1>6 DEF Numbered
  <2>2. D[k].id - before + 1 \in 1 .. Len(dues)
    BY <1>1, <1>3, <1>5, <1>6, <2>1, PlaceInDues
  <2> QED BY <1>1, <1>4, <1>6, <2>2
<1>7. ASSUME NEW k \in DOMAIN s, next + k - 1 >= before
      PROVE  s[k] = o[next + k - before]
  <2>1. CASE k \in 1 .. Len(shows)
    <3>1. next + k - before \in 1 .. Len(dues)
      BY <1>1, <1>3, <1>5, <1>7, <2>1
    <3>2. shows[k] = dues[next + k - before]
      BY <1>1, <1>4, <1>7, <2>1
    <3> QED BY <1>1, <2>1, <3>1, <3>2
  <2>2. CASE k \notin 1 .. Len(shows)
    <3>1. PICK m \in 1 .. Len(more) : k = Len(shows) + m
      <4>1. k - Len(shows) \in 1 .. Len(more) /\ k = Len(shows) + (k - Len(shows))
        BY <1>1, <2>2
      <4> QED BY <4>1
    <3>2. next + k - before = Len(dues) + m
      <4>1. PICK a \in Int, l \in Nat, p \in Nat : a = before /\ l = Len(dues) /\ p = Len(shows)
        BY <1>1, <1>3
      <4>2. next - a = l - p /\ k = p + m /\ m \in Nat
        BY <1>1, <1>5, <3>1, <4>1
      <4>3. next + k - a = l + m
        BY ONLY <4>2, next \in Nat, a \in Int, l \in Nat, p \in Nat
      <4> QED BY <4>1, <4>3
    <3> QED BY <1>1, <3>1, <3>2
  <2> QED BY <2>1, <2>2
<1>8. Pays(D, next, s, o)
  BY <1>2, <1>3, <1>6, <1>7 DEF Pays
<1> QED BY <1>8 DEF s, o

----------
(* The inductive invariant *)

\* The frames to decode can be read, those to queue have a size.
Waiting ==
  /\ \A k \in DOMAIN todo : WellFormed(todo[k])
  /\ \A k \in DOMAIN shown : shown[k].format.size # NoSize

\* In sync the decoder is where the encoder is, and sees what it writes;
\* out of sync nothing is owed.
InSync ==
  /\ KeyFrameResynchronizes
  /\ ~ synced => owed = << >>
  /\ lost => ~ synced

\* The current format is the one announced last.
CurrentAnnounced ==
  current_format.size # NoSize => LastAnnounced(Delivered, Len(Delivered), current_format)

ShownInOrder ==
  /\ Numbered(Delivered, next_frame_id)
  /\ AllAnnounced(Delivered)
  /\ CurrentAnnounced
  /\ Pays(Delivered, next_frame_id, shown, owed)

Inv == TypeOK /\ Waiting /\ InSync /\ ShownInOrder

LEMMA ShownForms ==
  Numbered(Delivered, next_frame_id) /\ AllAnnounced(Delivered)
    /\ Pays(Delivered, next_frame_id, shown, owed) => ShownAsIntended
BY DEF ShownAsIntended, NumberedInOrder, Announced, OwedAreLast, Numbered, AllAnnounced,
       LastAnnounced, Pays, FrameAt, IsFrame

LEMMA Nothing ==
  /\ << >> \in Seq(Outputs) /\ << >> \in Seq(Shown) /\ << >> \in Seq(FrameHeader)
  /\ DOMAIN << >> = {}
OBVIOUS

LEMMA FreshType ==
  Fresh \in States
BY MadeType DEF Fresh, States, NoPicture, NoFormat, Pictures, Formats, Default, Made, Values

\* Nothing has been delivered, nothing waits.
LEMMA Beginning ==
  ASSUME Delivered = << >>, next_frame_id = 0, current_format = NoFormat, shown = << >>,
         owed = << >>
  PROVE  ShownInOrder
<1>1. DOMAIN << >> = {} /\ Len(<< >>) = 0
  OBVIOUS
<1>2. Numbered(<< >>, 0)
  <2>1. 0 .. 0 - 1 = {}
    OBVIOUS
  <2> QED BY <2>1 DEF Numbered
<1>3. AllAnnounced(<< >>) /\ Pays(<< >>, 0, << >>, << >>)
  BY DEF AllAnnounced, Pays
<1> QED BY <1>2, <1>3 DEF ShownInOrder, CurrentAnnounced, NoFormat

LEMMA InitInv ==
  ASSUME ConstantsAssumption, Init
  PROVE  Inv
<1>1. TypeOK
  <2>1. NoFormat \in Formats
    BY DEF NoFormat, Formats
  <2>2. 0 \in 0 .. MaxPackets /\ 0 \in 0 .. MaxResets /\ 0 \in Nat
    BY ConstantsAssumption DEF ConstantsAssumption
  <2> QED BY FreshType, Nothing, <2>1, <2>2 DEF Init, TypeOK
<1>2. Waiting /\ InSync
  BY Nothing DEF Init, Waiting, InSync, KeyFrameResynchronizes
<1>3. Delivered = << >>
  BY DEF Init, Delivered
<1> QED BY <1>1, <1>2, <1>3, Beginning DEF Init, Inv

LEMMA Reset ==
  ASSUME ConstantsAssumption, Inv, reset_decode_state, shown' = << >>
  PROVE  /\ decoder' \in States /\ resets' \in 0 .. MaxResets /\ draining' = FALSE
         /\ outputs' = << >> /\ received' = << >> /\ next_frame_id' = 0
         /\ current_format' \in Formats /\ synced' = FALSE /\ owed' = << >>
         /\ ShownInOrder'
<1>1. Delivered' = << >>
  BY DEF reset_decode_state, Delivered
<1>2. ShownInOrder'
  <2>1. next_frame_id' = 0 /\ current_format' = NoFormat /\ shown' = << >> /\ owed' = << >>
    BY DEF reset_decode_state
  <2>2. DOMAIN << >> = {} /\ Len(<< >>) = 0 /\ 0 .. 0 - 1 = {}
    OBVIOUS
  <2> QED BY <1>1, <2>1, <2>2
          DEF ShownInOrder, CurrentAnnounced, NoFormat, Numbered, AllAnnounced, Pays
<1>3. resets \in 0 .. MaxResets /\ resets < MaxResets /\ MaxResets \in Nat
  BY ConstantsAssumption DEF Inv, TypeOK, reset_decode_state
<1> QED BY <1>2, <1>3, FreshType DEF reset_decode_state, NoFormat, Formats

LEMMA ConfigureStep ==
  ASSUME ConstantsAssumption, Inv, configure
  PROVE  Inv'
<1>1. shown' = << >> /\ todo' = << >>
  BY DEF configure, Idle
<1>2. reset_decode_state
  BY DEF configure
<1>5. /\ decoder' \in States /\ resets' \in 0 .. MaxResets /\ draining' = FALSE
      /\ outputs' = << >> /\ received' = << >> /\ next_frame_id' = 0
      /\ current_format' \in Formats /\ synced' = FALSE /\ owed' = << >>
      /\ ShownInOrder'
  BY <1>1, <1>2, Reset
<1>3. TypeOK'
  BY <1>1, <1>5, Nothing DEF Inv, TypeOK, configure
<1>4. Waiting' /\ InSync'
  BY <1>1, <1>5, Nothing DEF Waiting, InSync, KeyFrameResynchronizes
<1> QED BY <1>1, <1>2, <1>3, <1>4, Reset DEF Inv

LEMMA FlushStep ==
  ASSUME ConstantsAssumption, Inv, flush
  PROVE  Inv'
<1>1. shown' = << >> /\ todo' = << >>
  BY DEF flush, Idle
<1>2. reset_decode_state
  BY DEF flush
<1>5. /\ decoder' \in States /\ resets' \in 0 .. MaxResets /\ draining' = FALSE
      /\ outputs' = << >> /\ received' = << >> /\ next_frame_id' = 0
      /\ current_format' \in Formats /\ synced' = FALSE /\ owed' = << >>
      /\ ShownInOrder'
  BY <1>1, <1>2, Reset
<1>3. TypeOK'
  BY <1>1, <1>5, Nothing DEF Inv, TypeOK, flush
<1>4. Waiting' /\ InSync'
  BY <1>1, <1>5, Nothing DEF Waiting, InSync, KeyFrameResynchronizes
<1> QED BY <1>1, <1>2, <1>3, <1>4, Reset DEF Inv

\* Nothing that ShownInOrder is about changes.
LEMMA ShownKept ==
  ASSUME ShownInOrder, UNCHANGED <<outputs, received, next_frame_id, current_format, shown, owed>>
  PROVE  ShownInOrder'
<1>1. Delivered' = Delivered
  BY DEF Delivered
<1> QED BY <1>1 DEF ShownInOrder, CurrentAnnounced

LEMMA DrainStep ==
  ASSUME ConstantsAssumption, Inv, drain
  PROVE  Inv'
<1>1. TypeOK' /\ Waiting' /\ InSync'
  BY DEF Inv, TypeOK, Waiting, InSync, KeyFrameResynchronizes, drain, codingVars, outputVars
<1>2. ShownInOrder'
  BY ShownKept DEF Inv, drain, outputVars
<1> QED BY <1>1, <1>2 DEF Inv

LEMMA PacketTyped ==
  ASSUME ConstantsAssumption, NEW packet \in Packets
  PROVE  packet \in Seq(FrameHeader) /\ \A k \in DOMAIN packet : WellFormed(packet[k])
<1>1. packet \in Seq(FrameHeader)
  BY ConstantsAssumption DEF ConstantsAssumption
<1>2. \A k \in DOMAIN packet : packet[k] \in FrameHeader
  BY <1>1
<1> QED BY <1>1, <1>2, ConstantsAssumption DEF ConstantsAssumption, WellFormed

LEMMA SendStep ==
  ASSUME ConstantsAssumption, Inv, NEW packet \in Packets, NEW discontinuity \in BOOLEAN,
         send_packet(packet, discontinuity)
  PROVE  Inv'
<1>1. shown' = << >> /\ todo' = packet /\ lost' = FALSE
  BY DEF send_packet, Idle
<1>2. packets' \in 0 .. MaxPackets
  BY ConstantsAssumption DEF ConstantsAssumption, send_packet, Inv, TypeOK
<1>3. Waiting'
  BY <1>1, PacketTyped DEF Waiting
<1>4. CASE discontinuity
  <2>1. reset_decode_state
    BY <1>4 DEF send_packet
  <2>4. /\ decoder' \in States /\ resets' \in 0 .. MaxResets /\ draining' = FALSE
        /\ outputs' = << >> /\ received' = << >> /\ next_frame_id' = 0
        /\ current_format' \in Formats /\ synced' = FALSE /\ owed' = << >>
        /\ ShownInOrder'
    BY <1>1, <2>1, Reset
  <2>2. TypeOK'
    BY <1>1, <1>2, <2>4, PacketTyped, Nothing DEF Inv, TypeOK, send_packet
  <2>3. InSync'
    BY <1>1, <2>1, Reset DEF InSync, KeyFrameResynchronizes
  <2> QED BY <1>1, <1>3, <2>1, <2>2, <2>3, Reset DEF Inv
<1>5. CASE ~ discontinuity
  <2>1. UNCHANGED <<decoder, draining, outputs, current_format, next_frame_id, synced, owed,
                    received, resets, intended, frames, shown, configured>>
    BY <1>5 DEF send_packet
  <2>2. TypeOK'
    BY <1>1, <1>2, <2>1, PacketTyped DEF Inv, TypeOK
  <2>3. InSync'
    BY <1>1, <2>1 DEF Inv, InSync, KeyFrameResynchronizes
  <2>4. ShownInOrder'
    BY <2>1, ShownKept DEF Inv
  <2> QED BY <1>3, <2>2, <2>3, <2>4 DEF Inv
<1> QED BY <1>4, <1>5

LEMMA ReceiveStep ==
  ASSUME ConstantsAssumption, Inv, receive_frame
  PROVE  Inv'
<1>1. /\ outputs \in Seq(Outputs) /\ outputs # << >> /\ received \in Seq(Outputs)
      /\ received' = Append(received, Head(outputs)) /\ outputs' = Tail(outputs)
  BY DEF receive_frame, Inv, TypeOK
<1>2. received' \in Seq(Outputs) /\ outputs' \in Seq(Outputs)
  BY <1>1
<1>3. Delivered' = Delivered
  BY <1>1 DEF Delivered
<1>4. UNCHANGED <<decoder, intended, synced, frames, todo, lost, current_format, next_frame_id,
                  shown, owed, configured, draining, packets, resets>>
  BY DEF receive_frame, codingVars, callVars
<1>5. TypeOK' /\ Waiting' /\ InSync'
  BY <1>2, <1>4 DEF Inv, TypeOK, Waiting, InSync, KeyFrameResynchronizes
<1>6. ShownInOrder'
  BY <1>3, <1>4 DEF Inv, ShownInOrder, CurrentAnnounced
<1> QED BY <1>5, <1>6 DEF Inv

LEMMA DeliveredType ==
  ASSUME TypeOK
  PROVE  Delivered \in Seq(Outputs)
BY DEF TypeOK, Delivered

LEMMA LoseStep ==
  ASSUME ConstantsAssumption, Inv, NEW packet \in Packets, Lose(packet)
  PROVE  Inv'
<1>1. /\ todo' = packet /\ lost' = TRUE /\ synced' = FALSE /\ owed' = << >>
      /\ UNCHANGED <<decoder, intended, frames, outputs, current_format, next_frame_id, shown,
                     received, configured, draining, resets>>
  BY DEF Lose
<1>2. packets' \in 0 .. MaxPackets
  BY ConstantsAssumption DEF ConstantsAssumption, Lose, Inv, TypeOK
<1>3. TypeOK'
  BY <1>1, <1>2, PacketTyped, Nothing DEF Inv, TypeOK
<1>4. Waiting' /\ InSync'
  BY <1>1, PacketTyped DEF Inv, Waiting, InSync, KeyFrameResynchronizes
<1>5. Delivered' = Delivered
  BY <1>1 DEF Delivered
<1>6. Pays(Delivered, next_frame_id, shown, << >>)
  BY NothingOwed, DeliveredType DEF Inv, ShownInOrder, TypeOK
<1>7. ShownInOrder'
  BY <1>1, <1>5, <1>6 DEF Inv, ShownInOrder, CurrentAnnounced
<1> QED BY <1>3, <1>4, <1>7 DEF Inv

\* The next frame of the packet.
LEMMA NextFrame ==
  ASSUME Inv, todo # << >>
  PROVE  /\ WellFormed(Head(todo)) /\ Tail(todo) \in Seq(FrameHeader)
         /\ \A k \in DOMAIN Tail(todo) : WellFormed(Tail(todo)[k])
<1>1. todo \in Seq(FrameHeader) /\ todo # << >>
  BY DEF Inv, TypeOK
<1>2. /\ Head(todo) = todo[1] /\ 1 \in DOMAIN todo
      /\ Tail(todo) \in Seq(FrameHeader)
      /\ \A k \in DOMAIN Tail(todo) : k + 1 \in DOMAIN todo /\ Tail(todo)[k] = todo[k + 1]
  BY <1>1
<1> QED BY <1>2 DEF Inv, Waiting

LEMMA PassByStep ==
  ASSUME ConstantsAssumption, Inv, PassBy
  PROVE  Inv'
<1> DEFINE meant == Decode(intended, intended, Head(todo), frames + 1, None)
<1>1. /\ todo # << >> /\ lost /\ intended' = meant.after
      /\ frames' = frames + 1 /\ todo' = Tail(todo)
      /\ UNCHANGED <<decoder, synced, lost, outputs, current_format, next_frame_id, shown, owed,
                     received, configured, draining, packets, resets>>
  BY DEF PassBy, outputVars, callVars
<1>2. frames + 1 \in Nat /\ intended \in States
  BY DEF Inv, TypeOK
<1>3. meant.after \in States
  BY <1>1, <1>2, NextFrame, DecodeType
<1> HIDE DEF meant
<1>4. TypeOK'
  BY <1>1, <1>2, <1>3, NextFrame DEF Inv, TypeOK
<1>5. Waiting' /\ InSync'
  BY <1>1, NextFrame DEF Inv, Waiting, InSync, KeyFrameResynchronizes
<1>6. ShownInOrder'
  BY <1>1, ShownKept DEF Inv
<1> QED BY <1>4, <1>5, <1>6 DEF Inv

LEMMA DecodeStep ==
  ASSUME ConstantsAssumption, Inv, NEW fault, decode_packet_inner(fault)
  PROVE  Inv'
<1> DEFINE f == Head(todo)
           own == Decode(decoder, intended, f, frames + 1, fault)
           meant == Decode(intended, intended, f, frames + 1, None)
<1>1. PICK key \in BOOLEAN : key = (f.type = "key" /\ f.segmentation # "kept")
  OBVIOUS
<1>2. /\ todo # << >> /\ ~ lost
      /\ decoder' = own.after /\ intended' = meant.after
      /\ lost' = ~ own.ok
      /\ shown' = IF own.ok THEN shown \o own.shows ELSE << >>
      /\ synced' = (own.ok /\ (synced \/ key))
      /\ owed' = IF synced' THEN owed \o meant.shows ELSE << >>
      /\ frames' = frames + 1 /\ todo' = Tail(todo)
      /\ UNCHANGED <<outputs, current_format, next_frame_id, received, configured, draining,
                     packets, resets>>
  BY <1>1 DEF decode_packet_inner, callVars
<1>3. frames + 1 \in Nat /\ intended \in States /\ decoder \in States
  BY DEF Inv, TypeOK
<1>4. WellFormed(f) /\ Tail(todo) \in Seq(FrameHeader)
      /\ \A k \in DOMAIN Tail(todo) : WellFormed(Tail(todo)[k])
  BY <1>2, NextFrame
<1>5. /\ own.ok \in BOOLEAN /\ own.after \in States /\ own.shows \in Seq(Shown)
      /\ \A k \in DOMAIN own.shows : own.shows[k].format.size # NoSize
  BY <1>3, <1>4, DecodeType
<1>6. meant.after \in States /\ meant.shows \in Seq(Shown)
  BY <1>3, <1>4, DecodeType
<1>7. own.ok /\ (synced \/ key) => own.after = meant.after /\ own.shows = meant.shows
  <2> SUFFICES ASSUME own.ok, synced \/ key
               PROVE  own.after = meant.after /\ own.shows = meant.shows
    OBVIOUS
  <2>1. CASE synced
    <3>1. decoder = intended
      BY <2>1 DEF Inv, InSync, KeyFrameResynchronizes
    <3> QED BY <2>1, <3>1, SameFromSame
  <2>2. CASE key
    <3>1. f.type = "key" /\ f.segmentation # "kept"
      BY ONLY <1>1, <2>2
    <3>2. own.ok
      OBVIOUS
    <3> HIDE DEF f
    <3> QED BY <1>3, <1>4, <3>1, <3>2, KeyForgets
  <2> HIDE DEF own, meant
  <2> QED BY <2>1, <2>2
<1> HIDE DEF f, own, meant
<1>8. shown \in Seq(Shown) /\ owed \in Seq(Shown)
  BY DEF Inv, TypeOK
<1>9. TypeOK'
  <2>1. synced' \in BOOLEAN /\ lost' \in BOOLEAN
    BY <1>1, <1>2, <1>5
  <2>2. shown' \in Seq(Shown) /\ owed' \in Seq(Shown)
    BY <1>2, <1>5, <1>6, <1>8, Nothing
  <2> QED BY <1>2, <1>3, <1>4, <1>5, <1>6, <2>1, <2>2 DEF Inv, TypeOK
<1>10. Waiting'
  <2>1. \A k \in DOMAIN shown : shown[k].format.size # NoSize
    BY DEF Inv, Waiting
  <2>2. \A k \in DOMAIN (shown \o own.shows) : (shown \o own.shows)[k].format.size # NoSize
    <3>1. PICK s, t : s = shown /\ t = own.shows
      OBVIOUS
    <3>2. /\ s \in Seq(Shown) /\ t \in Seq(Shown)
          /\ \A k \in DOMAIN s : s[k].format.size # NoSize
          /\ \A k \in DOMAIN t : t[k].format.size # NoSize
      BY <1>5, <1>8, <2>1, <3>1
    <3>3. \A k \in DOMAIN (s \o t) :
            \/ k \in DOMAIN s /\ (s \o t)[k] = s[k]
            \/ k - Len(s) \in DOMAIN t /\ (s \o t)[k] = t[k - Len(s)]
      BY <3>2
    <3> QED BY <3>1, <3>2, <3>3
  <2> QED BY <1>2, <1>4, <2>1, <2>2, Nothing DEF Waiting
<1>11. InSync'
  BY <1>2, <1>7 DEF InSync, KeyFrameResynchronizes
<1>12. Delivered' = Delivered
  BY <1>2 DEF Delivered
<1>13. Pays(Delivered, next_frame_id, shown', owed')
  <2>1. Delivered \in Seq(Outputs) /\ next_frame_id \in Nat /\ Numbered(Delivered, next_frame_id)
        /\ Pays(Delivered, next_frame_id, shown, owed)
    BY DeliveredType DEF Inv, ShownInOrder, TypeOK
  <2>2. CASE own.ok /\ (synced \/ key)
    <3>1. shown' = shown \o own.shows /\ owed' = owed \o own.shows
      BY <1>2, <1>7, <2>2
    <3> QED BY <1>5, <1>8, <2>1, <3>1, MoreOwed
  <2>3. CASE ~ (own.ok /\ (synced \/ key))
    <3>1. owed' = << >> /\ shown' \in Seq(Shown)
      BY <1>2, <1>9, <2>3 DEF TypeOK
    <3> QED BY <2>1, <3>1, NothingOwed
  <2> QED BY <2>2, <2>3
<1>14. ShownInOrder'
  BY <1>2, <1>12, <1>13 DEF Inv, ShownInOrder, CurrentAnnounced
<1> QED BY <1>9, <1>10, <1>11, <1>14 DEF Inv

LEMMA QueueStep ==
  ASSUME ConstantsAssumption, Inv, queue_output
  PROVE  Inv'
<1> DEFINE s == Head(shown)
           announcement == [kind |-> "format", format |-> s.format]
           announced == IF current_format = s.format THEN outputs ELSE Append(outputs, announcement)
           frame == [kind |-> "frame", id |-> next_frame_id, format |-> s.format,
                     picture |-> s.picture]
           before == IF current_format = s.format THEN Delivered
                     ELSE Append(Delivered, announcement)
<1>1. /\ todo = << >> /\ shown # << >>
      /\ current_format' = s.format
      /\ UNCHANGED <<decoder, intended, frames, todo, lost, received, configured, draining,
                     packets, resets>>
  BY DEF queue_output, callVars
<1>2. \/ /\ outputs' = Append(announced, frame) /\ next_frame_id' = next_frame_id + 1
         /\ shown' = Tail(shown) /\ UNCHANGED <<synced, owed>>
      \/ /\ outputs' = announced /\ shown' = << >> /\ synced' = FALSE /\ owed' = << >>
         /\ UNCHANGED next_frame_id
  BY DEF queue_output
<1>3. /\ shown \in Seq(Shown) /\ next_frame_id \in Nat /\ outputs \in Seq(Outputs)
      /\ received \in Seq(Outputs) /\ owed \in Seq(Shown)
  BY DEF Inv, TypeOK
<1>4. /\ s \in Shown /\ Tail(shown) \in Seq(Shown) /\ s.format.size # NoSize
      /\ \A k \in DOMAIN Tail(shown) : Tail(shown)[k].format.size # NoSize
  <2>1. /\ s = shown[1] /\ 1 \in DOMAIN shown
        /\ \A k \in DOMAIN Tail(shown) : k + 1 \in DOMAIN shown /\ Tail(shown)[k] = shown[k + 1]
    BY <1>1, <1>3
  <2>2. \A k \in DOMAIN shown : shown[k].format.size # NoSize
    BY DEF Inv, Waiting
  <2> HIDE DEF s
  <2> QED BY <1>1, <1>3, <2>1, <2>2
<1>5. s.format \in Formats /\ s.picture \in Pictures
  <2> HIDE DEF s
  <2> QED BY <1>4 DEF Shown
<1> HIDE DEF s
<1>6. /\ announcement \in Outputs /\ announcement.kind = "format"
      /\ frame \in Outputs /\ frame.kind = "frame"
      /\ announcement.format = s.format /\ frame.format = s.format
      /\ frame.id = next_frame_id /\ frame.picture = s.picture
  BY <1>3, <1>5 DEF Outputs
<1> HIDE DEF announcement, frame
<1>7. announced \in Seq(Outputs) /\ Append(announced, frame) \in Seq(Outputs)
  BY <1>3, <1>6
<1>8. /\ received \o announced = before
      /\ received \o Append(announced, frame) = Append(before, frame)
  <2>1. \A x : received \o Append(outputs, x) = Append(received \o outputs, x)
    BY <1>3
  <2>2. \A x, y : received \o Append(Append(outputs, x), y) = Append(Append(received \o outputs, x), y)
    BY <1>3
  <2> QED BY <2>1, <2>2 DEF Delivered
<1>9. Delivered \in Seq(Outputs) /\ before \in Seq(Outputs)
  <2>1. Delivered \in Seq(Outputs)
    BY DeliveredType DEF Inv
  <2> QED BY <1>6, <2>1
<1>10. /\ Numbered(before, next_frame_id) /\ AllAnnounced(before)
       /\ LastAnnounced(before, Len(before), s.format)
       /\ Pays(before, next_frame_id, shown, owed)
  <2>1. /\ Numbered(Delivered, next_frame_id) /\ AllAnnounced(Delivered)
        /\ Pays(Delivered, next_frame_id, shown, owed)
    BY DEF Inv, ShownInOrder
  <2>2. CASE current_format = s.format
    <3>1. LastAnnounced(Delivered, Len(Delivered), s.format)
      BY <1>4, <2>2 DEF Inv, ShownInOrder, CurrentAnnounced
    <3> QED BY <2>1, <2>2, <3>1
  <2>3. CASE current_format # s.format
    <3>1. before = Append(Delivered, announcement)
      BY <2>3
    <3>2. Len(Append(Delivered, announcement)) = Len(Delivered) + 1
      BY <1>9
    <3>3. /\ AllAnnounced(Append(Delivered, announcement))
          /\ LastAnnounced(Append(Delivered, announcement), Len(Delivered) + 1, announcement.format)
      BY <1>6, <1>9, <2>1, AppendedAnnounced
    <3>4. Numbered(Append(Delivered, announcement), next_frame_id)
      BY <1>3, <1>6, <1>9, <2>1, FormatNumbered
    <3>5. Pays(Append(Delivered, announcement), next_frame_id, shown, owed)
      BY <1>6, <1>9, <2>1, FormatPays
    <3> HIDE DEF before
    <3> QED BY <1>6, <3>1, <3>2, <3>3, <3>4, <3>5
  <2> QED BY <2>2, <2>3
<1>11. InSync /\ Waiting
  BY DEF Inv
<1> HIDE DEF before, announced
<1>12. CASE /\ outputs' = Append(announced, frame) /\ next_frame_id' = next_frame_id + 1
            /\ shown' = Tail(shown) /\ UNCHANGED <<synced, owed>>
  <2>1. TypeOK'
    BY <1>1, <1>3, <1>4, <1>5, <1>7, <1>12 DEF Inv, TypeOK
  <2>2. Waiting' /\ InSync'
    BY <1>1, <1>4, <1>11, <1>12 DEF Waiting, InSync, KeyFrameResynchronizes
  <2>3. Delivered' = Append(before, frame)
    BY <1>1, <1>8, <1>12 DEF Delivered
  <2>4. Numbered(Append(before, frame), next_frame_id + 1)
    BY <1>3, <1>6, <1>9, <1>10, FrameNumbered
  <2>5. /\ AllAnnounced(Append(before, frame))
        /\ LastAnnounced(Append(before, frame), Len(before) + 1, frame.format)
    BY <1>6, <1>9, <1>10, AppendedAnnounced
  <2>6. Pays(Append(before, frame), next_frame_id + 1, Tail(shown), owed)
    BY <1>1, <1>3, <1>6, <1>9, <1>10, FramePays DEF s
  <2>7. Len(Append(before, frame)) = Len(before) + 1
    BY <1>9
  <2>8. ShownInOrder'
    BY <1>1, <1>6, <1>12, <2>3, <2>4, <2>5, <2>6, <2>7 DEF ShownInOrder, CurrentAnnounced
  <2> QED BY <2>1, <2>2, <2>8 DEF Inv
<1>13. CASE /\ outputs' = announced /\ shown' = << >> /\ synced' = FALSE /\ owed' = << >>
            /\ UNCHANGED next_frame_id
  <2>1. TypeOK'
    BY <1>1, <1>3, <1>5, <1>7, <1>13, Nothing DEF Inv, TypeOK
  <2>2. Waiting' /\ InSync'
    BY <1>1, <1>11, <1>13, Nothing DEF Waiting, InSync, KeyFrameResynchronizes
  <2>3. Delivered' = before
    BY <1>1, <1>8, <1>13 DEF Delivered
  <2>4. Pays(before, next_frame_id, << >>, << >>)
    BY <1>3, <1>9, <1>10, Nothing, NothingOwed
  <2>5. ShownInOrder'
    BY <1>1, <1>10, <1>13, <2>3, <2>4 DEF ShownInOrder, CurrentAnnounced
  <2> QED BY <2>1, <2>2, <2>5 DEF Inv
<1> QED BY <1>2, <1>12, <1>13

LEMMA NextInv ==
  ASSUME ConstantsAssumption, Inv, [Next]_vars
  PROVE  Inv'
<1>1. CASE configure
  BY <1>1, ConfigureStep
<1>2. CASE flush
  BY <1>2, FlushStep
<1>3. CASE drain
  BY <1>3, DrainStep
<1>4. CASE queue_output
  BY <1>4, QueueStep
<1>5. CASE receive_frame
  BY <1>5, ReceiveStep
<1>6. CASE PassBy
  BY <1>6, PassByStep
<1>7. CASE \E packet \in Packets, discontinuity \in BOOLEAN : send_packet(packet, discontinuity)
  BY <1>7, SendStep
<1>8. CASE \E fault \in {None, "header", "body"} : decode_packet_inner(fault)
  BY <1>8, DecodeStep
<1>9. CASE \E packet \in Packets : Lose(packet)
  BY <1>9, LoseStep
<1>10. CASE UNCHANGED vars
  <2>1. Delivered' = Delivered
    BY <1>10 DEF vars, outputVars, Delivered
  <2> QED BY <1>10, <2>1
          DEF vars, codingVars, outputVars, callVars, Inv, TypeOK, Waiting, InSync,
              KeyFrameResynchronizes, ShownInOrder, CurrentAnnounced
<1> QED BY <1>1, <1>2, <1>3, <1>4, <1>5, <1>6, <1>7, <1>8, <1>9, <1>10 DEF Next

----------
(* Theorems *)

THEOREM Invariance == Spec => []Inv
<1>1. Init => Inv
  BY InitInv, ConstantsAssumption
<1>2. Inv /\ [Next]_vars => Inv'
  BY NextInv, ConstantsAssumption
<1> QED BY <1>1, <1>2, PTL DEF Spec

\* Every variable keeps its type, for any packets, sizes, slots and contexts.
THEOREM TypeCorrect == Spec => []TypeOK
<1>1. Inv => TypeOK
  BY DEF Inv
<1> QED BY <1>1, Invariance, PTL

\* From a decoded key frame on that keeps no segment map, until something fails,
\* the decoder's state is the encoder's: nothing of what was lost, of frames that
\* failed half-way or of a reset is left (decoder.rs:93-208, header.rs:396-461).
THEOREM KeyFramesResynchronize == Spec => []KeyFrameResynchronizes
<1>1. Inv => KeyFrameResynchronizes
  BY DEF Inv, InSync
<1> QED BY <1>1, Invariance, PTL

\* What comes out is numbered in order and announced, and in sync it is what the
\* encoder showed (decoder.rs:290-334).
THEOREM ShowsWhatWasMeant == Spec => []ShownAsIntended
<1>1. Inv => ShownAsIntended
  BY ShownForms DEF Inv, ShownInOrder
<1> QED BY <1>1, Invariance, PTL
=============================================================================
