------------------------- MODULE MCConformingStream -------------------------
(* What a stream's writer and its parser must agree on, one machine at a time:
   reference marking in any order, reference lists and picture order counts of
   conforming streams, NAL units and headers, and the bits they are read
   from. *)
EXTENDS ReferenceStream

ForgetLong(i) == [kind |-> "ForgetLongTerm", difference |-> 0, index |-> i]
ForgetShort(d) == [kind |-> "ForgetShortTerm", difference |-> d, index |-> 0]
Assign(d, i) == [kind |-> "AssignLongTerm", difference |-> d, index |-> i]
LimitTo(n) == [kind |-> "LimitLongTerm", difference |-> 0, index |-> n]
Reset == [kind |-> "ForgetAll", difference |-> 0, index |-> 0]
MarkCurrent(i) == [kind |-> "MarkCurrentLongTerm", difference |-> 0, index |-> i]

\* The previous picture or the one before is dropped or kept for long, the
\* long-term pictures are dropped, the current one becomes long-term.
KeptAndDropped ==
  {<<ForgetShort(1)>>, <<ForgetShort(2)>>, <<LimitTo(1), Assign(1, 0)>>,
   <<LimitTo(0)>>, <<LimitTo(1), ForgetShort(1), MarkCurrent(0)>>}

\* For the buffer alone, in any order: each operation by itself or in the
\* combinations encoders use, making room before marking, raising the maximum
\* before assigning, resetting everything and starting with a long-term picture,
\* and operations after the marking of the current one that leave its index alone.
AllLists ==
  KeptAndDropped \cup
  {<< >>, <<ForgetShort(1)>>, <<ForgetLong(1), Assign(1, 1)>>,
   <<LimitTo(2), Assign(1, 0), Assign(2, 1)>>, <<Assign(2, 0)>>,
   <<LimitTo(1), MarkCurrent(0)>>, <<Reset>>, <<Reset, LimitTo(1), MarkCurrent(0)>>,
   <<ForgetShort(1), Reset, MarkCurrent(0)>>,
   <<LimitTo(2), MarkCurrent(0), Assign(1, 1)>>, <<MarkCurrent(1), LimitTo(2), ForgetShort(1)>>}

AllFrameNums == 0 .. MaxFrameNum

OnlyReset == {<<Reset>>}

\* The long-term indices are checked for lists that leave the current picture's alone.
ASSUME MarkingConforms == ListsConform

Back(d) == [kind |-> "SubtractPicNum", value |-> d]
Forth(d) == [kind |-> "AddPicNum", value |-> d]
Long(i) == [kind |-> "LongTerm", value |-> i]

SomeModifications ==
  {<< >>, <<Back(1)>>, <<Back(2)>>, <<Long(0)>>, <<Back(2), Forth(1)>>,
   <<Back(3), Long(0)>>, <<Long(0), Back(1), Back(1)>>, <<Back(1), Back(0)>>}

NoModifications == {}
Unused == {0}

CONSTANTS MaxLsb, OffsetForNonRefPic, OffsetTopToBottom, OffsetForRefFrame,
          PocTypes, Deltas, MaxOrdered,
          Machines   \* those that run

VARIABLES
  machine,   \* the machine that runs; the others keep their initial state
  input,     \* of a machine without steps
  poc_type, prev_pic_order_cnt_msb, prev_pic_order_cnt_lsb,
  prev_reference_had_mmco5, prev_reference_was_bottom_field,
  prev_reference_top_field_order_cnt, prev_frame_num, prev_frame_num_offset,
  decoding, stored, top, number, previous, intended, latest, ordered,
  data, cursor, cache, answer

Framing == INSTANCE NalFraming
Headers == INSTANCE HeaderStream WITH WordBits <- 16
Vp9 == INSTANCE Vp9Headers WITH WordBits <- 16
Vp9Probabilities == INSTANCE Vp9Entropy WITH Bands <- 2

NoInput == <<>>

\* Bytes of two bits: long codes are strings with few ones.
SparseStrings(n) == {s \in [1 .. n -> {0, 1}] : Cardinality({i \in 1 .. n : s[i] = 1}) <= 2}
SomeByteStrings ==
  {[i \in 1 .. Len(s) \div 2 |-> <<s[2 * i - 1], s[2 * i]>>] : s \in SparseStrings(6) \cup SparseStrings(10)}

\* Payloads of the bytes that escapes and start codes are made of.
SomeRbsps == {s \o <<e>> : s \in UNION {[1 .. n -> {0, 1, 3}] : n \in 0 .. 4}, e \in {1, 3, 128}}
SecondRbsps == {<<128>>, <<0, 0, 1>>}
SomeNalHeaders == {[ref_idc |-> 3, type |-> 7], [ref_idc |-> 1, type |-> 8], [ref_idc |-> 0, type |-> 1]}
NalUnits(rbsps) == [header : SomeNalHeaders, rbsp : rbsps]
FramingInit ==
  \E kind \in {"annexb", "length"}, size \in 0 .. 2,
     units \in {<<>>} \cup {<<u>> : u \in NalUnits(SomeRbsps)}
                \cup {<<u, v>> : u \in NalUnits(SomeRbsps), v \in NalUnits(SecondRbsps)} :
    /\ kind = "length" => size > 0
    /\ input = [units |-> units, form |-> [kind |-> kind, size |-> size]]

\* Parameter sets with each of their optional parts, and slices of every type
\* under them.
SomeCrops == {<<>>, <<1, 2, 0, 3>>, <<12, 12, 0, 0>>, <<24, 1, 0, 0>>}
PlainSps(order, fields) ==
  [high |-> FALSE, matrices |-> FALSE, order |-> order, deltas |-> TRUE, fields |-> fields,
   crop |-> <<>>, vui |-> 0]
PlainPps(flags, map) == [flags |-> flags, map |-> map, extended |-> FALSE, matrices |-> FALSE]
SetChoices ==
  {[sps |-> s, pps |-> PlainPps(FALSE, -1)] :
     s \in {c \in [high : BOOLEAN, matrices : BOOLEAN, order : 0 .. 2, deltas : BOOLEAN,
                   fields : BOOLEAN, crop : SomeCrops, vui : 0 .. 2] :
              (c.matrices => c.high) /\ (c.deltas => c.order = 1)}}
  \cup {[sps |-> PlainSps(0, FALSE), pps |-> p] :
          p \in {c \in [flags : BOOLEAN, map : -1 .. 6, extended : BOOLEAN, matrices : BOOLEAN] :
                   c.matrices => c.extended}}
SliceChoices ==
  {c \in [sps : {PlainSps(order, fields) : order \in 0 .. 2, fields \in BOOLEAN},
          pps : {PlainPps(flags, map) : flags \in BOOLEAN, map \in {-1, 3}},
          slice : [type : 0 .. 9, marking : {"none", "idr", "sliding", "adaptive"},
                   override : BOOLEAN, field : {"frame", "top", "bottom"}, filter : 0 .. 1]] :
     /\ c.slice.marking = "idr" => c.slice.type % 5 \in {Headers!I, Headers!Si}
     /\ c.slice.field # "frame" => c.sps.fields
     /\ c.slice.override => c.slice.type % 5 < 2
     /\ c.slice.filter = 1 \/ c.sps.order > 0 => c.slice.type = 2
     /\ c.sps.order > 0 => c.pps.map = -1}

SetsAgree(c) == Headers!SetsReadBack(Headers!SpsOf(c.sps), Headers!PpsOf(c.pps))
Replacement == Headers!SpsOf([PlainSps(0, FALSE) EXCEPT !.high = TRUE])
Under(c, sps, pps) ==
  Headers!SliceReadBack(sps, pps,
    [header |-> Headers!SliceOf(c, sps, pps),
     nal |-> [ref_idc |-> IF c.marking = "none" THEN 0 ELSE 1, idr |-> c.marking = "idr"]],
    Replacement)
SliceAgrees(c) == Under(c.slice, Headers!SpsOf(c.sps), Headers!PpsOf(c.pps))

Order == INSTANCE PictureOrder
  WITH pictures <- ordered, MaxPictures <- MaxOrdered, MaxFrameNum <- 3

orderVars ==
  <<poc_type, prev_pic_order_cnt_msb, prev_pic_order_cnt_lsb,
    prev_reference_had_mmco5, prev_reference_was_bottom_field,
    prev_reference_top_field_order_cnt, prev_frame_num, prev_frame_num_offset,
    decoding, stored, top, number, previous, intended, latest, ordered>>

Reader == INSTANCE BitReader
  WITH ByteBits <- 2, WordBytes <- 2, WordBits <- 4, Inputs <- SomeByteStrings
readerVars == <<data, cursor, cache, answer>>

mcVars == <<machine, input, allVars, orderVars, readerVars>>

MCInit ==
  /\ machine \in Machines
  /\ StreamInit
  /\ Order!StreamInit
  /\ IF machine = "bits" THEN Reader!ReaderInit
     ELSE data = <<>> /\ cursor = 0 /\ cache = <<>> /\ answer = NoInput
  /\ CASE machine = "framing" -> FramingInit
       [] machine = "sets" -> input \in SetChoices
       [] machine = "slice" -> input \in SliceChoices
       [] machine = "vp9 frames" -> input \in Vp9!SomeStreams
       [] machine = "vp9 packet" -> input \in Vp9!SomePackets
       [] machine = "vp9 probabilities" -> input \in Vp9Probabilities!CompressedInputs
       [] OTHER -> input = NoInput
  /\ machine # "order" => poc_type = 0

MCNext ==
  /\ UNCHANGED <<machine, input>>
  /\ \/ machine = "marking" /\ Next /\ UNCHANGED <<streamVars, orderVars, readerVars>>
     \/ machine = "references" /\ StreamNext /\ UNCHANGED <<orderVars, readerVars>>
     \/ machine = "order" /\ Order!StreamNext /\ UNCHANGED <<allVars, readerVars>>
     \/ machine = "bits" /\ Reader!ReaderNext /\ UNCHANGED <<allVars, orderVars>>

MCSpec == MCInit /\ [][MCNext]_mcVars

\* The parser derives the counts the stream has in mind (PictureOrder).
DerivesIntended == machine = "order" => Order!DerivesIntended

\* Every call answers as a reader without a cache would (BitReader).
ReadsAsPlain ==
  [][machine = "bits" =>
       Reader!Plainly(answer'.call, answer'.count, answer'.ok, answer'.value, Reader!bit_position')]_mcVars

\* The units that were framed are found, and cut data is refused (NalFraming).
FramingReadBack ==
  machine = "framing" =>
    Framing!FramingReadBack(input.units, input.form) /\ Framing!CutRefused(input.units, input.form)

\* Headers are read as they were written: parameter sets and slice headers
\* (HeaderStream), VP9 frame headers after any that were refused and the frames of a
\* packet (Vp9Headers), and the probabilities that a compressed header leads to
\* (Vp9Entropy).
HeadersReadBack ==
  /\ machine = "sets" => SetsAgree(input)
  /\ machine = "slice" => SliceAgrees(input)
  /\ machine = "vp9 frames" => Vp9!Vp9HeadersReadBack(input)
  /\ machine = "vp9 packet" => Vp9!SuperframeReadBack(input.frames, input.bytes)
  /\ machine = "vp9 probabilities" => Vp9Probabilities!CompressedCase(input)

AllTypes == 0 .. 2
Offsets == <<2, 5>>
SomeDeltas == {-1, 1}
NegativeOne == -1
=============================================================================
