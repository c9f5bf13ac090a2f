---------------------------- MODULE PictureOrder ----------------------------
(***************************************************************************)
(* Picture order counts of decv-h264 (crates/decv-h264/src/picture.rs):    *)
(* PictureOrderCountState.derive for the first slice of a coded picture,   *)
(* in the three types of H.264 8.2.1.  A FieldOrderCount is a function     *)
(* from the fields a picture has to their counts.  Counts stay far from    *)
(* the limits of i32, where the code reports an error.                     *)
(***************************************************************************)
EXTENDS Integers, Sequences
LOCAL INSTANCE SequencesExt
LOCAL INSTANCE FiniteSetsExt

CONSTANTS MaxFrameNum,         \* 2^log2_max_frame_num
          MaxLsb,              \* 2^log2_max_pic_order_cnt_lsb
          OffsetForNonRefPic, OffsetTopToBottom, OffsetForRefFrame

VARIABLES
  poc_type,                    \* type of the active SPS
  prev_pic_order_cnt_msb, prev_pic_order_cnt_lsb,
  prev_reference_had_mmco5, prev_reference_was_bottom_field,
  prev_reference_top_field_order_cnt,   \* 0 also stands for None
  prev_frame_num, prev_frame_num_offset,
  decoding, stored             \* PictureOrderCount of the last picture

type0Vars == <<prev_pic_order_cnt_msb, prev_pic_order_cnt_lsb,
               prev_reference_had_mmco5, prev_reference_was_bottom_field,
               prev_reference_top_field_order_cnt>>
frameNumVars == <<prev_frame_num, prev_frame_num_offset>>
pocVars == <<poc_type, type0Vars, frameNumVars, decoding, stored>>

Fields(structure) == IF structure = "frame" THEN {"top", "bottom"} ELSE {structure}

picture_order_count(order) == Min({order[f] : f \in DOMAIN order})

PocInit ==
  /\ prev_pic_order_cnt_msb = 0 /\ prev_pic_order_cnt_lsb = 0
  /\ prev_reference_had_mmco5 = FALSE /\ prev_reference_was_bottom_field = FALSE
  /\ prev_reference_top_field_order_cnt = 0
  /\ prev_frame_num = 0 /\ prev_frame_num_offset = 0
  /\ decoding = [f \in {"top"} |-> 0]
  /\ stored = [f \in {"top"} |-> 0]

----------
(* Type 0 *)

\* Mutant: the count of the previous reference is used after MMCO 5, too.
PrevIgnoringMmco5(slice) ==
  IF slice.idr THEN <<0, 0>> ELSE <<prev_pic_order_cnt_msb, prev_pic_order_cnt_lsb>>

\* msb and lsb the slice's lsb is relative to.
Prev(slice) ==
  CASE slice.idr -> <<0, 0>>
    [] ~ slice.idr /\ prev_reference_had_mmco5 ->
         <<0, IF prev_reference_was_bottom_field THEN 0
              ELSE prev_reference_top_field_order_cnt>>
    [] OTHER -> <<prev_pic_order_cnt_msb, prev_pic_order_cnt_lsb>>

Msb(slice) ==
  LET prev_msb == Prev(slice)[1]
      prev_lsb == Prev(slice)[2]
      half == MaxLsb \div 2
  IN  CASE slice.lsb < prev_lsb /\ prev_lsb - slice.lsb >= half -> prev_msb + MaxLsb
        [] slice.lsb > prev_lsb /\ slice.lsb - prev_lsb > half  -> prev_msb - MaxLsb
        [] OTHER -> prev_msb

derive_type0(slice) ==
  LET value == Msb(slice) + slice.lsb
  IN  [f \in Fields(slice.structure) |->
         IF f = "bottom" /\ slice.structure = "frame"
         THEN value + slice.delta_bottom ELSE value]

----------
(* Types 1 and 2 *)

frame_num_offset(slice) ==
  IF slice.idr THEN 0
  ELSE IF prev_frame_num > slice.frame_num THEN prev_frame_num_offset + MaxFrameNum
  ELSE prev_frame_num_offset

Sum(offsets) == FoldLeft(LAMBDA sum, offset : sum + offset, 0, offsets)

\* Whole cycles, then the frames of the cycle the picture is in.
Expected(abs_frame_num) ==
  LET n == Len(OffsetForRefFrame) IN
  IF abs_frame_num = 0 THEN 0
  ELSE ((abs_frame_num - 1) \div n) * Sum(OffsetForRefFrame)
         + Sum(SubSeq(OffsetForRefFrame, 1, ((abs_frame_num - 1) % n) + 1))

derive_type1(slice) ==
  LET counted == IF OffsetForRefFrame = << >> THEN 0
                 ELSE frame_num_offset(slice) + slice.frame_num
      abs_frame_num == IF ~ slice.reference /\ counted > 0 THEN counted - 1 ELSE counted
      expected == Expected(abs_frame_num)
                    + (IF slice.reference THEN 0 ELSE OffsetForNonRefPic)
      top == expected + slice.delta0
  IN  [f \in Fields(slice.structure) |->
         CASE f = "top" -> top
           [] f = "bottom" /\ slice.structure = "frame" ->
                top + OffsetTopToBottom + slice.delta1
           [] OTHER -> expected + OffsetTopToBottom + slice.delta0]

derive_type2(slice) ==
  LET doubled == 2 * (frame_num_offset(slice) + slice.frame_num)
      value == CASE slice.idr -> 0
                 [] ~ slice.idr /\ slice.reference -> doubled
                 [] OTHER -> doubled - 1
  IN  [f \in Fields(slice.structure) |-> value]

----------
(* derive *)

Normalized(order, mmco5) ==
  IF mmco5 THEN [f \in DOMAIN order |-> order[f] - picture_order_count(order)]
  ELSE order

\* Only reference pictures move the state of type 0.
CommitType0(slice) ==
  /\ IF slice.reference
     THEN /\ prev_reference_had_mmco5' = slice.mmco5
          /\ prev_reference_was_bottom_field' = (slice.structure = "bottom")
          /\ prev_reference_top_field_order_cnt' =
               IF "top" \in DOMAIN stored' THEN stored'["top"] ELSE 0
          /\ IF slice.mmco5
             THEN UNCHANGED <<prev_pic_order_cnt_msb, prev_pic_order_cnt_lsb>>
             ELSE /\ prev_pic_order_cnt_msb' = Msb(slice)
                  /\ prev_pic_order_cnt_lsb' = slice.lsb
     ELSE UNCHANGED type0Vars
  /\ UNCHANGED frameNumVars

CommitFrameNum(slice) ==
  /\ prev_frame_num' = IF slice.mmco5 THEN 0 ELSE slice.frame_num
  /\ prev_frame_num_offset' = IF slice.mmco5 THEN 0 ELSE frame_num_offset(slice)
  /\ UNCHANGED type0Vars

derive(slice) ==
  /\ decoding' = CASE poc_type = 0 -> derive_type0(slice)
                   [] poc_type = 1 -> derive_type1(slice)
                   [] poc_type = 2 -> derive_type2(slice)
  /\ stored' = Normalized(decoding', slice.mmco5)
  /\ IF poc_type = 0 THEN CommitType0(slice) ELSE CommitFrameNum(slice)
  /\ UNCHANGED poc_type

----------
(* A stream that codes the counts it has in mind, which the parser derives   *)
(* from the slice headers.  It counts from its last IDR picture or MMCO 5:   *)
(* top is the count of the previous reference picture, number that of its    *)
(* frames.                                                                   *)

CONSTANTS PocTypes, Deltas,   \* types, and delta_pic_order_cnt values used
          MaxPictures         \* bound: pictures of the stream

VARIABLES
  top,           \* coded count of the previous reference picture
  number,        \* unwrapped frame_num of the previous reference frame
  previous,      \* the previous picture: [reference, structure, number, mmco5]
  intended,      \* the counts the stream has in mind for the last picture
  latest,        \* the highest count since the last IDR picture or MMCO 5
  pictures

streamVars == <<top, number, previous, intended, latest, pictures>>
vars == <<pocVars, streamVars>>

StreamInit ==
  /\ PocInit
  /\ poc_type \in PocTypes
  /\ top = 0 /\ number = 0 /\ latest = -1 /\ pictures = 0
  /\ previous = [reference |-> FALSE, structure |-> "frame", number |-> 0, mmco5 |-> FALSE]
  /\ intended = decoding

\* A field of the opposite parity completes the frame of the previous field.
SecondField(structure, reference) ==
  /\ previous.structure = (IF structure = "top" THEN "bottom" ELSE "top")
  /\ structure # "frame"
  /\ previous.reference = reference
  /\ ~ previous.mmco5

\* The unwrapped frame_num of the next picture.
Numbers(structure, reference) ==
  {number + 1} \cup
  IF SecondField(structure, reference) THEN {previous.number} ELSE {}

\* The counts that type 1 describes: one offset after another.
Ramp(n) ==
  FoldLeft(LAMBDA sum, i : sum + OffsetForRefFrame[((i - 1) % Len(OffsetForRefFrame)) + 1],
           0, [i \in 1 .. n |-> i])

\* The counts a stream has in mind for a picture of unwrapped number n.
Intended(slice, n, count) ==
  [f \in Fields(slice.structure) |->
     CASE poc_type = 0 ->
            count + (IF f = "bottom" /\ slice.structure = "frame"
                     THEN slice.delta_bottom ELSE 0)
       [] poc_type = 1 ->
            (IF slice.reference \/ n = 0 THEN Ramp(n) ELSE Ramp(n - 1))
              + (IF slice.reference THEN 0 ELSE OffsetForNonRefPic)
              + slice.delta0 + (IF f = "bottom" THEN OffsetTopToBottom ELSE 0)
       [] poc_type = 2 ->
            IF slice.idr THEN 0 ELSE 2 * n - (IF slice.reference THEN 0 ELSE 1)]

Codes(slice, n, count) ==
  /\ pictures < MaxPictures
  /\ pictures' = pictures + 1
  /\ derive(slice)
  /\ intended' = Intended(slice, n, count)
  /\ previous' = [reference |-> slice.reference, structure |-> slice.structure,
                  number |-> n, mmco5 |-> slice.mmco5]
  /\ LET after == Normalized(intended', slice.mmco5)
     IN  /\ latest' = IF slice.idr \/ slice.mmco5 THEN picture_order_count(after)
                      ELSE Max({latest, picture_order_count(after)})
         /\ IF slice.reference
            THEN /\ number' = IF slice.mmco5 THEN 0 ELSE n
                 /\ top' = CASE ~ slice.mmco5 -> count
                             [] slice.mmco5 /\ slice.structure = "bottom" -> 0
                             [] OTHER -> after["top"]
            ELSE UNCHANGED <<number, top>>

Slice(idr, reference, mmco5, structure, n, count, delta) ==
  [idr |-> idr, reference |-> reference, mmco5 |-> mmco5, structure |-> structure,
   frame_num |-> n % MaxFrameNum, lsb |-> count % MaxLsb, delta_bottom |-> delta,
   delta0 |-> delta, delta1 |-> 0]

\* The earlier field of an IDR picture has count 0.
CodeIdr ==
  \E structure \in {"frame", "top"}, delta \in Deltas :
    /\ poc_type = 1 => delta = 0
    /\ LET count == IF structure = "frame" /\ delta < 0 THEN - delta ELSE 0
       IN  Codes(Slice(TRUE, TRUE, FALSE, structure, 0, count, delta), 0, count)

\* A count less than half a cycle before the previous reference picture, or at
\* most half a cycle after it.  No two pictures of type 2 in a row are
\* non-reference pictures.
CodePicture ==
  \E structure \in {"frame", "top", "bottom"}, reference, mmco5 \in BOOLEAN,
     difference \in 1 - (MaxLsb \div 2) .. MaxLsb \div 2, delta \in Deltas :
    /\ pictures > 0
    /\ mmco5 => reference
    /\ poc_type # 0 => difference = 0
    /\ poc_type = 2 => reference \/ previous.reference
                         \/ SecondField(structure, reference)
    /\ \E n \in Numbers(structure, reference) :
         /\ mmco5 => n # previous.number
         /\ Codes(Slice(FALSE, reference, mmco5, structure, n, top + difference, delta),
                  n, top + difference)

StreamNext == CodeIdr \/ CodePicture

StreamSpec == StreamInit /\ [][StreamNext]_vars

----------
(* Properties *)

\* The parser derives the counts the stream has in mind, however often lsb and
\* frame_num have wrapped, and after pictures with MMCO 5.
DerivesIntended == decoding = intended
=============================================================================
