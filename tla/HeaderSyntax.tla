----------------------------- MODULE HeaderSyntax -----------------------------
(***************************************************************************)
(* The headers of an H.264 stream as decv-h264 parses them: sequence and   *)
(* picture parameter sets, slice headers, and the store that ties a slice  *)
(* to its sets.  A parser is a sequence of elements: how each is coded,    *)
(* which values are accepted, and when it is present.  A header is a       *)
(* function from the names of the elements present to their values.        *)
(***************************************************************************)
EXTENDS PlainBits
LOCAL INSTANCE SequencesExt
LOCAL INSTANCE FiniteSetsExt
LOCAL INSTANCE TLC

High == 100
MAX_DPB_FRAMES == 16
MAX_LIST_OPERATIONS == 64
MAX_DECODED_PICTURE_MACROBLOCKS == 36864
Largest == 2 ^ WordBits - 1

(***************************************************************************)
(* Elements.  One is present when an alternative of "when" holds: a        *)
(* function from names to the values that they have.                       *)
(***************************************************************************)
Always == {<<>>}
Is(name, values) == {name :> values}
Both(a, b) == {f @@ g : f \in a, g \in b}
Present(h, when) == \E a \in when : \A k \in DOMAIN a : k \in DOMAIN h /\ h[k] \in a[k]
IsSet(h, name) == name \in DOMAIN h /\ h[name] = 1

Coded(name, code, n, lo, hi) ==
  [name |-> name, code |-> code, n |-> n, of |-> "", lo |-> lo, hi |-> hi, item |-> <<>>, when |-> Always]
U(name, n) == Coded(name, "u", n, 0, 2 ^ n - 1)
Flag(name) == U(name, 1)
UeIn(name, lo, hi) == Coded(name, "ue", 0, lo, hi)
Ue(name) == UeIn(name, 0, Largest)
SeIn(name, lo, hi) == Coded(name, "se", 0, lo, hi)
Se(name) == SeIn(name, - Largest, Largest)
\* n groups of elements, and the value of the element "of" more when there is one.
Items(name, of, n, item) == [Coded(name, "items", n, 0, 0) EXCEPT !.of = of, !.item = item]
ScalingListsOf(name, n, size) == [Coded(name, "lists", n, 0, 0) EXCEPT !.item = size]
\* Groups up to the operation end; item gives the operands of each operation.
Operations(name, end, item) == [Coded(name, "operations", end, 0, 0) EXCEPT !.item = item]

\* Elements that are present under a condition of their own keep it.
When(when, elements) ==
  [k \in DOMAIN elements |-> [elements[k] EXCEPT !.when = IF @ = Always THEN when ELSE @]]
WhenSet(name, elements) == When(Is(name, {1}), elements)
Given(condition, elements) == IF condition THEN elements ELSE <<>>

(***************************************************************************)
(* Reading.  A parser's state is [bits, ok, at, h]; what is refused stays  *)
(* refused.                                                                *)
(***************************************************************************)
New(bits) == [bits |-> bits, ok |-> TRUE, at |-> 0, h |-> <<>>]
Refuse(p) == [p EXCEPT !.ok = FALSE]

Scalar(bits, at, e) ==
  CASE e.code = "u" -> read_bits(bits, at, e.n)
    [] e.code = "ue" -> read_ue(bits, at)
    [] e.code = "se" -> read_se(bits, at)
Took(p, e, r) ==
  IF r.ok /\ r.value \in e.lo .. e.hi
  THEN [p EXCEPT !.at = r.at, !.h = (e.name :> r.value) @@ @] ELSE Refuse(p)
Field(p, e) ==
  IF p.ok /\ Present(p.h, e.when) THEN Took(p, e, Scalar(p.bits, p.at, e)) ELSE p

\* The elements in order, each read before the next one.
RECURSIVE Elements(_, _)
Group(p, item) == Elements([p EXCEPT !.h = <<>>], item)

\* A scaling list: deltas until one makes the scale zero, which repeats the last
\* scale.  The parser's state has the list in h.
NewList == [last |-> 8, next |-> 8, values |-> <<>>, use_default |-> FALSE]
WithScale(list, next) ==
  [last |-> IF next = 0 THEN list.last ELSE next, next |-> next,
   values |-> Append(list.values, IF next = 0 THEN list.last ELSE next),
   use_default |-> list.use_default \/ (list.values = <<>> /\ next = 0)]
WithDelta(p, delta) ==
  IF delta.ok /\ delta.value \in -128 .. 127
  THEN [p EXCEPT !.at = delta.at, !.h = WithScale(@, (@.last + delta.value + 256) % 256)] ELSE Refuse(p)
Scale(p) ==
  IF p.h.next = 0 THEN [p EXCEPT !.h = WithScale(@, 0)] ELSE WithDelta(p, read_se(p.bits, p.at))
RECURSIVE Scales(_, _)
Scales(p, count) == IF ~ p.ok \/ count = 0 THEN p ELSE Scales(Scale(p), count - 1)
ListFinished(p) == [p EXCEPT !.h = ("values" :> @.values) @@ ("use_default" :> @.use_default)]
parse_scaling_list(p, size) == ListFinished(Scales([p EXCEPT !.h = NewList], size))
\* An absent list falls back to another one.
OptionalList(p, size, present) ==
  IF ~ present.ok THEN Refuse(p)
  ELSE IF present.value = 0 THEN [p EXCEPT !.at = present.at, !.h = <<>>]
  ELSE parse_scaling_list([p EXCEPT !.at = present.at], size)
parse_optional_list(p, size) == OptionalList(p, size, read_bits(p.bits, p.at, 1))

\* A group of groups: p.group collects their headers.
Collected(item, prefix) == [item EXCEPT !.group = Append(@, prefix @@ item.h)]
OperationWith(p, e, op) ==
  IF op.ok /\ op.value = e.n THEN [p EXCEPT !.at = op.at, !.done = TRUE]
  ELSE IF ~ op.ok \/ op.value \notin DOMAIN e.item \/ Len(p.group) = MAX_LIST_OPERATIONS
  THEN Refuse(p)
  ELSE Collected(Group([p EXCEPT !.at = op.at], e.item[op.value]), "op" :> op.value)
Operation(p, e) == OperationWith(p, e, read_ue(p.bits, p.at))
GroupItem(p, e) ==
  IF e.code = "operations" THEN Operation(p, e)
  ELSE Collected(IF e.code = "lists" THEN parse_optional_list(p, e.item) ELSE Group(p, e.item), <<>>)
RECURSIVE Groups(_, _, _)
Groups(p, e, count) == IF ~ p.ok \/ count = 0 \/ p.done THEN p ELSE Groups(GroupItem(p, e), e, count - 1)
Count(p, e) ==
  IF e.code = "operations" THEN MAX_LIST_OPERATIONS + 1
  ELSE e.n + (IF e.of = "" THEN 0 ELSE p.h[e.of])
Gathered(p, e, read) ==
  IF read.ok THEN [p EXCEPT !.at = read.at, !.h = (e.name :> read.group) @@ @] ELSE Refuse(p)
Grouped(p, e) == Gathered(p, e, Groups(p @@ [group |-> <<>>, done |-> FALSE], e, Count(p, e)))

Element(p, e) ==
  IF e.code \in {"u", "ue", "se"} THEN Field(p, e)
  ELSE IF Present(p.h, e.when) THEN Grouped(p, e) ELSE p
Elements(p, elements) ==
  IF ~ p.ok \/ elements = <<>> THEN p ELSE Elements(Element(p, Head(elements)), Tail(elements))

Rest(p) == SubSeq(p.bits, p.at + 1, Len(p.bits))
IsTail(rest) == rest # <<>> /\ rest[1] = 1 /\ \A i \in 2 .. Len(rest) : rest[i] = 0
consume_rbsp_trailing_bits(p) ==
  IF p.ok /\ IsTail(Rest(p)) THEN [p EXCEPT !.at = Len(p.bits)] ELSE Refuse(p)
AnyBitsLeft(p) == Rest(p) # <<>>
more_rbsp_data(p) == Rest(p) # <<>> /\ ~ IsTail(Rest(p))

(***************************************************************************)
(* Sequence parameter sets.                                                *)
(***************************************************************************)
\* Six 4x4 lists, then 8x8 lists.
parse_scaling_matrices(flag, eights) ==
  WhenSet(flag, <<ScalingListsOf("scaling_4x4", 6, 16), ScalingListsOf("scaling_8x8", eights, 64)>>)

SampleAspectRatio ==
  WhenSet("aspect_ratio_info_present_flag", <<U("aspect_ratio_idc", 8)>>)
    \o When(Is("aspect_ratio_idc", {255}), <<U("sar_width", 16), U("sar_height", 16)>>)
parse_sample_aspect_ratio(h) ==
  "aspect_ratio_idc" \in DOMAIN h =>
    /\ h.aspect_ratio_idc \in 0 .. 16 \cup {255}
    /\ h.aspect_ratio_idc = 255 => h.sar_width # 0 /\ h.sar_height # 0

\* The HRD parameters are stepped over.
parse_hrd_parameters(flag) ==
  WhenSet(flag, <<UeIn("cpb_cnt_minus1", 0, 31), U("bit_rate_scale", 4), U("cpb_size_scale", 4),
                  Items("cpb", "cpb_cnt_minus1", 1, <<Ue("rate"), Ue("size"), Flag("cbr")>>),
                  U("initial", 5), U("removal", 5), U("output", 5), U("offset", 5)>>)
HrdNames ==
  {"cpb_cnt_minus1", "bit_rate_scale", "cpb_size_scale", "cpb", "initial", "removal", "output", "offset"}
Without(h, names) == [k \in DOMAIN h \ names |-> h[k]]

parse_vui ==
  LET Nonzero(name) == [U(name, WordBits) EXCEPT !.lo = 1] IN
  WhenSet("vui_parameters_present_flag",
    <<Flag("aspect_ratio_info_present_flag")>> \o SampleAspectRatio
    \o <<Flag("overscan_info_present_flag")>>
    \o WhenSet("overscan_info_present_flag", <<Flag("overscan_appropriate_flag")>>)
    \o <<Flag("video_signal_type_present_flag")>>
    \o WhenSet("video_signal_type_present_flag",
         <<U("video_format", 3), Flag("video_full_range_flag"), Flag("colour_description_present_flag")>>)
    \o WhenSet("colour_description_present_flag",
         <<U("colour_primaries", 8), U("transfer_characteristics", 8), U("matrix_coefficients", 8)>>)
    \o <<Flag("chroma_loc_info_present_flag")>>
    \o WhenSet("chroma_loc_info_present_flag",
         <<Ue("chroma_sample_loc_type_top_field"), Ue("chroma_sample_loc_type_bottom_field")>>)
    \o <<Flag("timing_info_present_flag")>>
    \o WhenSet("timing_info_present_flag",
         <<Nonzero("num_units_in_tick"), Nonzero("time_scale"), Flag("fixed_frame_rate_flag")>>)
    \o <<Flag("nal_hrd_parameters_present_flag")>> \o parse_hrd_parameters("nal_hrd_parameters_present_flag")
    \o <<Flag("vcl_hrd_parameters_present_flag")>> \o parse_hrd_parameters("vcl_hrd_parameters_present_flag")
    \o When(Is("nal_hrd_parameters_present_flag", {1}) \cup Is("vcl_hrd_parameters_present_flag", {1}),
            <<Flag("low_delay_hrd_flag")>>)
    \o <<Flag("pic_struct_present_flag"), Flag("bitstream_restriction_flag")>>
    \o WhenSet("bitstream_restriction_flag",
         <<Flag("motion_vectors_over_pic_boundaries_flag"), Ue("max_bytes_per_pic_denom"),
           Ue("max_bits_per_mb_denom"), Ue("log2_max_mv_length_horizontal"),
           Ue("log2_max_mv_length_vertical"), Ue("max_num_reorder_frames"),
           UeIn("max_dec_frame_buffering", 0, MAX_DPB_FRAMES)>>))
VuiValid(h) ==
  /\ parse_sample_aspect_ratio(h)
  /\ IsSet(h, "bitstream_restriction_flag") => h.max_num_reorder_frames <= h.max_dec_frame_buffering

FrameFactor(h) == IF h.frame_mbs_only_flag = 1 THEN 1 ELSE 2
derive_coded_size(h) ==
  [width |-> 16 * (h.pic_width_in_mbs_minus1 + 1),
   height |-> 16 * FrameFactor(h) * (h.pic_height_in_map_units_minus1 + 1)]
CropUnitY(h) == 2 * FrameFactor(h)
derive_visible_rect(h) ==
  LET coded == derive_coded_size(h)
  IN  IF IsSet(h, "frame_cropping_flag")
      THEN [x |-> 2 * h.frame_crop_left_offset, y |-> CropUnitY(h) * h.frame_crop_top_offset,
            width |-> coded.width - 2 * (h.frame_crop_left_offset + h.frame_crop_right_offset),
            height |-> coded.height - CropUnitY(h) * (h.frame_crop_top_offset + h.frame_crop_bottom_offset)]
      ELSE [x |-> 0, y |-> 0, width |-> coded.width, height |-> coded.height]

AspectRatio ==
  <<<<1, 1>>, <<12, 11>>, <<10, 11>>, <<16, 11>>, <<40, 33>>, <<24, 11>>, <<20, 11>>, <<32, 11>>,
    <<80, 33>>, <<18, 11>>, <<15, 11>>, <<64, 33>>, <<160, 99>>, <<4, 3>>, <<3, 2>>, <<2, 1>>>>
SampleAspect(h) ==
  IF "aspect_ratio_idc" \notin DOMAIN h \/ h.aspect_ratio_idc = 0 THEN <<1, 1>>
  ELSE IF h.aspect_ratio_idc = 255 THEN <<h.sar_width, h.sar_height>>
  ELSE AspectRatio[h.aspect_ratio_idc]
\* The width at which square samples show the picture, rounded.
derive_display_size(h) ==
  LET visible == derive_visible_rect(h)
      sar == SampleAspect(h)
  IN  [width |-> (visible.width * sar[1] + (sar[2] \div 2)) \div sar[2], height |-> visible.height]

SizesValid(h) ==
  /\ (h.pic_width_in_mbs_minus1 + 1) * (h.pic_height_in_map_units_minus1 + 1) * FrameFactor(h)
       <= MAX_DECODED_PICTURE_MACROBLOCKS
  /\ derive_visible_rect(h).width > 0 /\ derive_visible_rect(h).height > 0
  /\ derive_display_size(h).width > 0

SpsElements ==
  <<U("profile_idc", 8), U("constraint_flags", 6), [U("reserved_zero_2bits", 2) EXCEPT !.hi = 0],
    U("level_idc", 8), UeIn("seq_parameter_set_id", 0, 31)>>
  \o When(Is("profile_idc", {High}),
       <<UeIn("chroma_format_idc", 1, 1), UeIn("bit_depth_luma_minus8", 0, 0),
         UeIn("bit_depth_chroma_minus8", 0, 0), Flag("qpprime_y_zero_transform_bypass_flag"),
         Flag("seq_scaling_matrix_present_flag")>>)
  \o parse_scaling_matrices("seq_scaling_matrix_present_flag", 2)
  \o <<UeIn("log2_max_frame_num_minus4", 0, 12), UeIn("pic_order_cnt_type", 0, 2)>>
  \o When(Is("pic_order_cnt_type", {0}), <<UeIn("log2_max_pic_order_cnt_lsb_minus4", 0, 12)>>)
  \o When(Is("pic_order_cnt_type", {1}),
       <<Flag("delta_pic_order_always_zero_flag"), Se("offset_for_non_ref_pic"),
         Se("offset_for_top_to_bottom_field"), UeIn("num_ref_frames_in_pic_order_cnt_cycle", 0, 255),
         Items("offset_for_ref_frame", "num_ref_frames_in_pic_order_cnt_cycle", 0, <<Se("offset")>>)>>)
  \o <<UeIn("max_num_ref_frames", 0, MAX_DPB_FRAMES), Flag("gaps_in_frame_num_value_allowed_flag"),
       UeIn("pic_width_in_mbs_minus1", 0, Largest - 1),
       UeIn("pic_height_in_map_units_minus1", 0, Largest - 1), Flag("frame_mbs_only_flag")>>
  \o When(Is("frame_mbs_only_flag", {0}), <<Flag("mb_adaptive_frame_field_flag")>>)
  \o <<Flag("direct_8x8_inference_flag"), Flag("frame_cropping_flag")>>
  \o WhenSet("frame_cropping_flag",
       <<Ue("frame_crop_left_offset"), Ue("frame_crop_right_offset"),
         Ue("frame_crop_top_offset"), Ue("frame_crop_bottom_offset")>>)
  \o <<Flag("vui_parameters_present_flag")>> \o parse_vui

parse_sps(bits) ==
  LET read == consume_rbsp_trailing_bits(Elements(New(bits), SpsElements))
      h == Without(read.h, HrdNames)
  IN  IF /\ read.ok /\ VuiValid(h)
         /\ h.profile_idc \in {66, 77, High}
         /\ SizesValid(h)
      THEN [read EXCEPT !.h = h] ELSE Refuse(read)

(***************************************************************************)
(* Picture parameter sets, parsed against their sequence parameter set.    *)
(***************************************************************************)
MapUnits(sps) == (sps.pic_width_in_mbs_minus1 + 1) * (sps.pic_height_in_map_units_minus1 + 1)

validate_slice_group_rectangle(r, sps) ==
  /\ r.top_left <= r.bottom_right /\ r.bottom_right < MapUnits(sps)
  /\ r.top_left % (sps.pic_width_in_mbs_minus1 + 1) <= r.bottom_right % (sps.pic_width_in_mbs_minus1 + 1)

BitsFor(count) == Min({n \in 0 .. WordBits : 2 ^ n >= count})

parse_slice_group_map(sps) ==
  LET units == MapUnits(sps)
      Explicit(groups) ==
        When(Both(Is("slice_group_map_type", {6}), Is("num_slice_groups_minus1", {groups - 1})),
             <<Items("slice_group_id", "", units,
                     <<[U("id", BitsFor(groups)) EXCEPT !.hi = groups - 1]>>)>>)
  IN  When(Is("num_slice_groups_minus1", 1 .. 7), <<UeIn("slice_group_map_type", 0, 6)>>)
      \o When(Is("slice_group_map_type", {0}),
              <<Items("run_length_minus1", "num_slice_groups_minus1", 1, <<UeIn("run", 0, units - 1)>>)>>)
      \o When(Is("slice_group_map_type", {2}),
              <<Items("rectangles", "num_slice_groups_minus1", 0, <<Ue("top_left"), Ue("bottom_right")>>)>>)
      \o When(Is("slice_group_map_type", 3 .. 5),
              <<Flag("slice_group_change_direction_flag"), UeIn("slice_group_change_rate_minus1", 0, units - 1)>>)
      \o When(Is("slice_group_map_type", {6}), <<UeIn("pic_size_in_map_units_minus1", units - 1, units - 1)>>)
      \o FlattenSeq([g \in 1 .. 7 |-> Explicit(g + 1)])
SliceGroupsValid(h, sps) ==
  /\ "slice_group_change_rate_minus1" \in DOMAIN h => h.num_slice_groups_minus1 = 1
  /\ "rectangles" \in DOMAIN h =>
       \A k \in DOMAIN h.rectangles : validate_slice_group_rectangle(h.rectangles[k], sps)

PpsElements(sps) ==
  <<UeIn("pic_parameter_set_id", 0, 255), UeIn("seq_parameter_set_id", 0, 31),
    Flag("entropy_coding_mode_flag"), Flag("bottom_field_pic_order_in_frame_present_flag"),
    UeIn("num_slice_groups_minus1", 0, 7)>>
  \o parse_slice_group_map(sps)
  \o <<UeIn("num_ref_idx_l0_default_active_minus1", 0, 31), UeIn("num_ref_idx_l1_default_active_minus1", 0, 31),
       Flag("weighted_pred_flag"), [U("weighted_bipred_idc", 2) EXCEPT !.hi = 2],
       SeIn("pic_init_qp_minus26", -26, 25), SeIn("pic_init_qs_minus26", -26, 25),
       SeIn("chroma_qp_index_offset", -12, 12), Flag("deblocking_filter_control_present_flag"),
       Flag("constrained_intra_pred_flag"), Flag("redundant_pic_cnt_present_flag")>>
PpsExtension ==
  <<Flag("transform_8x8_mode_flag"), Flag("pic_scaling_matrix_present_flag")>>
  \o WhenSet("pic_scaling_matrix_present_flag",
       <<ScalingListsOf("scaling_4x4", 6, 16)>>
       \o [eights \in 1 .. 2 |->
             [ScalingListsOf("scaling_8x8", 2 * (eights - 1), 64) EXCEPT
                !.when = Both(Is("pic_scaling_matrix_present_flag", {1}),
                              Is("transform_8x8_mode_flag", {eights - 1}))]])
  \o <<SeIn("second_chroma_qp_index_offset", -12, 12)>>
Extended(p) == IF p.ok /\ more_rbsp_data(p) THEN Elements(p, PpsExtension) ELSE p

parse_pps(bits, sps) ==
  LET read == consume_rbsp_trailing_bits(Extended(Elements(New(bits), PpsElements(sps))))
  IN  IF /\ read.ok
         /\ read.h.seq_parameter_set_id = sps.seq_parameter_set_id
         /\ SliceGroupsValid(read.h, sps)
      THEN read ELSE Refuse(read)

(***************************************************************************)
(* The store: sps and pps are functions from the ids seen; a picture       *)
(* parameter set keeps the version of the set it was parsed against.       *)
(***************************************************************************)
NoSets == [sps |-> <<>>, pps |-> <<>>]
StoreSps(store, bits) ==
  LET set == parse_sps(bits)
  IN  IF set.ok THEN [store EXCEPT !.sps = (set.h.seq_parameter_set_id :> set.h) @@ @] ELSE store
StorePps(store, bits) ==
  LET ids == Elements(New(bits), <<UeIn("pps", 0, 255), UeIn("sps", 0, 31)>>)
      set == parse_pps(bits, store.sps[ids.h.sps])
  IN  IF ids.ok /\ ids.h.sps \in DOMAIN store.sps /\ set.ok
      THEN [store EXCEPT !.pps = (ids.h.pps :> [sequence |-> store.sps[ids.h.sps], picture |-> set.h]) @@ @]
      ELSE store

(***************************************************************************)
(* Slice headers.  nal is [ref_idc, idr]; slice types are those modulo 5.  *)
(***************************************************************************)
P == 0
B == 1
I == 2
Sp == 3
Si == 4
SliceType(h) == h.slice_type % 5
is_intra(h) == SliceType(h) \in {I, Si}
Of(types) == Is("slice_type", {t \in 0 .. 9 : t % 5 \in types})
Inter == Of({P, B, Sp})

validate_first_macroblock(h, sps) ==
  LET mbaff == IsSet(sps, "mb_adaptive_frame_field_flag") /\ ~ IsSet(h, "field_pic_flag")
      macroblocks == MapUnits(sps) * (IF IsSet(h, "field_pic_flag") THEN 1 ELSE FrameFactor(sps))
  IN  h.first_mb_in_slice * (IF mbaff THEN 2 ELSE 1) < macroblocks

\* The second delta is sent for frames only.
parse_picture_order(sps, pps) ==
  LET frame == IF IsSet(sps, "frame_mbs_only_flag") THEN Always ELSE Is("field_pic_flag", {0})
      paired == IsSet(pps, "bottom_field_pic_order_in_frame_present_flag")
      deltas == sps.pic_order_cnt_type = 1 /\ ~ IsSet(sps, "delta_pic_order_always_zero_flag")
  IN  Given(sps.pic_order_cnt_type = 0,
            <<U("pic_order_cnt_lsb", sps.log2_max_pic_order_cnt_lsb_minus4 + 4)>>
            \o Given(paired, When(frame, <<Se("delta_pic_order_cnt_bottom")>>)))
      \o Given(deltas, <<Se("delta_pic_order_cnt_0")>> \o Given(paired, When(frame, <<Se("delta_pic_order_cnt_1")>>)))

Override(flag) == Is("num_ref_idx_active_override_flag", {flag})
parse_reference_counts ==
  When(Inter, <<Flag("num_ref_idx_active_override_flag")>>)
    \o When(Override(1), <<UeIn("num_ref_idx_l0_active_minus1", 0, 31)>>)
    \o When(Both(Override(1), Of({B})), <<UeIn("num_ref_idx_l1_active_minus1", 0, 31)>>)

ModificationOperands ==
  (0 :> <<UeIn("value", 0, Largest - 1)>>) @@ (1 :> <<UeIn("value", 0, Largest - 1)>>) @@ (2 :> <<Ue("value")>>)
parse_reference_list_modifications ==
  When(Inter, <<Flag("ref_pic_list_modification_flag_l0")>>)
    \o WhenSet("ref_pic_list_modification_flag_l0", <<Operations("modifications_l0", 3, ModificationOperands)>>)
    \o When(Of({B}), <<Flag("ref_pic_list_modification_flag_l1")>>)
    \o WhenSet("ref_pic_list_modification_flag_l1", <<Operations("modifications_l1", 3, ModificationOperands)>>)

WeightsWhenBipredicted(type, pps) ==
  \/ pps.weighted_pred_flag = 1 /\ type % 5 \in {P, Sp}
  \/ pps.weighted_bipred_idc # 0 /\ type % 5 = B
needs_prediction_weight_table(type, pps) ==
  \/ pps.weighted_pred_flag = 1 /\ type % 5 \in {P, Sp}
  \/ pps.weighted_bipred_idc = 1 /\ type % 5 = B
parse_prediction_weights ==
  LET Weight(name) == SeIn(name, -128, 127)
  IN  <<Flag("luma")>> \o WhenSet("luma", <<Weight("weight"), Weight("offset")>>)
      \o <<Flag("chroma")>>
      \o WhenSet("chroma", <<Weight("weight_cb"), Weight("offset_cb"), Weight("weight_cr"), Weight("offset_cr")>>)
\* As many entries as the list has references: the header's number or the set's.
parse_prediction_weight_table(pps) ==
  LET weighted == {t \in 0 .. 9 : needs_prediction_weight_table(t, pps)}
      List(name, types, minus1, default) ==
        When(Both(Override(1), Is("slice_type", types)), <<Items(name, minus1, 1, parse_prediction_weights)>>)
        \o When(Both(Override(0), Is("slice_type", types)),
                <<Items(name, "", default + 1, parse_prediction_weights)>>)
  IN  When(Is("slice_type", weighted),
           <<UeIn("luma_log2_weight_denom", 0, 7), UeIn("chroma_log2_weight_denom", 0, 7)>>)
      \o List("weights_l0", weighted, "num_ref_idx_l0_active_minus1",
              pps.num_ref_idx_l0_default_active_minus1)
      \o List("weights_l1", {t \in weighted : t % 5 = B}, "num_ref_idx_l1_active_minus1",
              pps.num_ref_idx_l1_default_active_minus1)

MarkingOperands ==
  LET Difference == UeIn("difference_of_pic_nums_minus1", 0, Largest - 1)
  IN  (1 :> <<Difference>>) @@ (2 :> <<Ue("long_term_pic_num")>>)
        @@ (3 :> <<Difference, Ue("long_term_frame_idx")>>) @@ (4 :> <<Ue("max_long_term_frame_idx_plus1")>>)
        @@ (5 :> <<>>) @@ (6 :> <<Ue("long_term_frame_idx")>>)
parse_reference_picture_marking(nal) ==
  IF nal.ref_idc = 0 THEN <<>>
  ELSE IF nal.idr THEN <<Flag("no_output_of_prior_pics_flag"), Flag("long_term_reference_flag")>>
  ELSE <<Flag("adaptive_ref_pic_marking_mode_flag")>>
       \o WhenSet("adaptive_ref_pic_marking_mode_flag", <<Operations("operations", 0, MarkingOperands)>>)

derive_slice_quantizer(initial_minus26, delta) == initial_minus26 + 26 + delta

parse_deblocking_filter(pps) ==
  Given(IsSet(pps, "deblocking_filter_control_present_flag"),
    <<UeIn("disable_deblocking_filter_idc", 0, 2)>>
    \o When(Is("disable_deblocking_filter_idc", {0, 2}),
            <<SeIn("slice_alpha_c0_offset_div2", -6, 6), SeIn("slice_beta_offset_div2", -6, 6)>>))

\* Floor of the binary logarithm.
Log2(n) == Max({k \in 0 .. WordBits : 2 ^ k <= n})
parse_slice_group_change_cycle(sps, pps) ==
  IF "slice_group_change_rate_minus1" \notin DOMAIN pps THEN <<>>
  ELSE LET rate == pps.slice_group_change_rate_minus1 + 1
           cycles == (MapUnits(sps) + rate - 1) \div rate
       IN  <<[U("slice_group_change_cycle", Log2(MapUnits(sps) \div rate) + 1) EXCEPT
                !.hi = Min({@, cycles})]>>

SliceElements(nal, sps, pps) ==
  <<U("frame_num", sps.log2_max_frame_num_minus4 + 4)>>
  \o Given(sps.frame_mbs_only_flag = 0, <<Flag("field_pic_flag")>>)
  \o WhenSet("field_pic_flag", <<Flag("bottom_field_flag")>>)
  \o Given(nal.idr, <<UeIn("idr_pic_id", 0, 65535)>>)
  \o parse_picture_order(sps, pps)
  \o Given(IsSet(pps, "redundant_pic_cnt_present_flag"), <<UeIn("redundant_pic_cnt", 0, 127)>>)
  \o When(Of({B}), <<Flag("direct_spatial_mv_pred_flag")>>)
  \o parse_reference_counts \o parse_reference_list_modifications
  \o parse_prediction_weight_table(pps) \o parse_reference_picture_marking(nal)
  \o Given(IsSet(pps, "entropy_coding_mode_flag"), When(Inter, <<UeIn("cabac_init_idc", 0, 2)>>))
  \o <<Se("slice_qp_delta")>>
  \o When(Of({Sp}), <<Flag("sp_for_switch_flag")>>)
  \o When(Of({Sp, Si}), <<Se("slice_qs_delta")>>)
  \o parse_deblocking_filter(pps) \o parse_slice_group_change_cycle(sps, pps)
SliceValid(h, nal, sps, pps) ==
  /\ nal.idr => h.frame_num = 0
  /\ validate_first_macroblock(h, sps)
  /\ derive_slice_quantizer(pps.pic_init_qp_minus26, h.slice_qp_delta) \in 0 .. 51
  /\ "slice_qs_delta" \in DOMAIN h =>
       derive_slice_quantizer(pps.pic_init_qs_minus26, h.slice_qs_delta) \in 0 .. 51

\* The header, its end in bits, and the sets it was read with.
ParseWith(p, nal, sps, pps) ==
  LET read == Elements(p, SliceElements(nal, sps, pps))
  IN  IF read.ok /\ SliceValid(read.h, nal, sps, pps) THEN read ELSE Refuse(read)
parse_slice_header(bits, nal, store) ==
  LET id == Elements(New(bits), <<Ue("first_mb_in_slice"), UeIn("slice_type", 0, 9),
                                  UeIn("pic_parameter_set_id", 0, 255)>>)
      active == store.pps[id.h.pic_parameter_set_id]
  IN  IF /\ id.ok /\ id.h.pic_parameter_set_id \in DOMAIN store.pps
         /\ nal.idr => is_intra(id.h) /\ nal.ref_idc > 0
      THEN ParseWith(id, nal, active.sequence, active.picture) ELSE Refuse(id)
=============================================================================
