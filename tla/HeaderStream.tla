----------------------------- MODULE HeaderStream -----------------------------
(***************************************************************************)
(* A writer of headers: the syntax elements a header has, in the order and *)
(* with the codes of H.264 7.3, and the headers of a small stream.  What   *)
(* the parser reads must be what was written.                              *)
(***************************************************************************)
EXTENDS HeaderSyntax
LOCAL INSTANCE SequencesExt
LOCAL INSTANCE FiniteSetsExt
LOCAL INSTANCE TLC

Bits(value, n) == [i \in 1 .. n |-> (value \div 2 ^ (n - i)) % 2]
UeBits(value) == [i \in 1 .. Log2(value + 1) |-> 0] \o Bits(value + 1, Log2(value + 1) + 1)
SeBits(value) == UeBits(IF value > 0 THEN 2 * value - 1 ELSE - 2 * value)
Trailing(bits) == bits \o <<1>> \o [i \in 1 .. (7 - Len(bits)) % 8 |-> 0]

\* u(n) is n, ue(v) 0 and se(v) -1; the other codes are of groups.
ue == 0
se == -1
items == -2
modifications == -3
markings == -4
lists == -5
hrd == -6

\* A list ends as soon as its last value repeats; the default has no value.
Wrapped(d) == IF d > 127 THEN d - 256 ELSE IF d < -128 THEN d + 256 ELSE d
ScaleDeltas(v) == [i \in DOMAIN v |-> Wrapped(v[i] - (IF i = 1 THEN 8 ELSE v[i - 1]))]
Distinct(v) == Min({k \in DOMAIN v : \A i \in k .. Len(v) : v[i] = v[k]})
ListBits(v, n) ==
  <<1>> \o FlattenSeq([i \in 1 .. n |-> SeBits(ScaleDeltas(v)[i])])
        \o (IF n = Len(v) THEN <<>> ELSE SeBits(Wrapped(- v[n])))
ScalingListBits(list) ==
  IF "values" \notin DOMAIN list THEN <<0>>
  ELSE IF list.use_default THEN <<1>> \o SeBits(-8)
  ELSE ListBits(list.values, Distinct(list.values))

HrdBits == UeBits(1) \o Bits(5, 4) \o Bits(6, 4) \o UeBits(9) \o UeBits(4) \o <<1>>
             \o UeBits(0) \o UeBits(7) \o <<0>> \o Bits(23, 20)

\* The elements of a group, in order.
ItemOrder ==
  <<<<"op", ue>>, <<"difference_of_pic_nums_minus1", ue>>, <<"long_term_pic_num", ue>>,
    <<"long_term_frame_idx", ue>>, <<"max_long_term_frame_idx_plus1", ue>>, <<"value", ue>>,
    <<"run", ue>>, <<"top_left", ue>>, <<"bottom_right", ue>>, <<"id", 2>>,
    <<"luma", 1>>, <<"weight", se>>, <<"offset", se>>,
    <<"chroma", 1>>, <<"weight_cb", se>>, <<"offset_cb", se>>, <<"weight_cr", se>>, <<"offset_cr", se>>>>

ScalarBits(value, code) ==
  IF code > 0 THEN Bits(value, code) ELSE IF code = ue THEN UeBits(value) ELSE SeBits(value)
ScalarsOf(h, order) ==
  FlattenSeq([k \in DOMAIN order |->
    IF order[k][1] \in DOMAIN h THEN ScalarBits(h[order[k][1]], order[k][2]) ELSE <<>>])
ItemsBits(group) == FlattenSeq([k \in DOMAIN group |-> ScalarsOf(group[k], ItemOrder)])

ElementBits(value, code) ==
  CASE code = items -> ItemsBits(value)
    [] code = modifications -> ItemsBits(value) \o UeBits(3)
    [] code = markings -> ItemsBits(value) \o UeBits(0)
    [] code = lists -> FlattenSeq([k \in DOMAIN value |-> ScalingListBits(value[k])])
    [] code = hrd -> <<value>> \o (IF value = 1 THEN HrdBits ELSE <<>>)
    [] OTHER -> ScalarBits(value, code)
Written(h, order) ==
  FlattenSeq([k \in DOMAIN order |->
    IF order[k][1] \in DOMAIN h THEN ElementBits(h[order[k][1]], order[k][2]) ELSE <<>>])

SpsOrder ==
  <<<<"profile_idc", 8>>, <<"constraint_flags", 6>>, <<"reserved_zero_2bits", 2>>, <<"level_idc", 8>>,
    <<"seq_parameter_set_id", ue>>, <<"chroma_format_idc", ue>>, <<"bit_depth_luma_minus8", ue>>,
    <<"bit_depth_chroma_minus8", ue>>, <<"qpprime_y_zero_transform_bypass_flag", 1>>,
    <<"seq_scaling_matrix_present_flag", 1>>, <<"scaling_4x4", lists>>, <<"scaling_8x8", lists>>,
    <<"log2_max_frame_num_minus4", ue>>, <<"pic_order_cnt_type", ue>>,
    <<"log2_max_pic_order_cnt_lsb_minus4", ue>>, <<"delta_pic_order_always_zero_flag", 1>>,
    <<"offset_for_non_ref_pic", se>>, <<"offset_for_top_to_bottom_field", se>>,
    <<"num_ref_frames_in_pic_order_cnt_cycle", ue>>, <<"offset_for_ref_frame", items>>,
    <<"max_num_ref_frames", ue>>, <<"gaps_in_frame_num_value_allowed_flag", 1>>,
    <<"pic_width_in_mbs_minus1", ue>>, <<"pic_height_in_map_units_minus1", ue>>,
    <<"frame_mbs_only_flag", 1>>, <<"mb_adaptive_frame_field_flag", 1>>,
    <<"direct_8x8_inference_flag", 1>>, <<"frame_cropping_flag", 1>>, <<"frame_crop_left_offset", ue>>,
    <<"frame_crop_right_offset", ue>>, <<"frame_crop_top_offset", ue>>, <<"frame_crop_bottom_offset", ue>>,
    <<"vui_parameters_present_flag", 1>>, <<"aspect_ratio_info_present_flag", 1>>,
    <<"aspect_ratio_idc", 8>>, <<"sar_width", 16>>, <<"sar_height", 16>>,
    <<"overscan_info_present_flag", 1>>, <<"overscan_appropriate_flag", 1>>,
    <<"video_signal_type_present_flag", 1>>, <<"video_format", 3>>, <<"video_full_range_flag", 1>>,
    <<"colour_description_present_flag", 1>>, <<"colour_primaries", 8>>,
    <<"transfer_characteristics", 8>>, <<"matrix_coefficients", 8>>,
    <<"chroma_loc_info_present_flag", 1>>, <<"chroma_sample_loc_type_top_field", ue>>,
    <<"chroma_sample_loc_type_bottom_field", ue>>, <<"timing_info_present_flag", 1>>,
    <<"num_units_in_tick", WordBits>>, <<"time_scale", WordBits>>, <<"fixed_frame_rate_flag", 1>>,
    <<"nal_hrd_parameters_present_flag", hrd>>, <<"vcl_hrd_parameters_present_flag", hrd>>,
    <<"low_delay_hrd_flag", 1>>, <<"pic_struct_present_flag", 1>>, <<"bitstream_restriction_flag", 1>>,
    <<"motion_vectors_over_pic_boundaries_flag", 1>>, <<"max_bytes_per_pic_denom", ue>>,
    <<"max_bits_per_mb_denom", ue>>, <<"log2_max_mv_length_horizontal", ue>>,
    <<"log2_max_mv_length_vertical", ue>>, <<"max_num_reorder_frames", ue>>,
    <<"max_dec_frame_buffering", ue>>>>

PpsOrder ==
  <<<<"pic_parameter_set_id", ue>>, <<"seq_parameter_set_id", ue>>, <<"entropy_coding_mode_flag", 1>>,
    <<"bottom_field_pic_order_in_frame_present_flag", 1>>, <<"num_slice_groups_minus1", ue>>,
    <<"slice_group_map_type", ue>>, <<"run_length_minus1", items>>, <<"rectangles", items>>,
    <<"slice_group_change_direction_flag", 1>>, <<"slice_group_change_rate_minus1", ue>>,
    <<"pic_size_in_map_units_minus1", ue>>, <<"slice_group_id", items>>,
    <<"num_ref_idx_l0_default_active_minus1", ue>>, <<"num_ref_idx_l1_default_active_minus1", ue>>,
    <<"weighted_pred_flag", 1>>, <<"weighted_bipred_idc", 2>>, <<"pic_init_qp_minus26", se>>,
    <<"pic_init_qs_minus26", se>>, <<"chroma_qp_index_offset", se>>,
    <<"deblocking_filter_control_present_flag", 1>>, <<"constrained_intra_pred_flag", 1>>,
    <<"redundant_pic_cnt_present_flag", 1>>, <<"transform_8x8_mode_flag", 1>>,
    <<"pic_scaling_matrix_present_flag", 1>>, <<"scaling_4x4", lists>>, <<"scaling_8x8", lists>>,
    <<"second_chroma_qp_index_offset", se>>>>

SliceOrder(sps, cycle_bits) ==
  <<<<"first_mb_in_slice", ue>>, <<"slice_type", ue>>, <<"pic_parameter_set_id", ue>>,
    <<"frame_num", sps.log2_max_frame_num_minus4 + 4>>, <<"field_pic_flag", 1>>, <<"bottom_field_flag", 1>>,
    <<"idr_pic_id", ue>>,
    <<"pic_order_cnt_lsb", IF sps.pic_order_cnt_type = 0 THEN sps.log2_max_pic_order_cnt_lsb_minus4 + 4 ELSE 0>>,
    <<"delta_pic_order_cnt_bottom", se>>, <<"delta_pic_order_cnt_0", se>>, <<"delta_pic_order_cnt_1", se>>,
    <<"redundant_pic_cnt", ue>>, <<"direct_spatial_mv_pred_flag", 1>>,
    <<"num_ref_idx_active_override_flag", 1>>, <<"num_ref_idx_l0_active_minus1", ue>>,
    <<"num_ref_idx_l1_active_minus1", ue>>, <<"ref_pic_list_modification_flag_l0", 1>>,
    <<"modifications_l0", modifications>>, <<"ref_pic_list_modification_flag_l1", 1>>,
    <<"modifications_l1", modifications>>, <<"luma_log2_weight_denom", ue>>,
    <<"chroma_log2_weight_denom", ue>>, <<"weights_l0", items>>, <<"weights_l1", items>>,
    <<"no_output_of_prior_pics_flag", 1>>, <<"long_term_reference_flag", 1>>,
    <<"adaptive_ref_pic_marking_mode_flag", 1>>, <<"operations", markings>>, <<"cabac_init_idc", ue>>,
    <<"slice_qp_delta", se>>, <<"sp_for_switch_flag", 1>>, <<"slice_qs_delta", se>>,
    <<"disable_deblocking_filter_idc", ue>>, <<"slice_alpha_c0_offset_div2", se>>,
    <<"slice_beta_offset_div2", se>>, <<"slice_group_change_cycle", cycle_bits>>>>

(***************************************************************************)
(* Headers.  Which elements are present follows H.264 7.3; a choice is a   *)
(* record of what varies.                                                  *)
(***************************************************************************)
If(condition, elements) == IF condition THEN elements ELSE <<>>
Number(flag) == IF flag THEN 1 ELSE 0

FlatList(size) == [values |-> [i \in 1 .. size |-> 20], use_default |-> FALSE]
DefaultList(size) == [values |-> [i \in 1 .. size |-> 8], use_default |-> TRUE]
SlopedList(size) == [values |-> [i \in 1 .. size |-> IF i < 4 THEN 250 - 70 * i ELSE 7], use_default |-> FALSE]
ScalingLists(eights) ==
  [scaling_4x4 |-> <<FlatList(16), <<>>, DefaultList(16), SlopedList(16), <<>>, FlatList(16)>>,
   scaling_8x8 |-> SubSeq(<<SlopedList(64), <<>>>>, 1, eights)]

FullVui ==
  [aspect_ratio_info_present_flag |-> 1, aspect_ratio_idc |-> 255, sar_width |-> 3, sar_height |-> 40,
   overscan_info_present_flag |-> 1, overscan_appropriate_flag |-> 0, video_signal_type_present_flag |-> 1,
   video_format |-> 5, video_full_range_flag |-> 1, colour_description_present_flag |-> 1,
   colour_primaries |-> 9, transfer_characteristics |-> 16, matrix_coefficients |-> 9,
   chroma_loc_info_present_flag |-> 1, chroma_sample_loc_type_top_field |-> 2,
   chroma_sample_loc_type_bottom_field |-> 3, timing_info_present_flag |-> 1,
   num_units_in_tick |-> 1001, time_scale |-> 60000, fixed_frame_rate_flag |-> 1,
   nal_hrd_parameters_present_flag |-> 1, vcl_hrd_parameters_present_flag |-> 0, low_delay_hrd_flag |-> 1,
   pic_struct_present_flag |-> 1, bitstream_restriction_flag |-> 1,
   motion_vectors_over_pic_boundaries_flag |-> 1, max_bytes_per_pic_denom |-> 0,
   max_bits_per_mb_denom |-> 1, log2_max_mv_length_horizontal |-> 9,
   log2_max_mv_length_vertical |-> 8, max_num_reorder_frames |-> 2, max_dec_frame_buffering |-> 4]
PlainVui ==
  [aspect_ratio_info_present_flag |-> 1, aspect_ratio_idc |-> 4, overscan_info_present_flag |-> 0,
   video_signal_type_present_flag |-> 0, chroma_loc_info_present_flag |-> 0,
   timing_info_present_flag |-> 0, nal_hrd_parameters_present_flag |-> 0,
   vcl_hrd_parameters_present_flag |-> 0, pic_struct_present_flag |-> 0, bitstream_restriction_flag |-> 0]

\* [high, matrices, order, deltas, fields, crop, vui]; crop is <<>> or four offsets.
SpsOf(c) ==
  [profile_idc |-> IF c.high THEN High ELSE 77, constraint_flags |-> 5, reserved_zero_2bits |-> 0,
   level_idc |-> 40, seq_parameter_set_id |-> 1, log2_max_frame_num_minus4 |-> 1,
   pic_order_cnt_type |-> c.order, max_num_ref_frames |-> 4, gaps_in_frame_num_value_allowed_flag |-> 0,
   pic_width_in_mbs_minus1 |-> 2, pic_height_in_map_units_minus1 |-> 1,
   frame_mbs_only_flag |-> Number(~ c.fields), direct_8x8_inference_flag |-> 1,
   frame_cropping_flag |-> Number(c.crop # <<>>), vui_parameters_present_flag |-> Number(c.vui > 0)]
  @@ If(c.high, [chroma_format_idc |-> 1, bit_depth_luma_minus8 |-> 0, bit_depth_chroma_minus8 |-> 0,
                 qpprime_y_zero_transform_bypass_flag |-> 1,
                 seq_scaling_matrix_present_flag |-> Number(c.matrices)])
  @@ If(c.high /\ c.matrices, ScalingLists(2))
  @@ If(c.order = 0, [log2_max_pic_order_cnt_lsb_minus4 |-> 2])
  @@ If(c.order = 1, [delta_pic_order_always_zero_flag |-> Number(~ c.deltas), offset_for_non_ref_pic |-> -3,
                      offset_for_top_to_bottom_field |-> 1, num_ref_frames_in_pic_order_cnt_cycle |-> 2,
                      offset_for_ref_frame |-> <<[offset |-> 5], [offset |-> -2]>>])
  @@ If(c.fields, [mb_adaptive_frame_field_flag |-> 1])
  @@ If(c.crop # <<>>, [frame_crop_left_offset |-> c.crop[1], frame_crop_right_offset |-> c.crop[2],
                        frame_crop_top_offset |-> c.crop[3], frame_crop_bottom_offset |-> c.crop[4]])
  @@ (CASE c.vui = 0 -> <<>> [] c.vui = 1 -> PlainVui [] c.vui = 2 -> FullVui)

\* [flags, map, extended, matrices]; map is -1 without slice groups.
PpsOf(c) ==
  [pic_parameter_set_id |-> 7, seq_parameter_set_id |-> 1, entropy_coding_mode_flag |-> Number(c.flags),
   bottom_field_pic_order_in_frame_present_flag |-> Number(c.flags),
   num_slice_groups_minus1 |-> IF c.map = -1 THEN 0 ELSE IF c.map \in 3 .. 5 THEN 1 ELSE 2,
   num_ref_idx_l0_default_active_minus1 |-> 1, num_ref_idx_l1_default_active_minus1 |-> 0,
   weighted_pred_flag |-> Number(c.flags), weighted_bipred_idc |-> IF c.flags THEN 1 ELSE 2,
   pic_init_qp_minus26 |-> -4, pic_init_qs_minus26 |-> 3, chroma_qp_index_offset |-> -12,
   deblocking_filter_control_present_flag |-> Number(c.flags), constrained_intra_pred_flag |-> 0,
   redundant_pic_cnt_present_flag |-> Number(c.flags)]
  @@ If(c.map # -1, [slice_group_map_type |-> c.map])
  @@ If(c.map = 0, [run_length_minus1 |-> <<[run |-> 0], [run |-> 5], [run |-> 2]>>])
  @@ If(c.map = 2, [rectangles |-> <<[top_left |-> 0, bottom_right |-> 4], [top_left |-> 1, bottom_right |-> 1]>>])
  @@ If(c.map \in 3 .. 5, [slice_group_change_direction_flag |-> 1, slice_group_change_rate_minus1 |-> 1])
  @@ If(c.map = 6, [pic_size_in_map_units_minus1 |-> 5,
                    slice_group_id |-> [i \in 1 .. 6 |-> [id |-> i % 3]]])
  @@ If(c.extended, [transform_8x8_mode_flag |-> Number(c.matrices),
                     pic_scaling_matrix_present_flag |-> Number(c.matrices),
                     second_chroma_qp_index_offset |-> 12])
  @@ If(c.extended /\ c.matrices, ScalingLists(2))

\* A list of length references with every kind of entry.
Weights(length) ==
  [k \in 1 .. length |->
    [luma |-> k % 2, chroma |-> Number(k > 1)]
    @@ If(k % 2 = 1, [weight |-> -128, offset |-> 127])
    @@ If(k > 1, [weight_cb |-> 1, offset_cb |-> 0, weight_cr |-> -1, offset_cr |-> -128])]
SomeModifications == <<[op |-> 0, value |-> 0], [op |-> 2, value |-> 3], [op |-> 1, value |-> 6]>>
SomeOperations ==
  <<[op |-> 1, difference_of_pic_nums_minus1 |-> 2], [op |-> 3, difference_of_pic_nums_minus1 |-> 0, long_term_frame_idx |-> 1],
    [op |-> 2, long_term_pic_num |-> 0], [op |-> 4, max_long_term_frame_idx_plus1 |-> 0],
    [op |-> 5], [op |-> 6, long_term_frame_idx |-> 4]>>

\* [type, marking, override, field, filter]; marking is "none", "idr", "sliding"
\* or "adaptive", field "frame", "top" or "bottom".
SliceOf(c, sps, pps) ==
  LET type == c.type % 5
      idr == c.marking = "idr"
      inter == type \notin {I, Si}
      field == c.field # "frame"
      paired == pps.bottom_field_pic_order_in_frame_present_flag = 1 /\ ~ field
      deltas == sps.pic_order_cnt_type = 1 /\ sps.delta_pic_order_always_zero_flag = 0
      weighted == \/ type \in {P, Sp} /\ pps.weighted_pred_flag = 1
                  \/ type = B /\ pps.weighted_bipred_idc = 1
  IN  [first_mb_in_slice |-> 5, slice_type |-> c.type, pic_parameter_set_id |-> 7,
       frame_num |-> IF idr THEN 0 ELSE 21, slice_qp_delta |-> 29]
  @@ If(sps.frame_mbs_only_flag = 0, [field_pic_flag |-> Number(field)])
  @@ If(field, [bottom_field_flag |-> Number(c.field = "bottom")])
  @@ If(idr, [idr_pic_id |-> 65535, no_output_of_prior_pics_flag |-> 1, long_term_reference_flag |-> 0])
  @@ If(sps.pic_order_cnt_type = 0, [pic_order_cnt_lsb |-> 62])
  @@ If(sps.pic_order_cnt_type = 0 /\ paired, [delta_pic_order_cnt_bottom |-> -1])
  @@ If(deltas, [delta_pic_order_cnt_0 |-> 4]) @@ If(deltas /\ paired, [delta_pic_order_cnt_1 |-> -4])
  @@ If(pps.redundant_pic_cnt_present_flag = 1, [redundant_pic_cnt |-> 0])
  @@ If(type = B, [direct_spatial_mv_pred_flag |-> 1, ref_pic_list_modification_flag_l1 |-> 0])
  @@ If(inter, [num_ref_idx_active_override_flag |-> Number(c.override),
                ref_pic_list_modification_flag_l0 |-> 1, modifications_l0 |-> SomeModifications])
  @@ If(inter /\ c.override, [num_ref_idx_l0_active_minus1 |-> 2])
  @@ If(type = B /\ c.override, [num_ref_idx_l1_active_minus1 |-> 1])
  @@ If(weighted, [luma_log2_weight_denom |-> 7, chroma_log2_weight_denom |-> 0,
                   weights_l0 |-> Weights(IF c.override THEN 3 ELSE 2)])
  @@ If(weighted /\ type = B, [weights_l1 |-> Weights(IF c.override THEN 2 ELSE 1)])
  @@ If(c.marking \in {"sliding", "adaptive"},
        [adaptive_ref_pic_marking_mode_flag |-> Number(c.marking = "adaptive")])
  @@ If(c.marking = "adaptive", [operations |-> SomeOperations])
  @@ If(pps.entropy_coding_mode_flag = 1 /\ inter, [cabac_init_idc |-> 2])
  @@ If(type = Sp, [sp_for_switch_flag |-> 1]) @@ If(type \in {Sp, Si}, [slice_qs_delta |-> -29])
  @@ If(pps.deblocking_filter_control_present_flag = 1, [disable_deblocking_filter_idc |-> c.filter])
  @@ If(pps.deblocking_filter_control_present_flag = 1 /\ c.filter # 1,
        [slice_alpha_c0_offset_div2 |-> 6, slice_beta_offset_div2 |-> -6])
  @@ If("slice_group_change_rate_minus1" \in DOMAIN pps, [slice_group_change_cycle |-> 3])

(***************************************************************************)
(* Properties.  An input is [sps, pps, slice] of choices.                  *)
(***************************************************************************)
SpsBits(sps) == Trailing(Written(sps, SpsOrder))
PpsBits(pps) == Trailing(Written(pps, PpsOrder))
Sent(sps, pps) == StorePps(StoreSps(NoSets, SpsBits(sps)), PpsBits(pps))
\* Ceil(Log2(PicSizeInMapUnits / SliceGroupChangeRate + 1)), where the rate divides the size.
CycleBits(sps, pps) ==
  IF "slice_group_change_rate_minus1" \in DOMAIN pps
  THEN BitsFor((MapUnits(sps) \div (pps.slice_group_change_rate_minus1 + 1)) + 1) ELSE 0

\* Columns of the coded picture that cropping leaves.
Columns(sps) == {x \in 0 .. 16 * (sps.pic_width_in_mbs_minus1 + 1) - 1 :
                   "frame_crop_left_offset" \in DOMAIN sps =>
                     /\ x >= 2 * sps.frame_crop_left_offset
                     /\ x < 16 * (sps.pic_width_in_mbs_minus1 + 1) - 2 * sps.frame_crop_right_offset}

\* Parameter sets come back as they were written, a crop that leaves nothing is
\* refused, and the store keeps both (sps.rs, pps.rs, parameter_sets.rs).
SetsKept(sps, pps, columns, store) ==
  IF columns = {} THEN store.sps = <<>>
  ELSE /\ store.sps = (1 :> sps)
       /\ derive_visible_rect(sps).width = Cardinality(columns)
       /\ derive_visible_rect(sps).x = Min(columns)
       /\ store.pps = (7 :> [sequence |-> sps, picture |-> pps])
SetsReadBack(sps, pps) == SetsKept(sps, pps, Columns(sps), Sent(sps, pps))

\* A slice header comes back with the place where its data begins, is refused
\* without its last bit, and is read with the sequence parameter set its
\* picture parameter set was sent for, also when another has replaced it.
ReadExactly(read, header, bits) == read.ok /\ read.h = header /\ read.at = Len(bits)
SliceKept(slice, bits, store) ==
  1 \in DOMAIN store.sps =>
    /\ ReadExactly(parse_slice_header(bits \o <<1, 0, 1>>, slice.nal, store), slice.header, bits)
    /\ ~ parse_slice_header(SubSeq(bits, 1, Len(bits) - 1), slice.nal, store).ok
SliceReadBack(sps, pps, slice, replacement) ==
  SliceKept(slice, Written(slice.header, SliceOrder(sps, CycleBits(sps, pps))),
            StoreSps(Sent(sps, pps), SpsBits(replacement)))
=============================================================================
