--------------------------- MODULE CabacMacroblocks ---------------------------
(***************************************************************************)
(* The macroblocks of I, P and B slices in CABAC: one handler per syntax   *)
(* element, in the order cabac_macroblock.rs, cabac_b_macroblock.rs and    *)
(* the slice loops of intra_reconstruction.rs read them.                   *)
(***************************************************************************)
EXTENDS MacroblockSyntax
LOCAL INSTANCE TLC

(* Partitions: a rectangle with a reference of each list in use, and the       *)
(* rectangles with a difference; no list is a direct one.                      *)
Plan(rect, parts, lists) == [rect |-> rect, parts |-> parts, lists |-> lists]
single_partition_plan(rect, lists) == Plan(rect, IF lists = {} THEN <<>> ELSE <<rect>>, lists)
Split(wide, first, second) ==
  IF wide THEN <<single_partition_plan(<<0, 0, 4, 2>>, first), single_partition_plan(<<0, 2, 4, 2>>, second)>>
  ELSE <<single_partition_plan(<<0, 0, 2, 4>>, first), single_partition_plan(<<2, 0, 2, 4>>, second)>>
\* The parts of a w x h sub-macroblock partition, row by row.
SubParts(x, y, w, h) ==
  [i \in 1 .. 4 \div (w * h) |-> <<x + ((i - 1) % (2 \div w)) * w, y + ((i - 1) \div (2 \div w)) * h, w, h>>]
QuadrantPlan(i, w, h, lists) ==
  Plan(<<2 * (i % 2), 2 * (i \div 2), 2, 2>>,
       IF lists = {} THEN <<>> ELSE SubParts(2 * (i % 2), 2 * (i \div 2), w, h), lists)
p_sub_size == << <<2, 2>>, <<2, 1>>, <<1, 2>>, <<1, 1>> >>
p8x8_partition_plans(subs) ==
  [i \in 1 .. 4 |-> QuadrantPlan(i - 1, p_sub_size[subs[i] + 1][1], p_sub_size[subs[i] + 1][2], {0})]
p_partition_plans(number) ==
  IF number = 0 THEN <<single_partition_plan(WholeMacroblock, {0})>> ELSE Split(number = 1, {0}, {0})

b_sub_lists == << {}, {0}, {1}, {0, 1}, {0}, {0}, {1}, {1}, {0, 1}, {0, 1}, {0}, {1}, {0, 1} >>
b_sub_size == << <<2, 2>>, <<2, 2>>, <<2, 2>>, <<2, 2>>, <<2, 1>>, <<1, 2>>, <<2, 1>>, <<1, 2>>,
                 <<2, 1>>, <<1, 2>>, <<1, 1>>, <<1, 1>>, <<1, 1>> >>
b8x8_partition_plans(subs) ==
  [i \in 1 .. 4 |-> QuadrantPlan(i - 1, b_sub_size[subs[i] + 1][1], b_sub_size[subs[i] + 1][2],
                                 b_sub_lists[subs[i] + 1])]
BPairs == << <<{0}, {0}>>, <<{1}, {1}>>, <<{0}, {1}>>, <<{1}, {0}>>, <<{0}, {0, 1}>>, <<{1}, {0, 1}>>,
             <<{0, 1}, {0}>>, <<{0, 1}, {1}>>, <<{0, 1}, {0, 1}>> >>
ordinary_b_partition_plans(number) ==
  IF number <= 3
  THEN <<single_partition_plan(WholeMacroblock, << {}, {0}, {1}, {0, 1} >>[number + 1])>>
  ELSE Split(number % 2 = 0, BPairs[(number - 4) \div 2 + 1][1], BPairs[(number - 4) \div 2 + 1][2])

\* Whether the partitions allow an 8x8 transform.
PermitsP(p) == p.mb.number = 3 => \A i \in 1 .. 4 : p.mb.subs[i] = 0
PermitsB(p) ==
  IF p.mb.number # 22 THEN p.mb.number # 0 \/ p.slice.inference
  ELSE \A i \in 1 .. 4 : b_sub_size[p.mb.subs[i] + 1] = <<2, 2>> /\ (p.mb.subs[i] # 0 \/ p.slice.inference)

\* What is inferred before the references are read: direct partitions in both
\* lists, and the list a partition does not use.
RECURSIVE initialize_inferred_list_states(_, _)
Inferred(p, plan) ==
  CASE plan.lists = {} -> fill_lists(p, plan.rect, 0, TRUE)
    [] plan.lists = {0} /\ p.slice.type = "B" -> fill_partition(p, 1, plan.rect, -1, FALSE)
    [] plan.lists = {1} -> fill_partition(p, 0, plan.rect, -1, FALSE)
    [] OTHER -> p
initialize_inferred_list_states(p, plans) ==
  IF plans = <<>> THEN p ELSE initialize_inferred_list_states(Inferred(p, Head(plans)), Tail(plans))

Using(plans, list) == SelectSeq([i \in 1 .. Len(plans) |-> i], LAMBDA i : list \in plans[i].lists)
References(plans, list) ==
  [k \in 1 .. Len(Using(plans, list)) |-> <<"ref", list, Using(plans, list)[k]>>]
Differences(plans, list) ==
  [k \in 1 .. Len(Using(plans, list)) |-> <<"mvd", list, Using(plans, list)[k], 1>>]
AfterMotion == << <<"cbp", 0>>, <<"cbp", 1>>, <<"cbp", 2>>, <<"cbp", 3>>, <<"cbp chroma">>,
                  <<"inter t8">>, <<"qp_delta">>, <<"inter residual">>, <<"end">> >>
decode_inter_macroblock(p, plans) ==
  Push(initialize_inferred_list_states([p EXCEPT !.mb.plans = plans], plans),
       References(plans, 0) \o References(plans, 1)
         \o Differences(plans, 0) \o Differences(plans, 1) \o AfterMotion)
\* The sub types first, when there are any.
decode_partition_plans(p, number) ==
  CASE p.slice.type = "P" /\ number < 3 -> decode_inter_macroblock(p, p_partition_plans(number))
    [] p.slice.type = "B" /\ number < 22 ->
         decode_inter_macroblock([p EXCEPT !.mb.direct = number = 0], ordinary_b_partition_plans(number))
    [] OTHER -> Push(p, [i \in 1 .. 4 |-> <<"sub">>] \o << <<"plans">> >>)
Sub(p) ==
  IF p.slice.type = "P" THEN Walk(p, PSubTree) ELSE Walk(p, BSubTree)
SubRead(p) == Emit([p EXCEPT !.mb.subs = Append(@, p.value)], <<"sub", p.value>>)
Plans(p) ==
  decode_inter_macroblock(p, IF p.slice.type = "P" THEN p8x8_partition_plans(p.mb.subs)
                             ELSE b8x8_partition_plans(p.mb.subs))

(* Intra macroblocks: 0 is I_NxN, 1 to 24 name the mode and the pattern of a    *)
(* 16x16 one, 25 is I_PCM.                                                      *)
IntraAfterModes == << <<"chroma">>, <<"cbp", 0>>, <<"cbp", 1>>, <<"cbp", 2>>, <<"cbp", 3>>,
                      <<"cbp chroma">>, <<"qp_delta">>, <<"intra residual">>, <<"end">> >>
decode_intra_macroblock_syntax_for_type(p, number) ==
  CASE number = 0 -> Push(p, << <<"intra t8">>, <<"modes">> >> \o IntraAfterModes)
    [] number \in 1 .. 24 ->
         Push([p EXCEPT !.mb.luma = IF number >= 13 THEN 0 .. 3 ELSE {},
                        !.mb.chroma_coded = ((number - 1) \div 4) % 3],
              << <<"chroma">>, <<"qp_delta">>, <<"intra residual">>, <<"end">> >>)
    [] OTHER -> Push(p, << <<"pcm">>, <<"end">> >>)
RecordIntraMotion(p) == fill_lists(p, WholeMacroblock, -1, FALSE)
PcmRead(p) ==
  record_pcm_macroblock(RecordIntraMotion(Emit([p EXCEPT !.mb.luma = 0 .. 3, !.mb.chroma_coded = 2],
                                               <<"pcm", p.bin>>)))

(* mb_type, after mb_skip_flag in P and B slices. *)
FirstIntra(type) == CASE type = "I" -> 0 [] type = "P" -> 5 [] OTHER -> 23
MacroblockType(p) ==
  CASE p.slice.type = "I" -> decode_intra_macroblock_type(p)
    [] p.slice.type = "P" -> Walk(p, PTree)
    [] OTHER -> decode_b_macroblock_type(p)
OfType(p, first) ==
  IF p.value < first THEN decode_partition_plans([p EXCEPT !.mb.number = p.value], p.value)
  ELSE decode_intra_macroblock_syntax_for_type(
         [p EXCEPT !.mb.number = p.value - first, !.mb.intra = TRUE], p.value - first)
AfterType(p) == OfType(Emit(p, <<"mb_type", p.value>>), FirstIntra(p.slice.type))
Skipped(p) ==
  Push(fill_lists([record_zero_inter_macroblock(p) EXCEPT !.mb.skipped = TRUE, !.mb.direct = p.slice.type = "B"],
                  WholeMacroblock, 0, p.slice.type = "B"), << <<"end">> >>)
AfterSkipFlag(p) ==
  IF p.bin = 1 THEN Skipped(Emit(p, <<"skip">>)) ELSE Push(p, << <<"mb_type">> >>)

(* The slice loop. *)
NewMacroblock(address) ==
  [address |-> address, number |-> 0, intra |-> FALSE, skipped |-> FALSE, direct |-> FALSE,
   subs |-> <<>>, plans |-> <<>>, t8 |-> FALSE, chroma |-> 0, luma |-> {}, chroma_coded |-> 0,
   qp_delta |-> 0]
StartMacroblock(p, address) ==
  IF address >= p.slice.width * p.slice.height THEN Fail(p)
  ELSE Push([p EXCEPT !.mb = NewMacroblock(address)],
            IF p.slice.type = "I" THEN << <<"mb_type">> >> ELSE << <<"skip">> >>)
EndMacroblock(p) ==
  IF p.bin = 1 THEN p ELSE StartMacroblock(p, p.mb.address + 1)
EndOfSlice(p) == EndMacroblock([record_macroblock(p) EXCEPT !.prev = p.mb.qp_delta])

(* One element. *)
TakeFlag(p) == [p EXCEPT !.mb.t8 = p.bin = 1]
Modes(p) == Push(p, [i \in 1 .. (IF p.mb.t8 THEN 4 ELSE 16) |-> <<"mode">>])
TakeLuma(p, i) == IF p.bin = 1 THEN [p EXCEPT !.mb.luma = @ \cup {i}] ELSE p
TakePattern(p) ==
  Emit([p EXCEPT !.mb.chroma_coded = p.value], <<"cbp", p.mb.luma, p.value>>)
HasResidual(p) == p.mb.luma # {} \/ p.mb.chroma_coded # 0 \/ (p.mb.intra /\ p.mb.number # 0)
TakeQpDelta(p) ==
  Emit([p EXCEPT !.mb.qp_delta = QpDeltaOf(p.value)], <<"qp_delta", QpDeltaOf(p.value)>>)
TakeReference(p, list, rect) == Emit(fill_partition(p, list, rect, p.value, FALSE), <<"ref", list, p.value>>)
NextDifference(p, e) ==
  IF e[4] = Len(p.mb.plans[e[3]].parts) THEN p ELSE Push(p, << <<"mvd", e[2], e[3], e[4] + 1>> >>)

Element(p, e) ==
  CASE e[1] = "skip" -> AfterSkipFlag(decode_skip_flag(p))
    [] e[1] = "mb_type" -> AfterType(MacroblockType(p))
    [] e[1] = "sub" -> SubRead(Sub(p))
    [] e[1] = "plans" -> Plans(p)
    [] e[1] = "ref" ->
         TakeReference(decode_reference_index(p, e[2], p.mb.plans[e[3]].rect), e[2], p.mb.plans[e[3]].rect)
    [] e[1] = "mvd" ->
         NextDifference(decode_motion_vector_difference(p, e[2], p.mb.plans[e[3]].parts[e[4]],
                                                        <<"mvd", e[2]>>), e)
    [] e[1] = "intra t8" ->
         IF p.slice.t8 THEN TakeFlag(decode_transform_size_8x8_flag(p)) ELSE p
    [] e[1] = "modes" -> Modes(p)
    [] e[1] = "mode" -> LET q == Walk(p, ModeTree) IN Emit(q, <<"mode", ModeOf(q.value)>>)
    [] e[1] = "chroma" ->
         LET q == decode_intra_chroma_prediction_mode(p)
         IN  Emit([q EXCEPT !.mb.chroma = q.value], <<"chroma", q.value>>)
    [] e[1] = "cbp" -> TakeLuma(decode_luma_coded_block_pattern(p, e[2]), e[2])
    [] e[1] = "cbp chroma" -> TakePattern(decode_chroma_coded_block_pattern(p))
    [] e[1] = "inter t8" ->
         IF p.mb.luma # {} /\ p.slice.t8 /\ (IF p.slice.type = "P" THEN PermitsP(p) ELSE PermitsB(p))
         THEN TakeFlag(decode_transform_size_8x8_flag(p)) ELSE p
    [] e[1] = "qp_delta" -> IF HasResidual(p) THEN TakeQpDelta(decode_macroblock_qp_delta(p)) ELSE p
    [] e[1] = "intra residual" -> decode_intra_residual(RecordIntraMotion(p))
    [] e[1] = "inter residual" -> decode_inter_residual(p)
    [] e[1] = "region" -> decode_luma_region(p, e[2])
    [] e[1] = "chroma dc" -> decode_chroma_dc(p)
    [] e[1] = "chroma ac" -> decode_chroma_ac(p)
    [] e[1] = "block" -> decode_residual_block(p, SubSeq(e, 2, 4))
    [] e[1] = "pcm" -> PcmRead(decision_known(p, Samples))
    [] OTHER -> EndOfSlice(decision_known(p, Terminate))

RECURSIVE ReadElements(_)
ReadElements(p) ==
  IF ~ p.ok \/ p.todo = <<>> THEN p
  ELSE ReadElements(Element([p EXCEPT !.todo = Tail(@)], Head(p.todo)))

(* A slice, from what the slices before it have left. *)
FreshState(stale) ==
  [items |-> <<>>, at |-> 1, ok |-> TRUE, bin |-> 0, value |-> 0, todo |-> <<>>, out |-> <<>>,
   coefs |-> [i \in 0 .. 3 |-> 0], count |-> 0, mb |-> NewMacroblock(0), prev |-> 0,
   slice |-> [id |-> 0], done |-> stale.done, cells |-> stale.cells, coded |-> stale.coded]
ReadSlice(p, slice, items) ==
  ReadElements(StartMacroblock([p EXCEPT !.items = items, !.at = 1, !.prev = 0, !.slice = slice], slice.start))
=============================================================================
