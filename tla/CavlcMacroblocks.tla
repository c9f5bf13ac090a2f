--------------------------- MODULE CavlcMacroblocks ---------------------------
(***************************************************************************)
(* The macroblocks of a CAVLC slice (macroblock.rs, cavlc_context.rs and   *)
(* the slice loops of intra_reconstruction.rs).  The slice is a sequence   *)
(* of codes, each with its descriptor; a coefficient block is one code     *)
(* whose descriptor names its length and the table nC selects: taking it   *)
(* with another table fails, since CavlcBlock would read other bits.       *)
(* Entries of the coded grids are TotalCoeff here.                         *)
(***************************************************************************)
EXTENDS CabacMacroblocks
LOCAL INSTANCE TLC

(* Descriptors: ue(v), se(v), a flag, three bits, and blocks.                  *)
Ue == -3
Se == -4
Bit == -5
ThreeBits == -6
\* Tables for 0 and 1, 2 and 3, 4 to 7, from 8 on, and chroma DC.
TableOf(nc) == CASE nc < 2 -> 0 [] nc < 4 -> 1 [] nc < 8 -> 2 [] OTHER -> 3
ChromaDc420 == 4
BlockCode(table, max) == 100 * table + max + 1000

Bounded(p, min, max) == IF p.bin < min \/ p.bin > max THEN Fail(p) ELSE [p EXCEPT !.value = p.bin]
read_ue(p, max) == Bounded(decision_known(p, Ue), 0, max)
more_rbsp_data(p) == p.ok /\ p.at <= Len(p.items)

INTRA_CODED_BLOCK_PATTERNS_420 ==
  <<47, 31, 15, 0, 23, 27, 29, 30, 7, 11, 13, 14, 39, 43, 45, 46, 16, 3, 5, 10, 12, 19, 21, 26, 28,
    35, 37, 42, 44, 1, 2, 4, 8, 17, 18, 20, 24, 6, 9, 22, 25, 32, 33, 34, 36, 40, 38, 41>>
INTER_CODED_BLOCK_PATTERNS_420 ==
  <<0, 16, 1, 2, 4, 8, 32, 3, 5, 10, 12, 15, 47, 7, 11, 13, 14, 6, 9, 31, 35, 37, 42, 44, 33, 34, 36,
    40, 39, 43, 45, 46, 17, 18, 20, 24, 19, 21, 26, 28, 23, 27, 29, 30, 22, 25, 38, 41>>
LumaOfPattern(v) == {i \in 0 .. 3 : (v \div 2 ^ i) % 2 = 1}
TakeCodedPattern(p, v) ==
  Emit([p EXCEPT !.mb.luma = LumaOfPattern(v), !.mb.chroma_coded = v \div 16],
       <<"cbp", LumaOfPattern(v), v \div 16>>)
parse_coded_block_pattern(p, table) == TakeCodedPattern(p, table[p.value + 1])

(* TotalCoeff of neighbouring blocks.                                          *)
decoded_total(p, e) ==
  IF e \in DOMAIN p.coded /\ p.coded[e].slice = p.slice.id THEN <<p.coded[e].coded>> ELSE <<>>
Average(totals) ==
  CASE Len(totals) = 2 -> (totals[1] + totals[2] + 1) \div 2
    [] Len(totals) = 1 -> totals[1]
    [] OTHER -> 0
neighbour_total(p, e) ==
  Average(decoded_total(p, <<e[1], e[2] - 1, e[3]>>) \o decoded_total(p, <<e[1], e[2], e[3] - 1>>))
CoefficientGrids(p) ==
  UNION {LumaRegion(p, region) : region \in 0 .. 3} \cup ChromaAcPlane(p, 0) \cup ChromaAcPlane(p, 1)
record_uniform_macroblock(p, total) == record_blocks(p, CoefficientGrids(p), total)

TotalCoeff(coefs) == Len(SelectSeq(coefs, LAMBDA v : v # 0))
BlockTaken(p, b) == Emit(p, <<"block">> \o b \o <<p.bin>>)
Totalled(p, b) ==
  IF ~ p.ok THEN p ELSE record_blocks(BlockTaken(p, b), EntriesOf(p, b), TotalCoeff(p.bin))
\* DC blocks leave no total, and the luma one is read with block 0's context.
decode_block(p, b) ==
  CASE b[1] = LumaDc ->
         BlockTaken(decision_known(p, BlockCode(TableOf(neighbour_total(p, grid_and_coordinates(p, <<Luma4x4, 0, 0>>))), 16)), b)
    [] b[1] = ChromaDc -> BlockTaken(decision_known(p, BlockCode(ChromaDc420, 4)), b)
    [] OTHER ->
         Totalled(decision_known(p, BlockCode(TableOf(neighbour_total(p, grid_and_coordinates(p, b))),
                                                 maximum_coefficients[b[1] + 1])), b)
luma_blocks(p, region) ==
  IF region \notin p.mb.luma THEN record_blocks(p, LumaRegion(p, region), 0)
  ELSE Push(p, [i \in 1 .. 4 |-> Block(IF p.mb.intra /\ p.mb.number # 0 THEN LumaAc ELSE Luma4x4,
                                       0, 4 * region + i - 1)])
chroma_blocks(p) ==
  Push(IF p.mb.chroma_coded = 2 THEN p
       ELSE record_blocks(p, ChromaAcPlane(p, 0) \cup ChromaAcPlane(p, 1), 0),
       (IF p.mb.chroma_coded = 0 THEN <<>> ELSE <<Block(ChromaDc, 0, 0), Block(ChromaDc, 1, 0)>>)
         \o (IF p.mb.chroma_coded < 2 THEN <<>>
             ELSE [i \in 1 .. 8 |-> Block(ChromaAc, (i - 1) \div 4, (i - 1) % 4)]))
residual_inner(p) ==
  Push(p, (IF p.mb.intra /\ p.mb.number # 0 THEN <<Block(LumaDc, 0, 0)>> ELSE <<>>)
            \o LumaElements \o << <<"chroma">> >>)

(* Macroblock headers.                                                         *)
AfterPrediction == << <<"t8">>, <<"qp_delta">>, <<"residual">>, <<"end">> >>
parse_intra_macroblock_type(p, number) ==
  CASE number = 0 ->
         Push(p, << <<"intra t8">>, <<"modes">>, <<"chroma mode">>, <<"intra cbp">>,
                    <<"qp_delta">>, <<"residual">>, <<"end">> >>)
    [] number \in 1 .. 24 ->
         Push([p EXCEPT !.mb.luma = IF number >= 13 THEN 0 .. 3 ELSE {},
                        !.mb.chroma_coded = ((number - 1) \div 4) % 3],
              << <<"chroma mode">>, <<"qp_delta">>, <<"residual">>, <<"end">> >>)
    [] OTHER -> Push(p, << <<"pcm">>, <<"end">> >>)
partition_motion(p, plans, forced_zero) ==
  Push([p EXCEPT !.mb.plans = plans],
       (IF forced_zero THEN <<>> ELSE References(plans, 0) \o References(plans, 1))
         \o Differences(plans, 0) \o Differences(plans, 1) \o << <<"inter cbp">> >> \o AfterPrediction)
SubMacroblocks(p) == Push(p, [i \in 1 .. 4 |-> <<"sub">>] \o << <<"plans">> >>)
\* P types 3 and 4 have sub-macroblocks, 4 without reference indices.
parse_p_inter_macroblock(p, type) ==
  IF type < 3 THEN partition_motion(p, p_partition_plans(type), FALSE) ELSE SubMacroblocks(p)
parse_b_inter_macroblock(p, type) ==
  IF type < 22 THEN partition_motion(p, ordinary_b_partition_plans(type), FALSE) ELSE SubMacroblocks(p)
SubMacroblockPlans(p) ==
  IF p.slice.type = "P" THEN partition_motion(p, p8x8_partition_plans(p.mb.subs), p.mb.number = 4)
  ELSE partition_motion(p, b8x8_partition_plans(p.mb.subs), FALSE)
MacroblockOfType(p, first) ==
  CASE ~ p.ok -> p
    [] p.value >= first ->
         parse_intra_macroblock_type([p EXCEPT !.mb.intra = TRUE, !.mb.number = p.value - first],
                                     p.value - first)
    [] p.slice.type = "P" -> parse_p_inter_macroblock([p EXCEPT !.mb.number = p.value], p.value)
    [] OTHER -> parse_b_inter_macroblock([p EXCEPT !.mb.number = p.value], p.value)
InterTypes(type) == CASE type = "I" -> 0 [] type = "P" -> 5 [] OTHER -> 23
TypeTaken(p) == MacroblockOfType(Emit(p, <<"mb_type", p.value>>), InterTypes(p.slice.type))
PermitsTransform8x8(p) ==
  IF p.slice.type = "B" THEN PermitsB(p) ELSE p.mb.number \in {3, 4} => \A i \in 1 .. 4 : p.mb.subs[i] = 0

\* One reference is implied, two are told apart by an inverted flag.
parse_reference_index(p, active) ==
  CASE active = 1 -> [p EXCEPT !.value = 0]
    [] active = 2 -> LET q == decision_known(p, Bit) IN [q EXCEPT !.value = 1 - q.bin]
    [] OTHER -> read_ue(p, active - 1)
DifferenceX(p) == [p EXCEPT !.value = p.bin]
DifferenceY(p, list) == Emit(p, <<"mvd", list, p.value, p.bin>>)
parse_motion_vector_difference(p, list) ==
  DifferenceY(decision_known(DifferenceX(decision_known(p, Se)), Se), list)
parse_intra_prediction_mode(p) ==
  LET q == decision_known(p, Bit) IN
  IF q.bin = 1 THEN Emit(q, <<"mode", -1>>)
  ELSE LET r == decision_known(q, ThreeBits) IN Emit(r, <<"mode", r.bin>>)
parse_qp_delta(p) ==
  LET q == Bounded(decision_known(p, Se), -26, 25) IN
  Emit([q EXCEPT !.mb.qp_delta = q.value], <<"qp_delta", q.value>>)

(* The slice loops: a run of skipped macroblocks, then one that is not, unless *)
(* the slice ends with the run.                                                *)
macroblock_coordinates(p, address) ==
  IF address >= p.slice.width * p.slice.height THEN Fail(p) ELSE [p EXCEPT !.mb = NewMacroblock(address)]
NextMacroblock(p, address) ==
  CASE ~ more_rbsp_data(p) -> p
    [] p.slice.type = "I" -> Push(macroblock_coordinates(p, address), << <<"mb_type">> >>)
    [] OTHER -> Push([p EXCEPT !.mb = NewMacroblock(address)], << <<"skip run">> >>)
RECURSIVE SkipRun(_, _, _)
SkipRun(p, address, n) ==
  CASE ~ p.ok -> p
    [] n > 0 -> SkipRun(Emit(record_uniform_macroblock([p EXCEPT !.mb = NewMacroblock(address)], 0), <<"skip">>),
                        address + 1, n - 1)
    [] OTHER -> IF more_rbsp_data(p) THEN Push(macroblock_coordinates(p, address), << <<"mb_type">> >>) ELSE p
parse_cavlc_mb_skip_run(p) == read_ue(p, p.slice.width * p.slice.height - p.mb.address)

CavlcElement(p, e) ==
  CASE e[1] = "skip run" -> LET q == parse_cavlc_mb_skip_run(p) IN SkipRun(q, q.mb.address, q.value)
    [] e[1] = "mb_type" -> TypeTaken(read_ue(p, InterTypes(p.slice.type) + 25))
    [] e[1] = "sub" -> SubRead(read_ue(p, IF p.slice.type = "P" THEN 3 ELSE 12))
    [] e[1] = "plans" -> SubMacroblockPlans(p)
    [] e[1] = "ref" ->
         LET q == parse_reference_index(p, p.slice.active[e[2]]) IN Emit(q, <<"ref", e[2], q.value>>)
    [] e[1] = "mvd" -> NextDifference(parse_motion_vector_difference(p, e[2]), e)
    [] e[1] = "intra t8" -> IF p.slice.t8 THEN TakeFlag(decision_known(p, Bit)) ELSE p
    [] e[1] = "modes" -> Modes(p)
    [] e[1] = "mode" -> parse_intra_prediction_mode(p)
    [] e[1] = "chroma mode" -> LET q == read_ue(p, 3) IN Emit(q, <<"chroma", q.value>>)
    [] e[1] = "intra cbp" -> parse_coded_block_pattern(read_ue(p, 47), INTRA_CODED_BLOCK_PATTERNS_420)
    [] e[1] = "inter cbp" -> parse_coded_block_pattern(read_ue(p, 47), INTER_CODED_BLOCK_PATTERNS_420)
    [] e[1] = "t8" ->
         IF p.mb.luma # {} /\ p.slice.t8 /\ PermitsTransform8x8(p) THEN TakeFlag(decision_known(p, Bit)) ELSE p
    [] e[1] = "qp_delta" -> IF HasResidual(p) THEN parse_qp_delta(p) ELSE p
    [] e[1] = "residual" -> residual_inner(p)
    [] e[1] = "region" -> luma_blocks(p, e[2])
    [] e[1] = "chroma" -> chroma_blocks(p)
    [] e[1] = "block" -> decode_block(p, SubSeq(e, 2, 4))
    [] e[1] = "pcm" ->
         LET q == decision_known(p, Samples)
         IN  record_uniform_macroblock(Emit(q, <<"pcm", q.bin>>), 16)
    [] OTHER -> NextMacroblock(p, p.mb.address + 1)

RECURSIVE ReadCavlcElements(_)
ReadCavlcElements(p) ==
  IF ~ p.ok \/ p.todo = <<>> THEN p
  ELSE ReadCavlcElements(CavlcElement([p EXCEPT !.todo = Tail(@)], Head(p.todo)))
ReadCavlcSlice(p, slice, items) ==
  ReadCavlcElements(NextMacroblock([p EXCEPT !.items = items, !.at = 1, !.slice = slice], slice.start))
=============================================================================
