--------------------------- MODULE MacroblockSyntax ---------------------------
(***************************************************************************)
(* Reading the macroblocks of a CABAC slice (cabac_syntax.rs,              *)
(* cabac_macroblock.rs, cabac_b_macroblock.rs, cabac_motion.rs and         *)
(* cabac_residual.rs).  A slice is a sequence of bins, each with the       *)
(* context it was coded with: taking a bin with another context fails,     *)
(* since the arithmetic decoder (CabacEngine) then runs out of step.       *)
(*                                                                         *)
(* A state p of the reading holds the bins and the place in them, the      *)
(* elements still to be read (todo: each handler may put more in front),   *)
(* the elements read (out), the macroblock being read (mb), the last       *)
(* qp_delta (prev), and what later macroblocks take their contexts from:   *)
(* done, the completed macroblocks; cells, the motion of both lists by 4x4 *)
(* cell; coded, the coded-block flags by grid and block.  Cells, blocks    *)
(* and rectangles are in units of 4 luma samples; grids have no entry      *)
(* where the code has None, and entries of older slices stay in them.      *)
(***************************************************************************)
EXTENDS Integers, Sequences, FiniteSets
LOCAL INSTANCE TLC

\* Pseudo contexts: bypass bins, terminate bins and the samples of I_PCM.
Bypass == -1
Terminate == 276
Samples == -2

Fail(p) == [p EXCEPT !.ok = FALSE, !.bin = 0]
decision_known(p, context) ==
  IF p.ok /\ p.at <= Len(p.items) /\ p.items[p.at][1] = context
  THEN [p EXCEPT !.bin = p.items[p.at][2], !.at = @ + 1] ELSE Fail(p)

Push(p, elements) == [p EXCEPT !.todo = elements \o @]
Emit(p, element) == [p EXCEPT !.out = Append(@, element)]

(* Binarizations: <<context, subtree for 0, subtree for 1>>, or <<value>>. *)
RECURSIVE Walk(_, _)
Turn(p, tree) == Walk(p, tree[2 + p.bin])
Walk(p, tree) ==
  IF ~ p.ok \/ Len(tree) = 1 THEN [p EXCEPT !.value = tree[1]]
  ELSE Turn(decision_known(p, tree[1]), tree)

\* Ones up to a zero, the contexts in turn and the last again; max of them need
\* no zero when truncated, and are too many otherwise.
RECURSIVE decode_unary(_, _, _, _, _)
NextOne(p, contexts, n, max, truncated) ==
  IF p.bin = 0 THEN [p EXCEPT !.value = n]
  ELSE decode_unary(p, IF Len(contexts) = 1 THEN contexts ELSE Tail(contexts), n + 1, max, truncated)
decode_unary(p, contexts, n, max, truncated) ==
  IF ~ p.ok THEN p
  ELSE IF n = max THEN IF truncated THEN [p EXCEPT !.value = max] ELSE Fail(p)
  ELSE NextOne(decision_known(p, contexts[1]), contexts, n, max, truncated)

\* Exp-Golomb in bypass bins on top of p.value.
RECURSIVE Suffix(_, _)
Shifted(p, shift) == Suffix([p EXCEPT !.value = @ + p.bin * 2 ^ shift], shift)
Suffix(p, order) ==
  IF ~ p.ok \/ order = 0 THEN p ELSE Shifted(decision_known(p, Bypass), order - 1)
RECURSIVE Escape(_, _, _)
Prefix(p, order, max) ==
  IF p.bin = 0 THEN Suffix(p, order)
  ELSE IF order = max THEN Fail(p)
  ELSE Escape([p EXCEPT !.value = @ + 2 ^ order], order + 1, max)
Escape(p, order, max) ==
  IF ~ p.ok THEN p ELSE Prefix(decision_known(p, Bypass), order, max)

(* Completed neighbours of the same slice, as sequences of at most one. *)
CompletedAt(p, address) ==
  IF address \in DOMAIN p.done /\ p.done[address].slice = p.slice.id THEN <<p.done[address]>> ELSE <<>>
LeftOf(p) == IF p.mb.address % p.slice.width # 0 THEN CompletedAt(p, p.mb.address - 1) ELSE <<>>
TopOf(p) ==
  IF p.mb.address >= p.slice.width THEN CompletedAt(p, p.mb.address - p.slice.width) ELSE <<>>
left_and_top(p) == LeftOf(p) \o TopOf(p)

\* An address may complete again only when its entry is of an older picture.
record_macroblock(p) ==
  IF p.mb.address \in DOMAIN p.done /\ p.done[p.mb.address].slice >= p.slice.first THEN Fail(p)
  ELSE [p EXCEPT !.done = (p.mb.address :> [slice |-> p.slice.id, skipped |-> p.mb.skipped,
          direct |-> p.mb.direct, large |-> p.mb.number \in 1 .. 25 /\ p.mb.intra,
          chroma |-> p.mb.chroma, luma |-> p.mb.luma, chroma_coded |-> p.mb.chroma_coded,
          t8 |-> p.mb.t8]) @@ @]

(* Macroblock types.  mb_type of an intra macroblock follows the inter types. *)
IntraLow(c, v) == <<c[5], <<c[6], <<v>>, <<v + 1>>>>, <<c[6], <<v + 2>>, <<v + 3>>>>>>
IntraMiddle(c, v) == <<c[3], IntraLow(c, v), <<c[4], IntraLow(c, v + 4), IntraLow(c, v + 8)>>>>
IntraTree(c, first) ==
  <<c[1], <<first>>,
    <<Terminate, <<c[2], IntraMiddle(c, first + 1), IntraMiddle(c, first + 13)>>, <<first + 25>>>>>>
Embedded(base) == <<base, base + 1, base + 2, base + 2, base + 3, base + 3>>

decode_intra_macroblock_type(p) ==
  Walk(p, IntraTree(<<3 + Len(SelectSeq(left_and_top(p), LAMBDA m : m.large)), 6, 7, 8, 9, 10>>, 0))
PTree == <<14, <<15, <<16, <<0>>, <<3>>>>, <<17, <<2>>, <<1>>>>>>, IntraTree(Embedded(17), 5)>>
PSubTree == <<21, <<22, <<1>>, <<23, <<3>>, <<2>>>>>>, <<0>>>>
BLow(c, v) == <<c, <<v>>, <<v + 1>>>>
BTree(increment) ==
  <<27 + increment, <<0>>,
    <<30, BLow(32, 1),
      <<31, <<32, <<32, BLow(32, 3), BLow(32, 5)>>, <<32, BLow(32, 7), BLow(32, 9)>>>>,
            <<32, <<32, <<32, BLow(32, 12), BLow(32, 14)>>, <<32, BLow(32, 16), BLow(32, 18)>>>>,
                  <<32, <<32, BLow(32, 20), IntraTree(Embedded(32), 23)>>,
                        <<32, <<11>>, <<22>>>>>>>>>>>>>>
decode_b_macroblock_type(p) ==
  Walk(p, BTree(Len(SelectSeq(left_and_top(p), LAMBDA m : ~ m.direct))))
BSubTree ==
  <<36, <<0>>, <<37, BLow(39, 1),
    <<38, <<39, BLow(39, 3), BLow(39, 5)>>,
          <<39, <<39, BLow(39, 7), BLow(39, 9)>>, BLow(39, 11)>>>>>>>>

(* Elements of the macroblock header. *)
decode_skip_flag(p) ==
  decision_known(p, (IF p.slice.type = "P" THEN 11 ELSE 24)
                      + Len(SelectSeq(left_and_top(p), LAMBDA m : ~ m.skipped)))
decode_transform_size_8x8_flag(p) ==
  decision_known(p, 399 + Len(SelectSeq(left_and_top(p), LAMBDA m : m.t8)))
ModeTree ==
  <<68, <<69, <<69, BLow(69, 0), BLow(69, 2)>>, <<69, BLow(69, 4), BLow(69, 6)>>>>, <<8>>>>
\* The three bits of a remaining mode arrive least significant first.
ModeOf(leaf) == IF leaf = 8 THEN -1 ELSE (leaf \div 4) + 2 * ((leaf \div 2) % 2) + 4 * (leaf % 2)
decode_intra_chroma_prediction_mode(p) ==
  Walk(p, <<64 + Len(SelectSeq(left_and_top(p), LAMBDA m : m.chroma # 0)), <<0>>,
            <<67, <<1>>, BLow(67, 2)>>>>)

LumaOf(m) == IF m = <<>> THEN 0 .. 3 ELSE m[1].luma
\* The blocks whose absence raises the context of block i: left, then above.
decode_luma_coded_block_pattern(p, i) ==
  decision_known(p, 73
    + (IF <<1 \in LumaOf(LeftOf(p)), 0 \in p.mb.luma, 3 \in LumaOf(LeftOf(p)), 2 \in p.mb.luma>>[i + 1]
       THEN 0 ELSE 1)
    + (IF <<2 \in LumaOf(TopOf(p)), 3 \in LumaOf(TopOf(p)), 0 \in p.mb.luma, 1 \in p.mb.luma>>[i + 1]
       THEN 0 ELSE 2))
ChromaAtLeast(m, n) == m # <<>> /\ m[1].chroma_coded >= n
ChromaIncrement(p, n) ==
  (IF ChromaAtLeast(LeftOf(p), n) THEN 1 ELSE 0) + (IF ChromaAtLeast(TopOf(p), n) THEN 2 ELSE 0)
decode_chroma_coded_block_pattern(p) ==
  Walk(p, <<77 + ChromaIncrement(p, 1), <<0>>, BLow(81 + ChromaIncrement(p, 2), 1)>>)

QpDeltaOf(code) == IF code % 2 = 1 THEN (code + 1) \div 2 ELSE -(code \div 2)
decode_macroblock_qp_delta(p) ==
  decode_unary(p, <<IF p.prev # 0 THEN 61 ELSE 60, 62, 63>>, 0, 103, FALSE)

(* Motion: reference indices and differences by 4x4 cell and list. *)
Origin(p) == [x |-> 4 * (p.mb.address % p.slice.width), y |-> 4 * (p.mb.address \div p.slice.width)]
CellsOf(p, rect) ==
  (Origin(p).x + rect[1] .. Origin(p).x + rect[1] + rect[3] - 1)
    \X (Origin(p).y + rect[2] .. Origin(p).y + rect[2] + rect[4] - 1)
WholeMacroblock == <<0, 0, 4, 4>>
Motion(p, ref, direct) == [slice |-> p.slice.id, ref |-> ref, direct |-> direct, mvd |-> <<0, 0>>]
fill_partition(p, list, rect, ref, direct) ==
  [p EXCEPT !.cells[list] = [c \in CellsOf(p, rect) |-> Motion(p, ref, direct)] @@ @]
fill_lists(p, rect, ref, direct) ==
  fill_partition(fill_partition(p, 0, rect, ref, direct), 1, rect, ref, direct)
Cell(p, list, x, y) ==
  IF <<x, y>> \in DOMAIN p.cells[list] /\ p.cells[list][<<x, y>>].slice = p.slice.id
  THEN <<p.cells[list][<<x, y>>]>> ELSE <<>>
CellLeft(p, list, rect) == Cell(p, list, Origin(p).x + rect[1] - 1, Origin(p).y + rect[2])
CellTop(p, list, rect) == Cell(p, list, Origin(p).x + rect[1], Origin(p).y + rect[2] - 1)

Refers(p, cell) ==
  cell # <<>> /\ cell[1].ref > 0 /\ ~ (p.slice.type = "B" /\ cell[1].direct)
reference_context_increment(p, list, rect) ==
  (IF Refers(p, CellLeft(p, list, rect)) THEN 1 ELSE 0)
    + (IF Refers(p, CellTop(p, list, rect)) THEN 2 ELSE 0)
decode_reference_index(p, list, rect) ==
  IF p.slice.active[list] = 1 THEN [p EXCEPT !.value = 0]
  ELSE decode_unary(p, <<54 + reference_context_increment(p, list, rect), 58, 59>>, 0,
                    p.slice.active[list], FALSE)

AbsoluteAt(cell, component) == IF cell = <<>> THEN 0 ELSE cell[1].mvd[component]
MvdSum(p, list, rect, component) ==
  AbsoluteAt(CellLeft(p, list, rect), component) + AbsoluteAt(CellTop(p, list, rect), component)
MvdIncrement(sum) == IF sum > 32 THEN 2 ELSE IF sum > 2 THEN 1 ELSE 0
MvdLarge(p) == IF p.value >= 9 THEN Escape(p, 3, 24) ELSE p
MvdSigned(p) == [p EXCEPT !.value = IF p.bin = 1 THEN -@ ELSE @]
MvdRest(p, base) ==
  IF p.bin = 0 THEN [p EXCEPT !.value = 0]
  ELSE MvdSigned(decision_known(MvdLarge(decode_unary(p, [i \in 1 .. 4 |-> base + 2 + i], 1, 9, TRUE)), Bypass))
decode_mvd_component(p, base, sum) == MvdRest(decision_known(p, base + MvdIncrement(sum)), base)
Stored(value) == IF value < -70 \/ value > 70 THEN 70 ELSE IF value < 0 THEN -value ELSE value
\* A difference is stored in cells this slice has given a reference already.
update_partition_mvd(p, list, rect, x, y) ==
  IF \E c \in CellsOf(p, rect) : Cell(p, list, c[1], c[2]) = <<>> THEN Fail(p)
  ELSE [p EXCEPT !.cells[list] =
          [c \in CellsOf(p, rect) |-> [p.cells[list][c] EXCEPT !.mvd = <<Stored(x), Stored(y)>>]] @@ @]
MvdRead(p, list, rect, key, x) == update_partition_mvd(Emit(p, key \o <<x, p.value>>), list, rect, x, p.value)
MvdVertical(p, list, rect, key, sum) ==
  MvdRead(decode_mvd_component(p, 47, sum), list, rect, key, p.value)
decode_motion_vector_difference(p, list, rect, key) ==
  MvdVertical(decode_mvd_component(p, 40, MvdSum(p, list, rect, 1)), list, rect, key,
              MvdSum(p, list, rect, 2))

(***************************************************************************)
(* The coefficient blocks of a macroblock (cabac_residual.rs): the         *)
(* coded-block flag from the blocks to the left and above, the map of      *)
(* significant coefficients, and the levels from the last one down, in the *)
(* array that held their positions.                                        *)
(***************************************************************************)

(* CabacResidualCategory. *)
LumaDc == 0
LumaAc == 1
Luma4x4 == 2
ChromaDc == 3
ChromaAc == 4
Luma8x8 == 5
coded_block_flag_context_base == <<85, 89, 93, 97, 101>>
significant_coeff_context_base == <<105, 120, 134, 149, 152, 402>>
last_significant_coeff_context_base == <<166, 181, 195, 210, 213, 417>>
coefficient_level_context_base == <<227, 237, 247, 257, 266, 426>>
maximum_coefficients == <<16, 15, 16, 4, 15, 64>>

SIGNIFICANT_COEFF_OFFSETS_8X8 ==
  <<0, 1, 2, 3, 4, 5, 5, 4, 4, 3, 3, 4, 4, 4, 5, 5, 4, 4, 4, 4, 3, 3, 6, 7, 7, 7, 8, 9, 10, 9, 8,
    7, 7, 6, 11, 12, 13, 11, 6, 7, 8, 9, 14, 10, 9, 8, 6, 11, 12, 13, 11, 6, 9, 14, 10, 9, 11, 12,
    13, 11, 14, 10, 12>>
LAST_SIGNIFICANT_COEFF_OFFSETS_8X8 ==
  <<0, 1, 1, 1, 1, 1, 1, 1, 1, 1, 1, 1, 1, 1, 1, 1, 2, 2, 2, 2, 2, 2, 2, 2, 2, 2, 2, 2, 2, 2, 2, 2,
    3, 3, 3, 3, 3, 3, 3, 3, 4, 4, 4, 4, 4, 4, 4, 4, 5, 5, 5, 5, 6, 6, 6, 6, 7, 7, 7, 7, 8, 8, 8>>
SignificantContext(c, i) ==
  significant_coeff_context_base[c + 1] + IF c = Luma8x8 THEN SIGNIFICANT_COEFF_OFFSETS_8X8[i + 1] ELSE i
LastContext(c, i) ==
  last_significant_coeff_context_base[c + 1]
    + IF c = Luma8x8 THEN LAST_SIGNIFICANT_COEFF_OFFSETS_8X8[i + 1] ELSE i

\* The positions of significant coefficients go into the first slots of the
\* output; the coefficient after the last flag is significant without one.
Found(p, i) == [p EXCEPT !.coefs[p.count] = i, !.count = @ + 1]
RECURSIVE decode_significance_indices(_, _, _)
AfterLast(p, c, i) == IF p.bin = 1 THEN p ELSE decode_significance_indices(p, c, i + 1)
AfterSignificant(p, c, i) ==
  IF p.bin = 0 THEN decode_significance_indices(p, c, i + 1)
  ELSE AfterLast(decision_known(Found(p, i), LastContext(c, i)), c, i)
decode_significance_indices(p, c, i) ==
  IF ~ p.ok THEN p
  ELSE IF i = maximum_coefficients[c + 1] - 1 THEN Found(p, i)
  ELSE AfterSignificant(decision_known(p, SignificantContext(c, i)), c, i)

(* The contexts of a level by node: how many ones, or larger levels, came      *)
(* before it.                                                                  *)
COEFFICIENT_LEVEL_ONE_CONTEXTS == <<1, 2, 3, 4, 0, 0, 0, 0>>
COEFFICIENT_LEVEL_GREATER_THAN_ONE_CONTEXTS == <<5, 5, 5, 5, 6, 7, 8, 9>>
LEVEL_ONE_TRANSITIONS == <<1, 2, 3, 3, 4, 5, 6, 7>>
LEVEL_GREATER_THAN_ONE_TRANSITIONS == <<4, 4, 4, 4, 5, 6, 7, 7>>

RECURSIVE decode_coefficient_levels(_, _, _, _)
\* The slot is cleared before the level goes to its position.
Placed(coefs, slot, level) == [[coefs EXCEPT ![slot] = 0] EXCEPT ![coefs[slot]] = level]
Level(p, c, slot, node) ==
  decode_coefficient_levels(
    [p EXCEPT !.coefs = Placed(@, slot, IF p.bin = 0 THEN p.value ELSE -p.value)], c, slot - 1, node)
LargeLevel(p) == IF p.value = 15 THEN Escape(p, 0, 23) ELSE p
Magnitude(p, c, slot, node) ==
  IF p.bin = 0
  THEN Level(decision_known([p EXCEPT !.value = 1], Bypass), c, slot, LEVEL_ONE_TRANSITIONS[node + 1])
  ELSE Level(decision_known(LargeLevel(decode_unary(p,
               <<coefficient_level_context_base[c + 1]
                   + COEFFICIENT_LEVEL_GREATER_THAN_ONE_CONTEXTS[node + 1]>>, 2, 15, TRUE)), Bypass),
             c, slot, LEVEL_GREATER_THAN_ONE_TRANSITIONS[node + 1])
decode_coefficient_levels(p, c, slot, node) ==
  IF ~ p.ok \/ slot < 0 THEN p
  ELSE Magnitude(decision_known(p, coefficient_level_context_base[c + 1]
                                     + COEFFICIENT_LEVEL_ONE_CONTEXTS[node + 1]), c, slot, node)
Levels(p, c) == decode_coefficient_levels(p, c, p.count - 1, 0)
decode_cabac_coefficient_block(p, c) ==
  Levels(decode_significance_indices(
           [p EXCEPT !.coefs = [i \in 0 .. maximum_coefficients[c + 1] - 1 |-> 0], !.count = 0], c, 0), c)

(* Coded-block flags: entries <<grid, x, y>>. *)
LumaGrid == 0
ChromaGrid(plane) == 1 + plane
LumaDcGrid == 3
ChromaDcGrid(plane) == 4 + plane
\* Blocks in coding order within a macroblock, and within an 8x8 region.
LUMA_BLOCK_COORDINATES ==
  << <<0, 0>>, <<1, 0>>, <<0, 1>>, <<1, 1>>, <<2, 0>>, <<3, 0>>, <<2, 1>>, <<3, 1>>,
     <<0, 2>>, <<1, 2>>, <<0, 3>>, <<1, 3>>, <<2, 2>>, <<3, 2>>, <<2, 3>>, <<3, 3>> >>
Column(p) == p.mb.address % p.slice.width
Row(p) == p.mb.address \div p.slice.width
\* The entry of block b = <<category, plane, index>>; of an 8x8 block, the first.
grid_and_coordinates(p, b) ==
  CASE b[1] = LumaDc -> <<LumaDcGrid, Column(p), Row(p)>>
    [] b[1] \in {LumaAc, Luma4x4} ->
         <<LumaGrid, 4 * Column(p) + LUMA_BLOCK_COORDINATES[b[3] + 1][1],
                     4 * Row(p) + LUMA_BLOCK_COORDINATES[b[3] + 1][2]>>
    [] b[1] = ChromaDc -> <<ChromaDcGrid(b[2]), Column(p), Row(p)>>
    [] b[1] = ChromaAc -> <<ChromaGrid(b[2]), 2 * Column(p) + (b[3] % 2), 2 * Row(p) + (b[3] \div 2)>>
    [] OTHER -> <<LumaGrid, 4 * Column(p) + 2 * (b[3] % 2), 4 * Row(p) + 2 * (b[3] \div 2)>>

Square(grid, x, y, size) == {grid} \X (x .. x + size - 1) \X (y .. y + size - 1)
LumaRegion(p, region) ==
  Square(LumaGrid, 4 * Column(p) + 2 * (region % 2), 4 * Row(p) + 2 * (region \div 2), 2)
ChromaAcPlane(p, plane) == Square(ChromaGrid(plane), 2 * Column(p), 2 * Row(p), 2)
DcOf(p, grids) == grids \X {Column(p)} \X {Row(p)}
EntriesOf(p, b) ==
  IF b[1] = Luma8x8 THEN LumaRegion(p, b[3]) ELSE {grid_and_coordinates(p, b)}
AllEntries(p) ==
  UNION {LumaRegion(p, region) : region \in 0 .. 3}
    \cup ChromaAcPlane(p, 0) \cup ChromaAcPlane(p, 1) \cup DcOf(p, 3 .. 5)
record_blocks(p, entries, coded) ==
  [p EXCEPT !.coded = [e \in entries |-> [slice |-> p.slice.id, coded |-> coded]] @@ @]
record_pcm_macroblock(p) == record_blocks(p, AllEntries(p), TRUE)
record_zero_inter_macroblock(p) == record_blocks(p, AllEntries(p), FALSE)

\* Mutant: the entry of a neighbour in another slice of the picture counts.
NeighbourOfAnySlice(p, entry) ==
  IF entry \in DOMAIN p.coded THEN p.coded[entry].coded ELSE p.mb.intra
\* A block beyond the slice counts as coded for an intra macroblock.
neighbour_coded(p, entry) ==
  IF entry \in DOMAIN p.coded /\ p.coded[entry].slice = p.slice.id THEN p.coded[entry].coded
  ELSE p.mb.intra
FlagIncrement(p, e) ==
  (IF neighbour_coded(p, <<e[1], e[2] - 1, e[3]>>) THEN 1 ELSE 0)
    + (IF neighbour_coded(p, <<e[1], e[2], e[3] - 1>>) THEN 2 ELSE 0)
coded_block_flag_context_index(p, b) ==
  coded_block_flag_context_base[b[1] + 1] + FlagIncrement(p, grid_and_coordinates(p, b))

Coefficients(p) == [i \in 1 .. Cardinality(DOMAIN p.coefs) |-> p.coefs[i - 1]]
BlockRead(p, b) == Emit(record_blocks(p, EntriesOf(p, b), TRUE), <<"block">> \o b \o <<Coefficients(p)>>)
AfterFlag(p, b) ==
  IF p.bin = 0 THEN Emit(record_blocks(p, EntriesOf(p, b), FALSE), <<"block">> \o b \o << <<>> >>)
  ELSE BlockRead(decode_cabac_coefficient_block(p, b[1]), b)
\* In 4:2:0 an 8x8 block has no flag of its own.
decode_residual_block(p, b) ==
  IF b[1] = Luma8x8 THEN AfterFlag([p EXCEPT !.bin = 1], b)
  ELSE AfterFlag(decision_known(p, coded_block_flag_context_index(p, b)), b)

(* The blocks of a macroblock, as elements still to be read. *)
Block(c, plane, index) == <<"block", c, plane, index>>
LumaElements == [r \in 1 .. 4 |-> <<"region", r - 1>>]
ChromaElements == << <<"chroma dc">> >>
decode_intra_residual(p) ==
  IF p.mb.number = 0
  THEN Push(record_blocks(p, DcOf(p, {LumaDcGrid}), FALSE), LumaElements \o ChromaElements)
  ELSE Push(p, <<Block(LumaDc, 0, 0)>> \o LumaElements \o ChromaElements)
decode_inter_residual(p) ==
  IF p.mb.luma = {} /\ p.mb.chroma_coded = 0 THEN record_zero_inter_macroblock(p)
  ELSE Push(record_blocks(p, DcOf(p, {LumaDcGrid}), FALSE), LumaElements \o ChromaElements)
decode_luma_region(p, region) ==
  IF region \notin p.mb.luma THEN record_blocks(p, LumaRegion(p, region), FALSE)
  ELSE IF p.mb.t8 THEN Push(p, <<Block(Luma8x8, 0, region)>>)
  ELSE Push(p, [i \in 1 .. 4 |-> Block(IF p.mb.intra /\ p.mb.number # 0 THEN LumaAc ELSE Luma4x4,
                                       0, 4 * region + i - 1)])
decode_chroma_dc(p) ==
  IF p.mb.chroma_coded = 0
  THEN record_blocks(p, ChromaAcPlane(p, 0) \cup ChromaAcPlane(p, 1) \cup DcOf(p, {4, 5}), FALSE)
  ELSE Push(p, <<Block(ChromaDc, 0, 0), Block(ChromaDc, 1, 0), <<"chroma ac">>>>)
decode_chroma_ac(p) ==
  IF p.mb.chroma_coded = 1
  THEN record_blocks(p, ChromaAcPlane(p, 0) \cup ChromaAcPlane(p, 1), FALSE)
  ELSE Push(p, [i \in 1 .. 8 |-> Block(ChromaAc, (i - 1) \div 4, (i - 1) % 4)])
=============================================================================
