------------------------------ MODULE Vp9Entropy ------------------------------
(***************************************************************************)
(* The entropy layer of decv-vp9: the boolean decoder, the compressed      *)
(* header that updates a frame's probabilities, and the adaptation of      *)
(* probabilities to the symbols counted in a frame; with the boolean       *)
(* encoder and the definitions of VP9 that they must agree with.           *)
(***************************************************************************)
EXTENDS Integers, Sequences
LOCAL INSTANCE SequencesExt
LOCAL INSTANCE FiniteSetsExt

CONSTANT Bands  \* bands of coefficients; 6 in the code

(***************************************************************************)
(* The boolean decoder over bytes.  What follows the data reads as zeros.  *)
(***************************************************************************)
Byte(data, k) == IF k <= Len(data) THEN data[k] ELSE 0
Shift(range) == CHOOSE n \in 0 .. 7 : range * 2 ^ n \in 128 .. 255
Refill(d) ==
  IF d.pending_shift < 8 THEN d
  ELSE [d EXCEPT !.pending_shift = @ - 8, !.value = @ + Byte(d.data, d.cursor + 1) * 2 ^ (d.pending_shift - 8),
                 !.cursor = @ + 1]
Normalize(d, shift) ==
  Refill([d EXCEPT !.range = @ * 2 ^ shift, !.value = (@ * 2 ^ shift) % 65536, !.pending_shift = @ + shift])
Decide(d, split) ==
  IF d.value >= split * 256
  THEN Normalize([d EXCEPT !.range = @ - split, !.value = @ - split * 256, !.bit = 1], Shift(d.range - split))
  ELSE Normalize([d EXCEPT !.range = split, !.bit = 0], Shift(split))
read_bool(d, probability) == Decide(d, (d.range * probability + (256 - probability)) \div 256)
read_bit(d) == read_bool(d, 128)

BoolDecoder(data) ==
  read_bit([data |-> data, cursor |-> 2, range |-> 255, value |-> Byte(data, 1) * 256 + Byte(data, 2),
            pending_shift |-> 0, bit |-> 0, literal |-> 0])
\* The marker bit is zero.
Opened(data, d) == data # <<>> /\ d.bit = 0

\* A literal of more bits, the first one on top.
RECURSIVE MoreBits(_, _)
WithBit(d, count) == MoreBits([d EXCEPT !.literal = 2 * @ + d.bit], count - 1)
MoreBits(d, count) == IF count = 0 THEN d ELSE WithBit(read_bit(d), count)
read_literal(d, count) == MoreBits([d EXCEPT !.literal = 0], count)

(***************************************************************************)
(* The compressed header.  The parser is p = [d, updates, transform_mode,  *)
(* reference_mode]; an update is [kind, index, coded, replaces].           *)
(***************************************************************************)
DIFF_UPDATE_PROBABILITY == 252
Only4x4 == 0
Allow32x32 == 3
Select == 4
SingleReference == "single"
CompoundReference == "compound"
SelectReference == "select"

\* Values up to 64 have classes of their own; the greater ones have one bit more.
LargeValue(d) ==
  IF d.literal < 65 THEN [d EXCEPT !.literal = @ + 64]
  ELSE [read_bit(d) EXCEPT !.literal = 2 * d.literal - 1 + read_bit(d).bit]
AddTo(d, base) == [d EXCEPT !.literal = @ + base]
Third(d) == IF d.bit = 0 THEN AddTo(read_literal(d, 5), 32) ELSE LargeValue(read_literal(d, 7))
Second(d) == IF d.bit = 0 THEN AddTo(read_literal(d, 4), 16) ELSE Third(read_bit(d))
First(d) == IF d.bit = 0 THEN read_literal(d, 4) ELSE Second(read_bit(d))
decode_term_subexp(d) == First(read_bit(d))

\* A group of updates: the kind, the first index, how many, and whether they replace.
Group(kind, first, count) == [kind |-> kind, first |-> first, count |-> count, replaces |-> FALSE]
Replacing(first, count) == [Group("motion_vector", first, count) EXCEPT !.replaces = TRUE]
Update(p, g, index, d, coded) ==
  [p EXCEPT !.d = d, !.updates =
     Append(@, [kind |-> g.kind, index |-> index, coded |-> coded, replaces |-> g.replaces])]
UpdateValue(p, g, index, d) ==
  IF g.replaces THEN Update(p, g, index, read_literal(d, 7), 2 * read_literal(d, 7).literal + 1)
  ELSE Update(p, g, index, decode_term_subexp(d), decode_term_subexp(d).literal)
RECURSIVE read_updates_at(_, _, _)
OneUpdate(p, g, k, d) ==
  read_updates_at(IF d.bit = 1 THEN UpdateValue(p, g, g.first + k, d) ELSE [p EXCEPT !.d = d], g, k + 1)
read_updates_at(p, g, k) ==
  IF p.d.range = 0 \/ k = g.count THEN p ELSE OneUpdate(p, g, k, read_bool(p.d, DIFF_UPDATE_PROBABILITY))
RECURSIVE Updates(_, _)
Updates(p, groups) == IF groups = <<>> THEN p ELSE Updates(read_updates_at(p, Head(groups), 0), Tail(groups))

ModeOf(p, d, last) ==
  IF d.literal < 3 THEN [p EXCEPT !.d = d, !.transform_mode = d.literal]
  ELSE [p EXCEPT !.d = last, !.transform_mode = Allow32x32 + last.bit]
ModeRead(p, d) == ModeOf(p, d, read_bit(d))
read_transform_mode(p, lossless) ==
  IF lossless THEN [p EXCEPT !.transform_mode = Only4x4] ELSE ModeRead(p, read_literal(p.d, 2))
TransformUpdates(p) ==
  IF p.transform_mode # Select THEN p
  ELSE Updates(p, <<Group("transform", 10, 2), Group("transform", 6, 4), Group("transform", 0, 6)>>)

coefficient_count_per_size == 2 * 2 * (3 + (Bands - 1) * 6) * 3
maximum_size_index(mode) == IF mode = Select THEN 3 ELSE mode
RECURSIVE CoefficientUpdates(_, _)
SizeUpdates(p, size, d) ==
  CoefficientUpdates(
    IF d.bit = 0 THEN [p EXCEPT !.d = d]
    ELSE Updates([p EXCEPT !.d = d], <<Group("coefficient", size * coefficient_count_per_size, coefficient_count_per_size)>>),
    size + 1)
CoefficientUpdates(p, size) ==
  IF size > maximum_size_index(p.transform_mode) THEN p ELSE SizeUpdates(p, size, read_bit(p.d))

compound_allowed(sign_bias) == sign_bias[2] # sign_bias[1] \/ sign_bias[3] # sign_bias[1]
SelectOrCompound(p, d) ==
  [p EXCEPT !.d = d, !.reference_mode = IF d.bit = 1 THEN SelectReference ELSE CompoundReference]
SomeCompound(p, d) == IF d.bit = 0 THEN [p EXCEPT !.d = d] ELSE SelectOrCompound(p, read_bit(d))
read_reference_mode(p, sign_bias) == IF compound_allowed(sign_bias) THEN SomeCompound(p, read_bit(p.d)) ELSE p
ReferenceUpdates(p) ==
  Updates(p, (IF p.reference_mode = SelectReference THEN <<Group("compound_inter", 0, 5)>> ELSE <<>>)
             \o (IF p.reference_mode # CompoundReference THEN <<Group("single_reference", 0, 10)>> ELSE <<>>)
             \o (IF p.reference_mode # SingleReference THEN <<Group("compound_reference", 0, 5)>> ELSE <<>>))

\* Sign, classes and bits of both components, their fractions, then high precision.
MotionVectorGroups(high_precision) ==
  <<Replacing(0, 3), Replacing(3, 22), Replacing(36, 22), Replacing(25, 9), Replacing(58, 9)>>
    \o (IF high_precision THEN <<Replacing(34, 2), Replacing(67, 2)>> ELSE <<>>)
InterUpdates(p, h) ==
  Updates(ReferenceUpdates(read_reference_mode(
            Updates(p, <<Group("inter_mode", 0, 21)>>
                         \o (IF h.switchable THEN <<Group("interpolation", 0, 8)>> ELSE <<>>)
                         \o <<Group("intra_inter", 0, 4)>>),
            h.sign_bias)),
          <<Group("y_mode", 0, 36), Group("partition", 0, 48)>> \o MotionVectorGroups(h.high_precision))
SkipUpdates(p) == Updates(p, <<Group("skip", 0, 3)>>)
AfterCoefficients(p, h) == IF h.intra_only THEN SkipUpdates(p) ELSE InterUpdates(SkipUpdates(p), h)
\* h is what the uncompressed header says: [lossless, intra_only, switchable, sign_bias, high_precision].
ParseWith(d, h) ==
  AfterCoefficients(
    CoefficientUpdates(
      TransformUpdates(
        read_transform_mode([d |-> d, updates |-> <<>>, transform_mode |-> Only4x4, reference_mode |-> SingleReference],
                            h.lossless)), 0), h)

(***************************************************************************)
(* Probabilities: a sequence for each kind; those of coefficients are of   *)
(* the four sizes one after another.                                       *)
(***************************************************************************)
\* The first twenty values are far apart, the others fill the gaps.
OtherValues == SelectSeq([v \in 1 .. 253 |-> v], LAMBDA v : v % 13 # 7)
inverse_map == [index \in 0 .. 254 |->
                 IF index < 20 THEN 7 + 13 * index
                 ELSE IF index - 19 <= Len(OtherValues) THEN OtherValues[index - 19] ELSE 253]
inverse_recenter_nonnegative(value, center) ==
  IF value > 2 * center THEN value
  ELSE IF value % 2 = 1 THEN center - ((value + 1) \div 2) ELSE center + (value \div 2)
inverse_remap_probability(delta, probability) ==
  IF 2 * (probability - 1) <= 255
  THEN 1 + inverse_recenter_nonnegative(inverse_map[delta], probability - 1)
  ELSE 255 - inverse_recenter_nonnegative(inverse_map[delta], 254 - (probability - 1))

apply_one(context, u) ==
  [context EXCEPT ![u.kind][u.index + 1] =
     IF u.replaces THEN u.coded ELSE inverse_remap_probability(u.coded, @)]
apply(context, updates) == FoldLeft(apply_one, context, updates)

(***************************************************************************)
(* Adaptation.  counts has the same kinds; a count of a coefficient model  *)
(* is [eob_branches, tokens].                                              *)
(***************************************************************************)
Rounded(previous, probability, factor) == (previous * (256 - factor) + probability * factor + 128) \div 256
ClampProbability(v) == CASE v < 1 -> 1 [] v > 255 -> 255 [] OTHER -> v
Ratio(zeros, total) == ClampProbability((zeros * 256 + (total \div 2)) \div total)
merge_probs(previous, branch, saturation, maximum_factor) ==
  LET total == branch[1] + branch[2]
  IN  Rounded(previous, IF total = 0 THEN 128 ELSE Ratio(branch[1], total),
              (maximum_factor * (IF total < saturation THEN total ELSE saturation)) \div saturation)
FACTORS == <<0, 6, 12, 19, 25, 32, 38, 44, 51, 57, 64, 70, 76, 83, 89, 96, 102, 108, 115, 121, 128>>
mode_mv_merge_probs(previous, branch) ==
  LET total == branch[1] + branch[2]
  IN  IF total = 0 THEN previous
      ELSE Rounded(previous, Ratio(branch[1], total), FACTORS[(IF total < 20 THEN total ELSE 20) + 1])

\* Trees: pairs of children; a child that is not positive is the symbol of that magnitude.
INTRA_MODE_TREE == <<0, 2, -9, 4, -1, 6, 8, 12, -2, 10, -4, -5, -3, 14, -8, 16, -6, -7>>
INTER_MODE_TREE == <<-2, 2, 0, 4, -1, -3>>
PARTITION_TREE == <<0, 2, -1, 4, -2, -3>>
SWITCHABLE_INTERPOLATION_TREE == <<0, 2, -1, -2>>
MV_JOINT_TREE == <<0, 2, -1, 4, -2, -3>>
MV_CLASS_TREE == <<0, 2, -1, 4, 6, 8, -2, -3, 10, 12, -4, -5, -6, 14, 16, 18, -7, -8, -9, -10>>
MV_FRACTIONAL_TREE == <<0, 2, -1, 4, -2, -3>>
RECURSIVE subtree_count(_, _, _)
subtree_count(child, tree, counts) ==
  IF child <= 0 THEN counts[1 - child]
  ELSE subtree_count(tree[child + 1], tree, counts) + subtree_count(tree[child + 2], tree, counts)
Branch(tree, node, counts) ==
  <<subtree_count(tree[2 * node - 1], tree, counts), subtree_count(tree[2 * node], tree, counts)>>
merge_tree_probabilities(previous, tree, counts) ==
  [node \in DOMAIN previous |-> mode_mv_merge_probs(previous[node], Branch(tree, node, counts))]

Slice(probabilities, first, count) == SubSeq(probabilities, first + 1, first + count)
MergedTrees(previous, n, tree, counts) ==
  FlattenSeq([k \in DOMAIN counts |-> merge_tree_probabilities(Slice(previous, (k - 1) * n, n), tree, counts[k])])
MergedFlags(previous, counts) == [k \in DOMAIN counts |-> mode_mv_merge_probs(previous[k], counts[k])]

\* The index of a model within its size is the order of its counts.
CoefficientBranches(c) ==
  <<<<c.tokens[4], IF c.eob_branches < c.tokens[4] THEN 0 ELSE c.eob_branches - c.tokens[4]>>,
    <<c.tokens[1], c.tokens[2] + c.tokens[3]>>, <<c.tokens[2], c.tokens[3]>>>>
UpdateFactor(intra_only, previous_was_key) == IF ~ intra_only /\ previous_was_key THEN 128 ELSE 112
MergedModel(previous, branches, factor) ==
  [node \in 1 .. 3 |-> merge_probs(previous[node], branches[node], 24, factor)]
adapt_coefficients(previous, counts, factor) ==
  FlattenSeq([m \in DOMAIN counts |->
    MergedModel(Slice(previous, 3 * (m - 1), 3), CoefficientBranches(counts[m]), factor)])

\* Three and two probabilities for each context, then one.
AdaptedTransform(previous, counts) ==
  LET At(k, branch) == mode_mv_merge_probs(previous[k + 1], branch)
      Large(c) == [node \in 1 .. 3 |->
        At(3 * (c - 1) + node - 1,
           LET n == counts.transform_32x32[c]
           IN  <<<<n[1], n[2] + n[3] + n[4]>>, <<n[2], n[3] + n[4]>>, <<n[3], n[4]>>>>[node])]
      Middle(c) == [node \in 1 .. 2 |->
        At(6 + 2 * (c - 1) + node - 1,
           LET n == counts.transform_16x16[c] IN <<<<n[1], n[2] + n[3]>>, <<n[2], n[3]>>>>[node])]
      Small(c) == <<At(10 + c - 1, counts.transform_8x8[c])>>
  IN  Large(1) \o Large(2) \o Middle(1) \o Middle(2) \o Small(1) \o Small(2)

adapt_modes(context, previous, counts, transform_select, switchable) ==
  [context EXCEPT
    !.intra_inter = MergedFlags(previous.intra_inter, counts.intra_inter),
    !.compound_inter = MergedFlags(previous.compound_inter, counts.compound_inter),
    !.compound_reference = MergedFlags(previous.compound_reference, counts.compound_reference),
    !.single_reference = MergedFlags(previous.single_reference, FlattenSeq(counts.single_reference)),
    !.inter_mode = MergedTrees(previous.inter_mode, 3, INTER_MODE_TREE, counts.inter_mode),
    !.y_mode = MergedTrees(previous.y_mode, 9, INTRA_MODE_TREE, counts.y_mode),
    !.uv_mode = MergedTrees(previous.uv_mode, 9, INTRA_MODE_TREE, counts.uv_mode),
    !.partition = MergedTrees(previous.partition, 3, PARTITION_TREE, counts.partition),
    !.interpolation =
      IF switchable
      THEN MergedTrees(previous.interpolation, 2, SWITCHABLE_INTERPOLATION_TREE, counts.interpolation) ELSE @,
    !.transform = IF transform_select THEN AdaptedTransform(previous.transform, counts) ELSE @,
    !.skip = MergedFlags(previous.skip, counts.skip)]

MergedComponent(current, previous, c, high_precision) ==
  MergedFlags(Slice(previous, 0, 1), <<c.sign>>)
  \o merge_tree_probabilities(Slice(previous, 1, 10), MV_CLASS_TREE, c.classes)
  \o MergedFlags(Slice(previous, 11, 11), <<c.class_zero>> \o c.bits)
  \o MergedTrees(Slice(previous, 22, 9), 3, MV_FRACTIONAL_TREE, Append(c.class_zero_fractional, c.fractional))
  \o (IF high_precision
      THEN MergedFlags(Slice(previous, 31, 2), <<c.class_zero_high_precision, c.high_precision>>)
      ELSE Slice(current, 31, 2))
adapt_motion_vectors(context, previous, counts, high_precision) ==
  [context EXCEPT !.motion_vector =
    merge_tree_probabilities(Slice(previous.motion_vector, 0, 3), MV_JOINT_TREE, counts.joints)
    \o MergedComponent(Slice(@, 3, 33), Slice(previous.motion_vector, 3, 33), counts.components[1], high_precision)
    \o MergedComponent(Slice(@, 36, 33), Slice(previous.motion_vector, 36, 33), counts.components[2], high_precision)]

\* The counts of a frame's tiles are added up.
add_counts(a, b) == [k \in DOMAIN a |-> a[k] + b[k]]
add_nested_counts(a, b) == [k \in DOMAIN a |-> add_counts(a[k], b[k])]
TileSum(kind, a, b) ==
  CASE kind = "joints" -> add_counts(a, b)
    [] kind = "single_reference" -> [k \in DOMAIN a |-> add_nested_counts(a[k], b[k])]
    [] kind = "components" ->
         [k \in DOMAIN a |-> [of \in DOMAIN a[k] |->
            IF of \in {"bits", "class_zero_fractional"} THEN add_nested_counts(a[k][of], b[k][of])
            ELSE add_counts(a[k][of], b[k][of])]]
    [] kind = "coefficient" ->
         [k \in DOMAIN a |-> [eob_branches |-> a[k].eob_branches + b[k].eob_branches,
                              tokens |-> add_counts(a[k].tokens, b[k].tokens)]]
    [] OTHER -> add_nested_counts(a, b)
merge_from(a, b) == [kind \in DOMAIN a |-> TileSum(kind, a[kind], b[kind])]

(***************************************************************************)
(* The boolean encoder: low and range in units of the bit to come, and a   *)
(* carry into the bits that are out.                                       *)
(***************************************************************************)
BoolEncoder == [low |-> 0, range |-> 255, bits |-> <<>>]
Carry(bits) ==
  LET k == Max({i \in DOMAIN bits : bits[i] = 0})
  IN  [i \in DOMAIN bits |-> IF i < k THEN bits[i] ELSE IF i = k THEN 1 ELSE 0]
Carried(e) == IF e.low < 256 THEN e ELSE [e EXCEPT !.low = @ - 256, !.bits = Carry(@)]
Emit(e) == [low |-> (2 * e.low) % 256, range |-> 2 * e.range, bits |-> Append(e.bits, e.low \div 128)]
RECURSIVE Renormalized(_)
Renormalized(e) == IF e.range >= 128 THEN e ELSE Renormalized(Emit(e))
Coded(e, bit, split) ==
  IF bit = 1 THEN Renormalized(Carried([e EXCEPT !.low = @ + split, !.range = @ - split]))
  ELSE Renormalized([e EXCEPT !.range = split])
\* A symbol is a bit and the probability of zero.
write_bool(e, symbol) == Coded(e, symbol[1], 1 + (((e.range - 1) * symbol[2]) \div 256))
RECURSIVE Put(_, _)
Put(e, symbols) == IF e.range = 0 \/ symbols = <<>> THEN e ELSE Put(write_bool(e, Head(symbols)), Tail(symbols))
Opening == write_bool(BoolEncoder, <<0, 128>>)

ValueBits(value, n) == [i \in 1 .. n |-> (value \div 2 ^ (n - i)) % 2]
AllBits(e) == e.bits \o ValueBits(e.low, 8)
Bytes(bits) ==
  [k \in 1 .. ((Len(bits) + 7) \div 8) |->
    LET bit(i) == IF 8 * (k - 1) + i <= Len(bits) THEN bits[8 * (k - 1) + i] ELSE 0
    IN  bit(1) * 128 + bit(2) * 64 + bit(3) * 32 + bit(4) * 16 + bit(5) * 8 + bit(6) * 4 + bit(7) * 2 + bit(8)]
Finished(e) == Bytes(AllBits(e))
\* Zero bytes at the end need not be sent.
Trimmed(bytes) == SubSeq(bytes, 1, Max({1} \cup {k \in DOMAIN bytes : bytes[k] # 0}))

RECURSIVE DecodesTo(_, _)
BitIs(d, symbols) == d.bit = Head(symbols)[1] /\ DecodesTo(d, Tail(symbols))
DecodesTo(d, symbols) == symbols = <<>> \/ BitIs(read_bool(d, Head(symbols)[2]), symbols)
\* Every string of symbols comes back, also when its last zero bytes are cut off.
BytesDecodeTo(bytes, symbols) == Opened(bytes, BoolDecoder(bytes)) /\ DecodesTo(BoolDecoder(bytes), symbols)
BoolsReadBack(symbols) ==
  LET bytes == Finished(Put(Opening, symbols))
  IN  BytesDecodeTo(bytes, symbols) /\ BytesDecodeTo(Trimmed(bytes), symbols)

(***************************************************************************)
(* The writer of compressed headers: a difference is coded as its place in *)
(* the order of the nearest probabilities, coarse steps first.             *)
(***************************************************************************)
Literal(value, n) == [i \in 1 .. n |-> <<ValueBits(value, n)[i], 128>>]
Recentered(v, m) == IF v > 2 * m THEN v ELSE IF v >= m THEN 2 * (v - m) ELSE 2 * (m - v) - 1
Distance(new, old) ==
  IF 2 * (old - 1) <= 255 THEN Recentered(new - 1, old - 1) - 1 ELSE Recentered(255 - new, 255 - old) - 1
MapTable(i) == IF (i + 1) % 13 = 7 THEN (i + 1) \div 13 ELSE 20 + i - ((i + 6) \div 13)
Uniform(v) == IF v < 65 THEN Literal(v, 7) ELSE Literal(65 + ((v - 65) \div 2), 7) \o Literal((v - 65) % 2, 1)
TermSubexp(v) ==
  CASE v < 16 -> Literal(0, 1) \o Literal(v, 4)
    [] v \in 16 .. 31 -> Literal(2, 2) \o Literal(v - 16, 4)
    [] v \in 32 .. 63 -> Literal(6, 3) \o Literal(v - 32, 5)
    [] v >= 64 -> Literal(7, 3) \o Uniform(v - 64)
UpdateSymbols(kind, new, old) ==
  IF new = old THEN <<<<0, 252>>>>
  ELSE <<<<1, 252>>>> \o (IF kind = "motion_vector" THEN Literal(new \div 2, 7) ELSE TermSubexp(MapTable(Distance(new, old))))
\* The probabilities of a kind at the places of a sequence, one after another.
RECURSIVE PutUpdates(_, _, _, _, _)
PutUpdates(e, kind, places, new, old) ==
  IF e.range = 0 \/ places = <<>> THEN e
  ELSE PutUpdates(Put(e, UpdateSymbols(kind, new[kind][Head(places) + 1], old[kind][Head(places) + 1])), kind, Tail(places), new, old)
From(first, count) == [k \in 1 .. count |-> first + k - 1]
RECURSIVE PutKinds(_, _, _, _)
PutKinds(e, kinds, new, old) ==
  IF kinds = <<>> THEN e
  ELSE PutKinds(PutUpdates(e, Head(kinds)[1], Head(kinds)[2], new, old), Tail(kinds), new, old)
CoefficientsOf(size) == From(size * 12 * (6 * Bands - 3), 12 * (6 * Bands - 3))
Changed(places, new, old) == \E k \in DOMAIN places : new.coefficient[places[k] + 1] # old.coefficient[places[k] + 1]
RECURSIVE PutSizes(_, _, _, _, _)
PutSizes(e, size, last, new, old) ==
  IF e.range = 0 \/ size > last THEN e
  ELSE PutSizes(IF Changed(CoefficientsOf(size), new, old)
                THEN PutUpdates(Put(e, Literal(1, 1)), "coefficient", CoefficientsOf(size), new, old)
                ELSE Put(e, Literal(0, 1)), size + 1, last, new, old)
\* m is [transform, reference]: the modes; joints, then the components in two rounds or three.
ModeSymbols(h, m) ==
  IF h.lossless THEN <<>> ELSE IF m.transform < 3 THEN Literal(m.transform, 2) ELSE Literal(m.transform + 3, 3)
ReferenceSymbols(h, m) ==
  IF Cardinality({h.sign_bias[k] : k \in 1 .. 3}) = 1 THEN <<>>
  ELSE CASE m.reference = "single" -> Literal(0, 1) [] m.reference = "compound" -> Literal(2, 2)
         [] m.reference = "select" -> Literal(3, 2)
If(condition, kinds) == IF condition THEN kinds ELSE <<>>
VectorPlaces(h) ==
  From(0, 3) \o From(3, 22) \o From(36, 22) \o From(25, 9) \o From(58, 9)
    \o If(h.high_precision, From(34, 2) \o From(67, 2))
BeforeReference(h) ==
  <<<<"inter_mode", From(0, 21)>>>> \o If(h.switchable, <<<<"interpolation", From(0, 8)>>>>) \o <<<<"intra_inter", From(0, 4)>>>>
AfterReference(h, m) ==
  If(m.reference = "select", <<<<"compound_inter", From(0, 5)>>>>)
    \o If(m.reference # "compound", <<<<"single_reference", From(0, 10)>>>>)
    \o If(m.reference # "single", <<<<"compound_reference", From(0, 5)>>>>)
    \o <<<<"y_mode", From(0, 36)>>, <<"partition", From(0, 48)>>, <<"motion_vector", VectorPlaces(h)>>>>
TransformKinds(m) == If(m.transform = 4, <<<<"transform", From(10, 2) \o From(6, 4) \o From(0, 6)>>>>)
PutInter(e, h, m, new, old) ==
  IF h.intra_only THEN e
  ELSE PutKinds(Put(PutKinds(e, BeforeReference(h), new, old), ReferenceSymbols(h, m)), AfterReference(h, m), new, old)
CompressedBytes(h, m, new, old) ==
  Finished(PutInter(
    PutKinds(PutSizes(PutKinds(Put(Opening, ModeSymbols(h, m)), TransformKinds(m), new, old),
                      0, IF m.transform = 4 THEN 3 ELSE m.transform, new, old),
             <<<<"skip", From(0, 3)>>>>, new, old), h, m, new, old))

\* Whatever probabilities a frame is to have, the updates that code them lead there.
Reached(p, m, new, old) ==
  p.transform_mode = m.transform /\ p.reference_mode = m.reference /\ apply(old, p.updates) = new
CompressedReadBack(h, m, new, old) ==
  LET bytes == CompressedBytes(h, m, new, old)
  IN  Opened(bytes, BoolDecoder(bytes)) /\ Reached(ParseWith(BoolDecoder(bytes), h), m, new, old)
\* Every other probability is coded by one difference.
EveryProbabilityReachable(old) ==
  /\ {inverse_remap_probability(delta, old) : delta \in 0 .. 253} = (1 .. 255) \ {old}
  /\ \A new \in (1 .. 255) \ {old} : inverse_remap_probability(MapTable(Distance(new, old)), old) = new

(***************************************************************************)
(* Adaptation as VP9 defines it: each node of a tree, by the decisions the *)
(* counted symbols take there.  A code is the string of decisions of each  *)
(* symbol; counts are those of each tile.                                  *)
(***************************************************************************)
UnaryCode(n) == [k \in 1 .. n |-> [i \in 1 .. (IF k < n THEN k ELSE n - 1) |-> IF i < k THEN 1 ELSE 0]]
ModeCode ==
  <<<<0>>, <<1, 1, 0>>, <<1, 1, 1, 0, 0>>, <<1, 1, 1, 1, 0>>, <<1, 1, 1, 0, 1, 0>>, <<1, 1, 1, 0, 1, 1>>,
    <<1, 1, 1, 1, 1, 1, 0>>, <<1, 1, 1, 1, 1, 1, 1>>, <<1, 1, 1, 1, 1, 0>>, <<1, 0>>>>
InterModeCode == <<<<1, 0>>, <<1, 1, 0>>, <<0>>, <<1, 1, 1>>>>
ClassCode ==
  <<<<0>>, <<1, 0>>, <<1, 1, 0, 0>>, <<1, 1, 0, 1>>, <<1, 1, 1, 0, 0>>, <<1, 1, 1, 0, 1>>, <<1, 1, 1, 1, 0>>,
    <<1, 1, 1, 1, 1, 0, 0>>, <<1, 1, 1, 1, 1, 0, 1>>, <<1, 1, 1, 1, 1, 1, 0>>, <<1, 1, 1, 1, 1, 1, 1>>>>
Nodes(code) == UNION {{SubSeq(code[k], 1, n) : n \in 0 .. Len(code[k]) - 1} : k \in DOMAIN code}
\* Nodes in order: one before those under it, those under zero before those under one.
Before(a, b) ==
  \/ IsStrictPrefix(a, b)
  \/ \E k \in 1 .. (IF Len(a) < Len(b) THEN Len(a) ELSE Len(b)) :
       SubSeq(a, 1, k - 1) = SubSeq(b, 1, k - 1) /\ a[k] < b[k]
InOrder(nodes) ==
  [n \in 1 .. Cardinality(nodes) |-> CHOOSE q \in nodes : Cardinality({r \in nodes : Before(r, q)}) = n - 1]
\* Of a code: for each node, the symbols that decide zero there, and one.
Decisions(code) ==
  LET nodes == InOrder(Nodes(code))
      Under(prefix) == {s \in DOMAIN code : IsPrefix(prefix, code[s])}
  IN  [n \in DOMAIN nodes |-> <<Under(Append(nodes[n], 0)), Under(Append(nodes[n], 1))>>]
CodeNames == {"flag", "three", "four", "mode", "inter mode", "class"}
DecisionsOf ==
  [name \in CodeNames |->
    Decisions(CASE name = "flag" -> UnaryCode(2) [] name = "three" -> UnaryCode(3) [] name = "four" -> UnaryCode(4)
                [] name = "mode" -> ModeCode [] name = "inter mode" -> InterModeCode [] name = "class" -> ClassCode)]

Total(tiles, symbols) == MapThenSumSet(LAMBDA at : tiles[at[1]][at[2]], (DOMAIN tiles) \X symbols)
Merged(previous, zeros, ones, saturation, most) ==
  LET all == zeros + ones
      weight == (most * (IF all > saturation THEN saturation ELSE all)) \div saturation
      seen == IF all = 0 THEN 128 ELSE Min({255, Max({1, (256 * zeros + (all \div 2)) \div all})})
  IN  ((256 - weight) * previous + weight * seen + 128) \div 256
AdaptedTree(previous, first, tree) ==
  [n \in DOMAIN DecisionsOf[tree.code] |->
    Merged(previous[first + n], Total(tree.tiles, DecisionsOf[tree.code][n][1]),
           Total(tree.tiles, DecisionsOf[tree.code][n][2]), 20, 128)]
RECURSIVE AdaptedTrees(_, _, _)
AdaptedTrees(previous, first, trees) ==
  IF trees = <<>> THEN <<>>
  ELSE AdaptedTree(previous, first, Head(trees))
         \o AdaptedTrees(previous, first + Len(DecisionsOf[Head(trees).code]), Tail(trees))
Tree(code, tiles) == [code |-> code, tiles |-> tiles]
\* One tree for each context of a kind.
TreesOf(code, kind, tiles) ==
  [k \in DOMAIN tiles[1][kind] |-> Tree(code, [t \in DOMAIN tiles |-> tiles[t][kind][k]])]
PairsOf(kind, tiles) ==
  [k \in 1 .. 2 * Len(tiles[1][kind]) |->
    Tree("flag", [t \in DOMAIN tiles |-> tiles[t][kind][(k + 1) \div 2][2 - (k % 2)]])]
ComponentTrees(tiles, c, high_precision) ==
  LET One(code, kind) == <<Tree(code, [t \in DOMAIN tiles |-> tiles[t].components[c][kind]])>>
      Many(code, kind, n) == [k \in 1 .. n |-> Tree(code, [t \in DOMAIN tiles |-> tiles[t].components[c][kind][k]])]
  IN  One("flag", "sign") \o One("class", "classes") \o One("flag", "class_zero") \o Many("flag", "bits", 10)
        \o Many("four", "class_zero_fractional", 2) \o One("four", "fractional")
        \o If(high_precision, One("flag", "class_zero_high_precision") \o One("flag", "high_precision"))
AdaptedVector(current, previous, tiles, c, high_precision) ==
  AdaptedTrees(previous, 3 + 33 * (c - 1), ComponentTrees(tiles, c, high_precision))
    \o If(~ high_precision, SubSeq(current, 33 * c + 2, 33 * c + 3))
AdaptedModels(previous, tiles, most) ==
  [k \in 1 .. Len(previous) |->
    LET model == (k + 2) \div 3
        tokens == [t \in DOMAIN tiles |-> tiles[t].coefficient[model].tokens]
        ends == Total(tokens, {4})
        tests == Total([t \in DOMAIN tiles |-> <<tiles[t].coefficient[model].eob_branches>>], {1})
    IN  CASE k % 3 = 1 -> Merged(previous[k], ends, Max({0, tests - ends}), 24, most)
          [] k % 3 = 2 -> Merged(previous[k], Total(tokens, {1}), Total(tokens, {2, 3}), 24, most)
          [] k % 3 = 0 -> Merged(previous[k], Total(tokens, {2}), Total(tokens, {3}), 24, most)]
\* f is [intra_only, after_key, transform_select, switchable, high_precision].
Defined(current, previous, tiles, f) ==
  LET Of(kind, trees) == AdaptedTrees(previous[kind], 0, trees)
  IN  [current EXCEPT
        !.coefficient = AdaptedModels(previous.coefficient, tiles, IF f.after_key /\ ~ f.intra_only THEN 128 ELSE 112),
        !.intra_inter = Of("intra_inter", TreesOf("flag", "intra_inter", tiles)),
        !.compound_inter = Of("compound_inter", TreesOf("flag", "compound_inter", tiles)),
        !.compound_reference = Of("compound_reference", TreesOf("flag", "compound_reference", tiles)),
        !.single_reference = Of("single_reference", PairsOf("single_reference", tiles)),
        !.inter_mode = Of("inter_mode", TreesOf("inter mode", "inter_mode", tiles)),
        !.y_mode = Of("y_mode", TreesOf("mode", "y_mode", tiles)),
        !.uv_mode = Of("uv_mode", TreesOf("mode", "uv_mode", tiles)),
        !.partition = Of("partition", TreesOf("four", "partition", tiles)),
        !.skip = Of("skip", TreesOf("flag", "skip", tiles)),
        !.interpolation = IF f.switchable THEN Of("interpolation", TreesOf("three", "interpolation", tiles)) ELSE @,
        !.transform =
          IF f.transform_select
          THEN Of("transform", TreesOf("four", "transform_32x32", tiles) \o TreesOf("three", "transform_16x16", tiles)
                                 \o TreesOf("flag", "transform_8x8", tiles)) ELSE @,
        !.motion_vector =
          AdaptedTrees(previous.motion_vector, 0, <<Tree("four", [t \in DOMAIN tiles |-> tiles[t].joints])>>)
            \o AdaptedVector(@, previous.motion_vector, tiles, 1, f.high_precision)
            \o AdaptedVector(@, previous.motion_vector, tiles, 2, f.high_precision)]
AdaptedByCode(current, previous, counts, f) ==
  adapt_motion_vectors(
    adapt_modes([current EXCEPT !.coefficient =
                   adapt_coefficients(previous.coefficient, counts.coefficient, UpdateFactor(f.intra_only, f.after_key))],
                previous, counts, f.transform_select, f.switchable),
    previous, counts, f.high_precision)
AdaptsAsDefined(current, previous, tiles, f) ==
  AdaptedByCode(current, previous, merge_from(tiles[1], tiles[2]), f) = Defined(current, previous, tiles, f)

(***************************************************************************)
(* Inputs.                                                                 *)
(***************************************************************************)
Lengths ==
  [transform |-> 12, coefficient |-> 4 * coefficient_count_per_size, skip |-> 3, inter_mode |-> 21,
   interpolation |-> 8, intra_inter |-> 4, compound_inter |-> 5, single_reference |-> 10,
   compound_reference |-> 5, y_mode |-> 36, uv_mode |-> 90, partition |-> 48, motion_vector |-> 69]
Context(step) ==
  [kind \in DOMAIN Lengths |-> [k \in 1 .. Lengths[kind] |-> 1 + ((step * k * k + 7 * k) % 255)]]
\* The probabilities that a header with these modes may update.
Updatable(kind, k, h, m) ==
  CASE kind = "uv_mode" -> FALSE
    [] kind = "transform" -> m.transform = 4
    [] kind = "coefficient" -> k <= ((IF m.transform = 4 THEN 3 ELSE m.transform) + 1) * coefficient_count_per_size
    [] kind = "skip" -> TRUE
    [] h.intra_only -> FALSE
    [] kind = "interpolation" -> h.switchable
    [] kind = "compound_inter" -> m.reference = "select"
    [] kind = "single_reference" -> m.reference # "compound"
    [] kind = "compound_reference" -> m.reference # "single"
    [] kind = "motion_vector" -> h.high_precision \/ k - 1 \notin {34, 35, 67, 68}
    [] OTHER -> TRUE
NewValue(kind, old, by) == IF kind = "motion_vector" THEN 2 * ((old + by) % 128) + 1 ELSE 1 + ((old + by) % 255)
Wanted(old, h, m, every, by) ==
  [kind \in DOMAIN old |-> [k \in DOMAIN old[kind] |->
     IF k % every = 0 /\ Updatable(kind, k, h, m) THEN NewValue(kind, old[kind][k], by) ELSE old[kind][k]]]
SomeHeaders ==
  [lossless : BOOLEAN, intra_only : {TRUE}, switchable : {FALSE}, sign_bias : {<<0, 0, 0>>}, high_precision : {FALSE}]
  \cup [lossless : {FALSE}, intra_only : {FALSE}, switchable : BOOLEAN, sign_bias : {<<1, 1, 1>>, <<0, 1, 0>>, <<0, 0, 1>>},
        high_precision : BOOLEAN]
SomeModes(h) ==
  [transform : IF h.lossless THEN {0} ELSE IF h.intra_only THEN 0 .. 4 ELSE {0, 4},
   reference : IF h.intra_only \/ h.sign_bias = <<1, 1, 1>> THEN {"single"} ELSE {"single", "compound", "select"}]
SomeCompressed ==
  {[h |-> h, m |-> m, step |-> step, every |-> c[1], by |-> c[2]] :
     h \in SomeHeaders, m \in UNION {SomeModes(k) : k \in SomeHeaders}, step \in {5}, c \in {<<7, 0>>, <<31, 253>>}}
CompressedInputs == {c \in SomeCompressed : c.m \in SomeModes(c.h)}
CompressedCase(c) ==
  CompressedReadBack(c.h, c.m, Wanted(Context(c.step), c.h, c.m, c.every, c.by), Context(c.step))

Symbols == {<<bit, p>> : bit \in {0, 1}, p \in {1, 100, 128, 255}}
SymbolStrings ==
  UNION {[1 .. n -> Symbols] : n \in 0 .. 3}
    \cup {[i \in 1 .. 60 |-> IF i % n = 0 THEN s ELSE t] : n \in {2, 3, 7}, s \in Symbols, t \in Symbols}

OldProbabilities == {1, 2, 3, 127, 128, 129, 253, 254, 255} \cup {p \in 1 .. 255 : p % 13 = 7}

\* Counts of two tiles: none, a few, and more than saturate.
Count(seed, most, k, s) == (seed * (7 * k + 3 * s + 1) + k * s) % most
CountsOf(seed, most) ==
  LET Flat(k, n) == [s \in 1 .. n |-> Count(seed, most, k, s)]
      Nested(m, n) == [k \in 1 .. m |-> Flat(k, n)]
      Component(c) ==
        [sign |-> Flat(c, 2), classes |-> Flat(c + 1, 11), class_zero |-> Flat(c + 2, 2), bits |-> Nested(10, 2),
         class_zero_fractional |-> Nested(2, 4), fractional |-> Flat(c + 3, 4),
         class_zero_high_precision |-> Flat(c + 4, 2), high_precision |-> Flat(c + 5, 2)]
  IN  [coefficient |-> [k \in 1 .. 4 * (coefficient_count_per_size \div 3) |->
                          [eob_branches |-> Count(seed, most, k, 9), tokens |-> Flat(k, 4)]],
       transform_8x8 |-> Nested(2, 2), transform_16x16 |-> Nested(2, 3), transform_32x32 |-> Nested(2, 4),
       skip |-> Nested(3, 2), intra_inter |-> Nested(4, 2), compound_inter |-> Nested(5, 2),
       single_reference |-> [k \in 1 .. 5 |-> Nested(2, 2)], compound_reference |-> Nested(5, 2),
       inter_mode |-> Nested(7, 4), interpolation |-> Nested(4, 3), y_mode |-> Nested(4, 10),
       uv_mode |-> Nested(10, 10), partition |-> Nested(16, 4), joints |-> Flat(3, 4),
       components |-> <<Component(1), Component(6)>>]
Flags(a, b, c, d, e) ==
  [intra_only |-> a, after_key |-> b, transform_select |-> c, switchable |-> d, high_precision |-> e]
SomeFlags ==
  {Flags(TRUE, TRUE, TRUE, FALSE, FALSE), Flags(FALSE, TRUE, FALSE, TRUE, TRUE), Flags(FALSE, FALSE, TRUE, TRUE, FALSE)}
AdaptationInputs == [flags : SomeFlags, seeds : {<<0, 0>>, <<1, 4>>, <<5, 2>>}, most : {2, 1000}]
AdaptationCase(c) ==
  AdaptsAsDefined(Context(3), Context(11), <<CountsOf(c.seeds[1], c.most), CountsOf(c.seeds[2], 12)>>, c.flags)
===============================================================================
