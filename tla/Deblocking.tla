------------------------------ MODULE Deblocking ------------------------------
(***************************************************************************)
(* The filter across block edges of a decoded picture (deblock.rs) and the *)
(* notes that reconstruction keeps of each macroblock for it               *)
(* (intra_reconstruction.rs).  A note has 4x4 blocks as cells.  A sample   *)
(* set is [p, q], the samples on either side, nearest first.               *)
(***************************************************************************)
EXTENDS Motion

ALPHA ==
  << 0, 0, 0, 0, 0, 0, 0, 0, 0, 0, 0, 0, 0, 0, 0, 0, 4, 4, 5, 6, 7, 8, 9, 10, 12, 13, 15, 17,
     20, 22, 25, 28, 32, 36, 40, 45, 50, 56, 63, 71, 80, 90, 101, 113, 127, 144, 162, 182, 203,
     226, 255, 255 >>
BETA ==
  << 0, 0, 0, 0, 0, 0, 0, 0, 0, 0, 0, 0, 0, 0, 0, 0, 2, 2, 2, 3, 3, 3, 3, 4, 4, 4, 6, 6, 7, 7,
     8, 8, 9, 9, 10, 10, 11, 11, 12, 12, 13, 13, 14, 14, 15, 15, 16, 16, 17, 17, 18, 18 >>
TC0 ==
  << << 0, 0, 0, 0, 0, 0, 0, 0, 0, 0, 0, 0, 0, 0, 0, 0, 0, 0, 0, 0, 0, 0, 0, 1, 1, 1, 1, 1, 1, 1,
     1, 1, 1, 2, 2, 2, 2, 3, 3, 3, 4, 4, 4, 5, 6, 6, 7, 8, 9, 10, 11, 13 >>,
     << 0, 0, 0, 0, 0, 0, 0, 0, 0, 0, 0, 0, 0, 0, 0, 0, 0, 0, 0, 0, 0, 1, 1, 1, 1, 1, 1, 1, 1, 1,
     1, 2, 2, 2, 2, 3, 3, 3, 4, 4, 5, 5, 6, 7, 8, 8, 10, 11, 12, 13, 15, 17 >>,
     << 0, 0, 0, 0, 0, 0, 0, 0, 0, 0, 0, 0, 0, 0, 0, 0, 0, 1, 1, 1, 1, 1, 1, 1, 1, 1, 1, 2, 2, 2,
     2, 3, 3, 3, 4, 4, 4, 5, 6, 6, 7, 8, 9, 10, 11, 13, 14, 16, 18, 20, 23, 25 >> >>
Abs(v) == IF v < 0 THEN -v ELSE v
Bound(v, low, high) == IF v < low THEN low ELSE IF v > high THEN high ELSE v

(* Notes of macroblocks.                                                   *)
\* The pictures that the lists of a picture's slices name, in the order met.
RECURSIVE Met(_, _)
Met(known, ids) ==
  IF ids = <<>> THEN known
  ELSE Met(IF Head(ids) = None \/ \E i \in 1 .. Len(known) : Some(known[i]) = Head(ids) THEN known
           ELSE Append(known, Head(ids)[1]), Tail(ids))
\* Entry i of a list as a token, 0 where the list has no picture.
deblock_reference_list(known, ids) ==
  [i \in 1 .. Len(ids) |-> IF ids[i] = None THEN 0 ELSE CHOOSE t \in 1 .. Len(known) : Some(known[t]) = ids[i]]
Missing(motion, tokens) ==
  motion # None /\ (motion[1].ref >= Len(tokens) \/ tokens[Bound(motion[1].ref, 0, Len(tokens) - 1) + 1] = 0)
DeblockList(motion, tokens) ==
  IF motion = None THEN [reference |-> 0, mv |-> Zero]
  ELSE [reference |-> tokens[motion[1].ref + 1], mv |-> motion[1].mv]
DeblockMotion(p, tokens) == <<DeblockList(p.lists[1], tokens[1]), DeblockList(p.lists[2], tokens[2])>>
\* The cells that hold coefficients, or whose 8x8 block does.
inter_luma_nonzero(transform_8x8, coded) ==
  {c \in Cells : IF transform_8x8 THEN \E i \in 0 .. 3 : 4 * BlockIndex(2, c) + i \in coded ELSE BlockIndex(1, c) \in coded}
NotedWith(info, nonzero, uniform) ==
  [info EXCEPT !.nonzero = nonzero, !.uniform = (nonzero = {} /\ uniform)]
Quantizers(luma, chroma) == <<luma, chroma[1], chroma[2]>>
Note(slice, intra, qp, transform_8x8, filter, motion) ==
  [slice |-> slice, intra |-> intra, qp |-> qp, t8 |-> transform_8x8, uniform |-> FALSE, nonzero |-> {},
   motion |-> motion, filter |-> filter]
InterNote(slice, qp, transform_8x8, filter, parts, coded, tokens) ==
  IF \E i \in 1 .. Len(parts), list \in 1 .. 2 : Missing(parts[i].lists[list], tokens[list]) THEN None
  ELSE Some(NotedWith(
         Note(slice, FALSE, qp, transform_8x8, filter,
              [c \in Cells |-> DeblockMotion(parts[PartitionAt(parts, c)], tokens)]),
         inter_luma_nonzero(transform_8x8, coded),
         \A i \in 1 .. Len(parts) : DeblockMotion(parts[i], tokens) = DeblockMotion(parts[1], tokens)))
NoMotion == [c \in Cells |-> <<DeblockList(None, <<>>), DeblockList(None, <<>>)>>]
IntraNote(slice, qp, transform_8x8, filter) == Note(slice, TRUE, qp, transform_8x8, filter, NoMotion)

(* Boundary strengths.                                                     *)
list_motion_differs(p, q) ==
  p.reference # q.reference \/ Abs(p.mv[1] - q.mv[1]) >= 4 \/ Abs(p.mv[2] - q.mv[2]) >= 4
motion_differs(p, q) ==
  /\ list_motion_differs(p[1], q[1]) \/ list_motion_differs(p[2], q[2])
  /\ (p[1].reference = q[2].reference /\ p[2].reference = q[1].reference)
     => (list_motion_differs(p[1], q[2]) \/ list_motion_differs(p[2], q[1]))
boundary_strength(p, p_cell, q, q_cell, external) ==
  CASE p.intra \/ q.intra -> IF external THEN 4 ELSE 3
    [] ~ (p.intra \/ q.intra) /\ (p_cell \in p.nonzero \/ q_cell \in q.nonzero) -> 2
    [] OTHER -> IF motion_differs(p.motion[p_cell], q.motion[q_cell]) THEN 1 ELSE 0
NoStrengths == [k \in 0 .. 3 |-> 0]
FilterLeft(mbs, width, a) == a % width > 0 /\ (mbs[a].filter.idc = 2 => mbs[a - 1].slice = mbs[a].slice)
FilterTop(mbs, width, a) == a >= width /\ (mbs[a].filter.idc = 2 => mbs[a - width].slice = mbs[a].slice)
\* A mutation: one strength for the edge if the left macroblock alone is uniform.
LeftStrengthsOfUniform(p, q) ==
  IF p.uniform THEN [k \in 0 .. 3 |-> boundary_strength(p, <<3, 0>>, q, <<0, 0>>, TRUE)]
  ELSE [k \in 0 .. 3 |-> boundary_strength(p, <<3, k>>, q, <<0, k>>, TRUE)]
LeftStrengths(p, q) ==
  IF p.uniform /\ q.uniform THEN [k \in 0 .. 3 |-> boundary_strength(p, <<3, 0>>, q, <<0, 0>>, TRUE)]
  ELSE [k \in 0 .. 3 |-> boundary_strength(p, <<3, k>>, q, <<0, k>>, TRUE)]
TopStrengths(p, q) ==
  IF p.uniform /\ q.uniform THEN [k \in 0 .. 3 |-> boundary_strength(p, <<0, 3>>, q, <<0, 0>>, TRUE)]
  ELSE [k \in 0 .. 3 |-> boundary_strength(p, <<k, 3>>, q, <<k, 0>>, TRUE)]
Inside(mb, e) == ~ mb.uniform /\ (e = 2 \/ ~ mb.t8)
\* Strengths of edge e, from left to right or from top to bottom.
VerticalStrengths(mbs, width, a, e) ==
  CASE e = 0 -> IF FilterLeft(mbs, width, a) THEN LeftStrengths(mbs[a - 1], mbs[a]) ELSE NoStrengths
    [] e > 0 /\ Inside(mbs[a], e) ->
         [k \in 0 .. 3 |-> boundary_strength(mbs[a], <<e - 1, k>>, mbs[a], <<e, k>>, FALSE)]
    [] OTHER -> NoStrengths
HorizontalStrengths(mbs, width, a, e) ==
  CASE e = 0 -> IF FilterTop(mbs, width, a) THEN TopStrengths(mbs[a - width], mbs[a]) ELSE NoStrengths
    [] e > 0 /\ Inside(mbs[a], e) ->
         [k \in 0 .. 3 |-> boundary_strength(mbs[a], <<k, e - 1>>, mbs[a], <<k, e>>, FALSE)]
    [] OTHER -> NoStrengths

(* Thresholds.                                                             *)
ThresholdsAt(index_a, alpha, beta) ==
  IF alpha = 0 \/ beta = 0 THEN None
  ELSE Some([alpha |-> alpha, beta |-> beta, index_a |-> index_a, strong |-> (alpha \div 4) + 2])
ThresholdsFrom(index_a, index_b) == ThresholdsAt(index_a, ALPHA[index_a + 1], BETA[index_b + 1])
prepare_edge_thresholds(average, filter) ==
  ThresholdsFrom(Bound(average + 2 * filter.alpha_c0_offset_div2, 0, 51),
                 Bound(average + 2 * filter.beta_offset_div2, 0, 51))
edge_thresholds(previous, current, component) ==
  prepare_edge_thresholds((previous.qp[component] + current.qp[component] + 1) \div 2, current.filter)
ScaledClip(thresholds, strength) == IF strength < 4 THEN TC0[strength][thresholds.index_a + 1] ELSE 0

(* Filtering one sample set: the scalar code.                               *)
Passes(s, t) == Abs(s.p[1] - s.q[1]) < t.alpha /\ Abs(s.p[2] - s.p[1]) < t.beta /\ Abs(s.q[2] - s.q[1]) < t.beta
clip_sample(v) == Bound(v, 0, 255)
Flag(b) == IF b THEN 1 ELSE 0
WeakSide(s, near, far, tc0, smooth) ==
  IF smooth THEN near[2] + Bound((near[3] + ((near[1] + far[1] + 1) \div 2) - 2 * near[2]) \div 2, -tc0, tc0)
  ELSE near[2]
WeakBy(s, delta, tc0, smooth_p, smooth_q) ==
  [p |-> <<clip_sample(s.p[1] + delta), clip_sample(WeakSide(s, s.p, s.q, tc0, smooth_p)), s.p[3]>>,
   q |-> <<clip_sample(s.q[1] - delta), clip_sample(WeakSide(s, s.q, s.p, tc0, smooth_q)), s.q[3]>>]
Delta(s, tc) == Bound((4 * (s.q[1] - s.p[1]) + (s.p[2] - s.q[2]) + 4) \div 8, -tc, tc)
Weak(s, tc0, chroma, ap, aq) ==
  WeakBy(s, Delta(s, IF chroma THEN tc0 + 1 ELSE tc0 + Flag(ap) + Flag(aq)), tc0, ~ chroma /\ ap, ~ chroma /\ aq)
StrongSide(near, far, wide) ==
  IF wide THEN <<clip_sample((near[3] + 2 * near[2] + 2 * near[1] + 2 * far[1] + far[2] + 4) \div 8),
                 clip_sample((near[3] + near[2] + near[1] + far[1] + 2) \div 4),
                 clip_sample((2 * near[4] + 3 * near[3] + near[2] + near[1] + far[1] + 4) \div 8)>>
  ELSE <<clip_sample((2 * near[2] + near[1] + far[2] + 2) \div 4), near[2], near[3]>>
Strong(s, close, ap, aq) == [p |-> StrongSide(s.p, s.q, close /\ ap), q |-> StrongSide(s.q, s.p, close /\ aq)]
Unchanged(s) == [p |-> <<s.p[1], s.p[2], s.p[3]>>, q |-> <<s.q[1], s.q[2], s.q[3]>>]
filter_deblock_edge_prepared(s, strength, t, chroma) ==
  LET ap == Abs(s.p[3] - s.p[1]) < t.beta
      aq == Abs(s.q[3] - s.q[1]) < t.beta
  IN  CASE ~ Passes(s, t) -> Unchanged(s)
        [] Passes(s, t) /\ strength < 4 -> Weak(s, ScaledClip(t, strength), chroma, ap, aq)
        [] OTHER -> Strong(s, ~ chroma /\ Abs(s.p[1] - s.q[1]) < t.strong, ap, aq)

(* The same in vectors of sixteen-bit lanes, where a mask chooses between   *)
(* results that are all computed, and stores saturate to eight bits.  A     *)
(* lane never leaves sixteen bits.                                          *)
Select(mask, selected, fallback) == IF mask THEN selected ELSE fallback
Packed(v) == Bound(v, 0, 255)
AndOne(mask) == IF mask THEN 1 ELSE 0
MinMax(v, tc) == IF (IF v > -tc THEN v ELSE -tc) < tc THEN (IF v > -tc THEN v ELSE -tc) ELSE tc
filter_weak_luma_lanes(s, t, tc0) ==
  LET valid == Passes(s, t)
      ap == Abs(s.p[3] - s.p[1]) < t.beta
      aq == Abs(s.q[3] - s.q[1]) < t.beta
      delta == MinMax((4 * (s.q[1] - s.p[1]) + (s.p[2] - s.q[2]) + 4) \div 8, tc0 + AndOne(ap) + AndOne(aq))
      average == (s.p[1] + s.q[1] + 1) \div 2
      p1_delta == MinMax(((s.p[3] + average) - 2 * s.p[2]) \div 2, tc0)
      q1_delta == MinMax(((s.q[3] + average) - 2 * s.q[2]) \div 2, tc0)
  IN  [p |-> <<Packed(Select(valid, s.p[1] + delta, s.p[1])),
               Packed(Select(valid, Select(ap, s.p[2] + p1_delta, s.p[2]), s.p[2])), s.p[3]>>,
       q |-> <<Packed(Select(valid, s.q[1] - delta, s.q[1])),
               Packed(Select(valid, Select(aq, s.q[2] + q1_delta, s.q[2]), s.q[2])), s.q[3]>>]
WideLanes(near, far) ==
  <<(near[3] + 2 * near[2] + 2 * near[1] + 2 * far[1] + (far[2] + 4)) \div 8,
    (near[3] + near[2] + near[1] + far[1] + 2) \div 4,
    (2 * near[4] + (2 * near[3] + near[3]) + (near[2] + near[1]) + (far[1] + 4)) \div 8>>
StrongLanes(valid, wide, near, far, wides) ==
  <<Packed(Select(valid, Select(wide, wides[1], (2 * near[2] + near[1] + far[2] + 2) \div 4), near[1])),
    Packed(Select(valid, Select(wide, wides[2], near[2]), near[2])),
    Packed(Select(valid, Select(wide, wides[3], near[3]), near[3]))>>
filter_strong_luma_lanes(s, t) ==
  LET strong == Abs(s.p[1] - s.q[1]) < t.strong IN
  [p |-> StrongLanes(Passes(s, t), strong /\ Abs(s.p[3] - s.p[1]) < t.beta, s.p, s.q, WideLanes(s.p, s.q)),
   q |-> StrongLanes(Passes(s, t), strong /\ Abs(s.q[3] - s.q[1]) < t.beta, s.q, s.p, WideLanes(s.q, s.p))]
\* Only the nearest samples are stored.
ChromaLane(valid, strong, near, far, weak) ==
  <<Packed(Select(valid, Select(strong, (2 * near[2] + near[1] + far[2] + 2) \div 4, weak), near[1])), near[2], near[3]>>
filter_chroma_lanes(s, strength, t) ==
  LET valid == strength > 0 /\ Passes(s, t)
      delta == MinMax((4 * (s.q[1] - s.p[1]) + (s.p[2] - s.q[2]) + 4) \div 8,
                      IF strength \in 1 .. 3 THEN TC0[strength][t.index_a + 1] + 1 ELSE 0)
  IN  [p |-> ChromaLane(valid, strength = 4, s.p, s.q, s.p[1] + delta),
       q |-> ChromaLane(valid, strength = 4, s.q, s.p, s.q[1] - delta)]
\* The build for x86_64 uses lanes, every other one the scalar code.
FilterSet(s, strength, t, chroma, lanes) ==
  CASE lanes /\ chroma -> filter_chroma_lanes(s, strength, t)
    [] lanes /\ ~ chroma /\ strength > 0 ->
         IF strength < 4 THEN filter_weak_luma_lanes(s, t, ScaledClip(t, strength)) ELSE filter_strong_luma_lanes(s, t)
    [] ~ lanes /\ strength > 0 -> filter_deblock_edge_prepared(s, strength, t, chroma)
    [] OTHER -> Unchanged(s)

(* Edges of a plane, plane[y][x], one strength for every four (luma) or two *)
(* (chroma) lines.  An edge is [vertical, at, strengths, thresholds].       *)
RowSet(row, x) == [p |-> [k \in 1 .. 4 |-> row[x - k]], q |-> [k \in 1 .. 4 |-> row[x + k - 1]]]
ColumnSet(plane, x, y) == [p |-> [k \in 1 .. 4 |-> plane[y - k][x]], q |-> [k \in 1 .. 4 |-> plane[y + k - 1][x]]]
StoreRow(row, x, f) == [row EXCEPT ![x - 3] = f.p[3], ![x - 2] = f.p[2], ![x - 1] = f.p[1],
                                   ![x] = f.q[1], ![x + 1] = f.q[2], ![x + 2] = f.q[3]]
filter_vertical_edge(plane, x, y, segment, e, chroma, lanes) ==
  [r \in DOMAIN plane |->
     IF r \in y .. y + 4 * segment - 1
     THEN StoreRow(plane[r], x, FilterSet(RowSet(plane[r], x), e.strengths[(r - y) \div segment], e.thresholds[1], chroma, lanes))
     ELSE plane[r]]
StoreColumn(plane, x, y, segment, filtered) ==
  [r \in DOMAIN plane |->
     CASE r \in y - 3 .. y - 1 ->
            [c \in DOMAIN plane[r] |-> IF c \in DOMAIN filtered THEN filtered[c].p[y - r] ELSE plane[r][c]]
       [] r \in y .. y + 2 ->
            [c \in DOMAIN plane[r] |-> IF c \in DOMAIN filtered THEN filtered[c].q[r - y + 1] ELSE plane[r][c]]
       [] OTHER -> plane[r]]
filter_horizontal_edge(plane, x, y, segment, e, chroma, lanes) ==
  StoreColumn(plane, x, y, segment,
    [c \in x .. x + 4 * segment - 1 |->
       FilterSet(ColumnSet(plane, c, y), e.strengths[(c - x) \div segment], e.thresholds[1], chroma, lanes)])
FilterEdge(plane, x, y, e, chroma, lanes) ==
  CASE e.strengths = NoStrengths \/ e.thresholds = None -> plane
    [] ~ (e.strengths = NoStrengths \/ e.thresholds = None) /\ e.vertical ->
         filter_vertical_edge(plane, x + e.at, y, IF chroma THEN 2 ELSE 4, e, chroma, lanes)
    [] OTHER -> filter_horizontal_edge(plane, x, y + e.at, IF chroma THEN 2 ELSE 4, e, chroma, lanes)
RECURSIVE FilterEdges(_, _, _, _, _, _)
FilterEdges(plane, x, y, edges, chroma, lanes) ==
  IF edges = <<>> THEN plane
  ELSE FilterEdges(FilterEdge(plane, x, y, Head(edges), chroma, lanes), x, y, Tail(edges), chroma, lanes)
\* The edges of a macroblock in the order they are filtered.
EdgeOf(mbs, width, a, component, vertical, e, at) ==
  [vertical |-> vertical, at |-> at,
   strengths |-> IF vertical THEN VerticalStrengths(mbs, width, a, e) ELSE HorizontalStrengths(mbs, width, a, e),
   thresholds |-> CASE e > 0 -> edge_thresholds(mbs[a], mbs[a], component)
                    [] e = 0 /\ vertical /\ FilterLeft(mbs, width, a) -> edge_thresholds(mbs[a - 1], mbs[a], component)
                    [] e = 0 /\ ~ vertical /\ FilterTop(mbs, width, a) -> edge_thresholds(mbs[a - width], mbs[a], component)
                    [] OTHER -> None]
LumaEdges(mbs, width, a) ==
  [k \in 1 .. 8 |-> EdgeOf(mbs, width, a, 1, k <= 4, (k - 1) % 4, 4 * ((k - 1) % 4))]
ChromaEdges(mbs, width, a, component) ==
  [k \in 1 .. 4 |-> EdgeOf(mbs, width, a, component, k <= 2, 2 * ((k - 1) % 2), 4 * ((k - 1) % 2))]
FilterMacroblock(picture, mbs, width, a, lanes) ==
  IF mbs[a].filter.idc = 1 THEN picture
  ELSE LET x == 16 * (a % width)
           y == 16 * (a \div width)
       IN  [luma |-> FilterEdges(picture.luma, x, y, LumaEdges(mbs, width, a), FALSE, lanes),
            cb |-> FilterEdges(picture.cb, x \div 2, y \div 2, ChromaEdges(mbs, width, a, 2), TRUE, lanes),
            cr |-> FilterEdges(picture.cr, x \div 2, y \div 2, ChromaEdges(mbs, width, a, 3), TRUE, lanes)]
RECURSIVE filter_420_picture(_, _, _, _, _)
filter_420_picture(picture, mbs, width, a, lanes) ==
  IF a \notin DOMAIN mbs THEN picture
  ELSE filter_420_picture(FilterMacroblock(picture, mbs, width, a, lanes), mbs, width, a + 1, lanes)

----------
(* What clause 8.7 says of the filter: the strength of an edge between two   *)
(* blocks, and every sample near it, edge after edge; and pictures to filter *)
(* by both builds of the decoder.                                            *)

Pick(options, k) == options[(k % Len(options)) + 1]

(* The strength between two blocks [intra, coefficients, motions], motions  *)
(* being the one or two predictions [id, mv] of the block.                  *)
Close(v, w) == Abs(v[1] - w[1]) < 4 /\ Abs(v[2] - w[2]) < 4
\* The same pictures by nearly the same vectors, in either order.
SamePrediction(p, q) ==
  /\ Len(p) = Len(q)
  /\ \E f \in [1 .. Len(p) -> 1 .. Len(q)] :
       /\ \A i, j \in 1 .. Len(p) : f[i] = f[j] => i = j
       /\ \A i \in 1 .. Len(p) : p[i].id = q[f[i]].id /\ Close(p[i].mv, q[f[i]].mv)
StrengthOf(p, q, external) ==
  CASE p.intra \/ q.intra -> IF external THEN 4 ELSE 3
    [] ~ (p.intra \/ q.intra) /\ (p.coefficients \/ q.coefficients) -> 2
    [] OTHER -> IF SamePrediction(p.motions, q.motions) THEN 0 ELSE 1

(* The samples beside an edge: s[0], s[1].. after it, s[-1], s[-2].. before. *)
NearDelta(s, tc) == Bound((4 * (s[0] - s[-1]) + (s[-2] - s[1]) + 4) \div 8, -tc, tc)
Normal(s, near, far, d, tc0, tc, smooth) ==
  CASE d \in {-1, 0} -> clip_sample(IF d = 0 THEN near[0] - NearDelta(s, tc) ELSE near[0] + NearDelta(s, tc))
    [] d \in {-2, 1} /\ smooth ->
         near[1] + Bound((near[2] + ((near[0] + far[0] + 1) \div 2) - 2 * near[1]) \div 2, -tc0, tc0)
    [] OTHER -> s[d]
StrongValue(near, far, i, wide) ==
  CASE i = 0 -> IF wide THEN (near[2] + 2 * near[1] + 2 * near[0] + 2 * far[0] + far[1] + 4) \div 8
                ELSE (2 * near[1] + near[0] + far[1] + 2) \div 4
    [] i = 1 /\ wide -> (near[2] + near[1] + near[0] + far[0] + 2) \div 4
    [] i = 2 /\ wide -> (2 * near[3] + 3 * near[2] + near[1] + near[0] + far[0] + 4) \div 8
    [] OTHER -> near[i]
Flat(near, beta) == Abs(near[2] - near[0]) < beta
FilteredWith(s, near, far, d, i, strength, chroma, alpha, beta, tc0) ==
  CASE ~ (Abs(s[0] - s[-1]) < alpha /\ Abs(s[-2] - s[-1]) < beta /\ Abs(s[1] - s[0]) < beta) -> s[d]
    [] strength < 4 ->
         Normal(s, near, far, d, tc0, IF chroma THEN tc0 + 1 ELSE tc0 + Flag(Flat(near, beta)) + Flag(Flat(far, beta)),
                ~ chroma /\ Flat(near, beta))
    [] OTHER ->
         StrongValue(near, far, i, ~ chroma /\ Flat(near, beta) /\ Abs(s[0] - s[-1]) < (alpha \div 4) + 2)
\* Sample d of a line whose edge has this strength, and indices A and B.
FilteredSample(s, d, strength, chroma, a, b) ==
  IF strength = 0 \/ (chroma /\ d \notin {-1, 0}) THEN s[d]
  ELSE FilteredWith(s, [k \in 0 .. 3 |-> IF d < 0 THEN s[-1 - k] ELSE s[k]],
                    [k \in 0 .. 3 |-> IF d < 0 THEN s[k] ELSE s[-1 - k]], d, IF d < 0 THEN -1 - d ELSE d,
                    strength, chroma, ALPHA[a + 1], BETA[b + 1], IF strength < 4 THEN TC0[strength][a + 1] ELSE 0)

(* Pictures of two by two macroblocks.                                      *)
Across(plane, vertical, x, y, k) ==
  [d \in -4 .. 3 |-> IF vertical THEN plane[y + k][x + d] ELSE plane[y + d][x + k]]
\* An edge that begins at (x, y), strengths[k] at its line k.
EdgeFiltered(plane, vertical, x, y, strengths, chroma, a, b) ==
  [r \in DOMAIN plane |-> [c \in DOMAIN plane[r] |->
     LET k == IF vertical THEN r - y ELSE c - x
         d == IF vertical THEN c - x ELSE r - y
     IN  IF k \in DOMAIN strengths /\ d \in -3 .. 2
         THEN FilteredSample(Across(plane, vertical, x, y, k), d, strengths[k], chroma, a, b) ELSE plane[r][c]]]
\* Block (x, y) of the picture, as macroblock notes and its coded blocks say.
BlockOf(pic, x, y) ==
  LET m == pic.sent[2 * (y \div 4) + (x \div 4)]
      part == m.parts[PartitionAt(m.parts, <<x % 4, y % 4>>)]
  IN  [intra |-> m.intra,
       coefficients |-> \E i \in m.coded :
                          IF m.t8 THEN i \div 4 = 2 * ((y % 4) \div 2) + ((x % 4) \div 2)
                          ELSE LUMA_4X4_COORDINATES[i + 1] = <<x % 4, y % 4>>,
       motions |-> SelectSeq(part.used, LAMBDA u : u # None)]
Motions(used) == [i \in 1 .. Len(used) |-> used[i][1]]
Described(b) == [b EXCEPT !.motions = Motions(@)]
\* Edge e of macroblock a, whose lines have n samples each per block.
EdgeStrengths(pic, a, vertical, e, n) ==
  LET x == 4 * (a % 2)
      y == 4 * (a \div 2)
  IN  [k \in 0 .. 4 * n - 1 |->
         IF vertical THEN StrengthOf(Described(BlockOf(pic, x + e - 1, y + (k \div n))), Described(BlockOf(pic, x + e, y + (k \div n))), e = 0)
         ELSE StrengthOf(Described(BlockOf(pic, x + (k \div n), y + e - 1)), Described(BlockOf(pic, x + (k \div n), y + e)), e = 0)]
\* An edge is filtered unless it is the picture's, or a slice's that keeps its own,
\* or runs inside a transform block.
IsFiltered(pic, a, vertical, e, chroma) ==
  LET n == IF vertical THEN a - 1 ELSE a - 2
      m == pic.sent[a]
  IN  IF e = 0 THEN (IF vertical THEN a % 2 > 0 ELSE a >= 2) /\ (m.filter.idc = 2 => pic.sent[n].slice = m.slice)
      ELSE chroma \/ e = 2 \/ ~ m.t8
IndexOf(pic, a, vertical, e, component, offset) ==
  LET p == pic.sent[IF e > 0 THEN a ELSE IF vertical THEN a - 1 ELSE a - 2] IN
  Bound(((p.qp[component] + pic.sent[a].qp[component] + 1) \div 2) + 2 * offset, 0, 51)
FilterOne(plane, pic, a, component, vertical, e) ==
  LET chroma == component > 1
      size == IF chroma THEN 2 ELSE 4
      shift == IF chroma THEN 8 ELSE 16
      x == shift * (a % 2)
      y == shift * (a \div 2)
  IN  IF ~ IsFiltered(pic, a, vertical, e, chroma) THEN plane
      ELSE EdgeFiltered(plane, vertical, IF vertical THEN x + size * e ELSE x, IF vertical THEN y ELSE y + size * e,
                        EdgeStrengths(pic, a, vertical, e, size), chroma,
                        IndexOf(pic, a, vertical, e, component, pic.sent[a].filter.alpha_c0_offset_div2),
                        IndexOf(pic, a, vertical, e, component, pic.sent[a].filter.beta_offset_div2))
RECURSIVE FilterAll(_, _, _, _, _)
FilterAll(plane, pic, a, component, order) ==
  IF order = <<>> THEN plane
  ELSE FilterAll(FilterOne(plane, pic, a, component, Head(order)[1], Head(order)[2]), pic, a, component, Tail(order))
Order(component) ==
  IF component = 1 THEN [k \in 1 .. 8 |-> <<k <= 4, (k - 1) % 4>>] ELSE [k \in 1 .. 4 |-> <<k <= 2, 2 * ((k - 1) % 2)>>]
RECURSIVE FilterPlane(_, _, _, _)
FilterPlane(plane, pic, a, component) ==
  IF a = 4 THEN plane
  ELSE FilterPlane(IF pic.sent[a].filter.idc = 1 THEN plane ELSE FilterAll(plane, pic, a, component, Order(component)),
                   pic, a + 1, component)

(* Macroblocks of every kind; samples that step a little between blocks.    *)
Prediction(list0, list1) == <<list0, list1>>
Using(id, mv) == Some([id |-> id, mv |-> mv])
SomePredictions ==
  << Prediction(Using(7, Zero), None), Prediction(None, Using(7, <<1, -3>>)), Prediction(Using(7, Zero), Using(8, <<4, 0>>)),
     Prediction(Using(8, <<5, 1>>), Using(7, <<0, 1>>)), Prediction(Using(7, <<0, 2>>), Using(7, <<0, 7>>)),
     Prediction(Using(7, <<1, 7>>), Using(7, <<0, 2>>)), Prediction(Using(8, <<5, 1>>), Using(7, <<0, 5>>)),
     Prediction(None, Using(7, <<9, 9>>)), Prediction(Using(8, <<0, 4>>), None), Prediction(Using(9, Zero), None) >>
PartOf(x, y, w, h, k) == [x |-> x, y |-> y, w |-> w, h |-> h, used |-> Pick(SomePredictions, k)]
PartsOf(k) ==
  Pick(<< <<PartOf(0, 0, 4, 4, k)>>, <<PartOf(0, 0, 4, 4, k + 1)>>,
          <<PartOf(0, 0, 2, 4, k), PartOf(2, 0, 2, 4, k \div 2)>>,
          <<PartOf(0, 0, 4, 2, k), PartOf(0, 2, 4, 2, k + 1)>>,
          <<PartOf(0, 0, 2, 2, k), PartOf(2, 0, 2, 2, k), PartOf(0, 2, 1, 2, k + 2), PartOf(1, 2, 1, 2, k), PartOf(2, 2, 2, 2, k + 3)>>,
          <<PartOf(0, 0, 2, 4, k), PartOf(2, 0, 2, 4, k)>> >>, k)
CodedBlocks(k) == Pick(<< {}, {}, {5}, {}, {0, 10, 11}, {}, {3, 12} >>, k)
Filter(idc, alpha, beta) == [idc |-> idc, alpha_c0_offset_div2 |-> alpha, beta_offset_div2 |-> beta]
Sent(a, k, j) ==
  [intra |-> (k + 3 * a) % 5 = 0, slice |-> IF a < 1 + (k % 4) THEN 1 ELSE 2, t8 |-> (k + a) % 3 = 1,
   coded |-> IF (k + 3 * a) % 5 = 0 THEN {} ELSE CodedBlocks(k + 2 * a + j), parts |-> PartsOf(2 * k + j + a),
   qp |-> <<Pick(<<30, 40, 51, 20, 35, 0>>, k + a + j), Pick(<<29, 36, 39, 20>>, k + a), Pick(<<37, 39, 24>>, k + a + j)>>,
   filter |-> Filter(Pick(<<0, 0, 2, 0, 1>>, IF a < 1 + (k % 4) THEN k ELSE j), Pick(<<0, 6, -3>>, j), Pick(<<0, 3, 6>>, j))]
\* Reference 7 is entry 0 of both lists, 8 and 9 are found elsewhere.
Lists == << <<Some(7), Some(8), None, Some(9)>>, <<Some(7), Some(9), Some(8)>> >>
EntryOf(list, id) == CHOOSE i \in 0 .. Len(list) - 1 : list[i + 1] = Some(id)
Coded(used, list) == IF used = None THEN None ELSE Some([ref |-> EntryOf(list, used[1].id), mv |-> used[1].mv])
Resolve(parts) ==
  [i \in 1 .. Len(parts) |->
     Partition(parts[i], <<Coded(parts[i].used[1], Lists[1]), Coded(parts[i].used[2], Lists[2])>>)]
Tokens(known) == <<deblock_reference_list(known, Lists[1]), deblock_reference_list(known, Lists[2])>>
NoteOf(m) ==
  IF m.intra THEN IntraNote(m.slice, m.qp, m.t8, m.filter)
  ELSE InterNote(m.slice, m.qp, m.t8, m.filter, Resolve(m.parts), m.coded, Tokens(Met(Met(<<>>, Lists[1]), Lists[2])))[1]
SampleOf(x, y, n, k) ==
  clip_sample(Pick(<<120, 1, 250>>, k) + Pick(<<0, 3, -4, 9, 1>>, (x \div n) + 2 * (y \div n) + k) + Pick(<<0, 1, 0, -2, 0, 5>>, x + 3 * y + k))
PlaneOf(size, n, k) == [y \in 0 .. size - 1 |-> [x \in 0 .. size - 1 |-> SampleOf(x, y, n, k)]]
PictureOf(k) == [luma |-> PlaneOf(32, 4, k), cb |-> PlaneOf(16, 4, k + 1), cr |-> PlaneOf(16, 2, k + 2)]
FilteredBy(picture, pic, lanes) ==
  filter_420_picture(picture, [a \in 0 .. 3 |-> NoteOf(pic.sent[a])], 2, 0, lanes)
AsFiltered(picture, pic) ==
  [luma |-> FilterPlane(picture.luma, pic, 0, 1), cb |-> FilterPlane(picture.cb, pic, 0, 2),
   cr |-> FilterPlane(picture.cr, pic, 0, 3)]
Agree(filtered, one, other) == filtered = one /\ filtered = other
FilterAgrees(picture, pic) == Agree(AsFiltered(picture, pic), FilteredBy(picture, pic, TRUE), FilteredBy(picture, pic, FALSE))
\* Every sample of a picture, filtered by either build, is what the standard says.
FilteredAsDefined(input) ==
  FilterAgrees(PictureOf(input[2]), [sent |-> [a \in 0 .. 3 |-> Sent(a, input[1], input[2])]])
FilterInputs == (0 .. 14) \X (0 .. 6)
=============================================================================
