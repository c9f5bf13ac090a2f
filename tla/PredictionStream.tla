--------------------------- MODULE PredictionStream ---------------------------
(***************************************************************************)
(* Three pictures, a P picture and two B pictures that predict from it and *)
(* from each other, and what clauses 8.3.1 and 8.4.1 say of their          *)
(* macroblocks: a neighbour is the block or partition that covers a place  *)
(* of the same slice and was decoded before.  Here that is a set of        *)
(* partitions; the decoder keeps grids, of which it stores what it needs.  *)
(* One thing is the code's and not the clause's: the co-located blocks of  *)
(* direct_8x8_inference (motion_field.rs:104-105).                         *)
(***************************************************************************)
EXTENDS Deblocking

CONSTANTS Width, Height
Count == Width * Height

(* Decoding a picture: the workspace [p, b, modes], the motion field that   *)
(* is being built, and what the macroblocks resolved to.                    *)
Reset(w, first, exhausted) ==
  [p |-> ResetForPicture(w.p, Width, Height, first, exhausted),
   b |-> ResetForPicture(w.b, Width, Height, first, exhausted),
   modes |-> ResetModes(w.modes, Width, Height, first, exhausted)]
FreshWorkspace == [p |-> NewP(Width, Height), b |-> NewB(Width, Height), modes |-> NewModes(Width, Height)]
DirectContext(pic, slice) ==
  [spatial |-> pic.spatial, inference |-> pic.inference, active |-> <<Len(slice.list0), Len(slice.list1)>>,
   field |-> slice.list1[1][1].field, long_term |-> slice.list1[1][1].long_term,
   poc |-> pic.poc, colocated_poc |-> slice.list1[1][1].poc, references |-> slice.list0]
Ids(list) == [i \in 1 .. Len(list) |-> IF list[i] = None THEN None ELSE Some(list[i][1].id)]
Resolved(d, r, grid) ==
  IF ~ d.ok \/ r.out = None THEN [d EXCEPT !.ok = FALSE]
  ELSE [d EXCEPT ![grid] = r.state, !.out = Append(@, r.out[1])]
\* Completed macroblocks, as far as later ones ask.
Done(done, a, slice, intra) ==
  [b \in DOMAIN done \cup {a} |-> IF b = a THEN [slice |-> slice.id, intra |-> intra] ELSE done[b]]
Noted(d, note) == IF note = None THEN [d EXCEPT !.ok = FALSE] ELSE [d EXCEPT !.notes = Append(@, note[1])]
Recorded(d, a, slice) ==
  IF ~ d.ok THEN d
  ELSE LET r == RecordInter(d.field, a, d.out[Len(d.out)], Ids(slice.list0), Ids(slice.list1))
           m == RecordInterModes(d.modes, a, slice.id)
       IN  [d EXCEPT !.field = r.field, !.ok = r.ok /\ m.out # None, !.modes = m.state,
                !.done = Done(@, a, slice, FALSE), !.usable = Append(@, <<>>)]
ResolveP(d, a, slice, m) ==
  IF m.kind = "skip" THEN PSkipMacroblock(d.p, a, slice.id) ELSE PInterMacroblock(d.p, a, slice.id, m.header)
HasDirect(header) == header.mode = "8x8" /\ \E i \in 1 .. 4 : header.subs[i].direct
ResolveB(d, a, slice, m, context) ==
  CASE m.kind = "skip" -> DirectMacroblock(d.b, a, slice.id, context)
    [] HasDirect(m.header) -> MixedMacroblock(d.b, a, slice.id, m.header, context)
    [] OTHER -> BInterMacroblock(d.b, a, slice.id, m.header)
NotedInter(d, slice, m) ==
  IF ~ d.ok THEN d
  ELSE Noted(d, InterNote(slice.id, <<0, 0, 0>>, m.t8, slice.filter, d.out[Len(d.out)], m.coded,
                          <<deblock_reference_list(d.known, Ids(slice.list0)), deblock_reference_list(d.known, Ids(slice.list1))>>))
DecodeInter(d, pic, a, slice, m) ==
  NotedInter(Recorded(IF pic.type = "P" THEN Resolved(d, ResolveP(d, a, slice, m), "p")
           ELSE Resolved(d, ResolveB(d, a, slice, m, DirectContext(pic, slice)), "b"), a, slice), slice, m)
DeriveModes(d, pic, a, slice, m) ==
  CASE Len(m.modes) = 16 -> DeriveIntra4x4(d.modes, a, slice.id, pic.constrained, m.modes)
    [] Len(m.modes) = 4 -> DeriveIntra8x8(d.modes, a, slice.id, pic.constrained, m.modes)
    [] OTHER -> RecordOtherIntra(d.modes, a, slice.id)
RecordIntraMotion(d, a, slice) ==
  LET f == RecordIntra(d.field, a)
      b == BRecordIntra(d.b, a, slice.id)
      p == PRecordIntra(d.p, a, slice.id)
  IN  [d EXCEPT !.field = f.field, !.b = b.state, !.p = p.state, !.done = Done(@, a, slice, TRUE),
                !.ok = @ /\ f.ok /\ b.out # None /\ p.out # None]
DecodeIntra(d, pic, a, slice, m) ==
  RecordIntraMotion(Noted(
    Resolved([d EXCEPT !.usable = Append(@, Availabilities(d.modes, d.done, pic.constrained, a, slice.id, Len(m.modes)))],
             DeriveModes(d, pic, a, slice, m), "modes"),
    Some(IntraNote(slice.id, <<0, 0, 0>>, Len(m.modes) = 4, slice.filter))), a, slice)
DecodeMacroblock(d, pic, a, slice, m) ==
  IF m.kind = "intra" THEN DecodeIntra(d, pic, a, slice, m) ELSE DecodeInter(d, pic, a, slice, m)
SliceAt(pic, a) == IF a < pic.second THEN pic.slices[1] ELSE pic.slices[2]
BeginSlice(d, pic, a) ==
  IF a \in {0, pic.second}
  THEN [d EXCEPT !.known = Met(Met(@, Ids(SliceAt(pic, a).list0)), Ids(SliceAt(pic, a).list1))] ELSE d
RECURSIVE DecodeFrom(_, _, _)
DecodeFrom(d, pic, a) ==
  IF a = Count \/ ~ d.ok THEN d
  ELSE DecodeFrom(DecodeMacroblock(BeginSlice(d, pic, a), pic, a, SliceAt(pic, a), pic.mbs[a + 1]), pic, a + 1)
Decode(w, pic) ==
  DecodeFrom([p |-> w.p, b |-> w.b, modes |-> w.modes, field |-> NewField(Width, Height, TRUE), out |-> <<>>,
              usable |-> <<>>, done |-> <<>>, notes |-> <<>>, known |-> <<>>, ok |-> TRUE], pic, 0)

(* What the standard says.  A decoded area is [slice, x, y, w, h, intra,    *)
(* lists, mode, usable], a list's motion being [ref, id, mv].               *)
Covering(done, slice, x, y) ==
  {p \in done : p.slice = slice /\ x \in p.x .. p.x + p.w - 1 /\ y \in p.y .. p.y + p.h - 1}
MotionsIn(ps, list) == {p.lists[list][1] : p \in {q \in ps : q.lists[list] # None}}
\* refIdxLXN and mvLXN of neighbouring partitions.
RefOf(ps, list) == IF MotionsIn(ps, list) = {} THEN -1 ELSE (CHOOSE m \in MotionsIn(ps, list) : TRUE).ref
MvOf(ps, list) == IF MotionsIn(ps, list) = {} THEN Zero ELSE (CHOOSE m \in MotionsIn(ps, list) : TRUE).mv
Around(done, slice, x, y, w) ==
  LET above_right == Covering(done, slice, x + w, y - 1) IN
  << Covering(done, slice, x - 1, y), Covering(done, slice, x, y - 1),
     IF above_right = {} THEN Covering(done, slice, x - 1, y - 1) ELSE above_right >>
Middle(values) ==
  CHOOSE v \in {values[i] : i \in 1 .. 3} :
    /\ Cardinality({i \in 1 .. 3 : values[i] <= v}) >= 2
    /\ Cardinality({i \in 1 .. 3 : values[i] >= v}) >= 2
Middles(mvs) == <<Middle(<<mvs[1][1], mvs[2][1], mvs[3][1]>>), Middle(<<mvs[1][2], mvs[2][2], mvs[3][2]>>)>>
MedianOf(abc, list, ref) ==
  CASE abc[1] # {} /\ abc[2] = {} /\ abc[3] = {} -> MvOf(abc[1], list)
    [] \E i \in 1 .. 3 : RefOf(abc[i], list) = ref /\ \A j \in (1 .. 3) \ {i} : RefOf(abc[j], list) # ref ->
         MvOf(abc[CHOOSE i \in 1 .. 3 : RefOf(abc[i], list) = ref], list)
    [] OTHER -> Middles([i \in 1 .. 3 |-> MvOf(abc[i], list)])
\* The directional predictions of 16x8 and 8x16 partitions, the median otherwise.
PredictionOf(abc, list, ref, x, y, w, h) ==
  LET side == CASE w = 4 /\ h = 2 -> IF y % 4 = 0 THEN {2} ELSE {1}
                [] w = 2 /\ h = 4 -> IF x % 4 = 0 THEN {1} ELSE {3}
                [] OTHER -> {}
  IN  IF \E i \in side : RefOf(abc[i], list) = ref
      THEN MvOf(abc[CHOOSE i \in side : TRUE], list) ELSE MedianOf(abc, list, ref)
Area(slice, x, y, w, h, lists) ==
  [slice |-> slice.id, x |-> x, y |-> y, w |-> w, h |-> h, intra |-> FALSE, lists |-> lists, mode |-> None,
   usable |-> None]
IdentityIn(slice, list, ref) == (IF list = 1 THEN slice.list0 ELSE slice.list1)[ref + 1][1].id
Predicting(slice, list, ref, mv) ==
  Some([ref |-> ref, id |-> IdentityIn(slice, list, ref), mv |-> mv])
CodedList(done, slice, coded, list, j, x, y, w, h) ==
  IF coded = None THEN None
  ELSE Predicting(slice, list, coded[1].ref,
             Added(PredictionOf(Around(done, slice.id, x, y, w), list, coded[1].ref, x, y, w, h), coded[1].mvds[j + 1]))
CodedArea(done, slice, parts, i, j, x, y, w, h) ==
  Area(slice, x, y, w, h, <<CodedList(done, slice, parts[i + 1][1], 1, j, x, y, w, h),
                            CodedList(done, slice, parts[i + 1][2], 2, j, x, y, w, h)>>)
X(a) == 4 * (a % Width)
Y(a) == 4 * (a \div Width)
\* A skipped P macroblock.
SkippedVector(abc) ==
  IF \E i \in 1 .. 2 : abc[i] = {} \/ (RefOf(abc[i], 1) = 0 /\ MvOf(abc[i], 1) = Zero) THEN Zero
  ELSE PredictionOf(abc, 1, 0, 0, 0, 4, 4)
Skipped(done, slice, a) ==
  Area(slice, X(a), Y(a), 4, 4, <<Predicting(slice, 1, 0, SkippedVector(Around(done, slice.id, X(a), Y(a), 4))), None>>)
\* Direct prediction: the colocated area is that of the first picture of list 1.
Colocated(slice, x, y) ==
  CHOOSE p \in slice.list1[1][1].areas : x \in p.x .. p.x + p.w - 1 /\ y \in p.y .. p.y + p.h - 1
ColocatedMotion(p) == IF p.lists[1] # None THEN p.lists[1][1] ELSE p.lists[2][1]
StoodStill(slice, p) ==
  /\ ~ p.intra /\ ~ slice.list1[1][1].long_term
  /\ ColocatedMotion(p).ref = 0
  /\ \A i \in 1 .. 2 : ColocatedMotion(p).mv[i] >= -1 /\ ColocatedMotion(p).mv[i] <= 1
MinPositive(v, w) == IF v >= 0 /\ w >= 0 THEN (IF v < w THEN v ELSE w) ELSE IF v > w THEN v ELSE w
DirectRef(abc, list) == MinPositive(RefOf(abc[1], list), MinPositive(RefOf(abc[2], list), RefOf(abc[3], list)))
SpatialList(slice, abc, list, still) ==
  IF DirectRef(abc, 1) < 0 /\ DirectRef(abc, 2) < 0 THEN Predicting(slice, list, 0, Zero)
  ELSE IF DirectRef(abc, list) < 0 THEN None
  ELSE Predicting(slice, list, DirectRef(abc, list),
             IF DirectRef(abc, list) = 0 /\ still THEN Zero
             ELSE PredictionOf(abc, list, DirectRef(abc, list), 0, 0, 4, 4))
TemporalMv(pic, slice, col, i) ==
  LET r0 == slice.list0[i][1]
      tb == Clamped(pic.poc - r0.poc, -128, 127)
      td == Clamped(slice.list1[1][1].poc - r0.poc, -128, 127)
      tx == IF td > 0 THEN (16384 + (td \div 2)) \div td ELSE -((16384 + ((-td) \div 2)) \div (-td))
      DistScaleFactor == Clamped((tb * tx + 32) \div 64, -1024, 1023)
  IN  IF r0.long_term \/ td = 0 THEN col.mv
      ELSE <<(DistScaleFactor * col.mv[1] + 128) \div 256, (DistScaleFactor * col.mv[2] + 128) \div 256>>
TemporalLists(pic, slice, p) ==
  IF p.intra THEN <<Predicting(slice, 1, 0, Zero), Predicting(slice, 2, 0, Zero)>>
  ELSE LET col == ColocatedMotion(p)
           i == CHOOSE k \in 1 .. Len(slice.list0) :
                  /\ slice.list0[k][1].id = col.id
                  /\ \A l \in 1 .. k - 1 : slice.list0[l][1].id # col.id
           mv == TemporalMv(pic, slice, col, i)
       IN  <<Predicting(slice, 1, i - 1, mv), Predicting(slice, 2, 0, <<mv[1] - col.mv[1], mv[2] - col.mv[2]>>)>>
DirectLists(pic, slice, abc, p) ==
  IF pic.spatial
  THEN <<SpatialList(slice, abc, 1, StoodStill(slice, p)), SpatialList(slice, abc, 2, StoodStill(slice, p))>>
  ELSE TemporalLists(pic, slice, p)
\* The direct areas among the quarters of a macroblock, all predicted from around it.
DirectAreas(done, pic, slice, a, quarters) ==
  LET n == IF pic.inference THEN 2 ELSE 1
      abc == Around(done, slice.id, X(a), Y(a), 4)
  IN  {Area(slice, X(a) + c[1], Y(a) + c[2], n, n, DirectLists(pic, slice, abc, Colocated(slice, X(a) + c[1], Y(a) + c[2]))) :
         c \in {e \in Cells : e[1] % n = 0 /\ e[2] % n = 0 /\ 2 * (e[2] \div 2) + (e[1] \div 2) \in quarters}}
RECURSIVE SubAreas(_, _, _, _, _, _)
SubAreas(done, slice, header, a, i, j) ==
  LET sub == header.subs[i + 1]
      k == IF sub.w = 2 THEN <<0, j>> ELSE <<j % 2, j \div 2>>
  IN  IF j = (2 \div sub.w) * (2 \div sub.h) THEN done
      ELSE SubAreas(done \cup {CodedArea(done, slice, header.parts, i, j, X(a) + 2 * (i % 2) + k[1],
                                         Y(a) + 2 * (i \div 2) + k[2], sub.w, sub.h)}, slice, header, a, i, j + 1)
RECURSIVE Quarters(_, _, _, _, _, _, _)
Quarters(done, before, pic, slice, header, a, i) ==
  IF i = 4 THEN done
  ELSE Quarters(IF header.subs[i + 1].direct THEN done \cup DirectAreas(before, pic, slice, a, {i})
                ELSE SubAreas(done, slice, header, a, i, 0), before, pic, slice, header, a, i + 1)
HalvesOf(header, i) ==
  CASE header.mode = "16x16" -> <<0, 0, 4, 4>> [] header.mode = "16x8" -> <<0, 2 * i, 4, 2>> [] OTHER -> <<2 * i, 0, 2, 4>>
RECURSIVE Halves(_, _, _, _, _)
Halves(done, slice, header, a, i) ==
  IF i = Len(header.parts) THEN done
  ELSE LET g == HalvesOf(header, i) IN
       Halves(done \cup {CodedArea(done, slice, header.parts, i, 0, X(a) + g[1], Y(a) + g[2], g[3], g[4])},
              slice, header, a, i + 1)
InterAreas(done, pic, slice, a, m) ==
  CASE m.kind = "skip" /\ pic.type = "P" -> done \cup {Skipped(done, slice, a)}
    [] m.kind = "skip" -> done \cup DirectAreas(done, pic, slice, a, 0 .. 3)
    [] m.header.mode = "8x8" -> Quarters(done, done, pic, slice, m.header, a, 0)
    [] OTHER -> Halves(done, slice, m.header, a, 0)
\* intraMxMPredModeN, 2 where the neighbour has none.
ModeOf(ps) == IF \E p \in ps : p.mode # None THEN (CHOOSE p \in ps : p.mode # None).mode[1] ELSE 2
UsesDc(pic, ps) == ps = {} \/ (pic.constrained /\ \E p \in ps : ~ p.intra)
PredModeOf(pic, left, above) ==
  IF UsesDc(pic, left) \/ UsesDc(pic, above) \/ ModeOf(left) > ModeOf(above)
  THEN IF UsesDc(pic, left) \/ UsesDc(pic, above) THEN 2 ELSE ModeOf(above)
  ELSE ModeOf(left)
IntraArea(slice, x, y, n, mode, usable) ==
  [slice |-> slice.id, x |-> x, y |-> y, w |-> n, h |-> n, intra |-> TRUE, lists |-> <<None, None>>, mode |-> mode,
   usable |-> Some(usable)]
\* Samples beside a block are used if all of them were decoded before, in this
\* slice and, with constrained prediction, by intra macroblocks.
AllUsable(done, pic, slice, places) ==
  \A c \in places :
    LET ps == Covering(done, slice.id, c[1], c[2]) IN ps # {} /\ (pic.constrained => \A p \in ps : p.intra)
UsableAround(done, pic, slice, x, y, n, right) ==
  [top |-> AllUsable(done, pic, slice, (x .. x + n - 1) \X {y - 1}),
   left |-> AllUsable(done, pic, slice, {x - 1} \X (y .. y + n - 1)),
   top_left |-> AllUsable(done, pic, slice, {<<x - 1, y - 1>>}),
   top_right |-> right /\ AllUsable(done, pic, slice, (x + n .. x + 2 * n - 1) \X {y - 1})]
ModeFrom(coded, predicted) == IF coded = Follows THEN predicted ELSE coded + (IF coded >= predicted THEN 1 ELSE 0)
\* Block i of n x n, in the order of Figure 6-10.
BlockPlace(n, i) ==
  IF n = 2 THEN <<2 * (i % 2), 2 * (i \div 2)>>
  ELSE <<2 * ((i \div 4) % 2) + (i % 2), 2 * (i \div 8) + ((i \div 2) % 2)>>
RECURSIVE BlockAreas(_, _, _, _, _, _, _)
BlockAreas(done, pic, slice, a, n, modes, i) ==
  IF i = Len(modes) THEN done
  ELSE LET x == X(a) + BlockPlace(n, i)[1]
           y == Y(a) + BlockPlace(n, i)[2]
           predicted == PredModeOf(pic, Covering(done, slice.id, x - 1, y), Covering(done, slice.id, x, y - 1))
       IN  BlockAreas(done \cup {IntraArea(slice, x, y, n, Some(ModeFrom(modes[i + 1], predicted)),
                                               UsableAround(done, pic, slice, x, y, n, TRUE))},
                      pic, slice, a, n, modes, i + 1)
IntraAreas(done, pic, slice, a, m) ==
  IF m.modes = <<>> THEN done \cup {IntraArea(slice, X(a), Y(a), 4, None, UsableAround(done, pic, slice, X(a), Y(a), 4, FALSE))}
  ELSE BlockAreas(done, pic, slice, a, IF Len(m.modes) = 16 THEN 1 ELSE 2, m.modes, 0)
MacroblockAreas(done, pic, slice, a, m) ==
  IF m.kind = "intra" THEN IntraAreas(done, pic, slice, a, m) ELSE InterAreas(done, pic, slice, a, m)
RECURSIVE AreasFrom(_, _, _)
AreasFrom(done, pic, a) ==
  IF a = Count THEN done ELSE AreasFrom(MacroblockAreas(done, pic, SliceAt(pic, a), a, pic.mbs[a + 1]), pic, a + 1)
Areas(pic) == AreasFrom({}, pic, 0)

(* What was resolved is what the standard says, block by block, and so is   *)
(* what the motion field keeps.                                             *)
AreaAt(areas, x, y) == CHOOSE p \in areas : x \in p.x .. p.x + p.w - 1 /\ y \in p.y .. p.y + p.h - 1
WithoutId(motion) == IF motion = None THEN None ELSE Some([ref |-> motion[1].ref, mv |-> motion[1].mv])
SameBlock(out, m, p, c) ==
  IF m.kind = "intra" THEN p.intra /\ out[c] = p.mode
  ELSE /\ ~ p.intra
       /\ out[PartitionAt(out, c)].lists = <<WithoutId(p.lists[1]), WithoutId(p.lists[2])>>
SameField(cell, p) ==
  /\ cell.intra = p.intra
  /\ \A list \in 1 .. 2 :
       IF p.lists[list] = None THEN cell.lists[list] = None
       ELSE cell.lists[list] = Some([ref |-> p.lists[list][1].ref, id |-> Some(p.lists[list][1].id),
                                     mv |-> p.lists[list][1].mv])
\* Samples are read where the standard says they may be.
SameUsable(usable, m, areas, a) ==
  m.kind = "intra" =>
    \A i \in 1 .. Len(usable) :
      LET at == IF Len(usable) = 1 THEN <<0, 0>> ELSE BlockPlace(IF Len(usable) = 4 THEN 2 ELSE 1, i - 1) IN
      AreaAt(areas, X(a) + at[1], Y(a) + at[2]).usable = Some(usable[i])
SameMacroblock(d, areas, a, m) ==
  \A c \in Cells :
    LET p == AreaAt(areas, X(a) + c[1], Y(a) + c[2]) IN
    SameBlock(d.out[a + 1], m, p, c) /\ SameField(d.field.cells[a][c], p)
\* The strength of every edge between two blocks is what their areas ask for.
CodedAt(m, c) ==
  \E i \in m.coded : IF m.t8 THEN i \div 4 = 2 * (c[2] \div 2) + (c[1] \div 2) ELSE LUMA_4X4_COORDINATES[i + 1] = c
BlockAt(pic, areas, x, y) ==
  LET p == AreaAt(areas, x, y)
      m == pic.mbs[Width * (y \div 4) + (x \div 4) + 1]
  IN  [intra |-> p.intra, coefficients |-> m.kind # "intra" /\ CodedAt(m, <<x % 4, y % 4>>),
       motions |-> Motions(SelectSeq(p.lists, LAMBDA used : used # None))]
SameStrengths(strengths, pic, areas, x, y, dx, dy, external) ==
  \A k \in 0 .. 3 :
    strengths[k] = StrengthOf(BlockAt(pic, areas, x + dy * k - dx, y + dx * k - dy), BlockAt(pic, areas, x + dy * k, y + dx * k), external)
IsTransformEdge(pic, a, e) == e = 2 \/ ~ pic.mbs[a + 1].t8
EdgesAsDefined(d, pic, areas, a) ==
  \A e \in 0 .. 3 :
    /\ (e = 0 /\ FilterLeft(d, Width, a)) \/ (e > 0 /\ IsTransformEdge(pic, a, e))
       => SameStrengths(VerticalStrengths(d, Width, a, e), pic, areas, X(a) + e, Y(a), 1, 0, e = 0)
    /\ (e = 0 /\ FilterTop(d, Width, a)) \/ (e > 0 /\ IsTransformEdge(pic, a, e))
       => SameStrengths(HorizontalStrengths(d, Width, a, e), pic, areas, X(a), Y(a) + e, 0, 1, e = 0)
NotesFrom(notes) == [a \in 0 .. Count - 1 |-> notes[a + 1]]
AsDefined(d, pic, areas) ==
  /\ d.ok /\ Finish(d.field).ok
  /\ \A a \in 0 .. Count - 1 :
       SameMacroblock(d, areas, a, pic.mbs[a + 1]) /\ SameUsable(d.usable[a + 1], pic.mbs[a + 1], areas, a)
  /\ \A a \in 0 .. Count - 1 : EdgesAsDefined(NotesFrom(d.notes), pic, areas, a)

(* Pictures: macroblocks of every kind, what they hold follows from a seed.  *)
Shape(w, h) == [w |-> w, h |-> h, direct |-> FALSE]
DirectShape == [w |-> 2, h |-> 2, direct |-> TRUE]
SkipKind == [kind |-> "skip"]
IntraKind(blocks) == [kind |-> "intra", blocks |-> blocks]
InterKind(mode, subs, uses) == [kind |-> "inter", mode |-> mode, subs |-> subs, uses |-> uses]
Quartered(subs, uses) == InterKind("8x8", subs, uses)
Split(k) == Pick(<<Shape(2, 2), Shape(1, 1), Shape(2, 1), Shape(1, 2)>>, k)
PKinds ==
  <<SkipKind, InterKind("16x16", <<>>, <<{1}>>), SkipKind, InterKind("16x8", <<>>, <<{1}, {1}>>), InterKind("8x16", <<>>, <<{1}, {1}>>),
    Quartered(<<Split(1), Split(0), Split(2), Split(3)>>, <<{1}, {1}, {1}, {1}>>),
    Quartered(<<Split(3), Split(2), Split(1), Split(1)>>, <<{1}, {1}, {1}, {1}>>), IntraKind(16), IntraKind(4), IntraKind(0)>>
BKinds ==
  <<SkipKind, InterKind("16x16", <<>>, <<{2}>>), InterKind("16x8", <<>>, <<{1, 2}, {2}>>), SkipKind, InterKind("8x16", <<>>, <<{1}, {1, 2}>>),
    Quartered(<<DirectShape, Split(1), Split(2), DirectShape>>, <<{}, {1}, {1, 2}, {}>>),
    Quartered(<<Split(3), DirectShape, Split(1), Split(0)>>, <<{2}, {}, {1, 2}, {1}>>), SkipKind,
    InterKind("16x16", <<>>, <<{1, 2}>>), SkipKind, InterKind("16x8", <<>>, <<{1}, {1, 2}>>), InterKind("8x16", <<>>, <<{2}, {2}>>),
    IntraKind(4), InterKind("16x16", <<>>, <<{1, 2}>>),
    Quartered(<<Split(1), Split(0), Split(3), Split(2)>>, <<{1, 2}, {2}, {1}, {1, 2}>>), IntraKind(16), IntraKind(0)>>
Differences == <<0, 0, 1, 0, 0, -1, 0, 6, 0, 0, -190, 0, 2>>
Difference(seed, list, i, j) == <<Pick(Differences, seed + list + 3 * i + j), Pick(Differences, 2 * seed + list + i + 5 * j)>>
MotionIn(list, used, active, i, seed) ==
  IF ~ used THEN None
  ELSE Some([ref |-> Pick(<<0, 0, 1, 0, 2>>, seed + list + 2 * i) % active, mvds |-> [j \in 1 .. 4 |-> Difference(seed, list, i, j)]])
\* Vectors that stay near zero.
Resting(list, seed) ==
  Some([ref |-> 0, mvds |-> [j \in 1 .. 4 |-> IF list = 2 /\ seed % 3 = 0 THEN <<1, 0>> ELSE Zero]])
HeaderOf(kind, slice, seed) ==
  IF kind.uses = <<{1, 2}>>
  THEN [mode |-> kind.mode, subs |-> <<>>, parts |-> << <<Resting(1, seed), Resting(2, seed)>> >>]
  ELSE [mode |-> kind.mode, subs |-> kind.subs,
   parts |-> [i \in 1 .. Len(kind.uses) |->
                <<MotionIn(1, 1 \in kind.uses[i], Len(slice.list0), i, seed),
                  MotionIn(2, 2 \in kind.uses[i], Len(slice.list1), i, seed)>>]]
MacroblockOf(kind, slice, seed) ==
  CASE kind.kind = "skip" -> [kind |-> "skip", t8 |-> FALSE, coded |-> {}]
    [] kind.kind = "intra" -> [kind |-> "intra", modes |-> [i \in 1 .. kind.blocks |-> ((seed * i + i) % 9) - 1], t8 |-> kind.blocks = 4]
    [] OTHER -> [kind |-> "inter", header |-> HeaderOf(kind, slice, seed), t8 |-> seed % 3 = 0, coded |-> CodedBlocks(seed)]
Kinds(type) == IF type = "P" THEN PKinds ELSE BKinds
CodedPicture(type, poc, spatial, slices, second, of, input) ==
  [type |-> type, poc |-> poc, spatial |-> spatial, inference |-> input.inference, constrained |-> input.constrained,
   slices |-> slices, second |-> second,
   mbs |-> [i \in 1 .. Count |->
              MacroblockOf(Pick(Kinds(type), of[i]), IF i - 1 < second THEN slices[1] ELSE slices[2], input.seed + 3 * i)]]
Slice(id, list0, list1) == [id |-> id, list0 |-> list0, list1 |-> list1, filter |-> Filter(IF id % 3 = 0 THEN 2 ELSE 0, 0, 0)]
Reference(id, poc, long_term, field, areas) ==
  Some([id |-> id, poc |-> poc, long_term |-> long_term, field |-> field, areas |-> areas])
IntraReference(id, poc, long_term) ==
  Reference(id, poc, long_term, AllIntra(Width, Height),
            {IntraArea([id |-> 0], X(a), Y(a), 4, None, None) : a \in 0 .. Count - 1})
Older(input) == <<IntraReference(1, 170, FALSE), IntraReference(2, -4, input.long_term)>>
Swapped(pair) == <<pair[2], pair[1]>>
PPicture(input, older) ==
  CodedPicture("P", 90, TRUE, <<Slice(1, older, <<>>), Slice(2, Swapped(older), <<>>)>>, input.second, input.p, input)
BPicture(input, older, next) ==
  CodedPicture("B", 4, input.spatial, <<Slice(3, older, <<next>>), Slice(4, Swapped(older), <<next, older[1]>>)>>,
            Count - input.second, input.b, input)
\* Slice identities start over before the third picture of some inputs.
LastPicture(input, older, next, b) ==
  LET first == IF input.exhausted THEN 1 ELSE 5
      list0 == <<b, older[1], next, older[2]>>
  IN  CodedPicture("B", 6, input.spatial, <<Slice(first, list0, <<b>>), Slice(first + 1, list0, <<b, next>>)>>,
                input.second, [i \in 1 .. Count |-> input.b[Count + 1 - i] + i], input)
ReferenceOf(id, poc, long_term, d, areas) == Reference(id, poc, long_term, Finish(d.field).field[1], areas)
\* The n-th of three pictures, which refers to those of earlier.
PictureAfter(input, n, earlier) ==
  LET older == SubSeq(earlier, 1, 2) IN
  CASE n = 1 -> PPicture(input, older)
    [] n = 2 -> BPicture(input, older, earlier[3])
    [] n = 3 -> LastPicture(input, older, earlier[3], earlier[4])
AsReference(input, n, d, areas) ==
  IF n = 1 THEN ReferenceOf(3, 90, FALSE, d, areas) ELSE ReferenceOf(4, 4, input.long_term, d, areas)
StartsOver(input, n) == n = 3 /\ input.exhausted
Started(input, n, w) == Reset(w, IF StartsOver(input, n) THEN 1 ELSE 2 * n - 1, StartsOver(input, n))
RECURSIVE FromPicture(_, _, _, _)
RestAsDefined(input, n, earlier, d, pic, areas) ==
  /\ AsDefined(d, pic, areas)
  /\ n = 3 \/ FromPicture(input, n + 1, d, Append(earlier, AsReference(input, n, d, areas)))
FromAreas(input, n, w, earlier, pic) == RestAsDefined(input, n, earlier, Decode(Started(input, n, w), pic), pic, Areas(pic))
FromPicture(input, n, w, earlier) == FromAreas(input, n, w, earlier, PictureAfter(input, n, earlier))
\* Of a P picture and the two B pictures after it, all vectors, references and modes.
PredictionAsDefined(input) == FromPicture(input, 1, FreshWorkspace, Older(input))

Input(k, l) ==
  [p |-> <<k, l, (k + l) \div 2, k + 2 * l>>, b |-> <<l, k, k + l + 3, 2 * k + l>>, second |-> 1 + ((k + l) % 4),
   seed |-> 7 * k + l, spatial |-> l % 2 = 0, inference |-> k % 2 = 0, long_term |-> (k + l) % 5 = 0,
   constrained |-> k % 3 = 0, exhausted |-> l % 3 = 0]
\* Direct macroblocks (kind 1) and those at rest (kind 9) around each other.
RestingInput(n, k) ==
  [Input(k, 2 * n) EXCEPT !.second = Count, !.b = [i \in 1 .. Count |-> Pick(<<0, 8>>, n \div 2 ^ (i - 1))]]
SomeInputs ==
  {Input(kl[1], kl[2]) : kl \in (0 .. 16) \X (0 .. 24)} \cup {RestingInput(nk[1], nk[2]) : nk \in (0 .. 15) \X (0 .. 5)}
=============================================================================
