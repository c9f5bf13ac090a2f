-------------------------------- MODULE Motion --------------------------------
(***************************************************************************)
(* What a macroblock takes from its neighbours: the motion vectors of P    *)
(* and B macroblocks (motion.rs, b_motion.rs), the motion field that a     *)
(* reference picture keeps for direct prediction (motion_field.rs), and    *)
(* intra prediction modes (intra_modes.rs).                                *)
(*                                                                         *)
(* A grid has a cell per 4x4 block.  P slices keep all sixteen cells of a  *)
(* macroblock, B slices the right column and the bottom row only.  Grids   *)
(* outlive pictures: a cell counts only for the slice that wrote it.       *)
(* Coordinates are in 4x4 blocks.  An operation yields the state after it  *)
(* and what it resolved, None where the code returns an error.  Headers    *)
(* are those the syntax layer reads, so their shape is not checked again,  *)
(* and vectors stay within the 16 bits the code checks them against.       *)
(***************************************************************************)
EXTENDS Integers, Sequences, FiniteSets

None == <<>>
Some(v) == <<v>>
Zero == <<0, 0>>
Least(S) == CHOOSE v \in S : \A w \in S : v <= w
Greatest(S) == CHOOSE v \in S : \A w \in S : v >= w

(* Grids.                                                                  *)
Cells == (0 .. 3) \X (0 .. 3)
STORED_BOUNDARY_CELLS == {c \in Cells : c[1] = 3 \/ c[2] = 3}
Cell(slice, lists) == Some([slice |-> slice, lists |-> lists])
NoCells == [c \in Cells |-> None]
NewP(width, height) ==
  [kept |-> Cells, width |-> width, height |-> height, first |-> 0,
   cells |-> [a \in 0 .. width * height - 1 |-> NoCells]]
NewB(width, height) ==
  [kept |-> STORED_BOUNDARY_CELLS, width |-> width, height |-> height, first |-> 0,
   cells |-> [a \in 0 .. width * height - 1 |-> [c \in STORED_BOUNDARY_CELLS |-> None]]]
\* Only a change of size, or slice identities starting over, clears the cells.
ResetForPicture(s, width, height, first, clear_entries) ==
  LET keep == DOMAIN s.cells = 0 .. width * height - 1 /\ ~ clear_entries IN
  [s EXCEPT !.width = width, !.height = height, !.first = first,
            !.cells = IF keep THEN @ ELSE [a \in 0 .. width * height - 1 |-> [c \in s.kept |-> None]]]

Writes(cell, first) == cell # None /\ cell[1].slice >= first
PWritable(s, a) == a < s.width * s.height /\ ~ Writes(s.cells[a][<<0, 0>>], s.first)
BWritable(s, a) == a < s.width * s.height /\ ~ Writes(s.cells[a][<<3, 0>>], s.first)
Refused(s) == [state |-> s, out |-> None]
Commit(s, a, local, out) ==
  [state |-> [s EXCEPT !.cells[a] = [c \in s.kept |-> local[c]]], out |-> Some(out)]
Uniform(slice, lists) == [c \in Cells |-> Cell(slice, lists)]
PRecordIntra(s, a, slice) ==
  IF PWritable(s, a) THEN Commit(s, a, Uniform(slice, <<None, None>>), <<>>) ELSE Refused(s)
BRecordIntra(s, a, slice) ==
  IF BWritable(s, a) THEN Commit(s, a, Uniform(slice, <<None, None>>), <<>>) ELSE Refused(s)
ClearMacroblock(s, a) == [s EXCEPT !.cells[a] = [c \in s.kept |-> None]]

(* Neighbours.                                                             *)
OfSlice(cell, slice) == IF cell # None /\ cell[1].slice = slice THEN cell ELSE None
Outside(s, x, y) == x < 0 \/ y < 0 \/ x >= 4 * s.width \/ y >= 4 * s.height
AddressAt(s, x, y) == (y \div 4) * s.width + (x \div 4)
PCellAt(s, a, slice, local, x, y) ==
  CASE Outside(s, x, y) -> None
    [] AddressAt(s, x, y) = a -> OfSlice(local[<<x % 4, y % 4>>], slice)
    [] OTHER -> OfSlice(s.cells[AddressAt(s, x, y)][<<x % 4, y % 4>>], slice)
StoredBoundaryCell(s, a, c) == IF c \in STORED_BOUNDARY_CELLS THEN s.cells[a][c] ELSE None
BCellAt(s, a, slice, local, x, y) ==
  CASE Outside(s, x, y) -> None
    [] AddressAt(s, x, y) = a -> OfSlice(local[<<x % 4, y % 4>>], slice)
    [] AddressAt(s, x, y) > a -> None
    [] OTHER -> OfSlice(StoredBoundaryCell(s, AddressAt(s, x, y), <<x % 4, y % 4>>), slice)
CellAt(s, a, slice, local, x, y) ==
  IF s.kept = Cells THEN PCellAt(s, a, slice, local, x, y) ELSE BCellAt(s, a, slice, local, x, y)
\* Left, above, above to the right and above to the left of a partition.
Neighbours(s, a, slice, local, g) ==
  LET x == 4 * (a % s.width) + g.x
      y == 4 * (a \div s.width) + g.y
  IN  << CellAt(s, a, slice, local, x - 1, y), CellAt(s, a, slice, local, x, y - 1),
         CellAt(s, a, slice, local, x + g.w, y - 1), CellAt(s, a, slice, local, x - 1, y - 1) >>
NeighbourMotion(cell, list) ==
  IF cell = None THEN [available |-> FALSE, ref |-> -1, mv |-> Zero]
  ELSE IF cell[1].lists[list] = None THEN [available |-> TRUE, ref |-> -1, mv |-> Zero]
  ELSE [available |-> TRUE, ref |-> cell[1].lists[list][1].ref, mv |-> cell[1].lists[list][1].mv]
NeighbourList(cells, list) == [i \in 1 .. 4 |-> NeighbourMotion(cells[i], list)]
\* A mutation: D also where C is available but does not use the list.
DiagonalUnlessPredicting(n) == IF n[3].ref >= 0 THEN n[3] ELSE n[4]
\* C, or D where C is not available.
Diagonal(n) == IF n[3].available THEN n[3] ELSE n[4]

(* Prediction from three neighbours.                                       *)
Median(a, b, c) == a + b + c - Least({a, b, c}) - Greatest({a, b, c})
MedianVector(n) == <<Median(n[1].mv[1], n[2].mv[1], n[3].mv[1]), Median(n[1].mv[2], n[2].mv[2], n[3].mv[2])>>
OfReference(n, ref) == {i \in 1 .. 3 : n[i].ref = ref}
SingleOrMedian(n, same) == IF Cardinality(same) = 1 THEN n[CHOOSE i \in same : TRUE].mv ELSE MedianVector(n)
MedianPredictionOf(n, ref) == SingleOrMedian(n, OfReference(n, ref))
MedianPrediction(a, b, c, ref) ==
  IF a.available /\ ~ b.available /\ ~ c.available THEN MedianPredictionOf(<<a, a, a>>, ref)
  ELSE MedianPredictionOf(<<a, b, c>>, ref)
\* The neighbour that the halves of a macroblock prefer.
Preferred(n, mode, part) ==
  CASE mode = "16x8" -> Some(IF part = 0 THEN n[2] ELSE n[1])
    [] mode = "8x16" -> Some(IF part = 0 THEN n[1] ELSE Diagonal(n))
    [] OTHER -> None
PredictWith(n, preferred, ref) ==
  IF preferred # None /\ preferred[1].ref = ref THEN preferred[1].mv
  ELSE MedianPrediction(n[1], n[2], Diagonal(n), ref)
PredictMotionVector(n, mode, part, ref) == PredictWith(n, Preferred(n, mode, part), ref)

(* Macroblocks coded with references and differences: their partitions in  *)
(* decoding order.                                                         *)
SubOffset(sub, j) == IF sub.w = 1 /\ sub.h = 1 THEN <<j % 2, j \div 2>> ELSE IF sub.w = 1 THEN <<j, 0>> ELSE <<0, j>>
SubCount(sub) == 4 \div (sub.w * sub.h)
ListPlan(motion, j) == IF motion = None THEN None ELSE Some([ref |-> motion[1].ref, mvd |-> motion[1].mvds[j + 1]])
Plan(header, i, j, x, y, w, h) ==
  [x |-> x, y |-> y, w |-> w, h |-> h, part |-> i, mode |-> header.mode,
   lists |-> <<ListPlan(header.parts[i + 1][1], j), ListPlan(header.parts[i + 1][2], j)>>]
SubPlans(header, i) ==
  LET sub == header.subs[i + 1] IN
  [k \in 1 .. SubCount(sub) |->
     Plan(header, i, k - 1, 2 * (i % 2) + SubOffset(sub, k - 1)[1], 2 * (i \div 2) + SubOffset(sub, k - 1)[2],
          sub.w, sub.h)]
PartitionPlans(header) ==
  CASE header.mode = "16x16" -> <<Plan(header, 0, 0, 0, 0, 4, 4)>>
    [] header.mode = "16x8" -> <<Plan(header, 0, 0, 0, 0, 4, 2), Plan(header, 1, 0, 0, 2, 4, 2)>>
    [] header.mode = "8x16" -> <<Plan(header, 0, 0, 0, 0, 2, 4), Plan(header, 1, 0, 2, 0, 2, 4)>>
    [] OTHER -> SubPlans(header, 0) \o SubPlans(header, 1) \o SubPlans(header, 2) \o SubPlans(header, 3)
Added(mv, mvd) == <<mv[1] + mvd[1], mv[2] + mvd[2]>>
ResolveList(cells, plan, list) ==
  IF plan.lists[list] = None THEN None
  ELSE LET l == plan.lists[list][1] IN
       Some([ref |-> l.ref,
             mv |-> Added(PredictMotionVector(NeighbourList(cells, list), plan.mode, plan.part, l.ref), l.mvd)])
Partition(g, lists) == [x |-> g.x, y |-> g.y, w |-> g.w, h |-> g.h, lists |-> lists]
ResolvePlan(cells, plan) == Partition(plan, <<ResolveList(cells, plan, 1), ResolveList(cells, plan, 2)>>)
Covers(g, c) == c[1] \in g.x .. g.x + g.w - 1 /\ c[2] \in g.y .. g.y + g.h - 1
FillPartitionCells(local, slice, p) ==
  [c \in Cells |-> IF Covers(p, c) THEN Cell(slice, p.lists) ELSE local[c]]
With(r, slice, p) == [local |-> FillPartitionCells(r.local, slice, p), parts |-> Append(r.parts, p)]
RECURSIVE ResolvePlans(_, _, _, _, _)
ResolvePlans(s, a, slice, plans, r) ==
  IF plans = <<>> THEN r
  ELSE ResolvePlans(s, a, slice, Tail(plans),
                    With(r, slice, ResolvePlan(Neighbours(s, a, slice, r.local, Head(plans)), Head(plans))))
Nothing == [local |-> NoCells, parts |-> <<>>]
CommitResolved(s, a, r) == Commit(s, a, r.local, r.parts)
PInterMacroblock(s, a, slice, header) ==
  IF ~ PWritable(s, a) THEN Refused(s)
  ELSE CommitResolved(s, a, ResolvePlans(s, a, slice, PartitionPlans(header), Nothing))
BInterMacroblock(s, a, slice, header) ==
  IF ~ BWritable(s, a) THEN Refused(s)
  ELSE CommitResolved(s, a, ResolvePlans(s, a, slice, PartitionPlans(header), Nothing))
Whole == [x |-> 0, y |-> 0, w |-> 4, h |-> 4]
CommitUniform(s, a, slice, lists) == Commit(s, a, Uniform(slice, lists), <<Partition(Whole, lists)>>)

\* A skipped P macroblock stands still at a border or beside a still neighbour.
Still(n) == ~ n.available \/ (n.ref = 0 /\ n.mv = Zero)
SkipVector(n) == IF Still(n[1]) \/ Still(n[2]) THEN Zero ELSE PredictMotionVector(n, "16x16", 0, 0)
PSkipMacroblock(s, a, slice) ==
  IF ~ PWritable(s, a) THEN Refused(s)
  ELSE CommitUniform(s, a, slice,
         <<Some([ref |-> 0, mv |-> SkipVector(NeighbourList(Neighbours(s, a, slice, NoCells, Whole), 1))]), None>>)

(* The motion field of a reference picture.                                *)
IntraFieldCell == [intra |-> TRUE, lists |-> <<None, None>>]
NewField(width, height, retain) ==
  [width |-> width, height |-> height, retain |-> retain, completed |-> {}, cells |-> <<>>]
RecordMacroblock(f, a, local) ==
  IF a >= f.width * f.height \/ a \in f.completed THEN [field |-> f, ok |-> FALSE]
  ELSE [field |-> [f EXCEPT !.completed = @ \cup {a},
                            !.cells = IF ~ f.retain THEN @
                                      ELSE [b \in DOMAIN @ \cup {a} |-> IF b = a THEN local ELSE @[b]]],
        ok |-> TRUE]
RecordIntra(f, a) == RecordMacroblock(f, a, [c \in Cells |-> IntraFieldCell])
\* The identity of the picture that a list names, None beyond its end.
IdOf(ids, ref) == IF ref < Len(ids) THEN ids[ref + 1] ELSE None
StoredMotion(motion, ids) ==
  IF motion = None THEN None ELSE Some([ref |-> motion[1].ref, id |-> IdOf(ids, motion[1].ref), mv |-> motion[1].mv])
FieldCell(p, ids0, ids1) ==
  [intra |-> FALSE, lists |-> <<StoredMotion(p.lists[1], ids0), StoredMotion(p.lists[2], ids1)>>]
\* Partitions cover the macroblock without overlapping.
Tile(parts) == \A c \in Cells : Cardinality({i \in 1 .. Len(parts) : Covers(parts[i], c)}) = 1
PartitionAt(parts, c) == CHOOSE i \in 1 .. Len(parts) : Covers(parts[i], c)
RecordInter(f, a, parts, ids0, ids1) ==
  IF ~ Tile(parts) THEN [field |-> f, ok |-> FALSE]
  ELSE RecordMacroblock(f, a, [c \in Cells |-> FieldCell(parts[PartitionAt(parts, c)], ids0, ids1)])
ClearField(f, a) == [f EXCEPT !.completed = @ \ {a}]
\* A complete field if it was kept; a picture with a macroblock missing is refused.
Finish(f) ==
  IF f.completed # 0 .. f.width * f.height - 1 THEN [ok |-> FALSE, field |-> None]
  ELSE [ok |-> TRUE,
        field |-> IF f.retain THEN Some([width |-> f.width, height |-> f.height, cells |-> f.cells]) ELSE None]
AllIntra(width, height) ==
  [width |-> width, height |-> height,
   cells |-> [a \in 0 .. width * height - 1 |-> [c \in Cells |-> IntraFieldCell]]]
\* The cell at (x, y) of a field.
ColocatedCell(field, x, y) ==
  IF x >= 4 * field.width \/ y >= 4 * field.height THEN None
  ELSE Some(field.cells[(y \div 4) * field.width + (x \div 4)][<<x % 4, y % 4>>])
FirstMotion(cell) == IF cell.lists[1] # None THEN cell.lists[1] ELSE cell.lists[2]
Small(v) == v \in -1 .. 1
ColocatedZeroFlag(cell, long_term) ==
  /\ ~ cell.intra /\ ~ long_term /\ FirstMotion(cell) # None
  /\ FirstMotion(cell)[1].ref = 0
  /\ Small(FirstMotion(cell)[1].mv[1]) /\ Small(FirstMotion(cell)[1].mv[2])

(* Direct prediction.                                                      *)
DIRECT_8X8_GRID == << <<0, 0>>, <<2, 0>>, <<0, 2>>, <<2, 2>> >>
DIRECT_4X4_GRID == [k \in 1 .. 16 |-> <<(k - 1) % 4, (k - 1) \div 4>>]
DirectGrid(inference) == IF inference THEN DIRECT_8X8_GRID ELSE DIRECT_4X4_GRID
DirectSize(inference) == IF inference THEN 2 ELSE 1
DirectPartition(at, inference, lists) ==
  [x |-> at[1], y |-> at[2], w |-> DirectSize(inference), h |-> DirectSize(inference), lists |-> lists]
Within(field, s, a) == 4 * (a % s.width) + 3 < 4 * field.width /\ 4 * (a \div s.width) + 3 < 4 * field.height
\* The entries of the grid whose colocated block stood still.
ColZeroMask(field, s, a, inference, long_term) ==
  IF long_term THEN {}
  ELSE {k \in 1 .. Len(DirectGrid(inference)) :
          ColocatedZeroFlag(ColocatedCell(field, 4 * (a % s.width) + DirectGrid(inference)[k][1],
                                          4 * (a \div s.width) + DirectGrid(inference)[k][2])[1], FALSE)}

\* The cells beside a whole macroblock, straight from the stored boundaries.
FullMacroblockNeighbours(s, a, slice) ==
  LET x == a % s.width
      Stored(inside, b, c) == IF inside THEN OfSlice(StoredBoundaryCell(s, b, c), slice) ELSE None
  IN  << Stored(x > 0, a - 1, <<3, 0>>), Stored(a >= s.width, a - s.width, <<0, 3>>),
         Stored(a >= s.width /\ x + 1 < s.width, a - s.width + 1, <<0, 3>>),
         Stored(a >= s.width /\ x > 0, a - s.width - 1, <<3, 3>>) >>
ZeroMotion == Some([ref |-> 0, mv |-> Zero])
ZeroTriplet(n) ==
  \A cell \in {n[1], n[2], IF n[3] # None THEN n[3] ELSE n[4]} :
    cell # None /\ cell[1].lists = <<ZeroMotion, ZeroMotion>>
\* The least reference that a neighbour uses.
References(n) == {v \in {n[1].ref, n[2].ref, Diagonal(n).ref} : v >= 0}
DirectReferenceOf(refs) == IF refs = {} THEN None ELSE Some(Least(refs))
SpatialReference(n) == DirectReferenceOf(References(n))
\* Both lists are used with reference 0 where no neighbour uses any.
SpatialReferences(r1, r2) == IF r1 = None /\ r2 = None THEN <<Some(0), Some(0)>> ELSE <<r1, r2>>
ValidReference(r, active) == r = None \/ r[1] < active
Predicted(n, r) == IF r = None THEN None ELSE Some([ref |-> r[1], mv |-> PredictMotionVector(n, "direct", 0, r[1])])
SpatialFrom(n1, n2, refs, active) ==
  IF \E list \in 1 .. 2 : ~ ValidReference(refs[list], active[list]) THEN None
  ELSE Some(<<Predicted(n1, refs[1]), Predicted(n2, refs[2])>>)
SpatialWith(n1, n2, active) ==
  SpatialFrom(n1, n2, SpatialReferences(SpatialReference(n1), SpatialReference(n2)), active)
SpatialPrediction(cells, active) == SpatialWith(NeighbourList(cells, 1), NeighbourList(cells, 2), active)
Stopped(motion, zero) == IF motion # None /\ zero /\ motion[1].ref = 0 THEN ZeroMotion ELSE motion
StoppedLists(predicted, zero) == <<Stopped(predicted[1], zero), Stopped(predicted[2], zero)>>
CanStop(motion) == motion # None /\ motion[1].ref = 0 /\ motion[1].mv # Zero
RECURSIVE FillDirect(_, _, _)
FillDirect(slice, parts, r) ==
  IF parts = <<>> THEN r ELSE FillDirect(slice, Tail(parts), With(r, slice, Head(parts)))
SpatialGrid(s, a, slice, inference, predicted, mask) ==
  IF mask = {} \/ mask = 1 .. Len(DirectGrid(inference))
  THEN CommitUniform(s, a, slice, StoppedLists(predicted, mask # {}))
  ELSE CommitResolved(s, a,
         FillDirect(slice, [k \in 1 .. Len(DirectGrid(inference)) |->
                              DirectPartition(DirectGrid(inference)[k], inference, StoppedLists(predicted, k \in mask))],
                    Nothing))
SpatialGeneral(s, a, slice, context, predicted) ==
  IF predicted = None \/ ~ Within(context.field, s, a) THEN Refused(s)
  ELSE IF ~ CanStop(predicted[1][1]) /\ ~ CanStop(predicted[1][2])
  THEN CommitUniform(s, a, slice, predicted[1])
  ELSE SpatialGrid(s, a, slice, context.inference, predicted[1],
                   ColZeroMask(context.field, s, a, context.inference, context.long_term))
SpatialDirectFrom(s, a, slice, context, cells) ==
  IF ZeroTriplet(cells)
  THEN IF context.active[1] = 0 \/ context.active[2] = 0 \/ ~ Within(context.field, s, a) THEN Refused(s)
       ELSE CommitUniform(s, a, slice, <<ZeroMotion, ZeroMotion>>)
  ELSE SpatialGeneral(s, a, slice, context, SpatialPrediction(cells, context.active))
SpatialDirect(s, a, slice, context) ==
  IF ~ BWritable(s, a) THEN Refused(s)
  ELSE SpatialDirectFrom(s, a, slice, context, FullMacroblockNeighbours(s, a, slice))

\* Rust's division truncates.
Quotient(n, d) == IF (n < 0) = (d < 0) THEN (IF n < 0 THEN -n ELSE n) \div (IF d < 0 THEN -d ELSE d)
                  ELSE -((IF n < 0 THEN -n ELSE n) \div (IF d < 0 THEN -d ELSE d))
Clamped(v, low, high) == IF v < low THEN low ELSE IF v > high THEN high ELSE v
ScaleOf(tb, td) == Clamped((tb * Quotient(16384 + ((IF td < 0 THEN -td ELSE td) \div 2), td) + 32) \div 64, -1024, 1023)
TemporalScale(poc, colocated_poc, reference) ==
  LET td == Clamped(colocated_poc - reference.poc, -128, 127) IN
  IF td = 0 \/ reference.long_term THEN 256 ELSE ScaleOf(Clamped(poc - reference.poc, -128, 127), td)
Scaled(v, scale) == (scale * v + 128) \div 256
\* The first entry of list 0 that is the picture the colocated block refers to.
EntriesOf(id, references) ==
  {i \in 1 .. Len(references) : references[i] # None /\ id # None /\ references[i][1].id = id[1]}
TemporalVectors(col, scale, ref) ==
  LET mv == <<Scaled(col.mv[1], scale), Scaled(col.mv[2], scale)>> IN
  Some(<<Some([ref |-> ref, mv |-> mv]), Some([ref |-> 0, mv |-> <<mv[1] - col.mv[1], mv[2] - col.mv[2]>>])>>)
TemporalFrom(col, entries, context) ==
  IF entries = {} THEN None
  ELSE TemporalVectors(col, TemporalScale(context.poc, context.colocated_poc, context.references[Least(entries)][1]),
                       Least(entries) - 1)
TemporalMotion(cell, context) ==
  IF cell.intra THEN Some(<<ZeroMotion, ZeroMotion>>)
  ELSE TemporalFrom(FirstMotion(cell)[1], EntriesOf(FirstMotion(cell)[1].id, context.references), context)
TemporalAt(s, a, context, c) ==
  LET cell == ColocatedCell(context.field, 4 * (a % s.width) + c[1], 4 * (a \div s.width) + c[2]) IN
  IF cell = None THEN None ELSE TemporalMotion(cell[1], context)
Coalesced(parts) ==
  IF \A i \in 1 .. Len(parts) : parts[i].lists = parts[1].lists THEN <<Partition(Whole, parts[1].lists)>> ELSE parts
TemporalCommit(s, a, slice, inference, motions) ==
  IF \E k \in 1 .. Len(motions) : motions[k] = None THEN Refused(s)
  ELSE LET r == FillDirect(slice, [k \in 1 .. Len(motions) |->
                                     DirectPartition(DirectGrid(inference)[k], inference, motions[k][1])], Nothing)
       IN  Commit(s, a, r.local, Coalesced(r.parts))
TemporalDirect(s, a, slice, context) ==
  IF ~ BWritable(s, a) \/ context.active[2] = 0 THEN Refused(s)
  ELSE TemporalCommit(s, a, slice, context.inference,
         [k \in 1 .. Len(DirectGrid(context.inference)) |-> TemporalAt(s, a, context, DirectGrid(context.inference)[k])])

(* Quartered B macroblocks, some of whose quarters are direct.             *)
RegionGrid(i, inference) ==
  SelectSeq(DirectGrid(inference), LAMBDA c : c[1] \div 2 = i % 2 /\ c[2] \div 2 = i \div 2)
SpatialAt(s, a, context, predicted, c) ==
  LET cell == ColocatedCell(context.field, 4 * (a % s.width) + c[1], 4 * (a \div s.width) + c[2]) IN
  IF predicted = None \/ cell = None THEN None
  ELSE Some(StoppedLists(predicted[1], ColocatedZeroFlag(cell[1], context.long_term)))
RegionMotion(s, a, slice, context, c) ==
  IF context.spatial
  THEN SpatialAt(s, a, context, SpatialPrediction(Neighbours(s, a, slice, NoCells, Whole), context.active), c)
  ELSE TemporalAt(s, a, context, c)
ResolveDirectRegion(s, a, slice, context, grid) ==
  [k \in 1 .. Len(grid) |-> [at |-> grid[k], motion |-> RegionMotion(s, a, slice, context, grid[k])]]
FillRegion(slice, inference, region, r) ==
  IF \E k \in 1 .. Len(region) : region[k].motion = None THEN None
  ELSE Some(FillDirect(slice, [k \in 1 .. Len(region) |-> DirectPartition(region[k].at, inference, region[k].motion[1])], r))
RECURSIVE ResolveMixed(_, _, _, _, _, _, _)
ResolveMixed(s, a, slice, header, context, i, r) ==
  IF r = None \/ i = 4 THEN r
  ELSE ResolveMixed(s, a, slice, header, context, i + 1,
         IF header.subs[i + 1].direct
         THEN FillRegion(slice, context.inference,
                ResolveDirectRegion(s, a, slice, context, RegionGrid(i, context.inference)), r[1])
         ELSE Some(ResolvePlans(s, a, slice, SubPlans(header, i), r[1])))
CommitMixed(s, a, r) == IF r = None THEN Refused(s) ELSE CommitResolved(s, a, r[1])
MixedMacroblock(s, a, slice, header, context) ==
  IF ~ BWritable(s, a) THEN Refused(s)
  ELSE CommitMixed(s, a, ResolveMixed(s, a, slice, header, context, 0, Some(Nothing)))
DirectMacroblock(s, a, slice, context) ==
  IF context.spatial THEN SpatialDirect(s, a, slice, context) ELSE TemporalDirect(s, a, slice, context)

----------
(* Derivation of Intra4x4 and Intra8x8 prediction modes (intra_modes.rs):  *)
(* a grid of modes per 4x4 block that outlives the pictures, of which a    *)
(* block counts only for the slice that wrote it.  A mode that is coded is *)
(* a number from 0 to 7, one that follows the prediction is Follows.       *)

Follows == -1
LUMA_4X4_COORDINATES ==
  << <<0, 0>>, <<1, 0>>, <<0, 1>>, <<1, 1>>, <<2, 0>>, <<3, 0>>, <<2, 1>>, <<3, 1>>,
     <<0, 2>>, <<1, 2>>, <<0, 3>>, <<1, 3>>, <<2, 2>>, <<3, 2>>, <<2, 3>>, <<3, 3>> >>
LUMA_8X8_COORDINATES == << <<0, 0>>, <<2, 0>>, <<0, 2>>, <<2, 2>> >>

ModeCell(slice, kind, mode) == Some([slice |-> slice, kind |-> kind, mode |-> mode])
NewModes(width, height) ==
  [width |-> width, height |-> height, first |-> 0, cells |-> [a \in 0 .. width * height - 1 |-> NoCells]]
ResetModes(m, width, height, first, clear_entries) ==
  LET keep == DOMAIN m.cells = 0 .. width * height - 1 /\ ~ clear_entries IN
  [width |-> width, height |-> height, first |-> first,
   cells |-> IF keep THEN m.cells ELSE NewModes(width, height).cells]
EmptyMacroblock(m, a) ==
  a < m.width * m.height /\ \A c \in Cells : m.cells[a][c] = None \/ m.cells[a][c][1].slice < m.first

\* A neighbour: whether it is there, whether it stops the prediction, and its mode.
Neighbour(available, constrained, mode) == [available |-> available, constrained |-> constrained, mode |-> mode]
Away == Neighbour(FALSE, FALSE, None)
OfCell(cell, slice, constrained) ==
  IF cell = None THEN Away
  ELSE IF cell[1].slice # slice THEN Away
  ELSE CASE cell[1].kind = "nxn" -> Neighbour(TRUE, FALSE, Some(cell[1].mode))
         [] cell[1].kind = "other" -> Neighbour(TRUE, FALSE, None)
         [] OTHER -> Neighbour(TRUE, constrained, None)
ModeNeighbour(m, a, slice, constrained, local, x, y) ==
  LET gx == 4 * (a % m.width) + x
      gy == 4 * (a \div m.width) + y
  IN  CASE <<x, y>> \in Cells -> IF local[<<x, y>>] = None THEN Away ELSE Neighbour(TRUE, FALSE, local[<<x, y>>])
        [] gx < 0 \/ gy < 0 \/ gx >= 4 * m.width \/ gy >= 4 * m.height -> Away
        [] OTHER -> OfCell(m.cells[(gy \div 4) * m.width + (gx \div 4)][<<gx % 4, gy % 4>>], slice, constrained)
ModeOr2(n) == IF n.mode = None THEN 2 ELSE n.mode[1]
PredictedFrom(left, top) ==
  IF ~ left.available \/ ~ top.available \/ left.constrained \/ top.constrained THEN 2
  ELSE Least({ModeOr2(left), ModeOr2(top)})
PredictedMode(m, a, slice, constrained, local, x, y) ==
  PredictedFrom(ModeNeighbour(m, a, slice, constrained, local, x - 1, y),
                ModeNeighbour(m, a, slice, constrained, local, x, y - 1))
ResolveMode(coded, predicted) ==
  IF coded = Follows THEN predicted ELSE IF coded < predicted THEN coded ELSE coded + 1
Set(local, at, size, mode) ==
  [c \in Cells |-> IF c[1] \in at[1] .. at[1] + size - 1 /\ c[2] \in at[2] .. at[2] + size - 1
                   THEN Some(mode) ELSE local[c]]
RECURSIVE DeriveBlocks(_, _, _, _, _, _, _, _)
DeriveBlocks(m, a, slice, constrained, coordinates, size, coded, local) ==
  IF coded = <<>> THEN local
  ELSE DeriveBlocks(m, a, slice, constrained, Tail(coordinates), size, Tail(coded),
         Set(local, Head(coordinates), size,
             ResolveMode(Head(coded), PredictedMode(m, a, slice, constrained, local,
                                                    Head(coordinates)[1], Head(coordinates)[2]))))
RecordLocalModes(m, a, slice, local) ==
  [state |-> [m EXCEPT !.cells[a] = [c \in Cells |-> ModeCell(slice, "nxn", local[c][1])]], out |-> Some(local)]
DeriveIntra4x4(m, a, slice, constrained, coded) ==
  IF ~ EmptyMacroblock(m, a) THEN Refused(m)
  ELSE RecordLocalModes(m, a, slice, DeriveBlocks(m, a, slice, constrained, LUMA_4X4_COORDINATES, 1, coded, NoCells))
DeriveIntra8x8(m, a, slice, constrained, coded) ==
  IF ~ EmptyMacroblock(m, a) THEN Refused(m)
  ELSE RecordLocalModes(m, a, slice, DeriveBlocks(m, a, slice, constrained, LUMA_8X8_COORDINATES, 2, coded, NoCells))
FillModes(m, a, cell) == [m EXCEPT !.cells[a] = [c \in Cells |-> cell]]
RecordOther(m, a, slice, kind) ==
  IF ~ EmptyMacroblock(m, a) THEN Refused(m)
  ELSE [state |-> FillModes(m, a, ModeCell(slice, kind, 2)), out |-> Some(NoCells)]
RecordOtherIntra(m, a, slice) == RecordOther(m, a, slice, "other")
RecordInterModes(m, a, slice) == RecordOther(m, a, slice, "inter")
ClearModes(m, a) == FillModes(m, a, None)

(* The samples an intra block may predict from: those of completed          *)
(* macroblocks, done[a] = [slice, intra], and of earlier blocks of its own.  *)
(* Availability is the same for all samples of a 4x4 block.                  *)
IsAvailable(done, constrained, b, slice) ==
  b \in DOMAIN done /\ done[b].slice = slice /\ (constrained => done[b].intra)
ExternalAvailable(m, done, constrained, a, slice, x, y) ==
  LET gx == 4 * (a % m.width) + x
      gy == 4 * (a \div m.width) + y
  IN  /\ gx >= 0 /\ gy >= 0 /\ gx < 4 * m.width /\ gy < 4 * m.height
      /\ IsAvailable(done, constrained, (gy \div 4) * m.width + (gx \div 4), slice)
Luma4x4Index(c) == (CHOOSE i \in 1 .. 16 : LUMA_4X4_COORDINATES[i] = c) - 1
BlockIndex(size, c) == IF size = 1 THEN Luma4x4Index(c) ELSE 2 * (c[2] \div 2) + (c[1] \div 2)
BlockAvailability(m, done, constrained, a, slice, size, i, at) ==
  LET Available(x, y) == IF <<x, y>> \in Cells THEN BlockIndex(size, <<x, y>>) < i
                         ELSE ExternalAvailable(m, done, constrained, a, slice, x, y)
  IN  [top |-> \A k \in 0 .. size - 1 : Available(at[1] + k, at[2] - 1),
       left |-> \A k \in 0 .. size - 1 : Available(at[1] - 1, at[2] + k),
       top_left |-> Available(at[1] - 1, at[2] - 1),
       top_right |-> /\ size = 1 => i \notin {3, 11}
                     /\ \A k \in 0 .. size - 1 : Available(at[1] + size + k, at[2] - 1)]
MacroblockAvailability(m, done, constrained, a, slice) ==
  [top |-> a >= m.width /\ IsAvailable(done, constrained, a - m.width, slice),
   left |-> a % m.width > 0 /\ IsAvailable(done, constrained, a - 1, slice),
   top_left |-> a >= m.width /\ a % m.width > 0 /\ IsAvailable(done, constrained, a - m.width - 1, slice),
   top_right |-> FALSE]
\* Block by block, or once for a macroblock predicted as a whole.
Availabilities(m, done, constrained, a, slice, blocks) ==
  CASE blocks = 16 ->
         [i \in 1 .. 16 |-> BlockAvailability(m, done, constrained, a, slice, 1, i - 1, LUMA_4X4_COORDINATES[i])]
    [] blocks = 4 ->
         [i \in 1 .. 4 |-> BlockAvailability(m, done, constrained, a, slice, 2, i - 1, LUMA_8X8_COORDINATES[i])]
    [] OTHER -> <<MacroblockAvailability(m, done, constrained, a, slice)>>
=============================================================================
