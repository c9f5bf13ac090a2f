------------------------ MODULE SliceReconstruction ------------------------
(***************************************************************************)
(* The reconstruction of an H.264 picture from its slices                  *)
(* (crates/decv-h264/src/intra_reconstruction.rs): macroblocks are parsed  *)
(* in order; those predicted from other pictures are put into batches that *)
(* the caller's thread or a worker turns into pixels later; an intra       *)
(* macroblock needs the pixels of all before it.                           *)
(*                                                                         *)
(* Neighbour data live in grids that a picture hands on to the next one    *)
(* (ReconstructionWorkspace).  They are not cleared in between: a cell     *)
(* carries the id of the slice that wrote it, and ids go on counting until *)
(* they are exhausted.                                                     *)
(*                                                                         *)
(* A macroblock is the slice that wrote it, its kind, and the macroblocks  *)
(* its pixels were predicted from.                                         *)
(***************************************************************************)
EXTENDS Integers, Sequences, FiniteSets, Functions

CONSTANTS
  Sizes,          \* [width, height] in macroblocks, of successive pictures
  MaxSliceId,     \* u32::MAX, the last slice id
  Modes,          \* how pictures are reconstructed, a subset of Mode
  BatchRows,      \* INTER_BATCH_ROWS
  SeekBatchRows,  \* SEEK_INTER_BATCH_ROWS
  MaxPictures,    \* bound: pictures
  MaxFaults       \* bound: errors in the data

\* large: the picture has INTER_PIPELINE_MIN_PIXELS.
Mode == [executor : {"Serial", "Parallel", "Pipeline"}, large : BOOLEAN,
         entropy : {"Cabac", "Cavlc"}, constrained : BOOLEAN]

ASSUME ReconstructionAssumption ==
  /\ Sizes \subseteq [width : Nat \ {0}, height : Nat \ {0}]
  /\ MaxSliceId \in Nat \ {0}
  /\ Modes \subseteq Mode
  /\ {BatchRows, SeekBatchRows} \subseteq Nat \ {0}
  /\ {MaxPictures, MaxFaults} \subseteq Nat

\* "cavlc" belongs to the picture, the others to the workspace.
Grids == {"modes", "motion", "b_motion", "cabac_p", "cabac_b", "residual", "cavlc"}

VARIABLES
  size, mode,       \* of the picture
  next_slice_id, first_slice_id, cavlc_slice_id,
  cells,            \* by grid and macroblock, the slice id; 0 when empty
  completed, deblock, retained,           \* retained: reference_motion
  image,            \* the picture's samples
  slice,            \* the call in progress
  todo,             \* what it does next, when not parsing
  pending, in_flight,
  reusable,         \* the decoder keeps the workspace
  pictures, faults  \* history: counts

pictureVars == <<size, mode>>
idVars == <<next_slice_id, first_slice_id, cavlc_slice_id>>
resultVars == <<completed, deblock, retained, image>>
batchVars == <<pending, in_flight>>
sliceVars == <<pictureVars, idVars, cells, resultVars, slice, todo, batchVars,
          reusable, pictures, faults>>

Reference == INSTANCE InOrderReconstruction WITH SliceIds <- 1 .. MaxSliceId, constrained <- mode.constrained

MacroblockCount == size.width * size.height
Addresses == 0 .. MacroblockCount - 1
NoPixels == Reference!NoPixels

NoSlice == [id |-> 0, type |-> "I", next |-> 0, first |-> 0]
NoBatch == [jobs |-> << >>, state |-> "none"]
NoDeblock == [slice |-> 0, intra |-> FALSE]

----------
(* Grids *)

EmptyGrid(s) == [a \in Reference!Addresses(s) |-> 0]

\* Mutant: the ids start again over cells of the same ids.
ResetGridKeepingEntries(grid, s, exhausted) ==
  IF DOMAIN grid = Reference!Addresses(s) THEN grid ELSE EmptyGrid(s)

\* reset_for_picture of a grid: the entries stay unless the number of cells
\* changes or ids start again.
ResetGrid(grid, s, exhausted) ==
  IF DOMAIN grid = Reference!Addresses(s) /\ ~ exhausted THEN grid ELSE EmptyGrid(s)

\* The id a grid is written and read with.
IdIn(g) == IF g = "cavlc" THEN cavlc_slice_id ELSE slice.id

Record(grids, set) ==
  [g \in Grids |-> [a \in Addresses |-> IF g \in grids /\ a \in set THEN IdIn(g) ELSE cells[g][a]]]

\* Written by this picture, which a second time is an error.
Recorded(g, a) == cells[g][a] # 0 /\ cells[g][a] >= first_slice_id

\* The neighbour data a macroblock of the slice is parsed and predicted with.
Consulted ==
  (IF mode.entropy = "Cavlc" THEN {"cavlc"} ELSE {"residual"}) \cup
  (CASE slice.type = "I" -> {}
     [] slice.type = "P" -> {"motion"} \cup IF mode.entropy = "Cavlc" THEN {} ELSE {"cabac_p"}
     [] slice.type = "B" -> {"b_motion"} \cup IF mode.entropy = "Cavlc" THEN {} ELSE {"cabac_b"})

SyntaxGrid == IF slice.type = "P" THEN "cabac_p" ELSE "cabac_b"

----------
(* Pictures *)

SliceInit ==
  /\ size \in Sizes /\ mode \in Modes
  /\ next_slice_id = 0 /\ first_slice_id = 0 /\ cavlc_slice_id = 0
  /\ cells = [g \in Grids |-> EmptyGrid(size)]
  /\ completed = {} /\ retained = {}
  /\ deblock = [a \in Addresses |-> NoDeblock]
  /\ image = [a \in Addresses |-> NoPixels]
  /\ slice = NoSlice /\ todo = << >>
  /\ pending = << >> /\ in_flight = NoBatch
  /\ reusable = FALSE /\ pictures = 1 /\ faults = 0

Idle == slice = NoSlice

\* new_with_executor, with the workspace of the picture before or a new one.
\* The picture before has been output when it is complete; else it has been
\* refused, or dropped by a flush, and its workspace with it.
NewPicture(s) ==
  /\ Idle /\ pictures < MaxPictures
  /\ pictures' = pictures + 1
  /\ LET reuse == completed = Addresses
         exhausted == next_slice_id = MaxSliceId
         kept == {g \in Grids \ {"cavlc"} : reuse /\ (g = "residual" => s = size)}
         grid(g) == IF g \in kept THEN ResetGrid(cells[g], s, exhausted) ELSE EmptyGrid(s)
     IN  /\ reusable' = reuse
         /\ cells' = [g \in Grids |-> grid(g)]
         /\ first_slice_id' = CASE ~ reuse -> 0
                                [] reuse /\ exhausted -> 1
                                [] OTHER -> next_slice_id + 1
         /\ next_slice_id' = IF ~ reuse \/ exhausted THEN 0 ELSE next_slice_id
  /\ cavlc_slice_id' = 0
  /\ size' = s
  /\ completed' = {} /\ retained' = {}
  /\ deblock' = [a \in Reference!Addresses(s) |-> NoDeblock]
  /\ image' = [a \in Reference!Addresses(s) |-> NoPixels]
  /\ UNCHANGED <<mode, slice, todo, batchVars, faults>>

----------
(* Slices *)

\* A slice whose parameters do not match the picture is refused before this.
BeginSlice(type, first) ==
  /\ Idle
  /\ next_slice_id < MaxSliceId
  /\ next_slice_id' = next_slice_id + 1
  /\ slice' = [id |-> next_slice_id + 1, type |-> type, next |-> first, first |-> first]
  /\ cavlc_slice_id' = IF mode.entropy = "Cavlc" THEN cavlc_slice_id + 1 ELSE cavlc_slice_id
  /\ UNCHANGED <<pictureVars, first_slice_id, cells, resultVars, todo, batchVars,
                 reusable, pictures, faults>>

BeginISlice(first) == BeginSlice("I", first)
BeginPSlice(first) == BeginSlice("P", first)
BeginBSlice(first) == BeginSlice("B", first)

Parsing == ~ Idle /\ todo = << >>

\* An error: the function returns, and the scope it runs in waits for the
\* worker that is still busy.
SliceFails(recorded) ==
  /\ cells' = recorded
  /\ todo' = <<"unwind">>
  /\ UNCHANGED <<pictureVars, idVars, resultVars, slice, batchVars, reusable, pictures>>

Damage == faults < MaxFaults /\ faults' = faults + 1

\* macroblock_coordinates: outside the picture or completed before.
ParseRefused ==
  /\ Parsing
  /\ slice.next \notin Addresses \ completed
  /\ SliceFails(cells)
  /\ UNCHANGED faults

\* The data end in the middle of a macroblock.  What neighbour data CABAC has
\* recorded stays; CAVLC undoes it.
ParseDamaged ==
  /\ Parsing /\ slice.next \in Addresses \ completed
  /\ Damage
  /\ SliceFails(IF mode.entropy = "Cavlc" THEN cells ELSE Record({"residual"}, {slice.next}))

\* After the last macroblock of the picture the slice must have ended.
Ending(last) ==
  IF last THEN <<"await", "flush", "return">>
  ELSE IF slice.next + 1 = MacroblockCount THEN <<"fail">> ELSE << >>

Scoped == \/ mode.executor = "Pipeline"
          \/ mode.executor = "Parallel" /\ mode.large

BatchLimit ==
  size.width * (IF mode.executor = "Pipeline" THEN SeekBatchRows ELSE BatchRows)

Enough == Len(pending) + 1 >= BatchLimit

\* A CABAC macroblock predicted from other pictures: its syntax, motion and
\* filter parameters are recorded, its pixels wait.
ParseInter(syntax, motion, last) ==
  /\ Parsing /\ mode.entropy = "Cabac"
  /\ LET a == slice.next
     IN  /\ a \in Addresses \ completed
         /\ IF Recorded(syntax, a)
            THEN SliceFails(Record({"residual"}, {a}))
            ELSE IF Recorded(motion, a) \/ a \in retained
            THEN SliceFails(Record({"residual", syntax}, {a}))
            ELSE /\ cells' = Record({"residual", syntax, motion}, {a})
                 /\ retained' = retained \cup {a}
                 /\ deblock' = [deblock EXCEPT ![a] = [slice |-> slice.id, intra |-> FALSE]]
                 /\ pending' = Append(pending, a)
                 /\ slice' = [slice EXCEPT !.next = a + 1]
                 /\ todo' = (IF Enough THEN <<"await", IF Scoped THEN "spawn" ELSE "flush">>
                             ELSE << >>) \o Ending(last)
                 /\ UNCHANGED <<pictureVars, idVars, completed, image, in_flight,
                                reusable, pictures>>
  /\ UNCHANGED faults

ParsePInter(last) == slice.type = "P" /\ ParseInter("cabac_p", "motion", last)
ParseBInter(last) == slice.type = "B" /\ ParseInter("cabac_b", "b_motion", last)

\* Mutant: what is pending stays pending.
IntraStepsUnflushed == <<"await", "intra">>

\* Pixels before those of an intra macroblock.
IntraSteps == <<"await", "flush", "intra">>

\* A CABAC intra macroblock.  The syntax grid of an I slice is its own.
ParseIntra(last) ==
  /\ Parsing /\ mode.entropy = "Cabac"
  /\ LET a == slice.next
         grids == {"residual"} \cup IF slice.type = "I" THEN {} ELSE {SyntaxGrid}
     IN  /\ a \in Addresses \ completed
         /\ IF slice.type # "I" /\ Recorded(SyntaxGrid, a)
            THEN SliceFails(Record({"residual"}, {a}))
            ELSE /\ cells' = Record(grids, {a})
                 /\ slice' = [slice EXCEPT !.next = a + 1]
                 /\ todo' = IntraSteps \o Ending(last)
                 /\ UNCHANGED <<pictureVars, idVars, resultVars, batchVars, reusable, pictures>>
  /\ UNCHANGED faults

----------
(* Pixels *)

\* is_available
Available(a) ==
  {n \in completed : /\ deblock[n].slice = slice.id
                     /\ mode.constrained => deblock[n].intra}

IntraPixels(a) ==
  [slice |-> slice.id, intra |-> TRUE, uses |-> Reference!Neighbours(size, a) \cap Available(a)]

InterPixels == [slice |-> slice.id, intra |-> FALSE, uses |-> {}]

\* reconstruct_macroblock_with_deblocking: the grids written before an error
\* in a later one are cleared again, but for the modes.
IntraRefused(a) ==
  a \in completed \/ Recorded("modes", a) \/ a \in retained
    \/ Recorded("b_motion", a) \/ Recorded("motion", a)

CompleteIntra(a, grids) ==
  /\ cells' = Record({"modes", "b_motion", "motion"} \cup grids, {a})
  /\ retained' = retained \cup {a}
  /\ image' = [image EXCEPT ![a] = IntraPixels(a)]
  /\ deblock' = [deblock EXCEPT ![a] = [slice |-> slice.id, intra |-> TRUE]]
  /\ completed' = completed \cup {a}

FailedModes(a) ==
  IF a \in completed \/ Recorded("modes", a) THEN cells ELSE Record({"modes"}, {a})

\* Mutant: what has been parsed is taken for what is committed.
CommitParsed(jobs) ==
  LET set == Range(jobs)
  IN  /\ cells' = Record({"modes"}, set)
      /\ image' = [a \in Addresses |-> IF a \in set THEN InterPixels ELSE image[a]]
      /\ completed' = completed \cup (slice.first .. slice.next - 1)
      /\ UNCHANGED <<retained, deblock>>

\* commit_p_inter_batch and commit_b_inter_batch
Commit(jobs) ==
  LET set == Range(jobs)
  IN  /\ cells' = Record({"modes"}, set)
      /\ image' = [a \in Addresses |-> IF a \in set THEN InterPixels ELSE image[a]]
      /\ completed' = completed \cup set
      /\ UNCHANGED <<retained, deblock>>

Refused(jobs) == \E a \in Range(jobs) : Recorded("modes", a)

\* The CAVLC loops do all of a macroblock at once, and undo it on an error.
CavlcNext(last) ==
  /\ slice' = [slice EXCEPT !.next = @ + 1]
  /\ todo' = Ending(last)
  /\ UNCHANGED <<pictureVars, idVars, batchVars, reusable, pictures>>

CavlcIntra(last) ==
  /\ Parsing /\ mode.entropy = "Cavlc" /\ slice.next \in Addresses \ completed
  /\ LET a == slice.next
     IN  IF IntraRefused(a) THEN SliceFails(FailedModes(a))
         ELSE CompleteIntra(a, {"cavlc"}) /\ CavlcNext(last)
  /\ UNCHANGED faults

CavlcInter(motion, last) ==
  /\ Parsing /\ mode.entropy = "Cavlc" /\ slice.next \in Addresses \ completed
  /\ LET a == slice.next
     IN  IF Recorded(motion, a) \/ a \in retained \/ Recorded("modes", a) THEN SliceFails(cells)
         ELSE /\ cells' = Record({"cavlc", motion, "modes"}, {a})
              /\ retained' = retained \cup {a}
              /\ image' = [image EXCEPT ![a] = InterPixels]
              /\ deblock' = [deblock EXCEPT ![a] = [slice |-> slice.id, intra |-> FALSE]]
              /\ completed' = completed \cup {a}
              /\ CavlcNext(last)
  /\ UNCHANGED faults

CavlcPInter(last) == slice.type = "P" /\ CavlcInter("motion", last)
CavlcBInter(last) == slice.type = "B" /\ CavlcInter("b_motion", last)

----------
(* The steps after parsing a macroblock *)

Doing(step) == todo # << >> /\ Head(todo) = step

Continue == todo' = Tail(todo)

\* finish_in_flight_p_inter and finish_in_flight_b_inter
Await ==
  /\ Doing("await") /\ in_flight.state # "running"
  /\ in_flight' = NoBatch
  /\ IF in_flight.state = "done" /\ ~ Refused(in_flight.jobs)
     THEN Commit(in_flight.jobs) /\ Continue
     ELSE /\ todo' = IF in_flight.state = "none" THEN Tail(todo) ELSE <<"unwind">>
          /\ UNCHANGED <<cells, resultVars>>
  /\ UNCHANGED <<pictureVars, idVars, slice, pending, reusable, pictures, faults>>

\* finish_pending_p_inter and finish_pending_b_inter
Flush ==
  /\ Doing("flush")
  /\ IF Refused(pending)
     THEN /\ todo' = <<"unwind">>
          /\ UNCHANGED <<cells, resultVars, pending>>
     ELSE Commit(pending) /\ Continue /\ pending' = << >>
  /\ UNCHANGED <<pictureVars, idVars, slice, in_flight, reusable, pictures, faults>>

\* A reference or a vector the pixels need is not there.
FlushDamaged ==
  /\ Doing("flush") /\ pending # << >>
  /\ Damage
  /\ SliceFails(cells)

Spawn ==
  /\ Doing("spawn")
  /\ in_flight' = [jobs |-> pending, state |-> "running"]
  /\ pending' = << >>
  /\ Continue
  /\ UNCHANGED <<pictureVars, idVars, cells, resultVars, slice, reusable, pictures, faults>>

Intra ==
  /\ Doing("intra")
  /\ LET a == slice.next - 1
     IN  IF IntraRefused(a) THEN SliceFails(FailedModes(a))
         ELSE /\ CompleteIntra(a, {})
              /\ Continue
              /\ UNCHANGED <<pictureVars, idVars, slice, batchVars, reusable, pictures>>
  /\ UNCHANGED faults

\* A prediction mode that needs neighbours which are not there.
IntraDamaged ==
  /\ Doing("intra")
  /\ Damage
  /\ SliceFails(cells)

NotEnded ==
  /\ Doing("fail")
  /\ SliceFails(cells)
  /\ UNCHANGED faults

\* The call returns, its batches are dropped.
Return ==
  /\ Doing("return") \/ Doing("unwind")
  /\ in_flight.state # "running"
  /\ slice' = NoSlice /\ todo' = << >>
  /\ pending' = << >> /\ in_flight' = NoBatch
  /\ UNCHANGED <<pictureVars, idVars, cells, resultVars, reusable, pictures, faults>>

\* Mutant: a channel without room, whose receiver lives until the scope ends.
BusyUntilReceived == in_flight.state = "running" /\ Doing("await")

\* A worker never waits for its answer to be received.
Busy == in_flight.state = "running"

\* reconstruct_p_inter_batch_parallel in the scope
WorkerDone ==
  /\ Busy
  /\ in_flight' = [in_flight EXCEPT !.state = "done"]
  /\ UNCHANGED <<pictureVars, idVars, cells, resultVars, slice, todo, pending,
                 reusable, pictures, faults>>

WorkerFails ==
  /\ Busy
  /\ Damage
  /\ in_flight' = [in_flight EXCEPT !.state = "failed"]
  /\ UNCHANGED <<pictureVars, idVars, cells, resultVars, slice, todo, pending,
                 reusable, pictures>>

Parse ==
  \/ ParseRefused \/ ParseDamaged
  \/ \E last \in BOOLEAN :
       \/ ParsePInter(last) \/ ParseBInter(last) \/ ParseIntra(last)
       \/ CavlcIntra(last) \/ CavlcPInter(last) \/ CavlcBInter(last)

SliceStep == Await \/ Flush \/ FlushDamaged \/ Spawn \/ Intra \/ IntraDamaged \/ NotEnded \/ Return

Worker == WorkerDone \/ WorkerFails

SliceNext ==
  \/ \E s \in Sizes : NewPicture(s)
  \/ \E first \in Addresses : BeginISlice(first) \/ BeginPSlice(first) \/ BeginBSlice(first)
  \/ Parse \/ SliceStep \/ Worker

SliceSpec == SliceInit /\ [][SliceNext]_sliceVars

\* The caller's thread runs, and so does a worker with a batch.
FairSliceSpec == SliceSpec /\ WF_sliceVars(Parse \/ SliceStep) /\ WF_sliceVars(Worker)

----------
(* Properties *)

\* Whatever the executor, the pixels are those of macroblocks reconstructed
\* one after another: batches, workers and failed slices are not visible.
ReconstructsInOrder == Reference!Spec

\* A completed macroblock has everything a reader assumes without looking:
\* filter parameters (read as initialized memory), a motion field for later
\* pictures and prediction modes, all of the slice its pixels are of.
CompletedMeansWritten ==
  \A a \in completed :
    /\ deblock[a] = [slice |-> image[a].slice, intra |-> image[a].intra]
    /\ image[a].slice # 0
    /\ a \in retained
    /\ cells["modes"][a] = image[a].slice

\* While a slice is parsed, a grid shows a macroblock as a neighbour exactly
\* when this slice of this picture has parsed it: never what an earlier
\* picture or an abandoned slice has left under the same address.  An intra
\* macroblock finds the modes of all before it.
NeighboursAreOfThisSlice ==
  LET Visible(g) == {a \in Addresses : cells[g][a] = IdIn(g)}
  IN  /\ Parsing => \A g \in Consulted : Visible(g) = slice.first .. slice.next - 1
      /\ Doing("intra") => Visible("modes") = slice.first .. slice.next - 2

\* Every slice call returns, whether its batches succeed or fail.
EverySliceReturns == (slice # NoSlice) ~> (slice = NoSlice)
=============================================================================
