--------------------------- MODULE MCPictureCoding ---------------------------
(* Decoding pictures, one machine at a time: the VP9 decoder over packets, and
   what an H.264 encoder wrote read back: bins, blocks of coefficients, the
   macroblocks of pictures; and what those predict from, and the filter of the
   decoded pictures. *)
EXTENDS Vp9Decoder

(* Few kinds of VP9 frames.                                                *)
Frame(type, show) ==
  [type |-> type, show |-> show, error_resilient |-> FALSE, reset_frame_context |-> 0,
   size |-> "small", color |-> "8 bit", size_from |-> 0, slot |-> 0,
   refresh |-> {}, refs |-> << >>, context_index |-> 0,
   refresh_frame_context |-> TRUE, parallel |-> FALSE,
   updates_deltas |-> FALSE, segmentation |-> "off", updates_data |-> FALSE]

Key == [Frame("key", TRUE) EXCEPT !.segmentation = "read", !.updates_data = TRUE,
                                  !.updates_deltas = TRUE]
LargeKey == [Frame("key", TRUE) EXCEPT !.size = "large", !.color = "10 bit"]

\* The size of its first reference, the segment map of the frame before.
P == [Frame("inter", TRUE) EXCEPT !.size_from = 1, !.refs = <<0, 1>>, !.refresh = {0},
                                  !.context_index = 1, !.segmentation = "kept"]
\* A hidden reference of another size, and the frame that shows it.
Hidden == [Frame("inter", FALSE) EXCEPT !.size = "large", !.refs = <<1>>, !.refresh = {1},
             !.updates_deltas = TRUE, !.segmentation = "temporal", !.updates_data = TRUE]
Show == [Frame("existing", TRUE) EXCEPT !.slot = 1]

Resilient == [Frame("inter", TRUE) EXCEPT !.error_resilient = TRUE, !.refs = <<0>>,
                !.refresh = {0}, !.size_from = 1]
Intra == [Frame("intra", FALSE) EXCEPT !.reset_frame_context = 2, !.refresh = {1}]

SomePackets ==
  {<<Key>>, <<LargeKey>>, <<P>>, <<Hidden, P>>, <<Show>>, <<Resilient>>, <<Intra, Show>>}

CONSTANT Machines  \* those that run

VARIABLES machine, input

Macroblocks == INSTANCE MacroblockStream WITH Width <- 2, Height <- 2
Engine == INSTANCE CabacEngine WITH PcmSamples <- 2
Coefficients == INSTANCE CavlcBlock
Bools == INSTANCE Vp9Entropy WITH Bands <- 2
Prediction == INSTANCE PredictionStream WITH Width <- 2, Height <- 2
Interpolation == INSTANCE InterPrediction

mcVars == <<machine, input, vars>>
NoInput == <<>>

MCInit ==
  /\ Init
  /\ machine \in Machines
  /\ \/ machine = "vp9" /\ input = NoInput
     \/ machine = "macroblocks" /\ input \in Macroblocks!SomePictures
     \/ machine = "engine" /\ input \in Engine!SomeContexts \X Engine!SymbolStrings
     \/ machine = "coefficients" /\ input \in Coefficients!SomeBlocks
     \/ machine = "bools" /\ input \in Bools!SymbolStrings
     \/ machine = "differences" /\ input \in Bools!OldProbabilities
     \/ machine = "adaptation" /\ input \in Bools!AdaptationInputs
     \/ machine = "prediction" /\ input \in Prediction!SomeInputs
     \/ machine = "interpolation" /\ input \in Interpolation!SomeInputs
     \/ machine = "filter" /\ input \in Prediction!FilterInputs

MCNext == machine = "vp9" /\ Next /\ UNCHANGED <<machine, input>>

MCSpec == MCInit /\ [][MCNext]_mcVars

\* Macroblocks are read as they were coded, in CABAC and CAVLC, from the contexts
\* that their neighbours left behind (cabac_syntax.rs:410, cavlc_context.rs:760).
MacroblocksReadBack == machine = "macroblocks" => Macroblocks!MacroblocksReadBack(input)

\* The codes below the macroblocks: every string of bins through the arithmetic
\* decoder (cabac.rs:331), every block of coefficients through the tables, lookups and
\* levels of CAVLC (cavlc.rs:94), taken to the last bit and no further; in VP9, every
\* string of bits through the boolean decoder (bool_decoder.rs:46), every change of a
\* probability through its code, and probabilities adapted to the symbols counted in
\* all tiles (context.rs:463).
CodesReadBack ==
  /\ machine = "engine" => Engine!EngineReadsBack(input[1], input[2])
  /\ machine = "coefficients" => Coefficients!CoefficientsReadBack(input[1], input[2])
  /\ machine = "bools" => Bools!BoolsReadBack(input)
  /\ machine = "differences" => Bools!EveryProbabilityReachable(input)
  /\ machine = "adaptation" => Bools!AdaptationCase(input)

\* Neighbours, vectors, references, modes and filter strengths of three pictures are
\* those of the partitions that cover the places they are taken from, whatever grid
\* the decoder keeps of them (motion.rs:435, b_motion.rs:968, motion_field.rs:182).
PredictionAsDefined == machine = "prediction" => Prediction!PredictionAsDefined(input)

\* Every sample of a decoded picture is filtered edge by edge as defined, by the lanes
\* of one build and by the scalar code of the others (deblock.rs:148, deblock.rs:1028);
\* and the samples that a vector points to, between samples and beyond the edges, are
\* those of the definition, in lanes, one by one or copied (inter_prediction.rs:47),
\* wherever the code stays inside the planes.
SamplesAsDefined ==
  /\ machine = "filter" => Prediction!FilteredAsDefined(input)
  /\ machine = "interpolation" => Interpolation!InterPredictionAsDefined(input)

\* "Rewinding those bits recovers the syntax position at which
\* `pcm_alignment_zero_bit` begins" (cabac.rs:422-423).
PcmReadBack == machine = "engine" => Engine!PcmReadBack(input[1], input[2], <<7, 200>>)

\* "the caller selects this specialization only after validating the complete
\* interpolation footprint against the plane dimensions" (inter_prediction.rs:1783).
FootprintValidated == machine = "interpolation" => Interpolation!FootprintValidated(input)
=============================================================================
