---------------------------- MODULE MCH264Decoder ----------------------------
(* H264Decoder with short streams for TLC. *)
EXTENDS H264Decoder, TLC

\* Large CABAC pictures take every asynchronous path.
Coded(pts, poc, slice_type, reference) ==
  [pts |-> pts, poc |-> poc, format |-> "sd", idr |-> FALSE,
   no_output_of_prior_pictures |-> FALSE, reference |-> reference,
   slice_type |-> slice_type, cabac |-> TRUE, large |-> TRUE, ends |-> "nothing"]

Idr(pts, format) ==
  [Coded(pts, 0, "I", TRUE) EXCEPT !.idr = TRUE, !.format = format]

P(pts, poc) == Coded(pts, poc, "P", TRUE)
B(pts, poc) == Coded(pts, poc, "B", FALSE)

Hd(picture) == [picture EXCEPT !.format = "hd"]

\* Two coded video sequences of different formats, with a reordered picture.
Plain == <<Idr(0, "sd"), P(2, 4), B(1, 2), Idr(3, "hd"), Hd(P(4, 2))>>

\* The sequence ends in the stream, which goes on with an IDR picture and a
\* non-reference picture the caller's thread finishes.
Ending == <<Idr(0, "sd"), P(2, 4), [B(1, 2) EXCEPT !.ends = "sequence"], Idr(3, "sd"),
            [Coded(4, 2, "P", FALSE) EXCEPT !.cabac = FALSE, !.ends = "stream"]>>

\* The second IDR picture suppresses what has not been output before it.
Suppressing == <<Idr(0, "sd"), P(2, 4), B(1, 2),
                 [Idr(3, "hd") EXCEPT !.no_output_of_prior_pictures = TRUE]>>

SomeStreams == {Plain, Ending, Suppressing}

\* The streams in which frames are checked to come in order are conforming ones.
ASSUME StreamsConform == \A s \in SomeStreams : Conforms(s)

Serial == [auto |-> FALSE, threads |-> 1]
Auto3 == [auto |-> TRUE, threads |-> 3]
Auto2 == [auto |-> TRUE, threads |-> 2]

SomeParallelisms == {Serial, Auto3}
MoreParallelisms == {Serial, Auto2}
OneStream == {Ending}

SomeTargets == 1 .. 3
Depths == [format \in {"sd", "hd"} |-> IF format = "sd" THEN 1 ELSE 0]
AllCalls == {"drain", "flush", "seek", "configure", "jump", "checkpoint", "retarget"}

OnlyDrain == {"drain"}

\* A picture with MMCO 5 is stored with counts that start again.
ResettingStream == {<<Idr(0, "sd"), P(1, 2), P(2, 0), P(3, 2)>>}

ASSUME ResettingDoesNotConform == \A s \in ResettingStream : ~ Conforms(s)
=============================================================================
