---------------------------- MODULE MCSeekInFile ----------------------------
(* Seeking in a file, one machine at a time: the seek controller over a track,
   the sample index of a file from the tables a muxer wrote, and the movie of a
   file from its bytes. *)
EXTENDS SeekController

CONSTANT Machines  \* those that run

At(time) == [presentation_time |-> time, sync |-> FALSE, reference |-> FALSE]
Sync(time) == [At(time) EXCEPT !.sync = TRUE, !.reference = TRUE]
Reference(time) == [At(time) EXCEPT !.reference = TRUE]

\* Two groups of pictures with reordering, a reference B picture in the first.
Track == <<Sync(2), Reference(6), Reference(3), At(4), At(5),
           Sync(7), Reference(9), At(8)>>

NegativeOne == -1

\* The track is one the theorem on the first frame speaks of.
ASSUME TrackConforms == ConformingTrack

SomeTargets == {0, 3, 5, 8, 9}
SomeBudgets == {2}

Absent == -99   \* Mp4Samples!None

Draft(size, duration, composition_offset, sync) ==
  [size |-> size, duration |-> duration, composition_offset |-> composition_offset, sync |-> sync]

\* A sync sample, one presented later than decoded and one earlier.
SomeDrafts == {Draft(1, 2, 0, TRUE), Draft(2, 2, 3, FALSE), Draft(1, 1, -1, TRUE)}

TableForm(how, stss, mvex) == [box |-> how, stss |-> stss, fragmented |-> mvex]
SomeLayouts == {TableForm("default", TRUE, FALSE), TableForm("wide", FALSE, FALSE),
                TableForm("packed", TRUE, TRUE)}

SomeTrex == [description |-> 1, duration |-> 2, size |-> 1, flags |-> 1]

\* Where a run begins, and which box gives each duration, size and flag; a
\* second run of the fragment and a fragment of another track.
Style(base, tfdt, duration, size, flags, second, other) ==
  [base |-> base, tfdt |-> tfdt, duration |-> duration, size |-> size, flags |-> flags,
   second |-> second, other |-> other]
SomeStyles ==
  {Style("moof", TRUE, "each", "each", "each", "none", "none"),
   Style("moof", FALSE, "trex", "each", "first", "continued", "other"),
   Style("explicit", FALSE, "tfhd", "tfhd", "tfhd", "own", "none"),
   Style("behind", FALSE, "each", "trex", "each", "own", "empty"),
   Style("explicit", TRUE, "each", "each", "first", "none", "other"),
   Style("behind", TRUE, "tfhd", "each", "trex", "continued", "none")}

Edit(duration, media_time, rate) == [duration |-> duration, media_time |-> media_time, rate |-> rate]
SomeEdits == {<<>>, <<Edit(3, Absent, 1), Edit(2, 1, 1)>>, <<Edit(1, Absent, 1), Edit(1, Absent, 1), Edit(0, 0, 1)>>,
              <<Edit(2, 0, 1), Edit(1, Absent, 1)>>, <<Edit(2, 1, 2)>>}

SearchTargets == [value : {-1, 1, 4}, timescale : {1, 3}]
PrefetchBudgets == {0, 1, 3}

VARIABLES
  machine,
  table, moofs, length, written, fragmented, box, damaged,
  file, form, fault, boxes, places

Writer == INSTANCE Mp4Writer
  WITH Descriptions <- 2, VideoTrack <- 1, OtherTrack <- 2, MediaTimescale <- 2,
       MovieTimescale <- 3, Drafts <- SomeDrafts, Trex <- SomeTrex, Layouts <- SomeLayouts,
       Styles <- SomeStyles, EditLists <- SomeEdits, Targets <- SearchTargets,
       Budgets <- PrefetchBudgets, MaxSamples <- 3
writerVars == <<table, moofs, length, written, fragmented, box, damaged>>

Movies == INSTANCE Mp4FileWriter
fileVars == <<file, form, fault, boxes, places>>

mcVars == <<machine, vars, writerVars, fileVars>>

MCInit ==
  /\ machine \in Machines
  /\ Init
  /\ Writer!WriterInit
  /\ machine # "samples" => box = "default"
  /\ IF machine = "boxes" THEN Movies!FileInit
     ELSE /\ file = <<>> /\ boxes = <<>>
          /\ form = Movies!Plain /\ fault = Movies!NoFault /\ places = Movies!Nowhere

MCNext ==
  /\ UNCHANGED machine
  /\ \/ machine = "controller" /\ Next /\ UNCHANGED <<writerVars, fileVars>>
     \/ machine = "samples" /\ Writer!WriterNext /\ UNCHANGED <<vars, fileVars>>
     \/ machine = "boxes" /\ Movies!FileNext /\ UNCHANGED <<vars, writerVars>>

MCSpec == MCInit /\ [][MCNext]_mcVars

\* The index holds the samples the muxer wrote or is refused (Mp4Writer), and
\* the movie of a file is the one its bytes were written for, with the data and
\* times of every packet, or is refused (Mp4FileWriter).
SamplesAsWritten ==
  /\ machine = "samples" => Writer!SamplesAsWritten
  /\ machine = "boxes" => Movies!MovieReadBack
\* Searching the index gives what the documentation promises (Mp4Writer).
IndexSearchedAsDescribed == machine = "samples" => Writer!IndexSearchedAsDescribed
=============================================================================
