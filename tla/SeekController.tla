--------------------------- MODULE SeekController ---------------------------
(***************************************************************************)
(* Exact and preview seeks in an H.264 MP4 track: the seek controller      *)
(* (crates/decv/src/seek.rs) moves the packet cursor                       *)
(* (crates/decv-mp4/src/demuxer.rs) and the decoder                        *)
(* (crates/decv-h264/src/decoder.rs) together, by retargeting, from a      *)
(* cached checkpoint or from a keyframe.  Its methods take &mut self, so   *)
(* each is one step.                                                       *)
(*                                                                         *)
(* Samples are numbered from 1 in decode order; the cursor one past the    *)
(* last one is the end.  The decoder is the one H264Decoder details, here  *)
(* without workers and with one picture in a packet: expects is the sample *)
(* its state continues with, 0 when it needs a keyframe.                   *)
(***************************************************************************)
EXTENDS Integers, Sequences, FiniteSets, FiniteSetsExt, Functions

CONSTANTS
  Samples,             \* [presentation_time, sync, reference], in decode order
  PresentationOffset,  \* what the edit list adds to a presentation time
  ReorderDepth,        \* max_num_reorder_frames of the stream
  Targets,             \* times sought
  Budgets,             \* maximum_exact_input_samples of interactive seeks
  MaximumCheckpoints, MaximumBytes,   \* limits of the checkpoint cache
  MinimumDistance,     \* minimum_checkpoint_sample_distance
  MaxSeeks,            \* bound: seeks a caller begins
  MaxCaptures,         \* bound: checkpoints a caller asks for
  MaxConfigures        \* bound: configurations after the first

Sample == [presentation_time : Int, sync : BOOLEAN, reference : BOOLEAN]

ASSUME SeekAssumption ==
  /\ Samples \in Seq(Sample)
  /\ PresentationOffset \in Int
  /\ {ReorderDepth, MaximumCheckpoints, MaximumBytes, MinimumDistance,
      MaxSeeks, MaxCaptures, MaxConfigures} \subseteq Nat
  /\ Targets \subseteq Nat /\ Budgets \subseteq Nat
  /\ \A n \in DOMAIN Samples : Samples[n].presentation_time + PresentationOffset >= 0
  /\ Samples # << >> => Samples[1].sync

NoTime == -1
NoSample == 0

MaxReferences == 2   \* max_num_ref_frames of the stream

VARIABLES
  cursor,                 \* next_sample_index
  held,                   \* the packet the decoder has not accepted yet
  discontinuous,          \* the caller marks the next packet
  decoder,
  entries, estimated_retained_reference_bytes, next_recency,  \* the cache
  active_exact_target, last_checkpoint_sample_index,
  goal,                   \* history: the exact seek in progress
  answer,                 \* history: the first frame received since
  fed,                    \* history: packets accepted since
  seeks, captures, configures   \* history: counts

cacheVars == <<entries, estimated_retained_reference_bytes, next_recency>>
controllerVars == <<active_exact_target, last_checkpoint_sample_index>>
callerVars == <<cursor, held, discontinuous>>
goalVars == <<goal, answer, fed>>
countVars == <<seeks, captures, configures>>
vars == <<callerVars, decoder, cacheVars, controllerVars, goalVars, countVars>>

----------
(* The track *)

Numbers == DOMAIN Samples
AtEnd == Len(Samples) + 1

\* The time a packet carries and the plan compares.
Pts == [n \in Numbers |-> Samples[n].presentation_time + PresentationOffset]

SyncSamples == {n \in Numbers : Samples[n].sync}

\* Presented before: at the same time the earlier sample is.
Precedes(m, n) == \/ Pts[m] < Pts[n]
                  \/ Pts[m] = Pts[n] /\ m <= n

First(set) == CHOOSE m \in set : \A n \in set : Precedes(m, n)

\* The earliest of those presented last.
LastTime(set) ==
  CHOOSE m \in set : \A n \in set : Pts[n] <= Pts[m] /\ (Pts[n] = Pts[m] => m <= n)

KeyframeAtOrBefore(target) ==
  LET before == {n \in SyncSamples : Pts[n] <= target}
  IN  IF before = {} THEN NoSample ELSE LastTime(before)

KeyframeNearest(target) ==
  LET before == {n \in SyncSamples : Pts[n] < target}
      after == {n \in SyncSamples : Pts[n] >= target}
  IN  CASE before = {} /\ after = {} -> NoSample
        [] before = {} /\ after # {} -> First(after)
        [] before # {} /\ after = {} -> LastTime(before)
        [] OTHER -> IF target - Pts[LastTime(before)] <= Pts[First(after)] - target
                    THEN LastTime(before) ELSE First(after)

----------
(* The decoder *)

NewDecoder(configured, format) ==
  [configured |-> configured, bitstream_format |-> format, draining |-> FALSE, output_start_time |-> NoTime,
   expects |-> NoSample, current |-> NoSample, reorder |-> {}, references |-> 0,
   maximum_completed_pts |-> NoTime, outputs |-> << >>]

\* should_materialize_output
Materializes(d, n) == d.output_start_time # NoTime => Pts[n] >= d.output_start_time

\* The members of a set from the least key to the greatest, equal ones as
\* they are numbered.
Ascending(set, key) ==
  CHOOSE s \in Bijection(1 .. Cardinality(set), set) :
    \A i, j \in DOMAIN s :
      i < j => key[s[i]] < key[s[j]] \/ (key[s[i]] = key[s[j]] /\ s[i] < s[j])

\* In the order they are presented.
Presented(samples) == Ascending(samples, Pts)

\* Each picture that leaves the reorder buffer is queued if it was made and
\* the target has not moved past it since.
Queue(d, pictures) ==
  LET shown == {p \in pictures : p.shown /\ Materializes(d, p.sample)}
  IN  [d EXCEPT !.reorder = @ \ pictures, !.outputs = @ \o Presented({p.sample : p \in shown})]

\* PictureReorderBuffer.push
ReorderPush(d, picture) ==
  LET grown == [d EXCEPT !.reorder = @ \cup {picture}]
      first == CHOOSE p \in grown.reorder :
                 \A q \in grown.reorder : Precedes(p.sample, q.sample)
  IN  IF Cardinality(grown.reorder) > ReorderDepth THEN Queue(grown, {first}) ELSE grown

\* finish_current_picture: the picture is stored, reordered and recorded.
Finish(d) ==
  IF d.current = NoSample THEN d
  ELSE LET n == d.current
           stored == IF Samples[n].sync THEN 1
                     ELSE IF Samples[n].reference /\ d.references < MaxReferences
                     THEN d.references + 1 ELSE d.references
           pushed == ReorderPush(d, [sample |-> n, shown |-> Materializes(d, n)])
       IN  [pushed EXCEPT !.current = NoSample, !.references = stored,
                          !.maximum_completed_pts = IF @ < Pts[n] THEN Pts[n] ELSE @]

DrainReorder(d) == Queue(d, d.reorder)

Flush(d) == NewDecoder(d.configured, d.bitstream_format)

\* flush_timeline
FlushTimeline(d) == [Flush(d) EXCEPT !.output_start_time = d.output_start_time]

FlushForSeek(d, target) == [FlushTimeline(d) EXCEPT !.output_start_time = target]

\* send_packet, once it is not handed back.
Decode(d, n, discontinuity) ==
  LET begun == Finish(IF discontinuity THEN FlushTimeline(d) ELSE d)
      ready == IF Samples[n].sync THEN DrainReorder(begun) ELSE begun
  IN  [ready EXCEPT !.current = n, !.expects = n + 1]

CanRetarget(d, target) ==
  d.output_start_time # NoTime /\ target >= d.output_start_time /\ ~ d.draining

\* Mutant: output already queued stays.
RetargetKeepingOutput(d, target) == [d EXCEPT !.output_start_time = target]

\* Those at or after the target stay, in the order they are in.
NotBefore(target, samples) ==
  LET kept == {i \in DOMAIN samples : Pts[samples[i]] >= target}
      place == Ascending(kept, [i \in kept |-> i])
  IN  [k \in 1 .. Cardinality(kept) |-> samples[place[k]]]

\* retarget_seek_forward
Retarget(d, target) ==
  [d EXCEPT !.output_start_time = target, !.outputs = NotBefore(target, @)]

\* create_seek_checkpoint, after its first step Finish.
CanCheckpoint(d) == d.configured /\ ~ d.draining /\ d.maximum_completed_pts # NoTime

Checkpoint(d) ==
  [resume_time |-> d.maximum_completed_pts,
   bitstream_format |-> d.bitstream_format, expects |-> d.expects,
   reorder |-> d.reorder, references |-> d.references]

CanRestore(d, checkpoint, target) ==
  /\ d.configured /\ d.bitstream_format = checkpoint.bitstream_format
  /\ target > checkpoint.resume_time

\* restore_seek_checkpoint
Restore(d, checkpoint, target) ==
  [Flush(d) EXCEPT
     !.output_start_time = target, !.expects = checkpoint.expects,
     !.reorder = checkpoint.reorder, !.references = checkpoint.references,
     !.maximum_completed_pts = checkpoint.resume_time]

----------
(* H264SeekCheckpointCache *)

\* Every reference picture an entry keeps costs one unit.
Bytes(set) ==
  Cardinality({unit \in set \X (1 .. MaxReferences) : unit[2] <= unit[1].checkpoint.references})

\* The entries left when the least recent are evicted until the limits hold:
\* those that hold together with all more recent ones.
Kept(set, bytes) ==
  {e \in set : LET evicted == {f \in set : f.last_used < e.last_used}
               IN  /\ Cardinality(set \ evicted) <= MaximumCheckpoints
                   /\ bytes - Bytes(evicted) <= MaximumBytes}

\* Mutant: a replaced entry stays charged.
InsertWithoutRefund(checkpoint, position) ==
  LET replaced == {e \in entries : e.checkpoint.resume_time = checkpoint.resume_time}
      entry == [checkpoint |-> checkpoint, input_position |-> position,
                last_used |-> next_recency]
      grown == (entries \ replaced) \cup {entry}
      bytes == estimated_retained_reference_bytes + checkpoint.references
      kept == Kept(grown, bytes)
  IN  /\ next_recency' = next_recency + 1
      /\ entries' = kept
      /\ estimated_retained_reference_bytes' = bytes - Bytes(grown \ kept)
      /\ last_checkpoint_sample_index' =
           IF entry \in kept THEN position ELSE last_checkpoint_sample_index

\* insert, for a checkpoint the limits allow at all, and what the controller
\* makes of its answer.
Insert(checkpoint, position) ==
  LET replaced == {e \in entries : e.checkpoint.resume_time = checkpoint.resume_time}
      entry == [checkpoint |-> checkpoint, input_position |-> position,
                last_used |-> next_recency]
      grown == (entries \ replaced) \cup {entry}
      bytes == estimated_retained_reference_bytes - Bytes(replaced) + checkpoint.references
      kept == Kept(grown, bytes)
  IN  /\ next_recency' = next_recency + 1
      /\ entries' = kept
      /\ estimated_retained_reference_bytes' = bytes - Bytes(grown \ kept)
      /\ last_checkpoint_sample_index' =
           IF entry \in kept THEN position ELSE last_checkpoint_sample_index

LatestBefore(target) ==
  LET before == {e \in entries : e.checkpoint.resume_time < target}
  IN  {e \in before : \A f \in before : f.checkpoint.resume_time <= e.checkpoint.resume_time}

----------
(* Planning *)

\* The samples between a keyframe and the next one, both included.
Scanned ==
  [keyframe \in SyncSamples |->
     {n \in Numbers : n >= keyframe /\ \A k \in SyncSamples : keyframe < k => n <= k}]

SelectedSample(keyframe, target) ==
  LET later == {n \in Scanned[keyframe] : Pts[n] >= target}
  IN  IF later = {} THEN NoSample ELSE First(later)

\* The last sample whose picture is presented no later than the selected one.
RequiredSample(keyframe, selected) ==
  Max({n \in Scanned[keyframe] : Pts[n] <= Pts[selected]})

EstimatedInput(keyframe, selected, resume) ==
  IF selected = NoSample THEN AtEnd - resume
  ELSE Max({RequiredSample(keyframe, selected) - resume + 1, 0})

\* select_exact_seek_source
Source(keyframe, checkpoint, forward) ==
  LET restart == Max({keyframe, checkpoint})
  IN  CASE forward # NoSample /\ forward >= restart -> "ForwardRetarget"
        [] restart > keyframe /\ (forward = NoSample \/ forward < restart) -> "Checkpoint"
        [] OTHER -> "Keyframe"

\* plan_exact_seek, when there is a keyframe to start from.
Plan(target, allow_forward_retarget) ==
  LET keyframe == KeyframeAtOrBefore(target)
      forward == IF allow_forward_retarget /\ active_exact_target # NoTime
                    /\ target > active_exact_target
                 THEN cursor ELSE NoSample
      checkpoint == Max({NoSample} \cup {e.input_position : e \in LatestBefore(target)})
      source == Source(keyframe, checkpoint, forward)
      resume == CASE source = "ForwardRetarget" -> forward
                  [] source = "Checkpoint" -> checkpoint
                  [] source = "Keyframe" -> keyframe
      selected == SelectedSample(keyframe, target)
  IN  [target |-> target, source |-> source, resume |-> resume, selected |-> selected,
       estimate |-> EstimatedInput(keyframe, selected, resume)]

NoGoal == [target |-> NoTime, source |-> "none", resume |-> NoSample,
           selected |-> NoSample, estimate |-> 0]

----------
(* Seeking *)

Init ==
  /\ cursor = 1 /\ held = NoSample /\ discontinuous = FALSE
  /\ decoder = NewDecoder(TRUE, 1)
  /\ entries = {} /\ estimated_retained_reference_bytes = 0 /\ next_recency = 0
  /\ active_exact_target = NoTime /\ last_checkpoint_sample_index = NoSample
  /\ goal = NoGoal /\ answer = NoSample /\ fed = 0
  /\ seeks = 0 /\ captures = 0 /\ configures = 0

\* The caller drops a packet it still holds when the cursor has moved, and
\* marks the next packet as the outcome requires.
Moves(to, discontinuity) ==
  /\ cursor' = to
  /\ held' = NoSample
  /\ discontinuous' = discontinuity

Begins(plan) ==
  /\ active_exact_target' = plan.target
  /\ goal' = plan /\ answer' = NoSample /\ fed' = 0

Fails == UNCHANGED <<callerVars, decoder, cacheVars, active_exact_target, goalVars>>

RetargetForward(plan) ==
  IF CanRetarget(decoder, plan.target)
  THEN /\ decoder' = Retarget(decoder, plan.target)
       /\ Begins(plan)
       /\ discontinuous' = FALSE
       /\ UNCHANGED <<cursor, held, cacheVars>>
  ELSE Fails

\* Mutant: a refused checkpoint leaves the cursor where it has been moved.
RestoreWithoutRollback(plan) ==
  \E e \in LatestBefore(plan.target) :
    IF CanRestore(decoder, e.checkpoint, plan.target)
    THEN /\ decoder' = Restore(decoder, e.checkpoint, plan.target)
         /\ entries' = (entries \ {e}) \cup {[e EXCEPT !.last_used = next_recency]}
         /\ next_recency' = next_recency + 1
         /\ Begins(plan)
         /\ Moves(e.input_position, FALSE)
         /\ UNCHANGED estimated_retained_reference_bytes
    ELSE /\ cursor' = e.input_position
         /\ UNCHANGED <<held, discontinuous, decoder, cacheVars, active_exact_target, goalVars>>

\* The cursor goes back when the decoder refuses the checkpoint.
RestoreCheckpoint(plan) ==
  \E e \in LatestBefore(plan.target) :
    IF CanRestore(decoder, e.checkpoint, plan.target)
    THEN /\ decoder' = Restore(decoder, e.checkpoint, plan.target)
         /\ entries' = (entries \ {e}) \cup {[e EXCEPT !.last_used = next_recency]}
         /\ next_recency' = next_recency + 1
         /\ Begins(plan)
         /\ Moves(e.input_position, FALSE)
         /\ UNCHANGED estimated_retained_reference_bytes
    ELSE Fails

RestartAtKeyframe(plan) ==
  /\ decoder' = FlushForSeek(decoder, plan.target)
  /\ Begins(plan)
  /\ Moves(plan.resume, TRUE)
  /\ UNCHANGED cacheVars

\* execute_exact_seek_plan
Execute(plan) ==
  CASE plan.source = "ForwardRetarget" -> RetargetForward(plan)
    [] plan.source = "Checkpoint" -> RestoreCheckpoint(plan)
    [] plan.source = "Keyframe" -> RestartAtKeyframe(plan)

Preview(target) ==
  LET keyframe == KeyframeNearest(target)
  IN  IF keyframe = NoSample THEN Fails
      ELSE /\ decoder' = Flush(decoder)
           /\ Moves(keyframe, TRUE)
           /\ active_exact_target' = NoTime
           /\ goal' = NoGoal /\ answer' = NoSample /\ fed' = 0
           /\ UNCHANGED cacheVars

Seeks ==
  /\ seeks < MaxSeeks
  /\ seeks' = seeks + 1
  /\ UNCHANGED <<last_checkpoint_sample_index, captures, configures>>

\* The caller lets a seek go forward only while nothing of the one it
\* supersedes has been presented.
MayGoForward(allow) == allow => answer = NoSample

BeginExactSeek(target, allow) ==
  /\ Seeks
  /\ MayGoForward(allow)
  /\ IF KeyframeAtOrBefore(target) = NoSample THEN Fails ELSE Execute(Plan(target, allow))

BeginInteractiveSeek(target, allow, maximum_exact_input_samples) ==
  /\ Seeks
  /\ MayGoForward(allow)
  /\ IF KeyframeAtOrBefore(target) = NoSample THEN Fails
     ELSE LET plan == Plan(target, allow)
          IN  IF plan.selected = NoSample \/ plan.estimate > maximum_exact_input_samples
              THEN Preview(target) ELSE Execute(plan)

BeginNearestPreview(target) == Seeks /\ Preview(target)

\* Only the distance to the last checkpoint kept is looked at.
FarFromLast ==
  \/ last_checkpoint_sample_index = NoSample
  \/ IF last_checkpoint_sample_index < cursor
     THEN cursor - last_checkpoint_sample_index >= MinimumDistance
     ELSE last_checkpoint_sample_index - cursor >= MinimumDistance

\* The caller asks for a checkpoint when the decoder has accepted all it read.
CaptureCheckpoint ==
  /\ captures < MaxCaptures /\ captures' = captures + 1
  /\ held = NoSample
  /\ IF ~ FarFromLast THEN UNCHANGED <<decoder, cacheVars, last_checkpoint_sample_index>>
     ELSE LET finished == IF decoder.configured /\ ~ decoder.draining
                          THEN Finish(decoder) ELSE decoder
              checkpoint == Checkpoint(finished)
          IN  /\ decoder' = finished
              /\ IF /\ CanCheckpoint(finished)
                    /\ MaximumCheckpoints > 0 /\ MaximumBytes > 0
                    /\ checkpoint.references <= MaximumBytes
                 THEN Insert(checkpoint, cursor)
                 ELSE UNCHANGED <<cacheVars, last_checkpoint_sample_index>>
  /\ UNCHANGED <<callerVars, active_exact_target, goalVars, seeks, configures>>

\* clear
ClearController ==
  /\ entries # {}
  /\ entries' = {} /\ estimated_retained_reference_bytes' = 0 /\ next_recency' = 0
  /\ active_exact_target' = NoTime /\ last_checkpoint_sample_index' = NoSample
  /\ UNCHANGED <<callerVars, decoder, goalVars, countVars>>

----------
(* The caller's input and output loop *)

NextSample == IF held # NoSample THEN held ELSE cursor

\* next_packet and send_packet.  With output waiting the packet comes back.
Feed ==
  /\ decoder.configured /\ ~ decoder.draining
  /\ NextSample < AtEnd
  /\ cursor' = IF held # NoSample THEN cursor ELSE cursor + 1
  /\ IF decoder.outputs # << >>
     THEN /\ held' = NextSample
          /\ UNCHANGED <<discontinuous, decoder, fed>>
     ELSE /\ held' = NoSample
          /\ decoder' = Decode(decoder, NextSample, discontinuous)
          /\ discontinuous' = FALSE
          /\ fed' = fed + 1
  /\ UNCHANGED <<cacheVars, controllerVars, goal, answer, countVars>>

Receive ==
  /\ decoder.outputs # << >>
  /\ decoder' = [decoder EXCEPT !.outputs = Tail(@)]
  /\ answer' = IF answer = NoSample THEN Head(decoder.outputs) ELSE answer
  /\ UNCHANGED <<callerVars, cacheVars, controllerVars, goal, fed, countVars>>

Drain ==
  /\ decoder.configured /\ ~ decoder.draining
  /\ NextSample = AtEnd
  /\ decoder' = [DrainReorder(Finish(decoder)) EXCEPT !.draining = TRUE]
  /\ UNCHANGED <<callerVars, cacheVars, controllerVars, goalVars, countVars>>

\* configure resets the decoder, and leaves it unconfigured when it fails.
\* After a success, for packets of this or another framing, the caller starts
\* the track again; it may have forgotten to clear the controller.
Configure(succeeds, format) ==
  /\ configures < MaxConfigures /\ configures' = configures + 1
  /\ decoder' = NewDecoder(succeeds, format)
  /\ IF succeeds THEN Moves(1, FALSE) ELSE UNCHANGED callerVars
  /\ goal' = NoGoal /\ answer' = NoSample /\ fed' = 0
  /\ UNCHANGED <<cacheVars, controllerVars, seeks, captures>>

Next ==
  \/ \E target \in Targets, allow \in BOOLEAN :
       \/ BeginExactSeek(target, allow)
       \/ \E budget \in Budgets : BeginInteractiveSeek(target, allow, budget)
  \/ \E target \in Targets : BeginNearestPreview(target)
  \/ CaptureCheckpoint \/ ClearController
  \/ Feed \/ Receive \/ Drain
  \/ \E succeeds \in BOOLEAN, format \in {1, 2} : Configure(succeeds, format)

Spec == Init /\ [][Next]_vars

----------
(* Properties *)

TypeOK ==
  /\ cursor \in 1 .. AtEnd /\ held \in 0 .. Len(Samples) /\ discontinuous \in BOOLEAN
  /\ active_exact_target \in {NoTime} \cup Targets
  /\ last_checkpoint_sample_index \in 0 .. AtEnd
  /\ answer \in 0 .. Len(Samples) /\ fed \in Nat

\* After any sequence of seeks, refused ones included, the next packet is the
\* one the decoder's state continues with, or a keyframe for a decoder that
\* starts afresh; so are the packet and the state of every checkpoint.
CursorPaired ==
  /\ decoder.configured /\ NextSample < AtEnd =>
       \/ NextSample = decoder.expects /\ ~ discontinuous
       \/ decoder.expects = NoSample /\ NextSample \in SyncSamples
  /\ \A e \in entries : e.input_position = e.checkpoint.expects

\* A plan is worth its budget: the selected frame never comes out before the
\* estimated packets have gone in, and at most the reorder depth, the packet
\* that completes the picture and one still held later.
EstimateIsClose ==
  /\ answer # NoSample => fed >= goal.estimate
  /\ fed > goal.estimate + ReorderDepth + 1 => answer # NoSample \/ decoder.outputs # << >>

\* A track as H.264 encoders write it with that reorder depth: distinct times,
\* keyframes that all samples before are presented before and all after are
\* presented after, and for a sample at most ReorderDepth earlier ones that are
\* presented after it.  Nothing in src/ checks it of a track.
ConformingTrack ==
  /\ \A m, n \in Numbers : m # n => Pts[m] # Pts[n]
  /\ \A m, n \in Numbers : \A k \in SyncSamples : m < k /\ k <= n => Pts[m] < Pts[n]
  /\ \A n \in Numbers : \A k \in SyncSamples : k < n => Pts[k] < Pts[n]
  /\ \A n \in Numbers : Cardinality({m \in Numbers : m < n /\ Pts[m] > Pts[n]}) <= ReorderDepth

\* The first frame received after an exact seek is the first in the track at
\* or after its target, and the one its plan has selected; when the decoder
\* has nothing left, the track has none either; it comes as soon as planned.
FirstFrameExact ==
  goal # NoGoal =>
    LET later == {n \in Numbers : Pts[n] >= goal.target}
    IN  /\ goal.selected = (IF later = {} THEN NoSample ELSE First(later))
        /\ answer # NoSample => answer = goal.selected
        /\ decoder.draining /\ decoder.outputs = << >> => answer = goal.selected
        /\ EstimateIsClose

\* The cache is charged what it keeps, stays within both limits, and has one
\* entry for a resume time and one for a use.
CacheAccounted ==
  /\ estimated_retained_reference_bytes = Bytes(entries)
  /\ estimated_retained_reference_bytes <= MaximumBytes
  /\ Cardinality(entries) <= MaximumCheckpoints
  /\ \A e, f \in entries :
       e # f => e.checkpoint.resume_time # f.checkpoint.resume_time /\ e.last_used # f.last_used

\* "The controller defaults to at least 30 compressed samples between retained
\* checkpoints", with MinimumDistance for 30.
CheckpointsSpaced ==
  \A e, f \in entries :
    e.input_position < f.input_position =>
      f.input_position - e.input_position >= MinimumDistance
=============================================================================
