----------------------------- MODULE H264Decoder -----------------------------
(***************************************************************************)
(* The push/pull decoder of decv-h264 (crates/decv-h264/src/decoder.rs):   *)
(* pictures enter with send_packet, are finished one packet later, on the  *)
(* caller's thread or by workers of a rayon pool, pass the reorder buffer  *)
(* (reorder.rs) and leave with receive_frame.  A caller also drains,       *)
(* flushes, seeks, retargets, and takes and restores checkpoints.          *)
(*                                                                         *)
(* A call runs as a sequence of steps, todo, whose first is executed next; *)
(* an error drops the rest.  A new call starts when todo is empty, as the  *)
(* calls take &mut self; workers run at any time.                          *)
(*                                                                         *)
(* A packet holds one picture of one slice, has a pts, and may end with an *)
(* end-of-sequence or end-of-stream NAL.  A picture is its position in the *)
(* stream; its format stands for the SPS and so for the configuration of   *)
(* the DPB, whose content DecodedPictureBuffer models.                     *)
(***************************************************************************)
EXTENDS Integers, FiniteSets, SequencesExt

CONSTANTS Streams,       \* streams the caller may play, in decode order
          Parallelisms,  \* [auto, threads] a caller may select
          ReorderDepth,  \* format -> inferred_max_num_reorder_frames
          MaxReorderDepth, \* what no SPS exceeds
          Targets,       \* times the caller seeks to
          Calls,         \* calls the caller makes beside send and receive
          MaxDisturbances \* bound: flushes, seeks, jumps, restores, damaged pictures

Picture == [pts : Nat, poc : Int, format : DOMAIN ReorderDepth, idr : BOOLEAN,
            no_output_of_prior_pictures : BOOLEAN, reference : BOOLEAN,
            slice_type : {"I", "P", "B"}, cabac : BOOLEAN, large : BOOLEAN,
            ends : {"nothing", "sequence", "stream"}]

NoFormat == "none"

ASSUME DecoderAssumption ==
  /\ \A stream \in Streams : stream \in Seq(Picture)
  /\ Parallelisms \subseteq [auto : BOOLEAN, threads : Nat \ {0}]
  /\ MaxReorderDepth \in Nat
  /\ ReorderDepth \in [DOMAIN ReorderDepth -> 0 .. MaxReorderDepth]
  /\ NoFormat \notin DOMAIN ReorderDepth
  /\ Targets \subseteq Nat
  /\ MaxDisturbances \in Nat

NoTime == -1
NoPicture == [picture |-> 0, damage |-> "none", deferred |-> FALSE]
NoCheckpoint == [resume_time |-> NoTime]

VARIABLES
  stream, parallelism,          \* chosen at the start
  todo,                         \* steps left of the call being executed
  current_picture, current_skipped_picture, dpb_configuration,
  reorder,                      \* PictureReorderBuffer.pending, in push order
  max_num_reorder_frames,       \* its depth
  outputs, announced_format, output_start_time, draining,
  pending_picture_completions, maximum_completed_pts,
  result,                       \* what the last call returned
  next, discontinuous,          \* the caller's cursor; marks its next packet
  checkpoint,                   \* the caller's checkpoint and its cursor
  restarts, faults,             \* history: counts
  told_format, lost_format,     \* history: the format the caller knows of
  received, first, sent, errors \* history, since the last restart

pictureVars == <<current_picture, current_skipped_picture>>
outputVars == <<outputs, announced_format>>
reorderVars == <<reorder, max_num_reorder_frames>>
modeVars == <<output_start_time, draining>>
callerVars == <<next, discontinuous, checkpoint, restarts>>
toldVars == <<told_format, lost_format, received>>
spanVars == <<first, sent>>
fixedVars == <<stream, parallelism>>
codingVars == <<pictureVars, dpb_configuration, maximum_completed_pts>>
quietVars == <<modeVars, next, discontinuous, checkpoint, faults, toldVars, spanVars>>

vars == <<fixedVars, todo, pictureVars, dpb_configuration, reorderVars, outputVars,
          modeVars, pending_picture_completions, maximum_completed_pts, result,
          callerVars, faults, toldVars, spanVars, errors>>

----------
(* Decisions about pictures *)

\* should_materialize_output
Materializes(i) ==
  output_start_time # NoTime => stream[i].pts >= output_start_time

\* should_skip_non_reference_picture
Skips(i) == ~ stream[i].reference /\ ~ Materializes(i)

\* An executor of one thread is serial and has no pool.
HasPool == parallelism.threads > 1

\* Mutant: one worker less may be busy.
PendingLimitLess == parallelism.threads - 2

PendingLimit == parallelism.threads - 1

FinalizesAsync(i) ==
  ~ stream[i].reference /\ stream[i].cabac /\ stream[i].large /\ HasPool

\* should_defer_non_reference_b_picture
Defers(i) ==
  /\ parallelism.auto /\ output_start_time = NoTime
  /\ FinalizesAsync(i) /\ stream[i].slice_type = "B"

OutputsAsync(i) ==
  stream[i].reference /\ stream[i].large /\ Materializes(i) /\ HasPool

----------
(* Steps *)

Do(step, arg) == [step |-> step, arg |-> arg, damage |-> "none"]
DoDamaged(step, arg, damage) == [step |-> step, arg |-> arg, damage |-> damage]

Arg == Head(todo).arg

Executes(step) ==
  /\ todo # << >>
  /\ Head(todo).step = step
  /\ UNCHANGED <<fixedVars, restarts>>

Continue == todo' = Tail(todo)
Before(steps) == todo' = steps \o Tail(todo)
Return(value) == todo' = << >> /\ result' = value

\* An error ends the call.
Fail == Return("error") /\ errors' = errors + 1

\* A picture leaves the reorder buffer: queue_output_frame, if it has a frame.
QueueFrame(entry) ==
  IF ~ entry.shown \/ ~ Materializes(entry.picture) THEN UNCHANGED outputVars
  ELSE LET format == stream[entry.picture].format IN
         /\ outputs' = outputs
              \o (IF announced_format = format THEN << >>
                  ELSE <<[kind |-> "FormatChanged", value |-> format]>>)
              \o <<[kind |-> "Frame", value |-> entry.picture]>>
         /\ announced_format' = format

\* remove_lowest_poc, the earlier one of two with the same count.
Lowest(entries) ==
  CHOOSE k \in DOMAIN entries :
    \A l \in DOMAIN entries : \/ entries[k].poc < entries[l].poc
                              \/ entries[k].poc = entries[l].poc /\ k <= l

\* PictureReorderBuffer.push, and queueing what it returns.
ReorderPush(i, shown) ==
  LET grown == Append(reorder, [poc |-> stream[i].poc, picture |-> i, shown |-> shown])
      lowest == Lowest(grown)
  IN  /\ IF Len(grown) <= max_num_reorder_frames
         THEN reorder' = grown /\ UNCHANGED outputVars
         ELSE /\ reorder' = RemoveAt(grown, lowest)
              /\ QueueFrame(grown[lowest])
      /\ UNCHANGED max_num_reorder_frames

Earliest == Head(pending_picture_completions)
EarliestReady == pending_picture_completions # << >> /\ Earliest.ready

\* finish_next_picture_completion once the worker has answered.
TakeCompletion ==
  /\ EarliestReady
  /\ pending_picture_completions' = Tail(pending_picture_completions)
  /\ IF Earliest.failed
     THEN Fail /\ UNCHANGED <<reorderVars, outputVars>>
     ELSE /\ ReorderPush(Earliest.picture, Earliest.shown)
          /\ UNCHANGED <<todo, result, errors>>
  /\ UNCHANGED <<codingVars, quietVars>>

Passes ==
  /\ Continue
  /\ UNCHANGED <<codingVars, quietVars, reorderVars, outputVars,
                 pending_picture_completions, result, errors>>

\* finish_pending_picture_completions(false)
Poll == Executes("poll") /\ IF EarliestReady THEN TakeCompletion ELSE Passes

\* finish_pending_picture_completions(true)
Join ==
  /\ Executes("join")
  /\ IF pending_picture_completions # << >> THEN TakeCompletion ELSE Passes

\* Before a picture goes to a worker, earlier ones make room.
Room ==
  /\ Executes("room")
  /\ IF Len(pending_picture_completions) >= PendingLimit THEN TakeCompletion ELSE Passes

\* discard_pending_picture_completions
Discard ==
  /\ Executes("discard")
  /\ IF pending_picture_completions # << >>
     THEN /\ EarliestReady
          /\ pending_picture_completions' = Tail(pending_picture_completions)
          /\ UNCHANGED todo
     ELSE Continue /\ UNCHANGED pending_picture_completions
  /\ UNCHANGED <<codingVars, quietVars, reorderVars, outputVars, result, errors>>

\* PictureReorderBuffer.drain, and queueing every frame in it.
DrainReorder ==
  /\ Executes("drain")
  /\ IF reorder = << >> THEN Continue /\ UNCHANGED <<reorder, outputVars>>
     ELSE /\ reorder' = RemoveAt(reorder, Lowest(reorder))
          /\ QueueFrame(reorder[Lowest(reorder)])
          /\ UNCHANGED todo
  /\ UNCHANGED <<codingVars, quietVars, max_num_reorder_frames,
                 pending_picture_completions, result, errors>>

----------
(* Finishing the current picture *)

\* finish_current_picture: what is left to do for the picture taken.
FinishSteps(p) ==
  LET i == p.picture
      done == <<Do("poll", 0), Do("record", i)>>
  IN  CASE p.deferred ->
             <<Do("room", 0), DoDamaged("spawn deferred", i, p.damage)>> \o done
        [] ~ p.deferred /\ FinalizesAsync(i) ->
             <<Do("room", 0), DoDamaged("spawn", i, p.damage)>> \o done
        [] ~ p.deferred /\ ~ FinalizesAsync(i) /\ OutputsAsync(i) ->
             <<Do("room", 0), Do("spawn", i)>> \o done
        [] OTHER -> <<Do("join", 0), Do("push", i), Do("record", i)>>

\* A picture finished here fails when a slice of it has failed, or when the
\* buffer refuses to store it.
FinishFails(p) ==
  /\ ~ p.deferred /\ ~ FinalizesAsync(p.picture)
  /\ \/ p.damage = "slice"
     \/ p.damage = "marking" /\ stream[p.picture].reference

FinishSkipped ==
  /\ Executes("finish")
  /\ current_skipped_picture # 0
  /\ current_skipped_picture' = 0
  /\ Before(<<Do("push", current_skipped_picture), Do("record", current_skipped_picture)>>)
  /\ UNCHANGED <<current_picture, dpb_configuration, maximum_completed_pts, quietVars,
                 reorderVars, outputVars, pending_picture_completions, result, errors>>

FinishNothing ==
  /\ Executes("finish")
  /\ current_skipped_picture = 0 /\ current_picture = NoPicture
  /\ Passes

FinishCurrent ==
  /\ Executes("finish")
  /\ current_skipped_picture = 0 /\ current_picture # NoPicture
  /\ current_picture' = NoPicture
  /\ IF FinishFails(current_picture) THEN Fail
     ELSE Before(FinishSteps(current_picture)) /\ UNCHANGED <<result, errors>>
  /\ UNCHANGED <<current_skipped_picture, dpb_configuration, maximum_completed_pts,
                 quietVars, reorderVars, outputVars, pending_picture_completions>>

\* The picture goes to a worker.  A slice that has failed before is noticed
\* here; the slices of a deferred picture are decoded by the worker.
Spawn ==
  /\ Executes("spawn") \/ Executes("spawn deferred")
  /\ LET deferred == Head(todo).step = "spawn deferred"
         damaged == Head(todo).damage = "slice"
     IN  IF damaged /\ ~ deferred
         THEN Fail /\ UNCHANGED pending_picture_completions
         ELSE /\ Continue
              /\ pending_picture_completions' =
                   Append(pending_picture_completions,
                          [picture |-> Arg, shown |-> Materializes(Arg),
                           ready |-> FALSE, failed |-> damaged])
              /\ UNCHANGED <<result, errors>>
  /\ UNCHANGED <<codingVars, quietVars, reorderVars, outputVars>>

Push ==
  /\ Executes("push")
  /\ Continue
  /\ ReorderPush(Arg, Materializes(Arg))
  /\ UNCHANGED <<codingVars, quietVars, pending_picture_completions, result, errors>>

\* record_completed_picture_pts
Record ==
  /\ Executes("record")
  /\ Continue
  /\ maximum_completed_pts' = IF stream[Arg].pts > maximum_completed_pts
                              THEN stream[Arg].pts ELSE maximum_completed_pts
  /\ UNCHANGED <<pictureVars, dpb_configuration, quietVars, reorderVars, outputVars,
                 pending_picture_completions, result, errors>>

Finish ==
  FinishSkipped \/ FinishNothing \/ FinishCurrent \/ Spawn \/ Push \/ Record

----------
(* send_packet *)

PacketSteps(i) ==
  <<Do("finish", 0), Do("prepare", i), Do("start", i)>>
    \o (CASE stream[i].ends = "nothing" -> << >>
          [] stream[i].ends = "sequence" ->
               <<Do("finish", 0), Do("join", 0), Do("drain", 0), Do("end sequence", 0)>>
          [] stream[i].ends = "stream" ->
               <<Do("finish", 0), Do("join", 0), Do("drain", 0), Do("end stream", 0)>>)
    \o <<Do("poll", 0), Do("accepted", i)>>

\* Mutant: packets are accepted while output waits.
GuardWithoutBackPressure ==
  /\ Executes("guard")
  /\ todo' = (IF discontinuous THEN <<Do("discard", 0), Do("reset", Arg)>>
              ELSE << >>) \o PacketSteps(Arg)
  /\ discontinuous' = FALSE
  /\ UNCHANGED <<next, result, codingVars, modeVars, reorderVars, outputVars, checkpoint,
                 faults, pending_picture_completions, toldVars, spanVars, errors>>

\* With output waiting the packet goes back to the caller.
Guard ==
  /\ Executes("guard")
  /\ IF outputs # << >>
     THEN /\ Return("NeedOutput")
          /\ next' = Arg
          /\ UNCHANGED discontinuous
     ELSE /\ todo' = (IF discontinuous THEN <<Do("discard", 0), Do("reset", Arg)>>
                      ELSE << >>) \o PacketSteps(Arg)
          /\ discontinuous' = FALSE
          /\ UNCHANGED <<next, result>>
  /\ UNCHANGED <<codingVars, modeVars, reorderVars, outputVars, checkpoint, faults,
                 pending_picture_completions, toldVars, spanVars, errors>>

\* Mutant: an IDR picture drains the buffer, but not the workers.
PrepareWithoutJoin ==
  /\ Executes("prepare")
  /\ IF ~ stream[Arg].idr THEN Continue
     ELSE IF stream[Arg].no_output_of_prior_pictures
     THEN Before(<<Do("discard", 0), Do("clear", 0)>>)
     ELSE Before(<<Do("drain", 0)>>)
  /\ UNCHANGED <<codingVars, quietVars, reorderVars, outputVars,
                 pending_picture_completions, result, errors>>

\* prepare_for_idr
Prepare ==
  /\ Executes("prepare")
  /\ IF ~ stream[Arg].idr THEN Continue
     ELSE IF stream[Arg].no_output_of_prior_pictures
     THEN Before(<<Do("discard", 0), Do("clear", 0)>>)
     ELSE Before(<<Do("join", 0), Do("drain", 0)>>)
  /\ UNCHANGED <<codingVars, quietVars, reorderVars, outputVars,
                 pending_picture_completions, result, errors>>

ClearReorder ==
  /\ Executes("clear")
  /\ Continue
  /\ reorder' = << >>
  /\ UNCHANGED <<codingVars, quietVars, max_num_reorder_frames, outputVars,
                 pending_picture_completions, result, errors>>

StartSkipped ==
  /\ Executes("start")
  /\ Skips(Arg)
  /\ current_skipped_picture' = Arg
  /\ Continue
  /\ UNCHANGED <<current_picture, dpb_configuration, maximum_completed_pts, quietVars,
                 reorderVars, outputVars, pending_picture_completions, result, errors>>

\* ensure_dpb refuses new parameters without an IDR picture.
StartRefused ==
  /\ Executes("start")
  /\ ~ Skips(Arg)
  /\ dpb_configuration \notin {NoFormat, stream[Arg].format}
  /\ ~ stream[Arg].idr
  /\ Fail
  /\ UNCHANGED <<codingVars, quietVars, reorderVars, outputVars,
                 pending_picture_completions>>

\* New parameters come with an empty reorder buffer.  A slice that fails
\* leaves the incomplete picture behind, to be finished with the next packet.
Start ==
  /\ Executes("start")
  /\ ~ Skips(Arg)
  /\ dpb_configuration \in {NoFormat, stream[Arg].format} \/ stream[Arg].idr
  /\ \E damage \in {"none", "slice", "marking"} :
       /\ damage # "none" => restarts + faults < MaxDisturbances
       /\ damage = "marking" => stream[Arg].reference
       /\ faults' = IF damage = "none" THEN faults ELSE faults + 1
       /\ current_picture' = [picture |-> Arg, damage |-> damage, deferred |-> Defers(Arg)]
       /\ IF damage = "slice" /\ ~ Defers(Arg) THEN Fail
          ELSE Continue /\ UNCHANGED <<result, errors>>
  /\ dpb_configuration' = stream[Arg].format
  /\ IF dpb_configuration = stream[Arg].format THEN UNCHANGED reorderVars
     ELSE /\ reorder' = << >>
          /\ max_num_reorder_frames' = ReorderDepth[stream[Arg].format]
  /\ UNCHANGED <<current_skipped_picture, maximum_completed_pts, outputVars, modeVars,
                 next, discontinuous, checkpoint, toldVars, spanVars,
                 pending_picture_completions>>

EndSequence ==
  /\ Executes("end sequence")
  /\ Continue
  /\ dpb_configuration' = NoFormat
  /\ UNCHANGED <<pictureVars, maximum_completed_pts, quietVars, reorderVars, outputVars,
                 pending_picture_completions, result, errors>>

\* EndOfStream in a packet and the end of drain are the same.
EndStream ==
  /\ Executes("end stream")
  /\ Continue
  /\ draining' = TRUE
  /\ UNCHANGED <<codingVars, output_start_time, reorderVars, outputVars, next,
                 discontinuous, checkpoint, faults, toldVars, spanVars,
                 pending_picture_completions, result, errors>>

Accepted ==
  /\ Executes("accepted")
  /\ Return("Accepted")
  /\ sent' = Arg
  /\ UNCHANGED <<codingVars, modeVars, reorderVars, outputVars, next, discontinuous,
                 checkpoint, faults, toldVars, first, pending_picture_completions, errors>>

Send ==
  \/ Guard \/ Prepare \/ ClearReorder \/ StartSkipped \/ StartRefused \/ Start
  \/ EndSequence \/ EndStream \/ Accepted

----------
(* receive_frame, drain, flush, seeks and checkpoints *)

Deliver ==
  /\ Executes("deliver")
  /\ IF outputs = << >>
     THEN /\ Return(IF draining THEN "EndOfStream" ELSE "NeedInput")
          /\ UNCHANGED <<outputs, toldVars>>
     ELSE /\ Return(Head(outputs).kind)
          /\ outputs' = Tail(outputs)
          /\ IF Head(outputs).kind = "FormatChanged"
             THEN /\ told_format' = Head(outputs).value
                  /\ lost_format' = FALSE
                  /\ UNCHANGED received
             ELSE /\ received' = Append(received, Head(outputs).value)
                  /\ UNCHANGED <<told_format, lost_format>>
  /\ UNCHANGED <<codingVars, modeVars, reorderVars, announced_format, next, discontinuous,
                 checkpoint, faults, spanVars, pending_picture_completions, errors>>

FormatQueued == \E k \in DOMAIN outputs : outputs[k].kind = "FormatChanged"

\* flush_timeline, after the workers' answers have been thrown away.  The
\* caller goes on at Arg.
Reset ==
  /\ Executes("reset")
  /\ Continue
  /\ current_picture' = NoPicture /\ current_skipped_picture' = 0
  /\ dpb_configuration' = NoFormat
  /\ outputs' = << >>
  /\ reorder' = << >>
  /\ maximum_completed_pts' = NoTime
  /\ draining' = FALSE
  /\ lost_format' = (lost_format \/ FormatQueued)
  /\ received' = << >> /\ first' = Arg /\ sent' = Arg - 1 /\ errors' = 0
  /\ UNCHANGED <<max_num_reorder_frames, announced_format, output_start_time, next,
                 discontinuous, checkpoint, faults, told_format,
                 pending_picture_completions, result>>

\* flush and flush_for_seek end with the new start of output.
SetStart ==
  /\ Executes("set start")
  /\ Return("ok")
  /\ output_start_time' = Arg
  /\ UNCHANGED <<codingVars, draining, reorderVars, outputVars, next, discontinuous,
                 checkpoint, faults, toldVars, spanVars,
                 pending_picture_completions, errors>>

\* configure also forgets what it has announced (reset_all_state).
Configure ==
  /\ Executes("configure")
  /\ Return("ok")
  /\ announced_format' = NoFormat
  /\ output_start_time' = NoTime
  /\ told_format' = NoFormat /\ lost_format' = FALSE
  /\ UNCHANGED <<codingVars, draining, reorderVars, outputs, next, discontinuous,
                 checkpoint, faults, received, spanVars,
                 pending_picture_completions, errors>>

\* Mutant: the cursor kept is one packet too far.
SnapshotCursorAhead ==
  /\ Executes("snapshot")
  /\ IF maximum_completed_pts = NoTime \/ dpb_configuration = NoFormat
     THEN Return("refused") /\ UNCHANGED checkpoint
     ELSE /\ Return("ok")
          /\ checkpoint' = [resume_time |-> maximum_completed_pts,
                            dpb_configuration |-> dpb_configuration,
                            reorder |-> reorder,
                            max_num_reorder_frames |-> max_num_reorder_frames,
                            position |-> next + 1, first |-> first, errors |-> errors]
  /\ UNCHANGED <<codingVars, reorderVars, outputVars, modeVars, next, discontinuous,
                 faults, toldVars, spanVars, pending_picture_completions, errors>>

\* create_seek_checkpoint, after the current picture and the workers are done.
Snapshot ==
  /\ Executes("snapshot")
  /\ IF maximum_completed_pts = NoTime \/ dpb_configuration = NoFormat
     THEN Return("refused") /\ UNCHANGED checkpoint
     ELSE /\ Return("ok")
          /\ checkpoint' = [resume_time |-> maximum_completed_pts,
                            dpb_configuration |-> dpb_configuration,
                            reorder |-> reorder,
                            max_num_reorder_frames |-> max_num_reorder_frames,
                            position |-> next, first |-> first, errors |-> errors]
  /\ UNCHANGED <<codingVars, reorderVars, outputVars, modeVars, next, discontinuous,
                 faults, toldVars, spanVars, pending_picture_completions, errors>>

\* Mutant: output of the old timeline stays queued.
RestoreKeepingOutputs ==
  /\ Executes("restore")
  /\ Return("ok")
  /\ current_picture' = NoPicture /\ current_skipped_picture' = 0
  /\ dpb_configuration' = checkpoint.dpb_configuration
  /\ reorder' = checkpoint.reorder
  /\ max_num_reorder_frames' = checkpoint.max_num_reorder_frames
  /\ output_start_time' = Arg
  /\ maximum_completed_pts' = checkpoint.resume_time
  /\ draining' = FALSE
  /\ received' = << >> /\ first' = checkpoint.first /\ sent' = checkpoint.position - 1
  /\ errors' = checkpoint.errors
  /\ UNCHANGED <<next, discontinuous, checkpoint, faults, told_format, lost_format,
                 outputVars, pending_picture_completions>>

\* restore_seek_checkpoint.  The caller goes on where the checkpoint was taken.
Restore ==
  /\ Executes("restore")
  /\ Return("ok")
  /\ current_picture' = NoPicture /\ current_skipped_picture' = 0
  /\ dpb_configuration' = checkpoint.dpb_configuration
  /\ reorder' = checkpoint.reorder
  /\ max_num_reorder_frames' = checkpoint.max_num_reorder_frames
  /\ outputs' = << >>
  /\ announced_format' = IF FormatQueued THEN NoFormat ELSE announced_format
  /\ output_start_time' = Arg
  /\ maximum_completed_pts' = checkpoint.resume_time
  /\ draining' = FALSE
  /\ received' = << >> /\ first' = checkpoint.first /\ sent' = checkpoint.position - 1
  /\ errors' = checkpoint.errors
  /\ UNCHANGED <<next, discontinuous, checkpoint, faults, told_format, lost_format,
                 pending_picture_completions>>

Reconfigure == Deliver \/ Reset \/ SetStart \/ Configure \/ Snapshot \/ Restore

----------
(* The caller *)

Idle == todo = << >>

Begins(steps) ==
  /\ Idle
  /\ todo' = steps
  /\ result' = "none"
  /\ UNCHANGED <<fixedVars, codingVars, modeVars, reorderVars, outputVars, faults,
                 toldVars, spanVars, pending_picture_completions, errors>>

\* The packet belongs to the decoder until it is handed back.
send_packet ==
  /\ ~ draining
  /\ next \in DOMAIN stream
  /\ Begins(<<Do("poll", 0), Do("guard", next)>>)
  /\ next' = next + 1
  /\ UNCHANGED <<discontinuous, checkpoint, restarts>>

receive_frame ==
  /\ Begins(<<Do("poll", 0), Do("deliver", 0)>>)
  /\ UNCHANGED callerVars

\* Mutant: the picture of the last packet is not finished.
DrainUnfinished ==
  /\ "drain" \in Calls
  /\ Begins(<<Do("join", 0), Do("drain", 0), Do("end stream", 0)>>)
  /\ UNCHANGED callerVars

drain ==
  /\ "drain" \in Calls
  /\ Begins(<<Do("finish", 0), Do("join", 0), Do("drain", 0), Do("end stream", 0)>>)
  /\ UNCHANGED callerVars

Keyframes == {i \in DOMAIN stream : stream[i].idr}

\* The caller turns to a keyframe, the targets being pictures after it.
Restarts(k) ==
  /\ restarts + faults < MaxDisturbances
  /\ restarts' = restarts + 1
  /\ k \in Keyframes
  /\ next' = k
  /\ UNCHANGED checkpoint

flush(k) ==
  /\ "flush" \in Calls
  /\ Begins(<<Do("discard", 0), Do("reset", k), Do("set start", NoTime)>>)
  /\ Restarts(k) /\ discontinuous' = FALSE

flush_for_seek(k, target) ==
  /\ "seek" \in Calls
  /\ target >= stream[k].pts
  /\ Begins(<<Do("discard", 0), Do("reset", k), Do("set start", target)>>)
  /\ Restarts(k) /\ discontinuous' = TRUE

configure(k) ==
  /\ "configure" \in Calls
  /\ Begins(<<Do("discard", 0), Do("reset", k), Do("configure", 0)>>)
  /\ Restarts(k) /\ discontinuous' = FALSE

\* The caller jumps and says so with its next packet only.
jump(k) ==
  /\ "jump" \in Calls
  /\ Begins(<< >>)
  /\ Restarts(k) /\ discontinuous' = TRUE

\* Only while the decoder accepts packets.
create_seek_checkpoint ==
  /\ "checkpoint" \in Calls
  /\ ~ draining
  /\ ~ discontinuous
  /\ Begins(<<Do("finish", 0), Do("join", 0), Do("snapshot", 0)>>)
  /\ UNCHANGED callerVars

\* A target at or before the resume time is refused.
restore_seek_checkpoint(target) ==
  /\ checkpoint # NoCheckpoint
  /\ restarts + faults < MaxDisturbances
  /\ restarts' = restarts + 1
  /\ IF target <= checkpoint.resume_time
     THEN Begins(<< >>) /\ UNCHANGED <<next, discontinuous>>
     ELSE /\ Begins(<<Do("discard", 0), Do("restore", target)>>)
          /\ next' = checkpoint.position
          /\ discontinuous' = FALSE
  /\ UNCHANGED checkpoint

\* Vec::retain: the elements at some positions.
Retain(s, positions) ==
  LET retained[k \in 0 .. Len(s)] ==
        IF k = 0 THEN << >>
        ELSE IF k \in positions THEN Append(retained[k - 1], s[k])
        ELSE retained[k - 1]
  IN  retained[Len(s)]

NotBefore(target, i) == stream[i].pts >= target

IsFrame(k) == outputs[k].kind = "Frame"

QueuedFrom(target) ==
  Retain(outputs, {k \in DOMAIN outputs : IsFrame(k) => NotBefore(target, outputs[k].value)})

SomeFrameFrom(target) ==
  \E k \in DOMAIN outputs : IsFrame(k) /\ NotBefore(target, outputs[k].value)

\* Mutant: a format announcement that is thrown away counts as made.
RetargetForgettingFormat(target) ==
  /\ IF SomeFrameFrom(target)
     THEN outputs' = QueuedFrom(target)
     ELSE outputs' = << >>
  /\ UNCHANGED announced_format

\* Output before the target goes; with nothing left, announcements go too.
Retarget(target) ==
  IF SomeFrameFrom(target)
  THEN outputs' = QueuedFrom(target) /\ UNCHANGED announced_format
  ELSE /\ outputs' = << >>
       /\ announced_format' = IF FormatQueued THEN NoFormat ELSE announced_format

\* retarget_seek_forward; other targets are refused or change nothing.
retarget_seek_forward(target) ==
  /\ "retarget" \in Calls
  /\ Idle
  /\ output_start_time # NoTime /\ target > output_start_time /\ ~ draining
  /\ output_start_time' = target
  /\ Retarget(target)
  /\ received' = Retain(received, {k \in DOMAIN received : NotBefore(target, received[k])})
  /\ result' = "ok"
  /\ UNCHANGED <<fixedVars, todo, codingVars, draining, reorderVars, callerVars,
                 faults, told_format, lost_format, spanVars,
                 pending_picture_completions, errors>>

Call ==
  \/ send_packet \/ receive_frame \/ drain \/ create_seek_checkpoint
  \/ \E k \in Keyframes : flush(k) \/ configure(k) \/ jump(k)
  \/ \E k \in Keyframes, target \in Targets : flush_for_seek(k, target)
  \/ \E target \in Targets :
       restore_seek_checkpoint(target) \/ retarget_seek_forward(target)

----------
\* A worker has finished its picture and sends the answer.
WorkerAnswers ==
  \E k \in DOMAIN pending_picture_completions :
    /\ ~ pending_picture_completions[k].ready
    /\ pending_picture_completions' = [pending_picture_completions EXCEPT ![k].ready = TRUE]
    /\ UNCHANGED <<fixedVars, todo, codingVars, modeVars, reorderVars, outputVars, result,
                   callerVars, faults, toldVars, spanVars, errors>>

Step == Poll \/ Join \/ Room \/ Discard \/ DrainReorder \/ Finish \/ Send \/ Reconfigure

Init ==
  /\ stream \in Streams /\ parallelism \in Parallelisms
  /\ todo = << >> /\ result = "none"
  /\ current_picture = NoPicture /\ current_skipped_picture = 0
  /\ dpb_configuration = NoFormat
  /\ reorder = << >> /\ max_num_reorder_frames = 0
  /\ outputs = << >> /\ announced_format = NoFormat
  /\ output_start_time = NoTime /\ draining = FALSE
  /\ pending_picture_completions = << >>
  /\ maximum_completed_pts = NoTime
  /\ next = 1 /\ discontinuous = FALSE /\ checkpoint = NoCheckpoint
  /\ restarts = 0 /\ faults = 0
  /\ told_format = NoFormat /\ lost_format = FALSE
  /\ received = << >> /\ first = 1 /\ sent = 0 /\ errors = 0

Next == Step \/ WorkerAnswers \/ Call

Spec == Init /\ [][Next]_vars

\* A call goes on while it can, and every worker answers at last.
FairSpec == Spec /\ WF_vars(Step) /\ WF_vars(WorkerAnswers)

----------
(* Properties *)

\* Type invariant: every variable has its type.
TypeOK ==
  LET Position == 1 .. Len(stream) IN
  /\ stream \in Streams /\ parallelism \in Parallelisms
  /\ current_picture.picture \in {0} \cup Position
  /\ current_skipped_picture \in {0} \cup Position
  /\ dpb_configuration \in {NoFormat} \cup DOMAIN ReorderDepth
  /\ \A k \in DOMAIN reorder : reorder[k].picture \in Position
  /\ max_num_reorder_frames \in Nat
  /\ \A k \in DOMAIN outputs : outputs[k].kind \in {"Frame", "FormatChanged"}
  /\ announced_format \in {NoFormat} \cup DOMAIN ReorderDepth
  /\ output_start_time \in Nat \cup {NoTime} /\ draining \in BOOLEAN
  /\ \A k \in DOMAIN pending_picture_completions :
       pending_picture_completions[k].picture \in Position
  /\ maximum_completed_pts \in Nat \cup {NoTime}
  /\ next \in 1 .. Len(stream) + 1
  /\ errors \in Nat

\* "Always emitted before the first frame using this new format": unless a
\* flush has thrown an announcement away, the caller knows the format of
\* every frame it receives, across retargeting and checkpoints.
FormatAnnounced ==
  result = "Frame" /\ ~ lost_format
    => told_format = stream[received[Len(received)]].format

\* The same for every caller, whatever it has thrown away.
FormatAlwaysAnnounced ==
  result = "Frame" => told_format = stream[received[Len(received)]].format

\* Between pictures i and j no coded video sequence of the stream s ends.
SameSequence(s, i, j) == \A k \in i + 1 .. j : ~ s[k].idr

\* Pictures of n's sequence decoded before it and presented after it.
DecodedEarly(s, n) == {m \in 1 .. n - 1 : SameSequence(s, m, n) /\ s[m].pts > s[n].pts}

\* What a stream conforms to: sequences are presented one after the other, each
\* has one format, which allows for its reordering, and its pictures are
\* presented in the order of their counts, so that none starts the counts again
\* (MMCO 5) without starting a sequence.  The decoder does not check any of this.
Conforms(s) ==
  /\ \A i \in 1 .. Len(s) : s[i].idr => s[i].reference
  /\ \A i \in 1 .. Len(s) - 1 : s[i].ends = "sequence" => s[i + 1].idr
  /\ \A i, j \in 1 .. Len(s) :
       i < j => IF SameSequence(s, i, j)
                THEN /\ s[i].format = s[j].format
                     /\ \/ s[i].pts < s[j].pts /\ s[i].poc < s[j].poc
                        \/ s[j].pts < s[i].pts /\ s[j].poc < s[i].poc
                ELSE s[i].pts < s[j].pts
  /\ \A n \in 1 .. Len(s) : Cardinality(DecodedEarly(s, n)) <= ReorderDepth[s[n].format]

ConformingStreams == \A s \in Streams : Conforms(s)

\* Frames are received in presentation order, each once, whichever pictures
\* are skipped, finished by the caller, or answered for by workers.
PresentationOrder ==
  errors = 0 => \A k \in 1 .. Len(received) - 1 :
                  stream[received[k]].pts < stream[received[k + 1]].pts

\* Frames received by an exact seek are not before its target.
SeekExact == \A k \in DOMAIN received : Materializes(received[k])

\* Pictures an IDR picture may suppress.
MaySuppress(i) ==
  \E j \in i + 1 .. Len(stream) : stream[j].no_output_of_prior_pictures

Missing ==
  {i \in first .. sent : /\ Materializes(i) /\ ~ MaySuppress(i)
                         /\ \A k \in DOMAIN received : received[k] # i}

\* At the end of the stream every picture sent since the last restart that is
\* not before the target has been received; an error costs at most the picture
\* of a worker, the one being finished and the one being sent.
LossesAreReported ==
  result = "EndOfStream" => Cardinality(Missing) <= 3 * errors

FramesQueued == Cardinality({k \in DOMAIN outputs : IsFrame(k)})

\* Back-pressure bounds what is in the decoder: workers, reorder buffer and
\* output hold together no more than the workers and the deepest reorder buffer
\* can, the picture being decoded and the one before it, however calls are mixed.
InFlightBounded ==
  Idle => FramesQueued + Len(reorder) + Len(pending_picture_completions)
              + (IF current_picture = NoPicture /\ current_skipped_picture = 0 THEN 0 ELSE 1)
            <= (IF HasPool THEN PendingLimit ELSE 0) + MaxReorderDepth + 2

\* Every call returns: no call waits for a worker that has nothing to do.
EveryCallReturns == ~ Idle ~> Idle
=============================================================================
