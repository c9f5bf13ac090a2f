----------------------------- MODULE Vp9Decoder -----------------------------
(***************************************************************************)
(* The VP9 decoder of decv-vp9 (crates/decv-vp9/src/decoder.rs) with its   *)
(* header parser (header.rs): a packet is a frame or a superframe, every   *)
(* frame reads and replaces persistent state, and shown frames wait in an  *)
(* output queue.  What a frame decodes to is a value that says which frame *)
(* made it and whether everything it was made from is what the encoder     *)
(* had: the encoder's own state runs along and never fails.                *)
(***************************************************************************)
EXTENDS Integers, SequencesExt

CONSTANTS Slots, ContextIndices,   \* 0 .. 7 and 0 .. 3 in the code
          Sizes, Colors,           \* of frames
          Packets,                 \* superframes the encoder may produce
          MaxPackets, MaxResets    \* bounds

None == "none"
NoSize == "unknown"
NoFormat == [size |-> NoSize, color |-> None]
NoPicture == [frame |-> 0, exact |-> FALSE, format |-> NoFormat]

\* A value made from exactly what the encoder had, and the initial one.
Made(n, exact) == [frame |-> n, exact |-> exact]
Default == Made(0, TRUE)

VARIABLES
  decoder,          \* the persistent state of HeaderParser and Vp9Decoder
  intended,         \* the same state of a decoder that got every packet whole
  synced,           \* a key frame was decoded and nothing has been lost since
  configured, draining, outputs, current_format, next_frame_id,
  todo,             \* the frames of the packet that are still to be decoded
  lost,             \* whether the decoder sees no more of that packet
  shown,            \* decoded frames of it that are still to be queued
  packets, frames,  \* packets and frames the encoder has produced
  resets,
  owed,             \* frames to be delivered since the last reset
  received          \* outputs received since the last reset

codingVars == <<decoder, intended, synced, frames, todo, lost>>
outputVars == <<outputs, current_format, next_frame_id, shown, owed, received>>
callVars == <<configured, draining, packets, resets>>
vars == <<codingVars, outputVars, callVars>>

\* What a frame's header says.  refs has a slot for each reference; size_from is
\* the reference whose size an inter frame takes, or 0 for a size of its own.
FrameHeader ==
  [type : {"key", "intra", "inter", "existing"}, show : BOOLEAN,
   error_resilient : BOOLEAN, reset_frame_context : 0 .. 3, size : Sizes, color : Colors,
   size_from : Nat, slot : Slots, refresh : SUBSET Slots, refs : Seq(Slots),
   context_index : ContextIndices, refresh_frame_context : BOOLEAN, parallel : BOOLEAN,
   updates_deltas : BOOLEAN, segmentation : {"off", "kept", "temporal", "read"},
   updates_data : BOOLEAN]

ASSUME ConstantsAssumption ==
  /\ 0 \in ContextIndices
  /\ NoSize \notin Sizes /\ None \notin Colors
  /\ Packets \subseteq Seq(FrameHeader) \ {<< >>}
  /\ \A packet \in Packets : \A k \in DOMAIN packet :
       packet[k].type = "inter" => /\ packet[k].refs # << >>
                                   /\ packet[k].size_from \in 0 .. Len(packet[k].refs)
  /\ MaxPackets \in Nat /\ MaxResets \in Nat

----------
(* HeaderParser *)

Independent(f) == f.type \in {"key", "intra"} \/ f.error_resilient

\* new
Fresh ==
  [reference_sizes |-> [s \in Slots |-> NoSize],
   reference_colors |-> [s \in Slots |-> None],
   deltas |-> Default, features |-> Default,
   probability_contexts |-> [c \in ContextIndices |-> Default],
   references |-> [s \in Slots |-> NoPicture],
   previous_was_key |-> FALSE, previous_modes |-> Default,
   previous_segment_ids |-> Default, previous_size |-> NoSize,
   previous_was_intra_only |-> TRUE, previous_was_shown |-> FALSE]

\* The sizes a header names exist; otherwise parsing fails with nothing changed.
Parsable(d, f) ==
  /\ f.type = "existing" => d.reference_sizes[f.slot] # NoSize
  /\ f.type = "inter" /\ f.size_from # 0 => d.reference_sizes[f.refs[f.size_from]] # NoSize

\* The header with its size, read or taken from a reference, and its color.
Header(d, f) ==
  CASE f.type = "existing" -> [f EXCEPT !.size = d.reference_sizes[f.slot],
                                        !.color = d.reference_colors[f.slot]]
    [] f.type = "inter" -> [f EXCEPT !.size = IF f.size_from = 0 THEN @
                                              ELSE d.reference_sizes[f.refs[f.size_from]],
                                     !.color = d.reference_colors[f.refs[1]]]
    [] OTHER -> f

\* video_format
Format(h) == [size |-> h.size, color |-> h.color]

Refreshed(h) == IF h.type = "key" THEN Slots ELSE h.refresh

reset_independent_state(d, h) ==
  IF Independent(h) THEN [d EXCEPT !.deltas = Default, !.features = Default] ELSE d

\* parse: the header's updates, committed once the whole header is valid.  A
\* loop-filter update may replace some deltas only; features are all replaced.
Parse(d, i, h, n) ==
  LET r == reset_independent_state(d, h)
      w == reset_independent_state(i, h)
  IN  [r EXCEPT
        !.deltas = IF h.updates_deltas THEN Made(n, r.deltas = w.deltas) ELSE @,
        !.features = IF h.segmentation # "off" /\ h.updates_data THEN Made(n, TRUE) ELSE @,
        !.reference_sizes = [s \in Slots |-> IF s \in Refreshed(h) THEN h.size ELSE @[s]],
        !.reference_colors = [s \in Slots |-> IF s \in Refreshed(h) THEN h.color ELSE @[s]]]

----------
(* decode_coded_frame *)

ContextIndex(h) == IF Independent(h) THEN 0 ELSE h.context_index

\* Mutant: a key frame starts its own context only.
ResetOneContext(d, h) ==
  IF Independent(h) THEN [d EXCEPT !.probability_contexts[0] = Default] ELSE d

\* Before anything that may fail.  The parser has set the index to 0.
reset_probability_contexts(d, h) ==
  IF ~ Independent(h) THEN d
  ELSE IF h.type = "key" \/ h.error_resilient \/ h.reset_frame_context = 3
       THEN [d EXCEPT !.probability_contexts = [c \in ContextIndices |-> Default]]
  ELSE IF h.reset_frame_context = 2
       THEN [d EXCEPT !.probability_contexts[ContextIndex(h)] = Default]
  ELSE d

UsesPreviousModes(d, h) ==
  /\ h.type = "inter" /\ ~ h.error_resilient
  /\ d.previous_size = h.size
  /\ ~ d.previous_was_intra_only /\ d.previous_was_shown /\ ~ d.previous_was_key

\* No map, or one of another size, reads as zeros.
PreviousSegments(d, h) ==
  IF d.previous_size = h.size THEN d.previous_segment_ids ELSE Default

\* resolve_references
References(d, h) ==
  IF h.type = "inter" THEN [k \in DOMAIN h.refs |-> d.references[h.refs[k]]] ELSE << >>

\* Everything the samples, modes and counts of a frame are made from.
Inputs(d, h) ==
  <<h.size, d.probability_contexts[ContextIndex(h)], d.deltas,
    IF h.segmentation = "off" THEN Default ELSE d.features,
    References(d, h),
    IF UsesPreviousModes(d, h) THEN d.previous_modes ELSE Default,
    IF h.type = "inter" /\ h.segmentation \in {"temporal", "kept"}
    THEN PreviousSegments(d, h) ELSE Default>>

\* The map kept for the next frame: zeros, the previous one, or read.
SegmentIds(d, h, n, exact) ==
  CASE h.segmentation = "off" -> Default
    [] h.segmentation = "kept" -> PreviousSegments(d, h)
    [] OTHER -> Made(n, exact)

\* The context saved for later frames: the compressed header's updates, adapted
\* (unless frames are parallel) at a rate that depends on the previous frame.
Adapted(d, i, h, n, exact) ==
  Made(n, exact /\ \/ h.parallel \/ h.type # "inter"
                   \/ d.previous_was_key = i.previous_was_key)

\* What a frame that decodes to picture leaves behind.
Commit(d, i, h, n, picture) ==
  [d EXCEPT
    !.probability_contexts[ContextIndex(h)] =
       IF h.refresh_frame_context /\ ~ h.error_resilient
       THEN Adapted(d, i, h, n, picture.exact) ELSE @,
    !.references = [s \in Slots |-> IF s \in Refreshed(h) THEN picture ELSE @[s]],
    !.previous_was_key = (h.type = "key"),
    !.previous_modes = IF h.type = "inter" THEN Made(n, picture.exact) ELSE Default,
    !.previous_segment_ids = SegmentIds(d, h, n, picture.exact),
    !.previous_size = h.size,
    !.previous_was_intra_only = (h.type \in {"key", "intra"}),
    !.previous_was_shown = h.show]

\* What is committed before anything of the frame's data is read.
Prepared(d, i, h, n) == reset_probability_contexts(Parse(d, i, h, n), h)

\* A reference is missing, or its samples have another format.
Incompatible(d, h) ==
  \E k \in DOMAIN References(d, h) :
    References(d, h)[k] = NoPicture \/ References(d, h)[k].format.color # h.color

\* The state after frame n, whether it decoded, and what it shows.  fault:
\* "header" is before the header is committed, "body" is in the compressed
\* header or a tile, after it.  d decodes, i is what the encoder had.
Decode(d, i, f, n, fault) ==
  LET h == Header(d, f)
      w == Header(i, f)
      prepared == Prepared(d, i, h, n)
      meant == Prepared(i, i, w, n)
      picture == [frame |-> n, exact |-> Inputs(prepared, h) = Inputs(meant, w),
                  format |-> Format(h)]
      result(ok, after, shows) == [ok |-> ok, after |-> after, shows |-> shows]
  IN  IF fault = "header" \/ ~ Parsable(d, f) THEN result(FALSE, d, << >>)
      ELSE IF f.type = "existing"
           THEN IF d.references[f.slot] = NoPicture THEN result(FALSE, d, << >>)
                ELSE result(TRUE, d, <<[picture |-> d.references[f.slot],
                                        format |-> Format(h)]>>)
      ELSE IF fault = "body" \/ Incompatible(d, h) THEN result(FALSE, prepared, << >>)
      ELSE result(TRUE, Commit(prepared, meant, h, n, picture),
                  IF f.show THEN <<[picture |-> picture, format |-> Format(h)]>> ELSE << >>)

\* The encoder decodes what it writes.
Conforming(packet) ==
  LET step(a, f) ==
        LET meant == Decode(a.state, a.state, f, a.frames + 1, None)
        IN  [state |-> meant.after, frames |-> a.frames + 1, ok |-> a.ok /\ meant.ok]
  IN  FoldLeft(step, [state |-> intended, frames |-> frames, ok |-> TRUE], packet).ok

----------
(* The calls.  A packet is decoded frame by frame, then what it shows is queued; no
   other call is made before it is done. *)

Idle == todo = << >> /\ shown = << >>

Init ==
  /\ decoder = Fresh /\ intended = Fresh
  /\ synced = FALSE
  /\ configured = FALSE /\ draining = FALSE
  /\ outputs = << >> /\ current_format = NoFormat /\ next_frame_id = 0
  /\ todo = << >> /\ lost = FALSE /\ shown = << >>
  /\ packets = 0 /\ frames = 0 /\ resets = 0
  /\ owed = << >> /\ received = << >>

\* Mutant: the announced format survives a reset.
ResetKeepingFormat ==
  /\ resets < MaxResets /\ resets' = resets + 1
  /\ decoder' = Fresh
  /\ draining' = FALSE
  /\ outputs' = << >> /\ next_frame_id' = 0
  /\ synced' = FALSE /\ owed' = << >> /\ received' = << >>
  /\ UNCHANGED current_format

\* Frames delivered so far are counted from here.
reset_decode_state ==
  /\ resets < MaxResets /\ resets' = resets + 1
  /\ decoder' = Fresh
  /\ draining' = FALSE
  /\ outputs' = << >> /\ current_format' = NoFormat /\ next_frame_id' = 0
  /\ synced' = FALSE /\ owed' = << >> /\ received' = << >>

configure ==
  /\ Idle
  /\ reset_decode_state
  /\ configured' = TRUE
  /\ UNCHANGED <<intended, frames, todo, lost, shown, packets>>

flush ==
  /\ Idle
  /\ reset_decode_state
  /\ UNCHANGED <<intended, frames, todo, lost, shown, packets, configured>>

drain ==
  /\ Idle
  /\ configured /\ ~ draining
  /\ draining' = TRUE
  /\ UNCHANGED <<codingVars, outputVars, configured, packets, resets>>

\* With output waiting the packet is handed back (NeedOutput), and without
\* configuration or while draining it is refused: nothing changes.  A packet
\* marked discontinuous resets first.
send_packet(packet, discontinuity) ==
  /\ Idle
  /\ configured /\ ~ draining /\ outputs = << >>
  /\ packets < MaxPackets /\ packets' = packets + 1
  /\ Conforming(packet)
  /\ todo' = packet /\ lost' = FALSE
  /\ discontinuity => reset_decode_state
  /\ ~ discontinuity =>
       UNCHANGED <<decoder, draining, outputs, current_format, next_frame_id, synced, owed,
                   received, resets>>
  /\ UNCHANGED <<intended, frames, shown, configured>>

\* The next frame of the packet.  The first that fails drops the rest and what
\* the ones before it have shown.  From a key frame on that keeps no segment map
\* of earlier frames, the decoder is in sync until something fails.
decode_packet_inner(fault) ==
  /\ todo # << >> /\ ~ lost
  /\ LET f == Head(todo)
         own == Decode(decoder, intended, f, frames + 1, fault)
         meant == Decode(intended, intended, f, frames + 1, None)
         key == f.type = "key" /\ f.segmentation # "kept"
     IN  /\ decoder' = own.after /\ intended' = meant.after
         /\ lost' = ~ own.ok
         /\ shown' = IF own.ok THEN shown \o own.shows ELSE << >>
         /\ synced' = (own.ok /\ (synced \/ key))
         /\ owed' = IF synced' THEN owed \o meant.shows ELSE << >>
  /\ frames' = frames + 1 /\ todo' = Tail(todo)
  /\ UNCHANGED <<outputs, current_format, next_frame_id, received, callVars>>

\* The loop of send_packet: a frame whose samples do not fit the format of its
\* header is an error, after the format has been announced.
queue_output ==
  /\ todo = << >> /\ shown # << >>
  /\ LET s == Head(shown)
         announced == IF current_format = s.format THEN outputs
                      ELSE Append(outputs, [kind |-> "format", format |-> s.format])
     IN  /\ current_format' = s.format
         /\ \/ /\ s.picture.format.size = s.format.size
               /\ outputs' = Append(announced, [kind |-> "frame", id |-> next_frame_id,
                                                format |-> s.format, picture |-> s.picture])
               /\ next_frame_id' = next_frame_id + 1
               /\ shown' = Tail(shown)
               /\ UNCHANGED <<synced, owed>>
            \/ /\ s.picture.format.size # s.format.size
               /\ outputs' = announced
               /\ shown' = << >> /\ synced' = FALSE /\ owed' = << >>
               /\ UNCHANGED next_frame_id
  /\ UNCHANGED <<decoder, intended, frames, todo, lost, received, callVars>>

receive_frame ==
  /\ Idle /\ outputs # << >>
  /\ received' = Append(received, Head(outputs))
  /\ outputs' = Tail(outputs)
  /\ UNCHANGED <<codingVars, current_format, next_frame_id, shown, owed, callVars>>

\* A packet never reaches the decoder.
Lose(packet) ==
  /\ Idle
  /\ packets < MaxPackets /\ packets' = packets + 1
  /\ Conforming(packet)
  /\ todo' = packet /\ lost' = TRUE
  /\ synced' = FALSE /\ owed' = << >>
  /\ UNCHANGED <<decoder, intended, frames, outputs, current_format, next_frame_id, shown,
                 received, configured, draining, resets>>

\* The encoder goes on with the frames that the decoder does not see.
PassBy ==
  /\ todo # << >> /\ lost
  /\ intended' = Decode(intended, intended, Head(todo), frames + 1, None).after
  /\ frames' = frames + 1 /\ todo' = Tail(todo)
  /\ UNCHANGED <<decoder, synced, lost, outputVars, callVars>>

Next ==
  \/ configure \/ flush \/ drain \/ queue_output \/ receive_frame \/ PassBy
  \/ \E packet \in Packets, discontinuity \in BOOLEAN : send_packet(packet, discontinuity)
  \/ \E fault \in {None, "header", "body"} : decode_packet_inner(fault)
  \/ \E packet \in Packets : Lose(packet)

Spec == Init /\ [][Next]_vars

----------
(* Properties *)

Formats == [size : Sizes \cup {NoSize}, color : Colors \cup {None}]
Values == [frame : Nat, exact : BOOLEAN]
Pictures == [frame : Nat, exact : BOOLEAN, format : Formats]
States ==
  [reference_sizes : [Slots -> Sizes \cup {NoSize}],
   reference_colors : [Slots -> Colors \cup {None}],
   deltas : Values, features : Values,
   probability_contexts : [ContextIndices -> Values],
   references : [Slots -> Pictures],
   previous_was_key : BOOLEAN, previous_modes : Values,
   previous_segment_ids : Values, previous_size : Sizes \cup {NoSize},
   previous_was_intra_only : BOOLEAN, previous_was_shown : BOOLEAN]
Shown == [picture : Pictures, format : Formats]
Outputs == [kind : {"format"}, format : Formats]
             \cup [kind : {"frame"}, id : Nat, format : Formats, picture : Pictures]

TypeOK ==
  /\ decoder \in States /\ intended \in States
  /\ synced \in BOOLEAN /\ configured \in BOOLEAN /\ draining \in BOOLEAN /\ lost \in BOOLEAN
  /\ outputs \in Seq(Outputs) /\ received \in Seq(Outputs)
  /\ current_format \in Formats /\ next_frame_id \in Nat
  /\ todo \in Seq(FrameHeader) /\ shown \in Seq(Shown) /\ owed \in Seq(Shown)
  /\ packets \in 0 .. MaxPackets /\ frames \in Nat /\ resets \in 0 .. MaxResets

\* However the state was damaged, by lost packets, by frames that failed after
\* their header was committed or by a reset in mid-stream, a decoded key frame
\* leaves no trace of it: slots, contexts, deltas, features and the memory of
\* the previous frame are the encoder's, and stay so until something fails.
KeyFrameResynchronizes == synced => decoder = intended

Delivered == received \o outputs

IsFrame(k) == Delivered[k].kind = "frame"

\* Frames come out in order under consecutive ids.
NumberedInOrder ==
  /\ \A j, k \in DOMAIN Delivered :
       j < k /\ IsFrame(j) /\ IsFrame(k) => Delivered[j].id < Delivered[k].id
  /\ {Delivered[k].id : k \in {k \in DOMAIN Delivered : IsFrame(k)}} = 0 .. next_frame_id - 1

\* The announcement before a frame is of its format.
Announced ==
  \A k \in DOMAIN Delivered : IsFrame(k) =>
    \E j \in 1 .. k - 1 :
      /\ ~ IsFrame(j) /\ Delivered[j].format = Delivered[k].format
      /\ \A m \in j + 1 .. k - 1 : IsFrame(m)

\* The latest frames, those still to be queued included, are the ones owed.
OwedAreLast ==
  LET before == next_frame_id + Len(shown) - Len(owed)
  IN  /\ before >= 0
      /\ \A k \in DOMAIN Delivered : IsFrame(k) /\ Delivered[k].id >= before =>
           LET o == owed[Delivered[k].id - before + 1]
           IN  Delivered[k].picture = o.picture /\ Delivered[k].format = o.format
      /\ \A k \in DOMAIN shown : next_frame_id + k - 1 >= before =>
           shown[k] = owed[next_frame_id + k - before]

\* Frames come out in order under consecutive ids, each after the announcement
\* of its format, across resets and failures; and in sync they are the frames
\* the encoder showed, hidden ones shown again included, in its formats.
ShownAsIntended == NumberedInOrder /\ Announced /\ OwedAreLast
=============================================================================
