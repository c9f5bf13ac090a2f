------------------------ MODULE SeekControllerProofs ------------------------
(***************************************************************************)
(* Proofs about seeks: whatever they are and in whatever order, packets    *)
(* and decoder stay paired, and the checkpoint cache keeps its account and *)
(* its limits, for every track, target, budget and cache; and the first    *)
(* frame after a seek is the exact one, for every conforming track.        *)
(* Pairing is inductive; the account is together with the types of the     *)
(* entries; the first frame is with what a decoder holds of the samples    *)
(* before the next one.                                                    *)
(***************************************************************************)
EXTENDS SeekController, FiniteSetTheorems, SequenceTheorems, WellFoundedInduction, TLAPS

\* Records by their fields.
IsDecoder(d) ==
  d = [configured |-> d.configured, bitstream_format |-> d.bitstream_format,
       draining |-> d.draining, output_start_time |-> d.output_start_time,
       expects |-> d.expects, current |-> d.current, reorder |-> d.reorder,
       references |-> d.references, maximum_completed_pts |-> d.maximum_completed_pts,
       outputs |-> d.outputs]

IsEntry(e) ==
  e = [checkpoint |-> e.checkpoint, input_position |-> e.input_position,
       last_used |-> e.last_used]

Shapes ==
  /\ cursor \in 1 .. AtEnd /\ held \in 0 .. Len(Samples) /\ discontinuous \in BOOLEAN
  /\ IsDecoder(decoder)
  /\ \A e \in entries : IsEntry(e)

\* A packet handed back is the one before the cursor.
HeldBeforeCursor == held # NoSample => cursor = held + 1

\* A decoder that has no packet to continue with has completed nothing, so it
\* gives no checkpoint, and is at a keyframe or at the end.
Continued(d) == d.expects # NoSample => NextSample = d.expects /\ ~ discontinuous

Fresh(d) ==
  d.expects = NoSample =>
    /\ d.current = NoSample /\ d.maximum_completed_pts = NoTime
    /\ NextSample \in SyncSamples \cup {AtEnd}

\* A checkpoint continues with the packet the cursor is moved to.
EntriesPaired ==
  \A e \in entries : /\ e.input_position = e.checkpoint.expects
                     /\ e.input_position \in 1 .. AtEnd

Pairing ==
  /\ Shapes /\ HeldBeforeCursor /\ EntriesPaired
  /\ decoder.configured => Continued(decoder) /\ Fresh(decoder)

LEMMA LengthType ==
  /\ Len(Samples) \in Nat /\ DOMAIN Samples = 1 .. Len(Samples)
  /\ AtEnd \in Nat /\ AtEnd = Len(Samples) + 1
  /\ SyncSamples \subseteq 1 .. Len(Samples)
  /\ \A n \in Numbers : Pts[n] \in Int
<1>1. Samples \in Seq(Sample)
  BY SeekAssumption
<1>2. Len(Samples) \in Nat /\ DOMAIN Samples = 1 .. Len(Samples)
  BY <1>1, LenProperties
<1>3. \A n \in 1 .. Len(Samples) : Samples[n] \in Sample
  BY <1>1, <1>2, ElementOfSeq
<1>4. \A n \in Numbers : Pts[n] \in Int
  BY <1>2, <1>3, SeekAssumption DEF Numbers, Pts, Sample
<1> QED BY <1>2, <1>4 DEF AtEnd, SyncSamples, Numbers

----------
(* Keyframes *)

\* A set of naturals has a least element.
LEMMA Minimum ==
  ASSUME NEW S \in SUBSET Nat, S # {}
  PROVE  \E m \in S : \A k \in S : m <= k
<1>1. PICK R : /\ IsWellFoundedOn(R, Nat)
               /\ \A m, k \in Nat : m < k => <<m, k>> \in R
  <2> DEFINE R == OpToRel(<, Nat)
  <2>1. IsWellFoundedOn(R, Nat)
    BY NatLessThanWellFounded
  <2>2. \A m, k \in Nat : m < k => <<m, k>> \in R
    BY DEF OpToRel
  <2> QED BY <2>1, <2>2
<1>2. PICK m \in S : \A k \in S : ~ (<<k, m>> \in R)
  <2>1. S \subseteq Nat /\ IsWellFoundedOn(R, Nat)
    BY <1>1
  <2> QED BY ONLY <2>1, S # {}, WFMin
<1>3. \A k \in S : m \in Nat /\ k \in Nat /\ ~ (k < m)
  BY <1>1, <1>2
<1> QED BY <1>3

IsFirst(m, set) == m \in set /\ \A n \in set : Precedes(m, n)

IsLastTime(m, set) ==
  m \in set /\ \A n \in set : Pts[n] <= Pts[m] /\ (Pts[n] = Pts[m] => m <= n)

Extremes(set) == (\E m : IsFirst(m, set)) /\ (\E m : IsLastTime(m, set))

\* The first and the last exist, by the least k for which they do not among
\* the first k samples.
LEMMA ExtremesExist ==
  ASSUME NEW set \in SUBSET Numbers, set # {}
  PROVE  Extremes(set)
<1> DEFINE Upto(k) == {n \in set : n <= k}
           Bad == {k \in Nat : Upto(k) # {} /\ ~ Extremes(Upto(k))}
<1>1. set \subseteq 1 .. Len(Samples) /\ Len(Samples) \in Nat
  BY LengthType DEF Numbers
<1>2. \A n \in set : n \in Nat /\ n >= 1 /\ Pts[n] \in Int
  BY <1>1, LengthType DEF Numbers
<1>3. Bad = {}
  <2>1. SUFFICES ASSUME Bad # {} PROVE FALSE
    OBVIOUS
  <2>2. PICK k \in Bad : \A j \in Bad : k <= j
    BY <2>1, Minimum
  <2> DEFINE less == Upto(k - 1)
  <2>3. k \in Nat /\ Upto(k) # {} /\ ~ Extremes(Upto(k))
    BY <2>2
  <2>4. k >= 1 /\ k - 1 \in Nat
    <3>1. k # 0
      BY <1>2, <2>3
    <3> QED BY <2>3, <3>1
  <2>5. less = {} \/ Extremes(less)
    <3>1. k - 1 \notin Bad
      BY <2>2, <2>3, <2>4
    <3> QED BY <2>4, <3>1
  <2>6. CASE k \notin set
    <3>1. Upto(k) = less
      BY <1>2, <2>3, <2>4, <2>6
    <3> QED BY <2>3, <2>5, <3>1
  <2>7. CASE k \in set
    <3>1. \A n : n \in Upto(k) <=> (n \in less \/ n = k)
      <4>1. \A n \in set : n <= k <=> (n <= k - 1 \/ n = k)
        BY <1>2, <2>3, <2>4
      <4>2. \A n : n \in Upto(k) <=> n \in set /\ n <= k
        OBVIOUS
      <4>3. \A n : n \in less <=> n \in set /\ n <= k - 1
        OBVIOUS
      <4> QED BY <2>3, <2>7, <4>1, <4>2, <4>3
    <3>2. \A n \in less : n \in Nat /\ n < k /\ Pts[n] \in Int
      BY <1>2, <2>3, <2>4
    <3>3. Pts[k] \in Int
      BY <1>2, <2>7
    <3> DEFINE all == Upto(k)
    <3> HIDE DEF all, less
    <3>4. /\ \A n : n \in all <=> (n \in less \/ n = k)
          /\ ~ Extremes(all)
      BY <2>3, <3>1 DEF all
    <3>5. CASE less = {}
      <4>1. IsFirst(k, all) /\ IsLastTime(k, all)
        BY <2>3, <3>3, <3>4, <3>5 DEF IsFirst, IsLastTime, Precedes
      <4> QED BY <3>4, <4>1 DEF Extremes
    <3>6. CASE Extremes(less)
      <4>1. PICK m : IsFirst(m, less)
        BY <3>6 DEF Extremes
      <4>2. \E f : IsFirst(f, all)
        <5>1. CASE Pts[k] < Pts[m]
          <6>1. IsFirst(k, all)
            BY <2>3, <3>2, <3>3, <3>4, <4>1, <5>1 DEF IsFirst, Precedes
          <6> QED BY <6>1
        <5>2. CASE ~ (Pts[k] < Pts[m])
          <6>1. IsFirst(m, all)
            BY <2>3, <3>2, <3>3, <3>4, <4>1, <5>2 DEF IsFirst, Precedes
          <6> QED BY <6>1
        <5> QED BY <5>1, <5>2
      <4>3. PICK l : IsLastTime(l, less)
        BY <3>6 DEF Extremes
      <4>4. \E f : IsLastTime(f, all)
        <5>1. CASE Pts[k] > Pts[l]
          <6>1. IsLastTime(k, all)
            BY <2>3, <3>2, <3>3, <3>4, <4>3, <5>1 DEF IsLastTime
          <6> QED BY <6>1
        <5>2. CASE ~ (Pts[k] > Pts[l])
          <6>1. IsLastTime(l, all)
            BY <2>3, <3>2, <3>3, <3>4, <4>3, <5>2 DEF IsLastTime
          <6> QED BY <6>1
        <5> QED BY <5>1, <5>2
      <4> QED BY <3>4, <4>2, <4>4 DEF Extremes
    <3> QED BY <2>5, <3>5, <3>6 DEF less
  <2> QED BY <2>6, <2>7
<1>4. Upto(Len(Samples)) = set
  <2>1. \A n \in set : n <= Len(Samples)
    BY <1>1
  <2> QED BY <2>1
<1> QED BY <1>1, <1>3, <1>4

LEMMA ChosenAmong ==
  ASSUME NEW set \in SUBSET Numbers, set # {}
  PROVE  First(set) \in set /\ LastTime(set) \in set
<1>1. Extremes(set)
  BY ExtremesExist
<1>2. \E m \in set : \A n \in set : Precedes(m, n)
  BY <1>1 DEF Extremes, IsFirst
<1>3. \E m \in set : \A n \in set : Pts[n] <= Pts[m] /\ (Pts[n] = Pts[m] => m <= n)
  BY <1>1 DEF Extremes, IsLastTime
<1> QED BY <1>2, <1>3 DEF First, LastTime

\* A seek restarts at a sync sample of the track.
LEMMA KeyframesAreSync ==
  ASSUME NEW target
  PROVE  /\ KeyframeAtOrBefore(target) \in SyncSamples \cup {NoSample}
         /\ KeyframeNearest(target) \in SyncSamples \cup {NoSample}
<1>1. SyncSamples \subseteq Numbers
  BY DEF SyncSamples
<1>2. KeyframeAtOrBefore(target) \in SyncSamples \cup {NoSample}
  BY <1>1, ChosenAmong DEF KeyframeAtOrBefore
<1>3. KeyframeNearest(target) \in SyncSamples \cup {NoSample}
  <2> DEFINE before == {n \in SyncSamples : Pts[n] < target}
             after == {n \in SyncSamples : Pts[n] >= target}
  <2>1. before # {} => LastTime(before) \in SyncSamples
    BY <1>1, ChosenAmong
  <2>2. after # {} => First(after) \in SyncSamples
    BY <1>1, ChosenAmong
  <2> QED BY <2>1, <2>2 DEF KeyframeNearest
<1> QED BY <1>2, <1>3

----------
(* What the decoder's operations keep *)

\* The fields pairing is about, as they were.
SamePlace(d, e) ==
  /\ d.configured = e.configured /\ d.expects = e.expects
  /\ d.current = e.current /\ d.maximum_completed_pts = e.maximum_completed_pts

\* Nothing to continue with.
Started(d, e) ==
  /\ d.configured = e.configured /\ d.expects = NoSample
  /\ d.current = NoSample /\ d.maximum_completed_pts = NoTime

LEMMA NewDecoderStarts ==
  ASSUME NEW configured, NEW format
  PROVE  /\ IsDecoder(NewDecoder(configured, format))
         /\ NewDecoder(configured, format).configured = configured
         /\ \A d : d.configured = configured => Started(NewDecoder(configured, format), d)
BY DEF NewDecoder, IsDecoder, Started

LEMMA FlushStarts ==
  ASSUME NEW d, NEW target
  PROVE  /\ IsDecoder(Flush(d)) /\ Started(Flush(d), d)
         /\ IsDecoder(FlushTimeline(d)) /\ Started(FlushTimeline(d), d)
         /\ IsDecoder(FlushForSeek(d, target)) /\ Started(FlushForSeek(d, target), d)
<1>1. IsDecoder(Flush(d)) /\ Started(Flush(d), d)
  BY NewDecoderStarts DEF Flush
<1>2. IsDecoder(FlushTimeline(d)) /\ Started(FlushTimeline(d), d)
  BY <1>1 DEF FlushTimeline, IsDecoder, Started
<1>3. IsDecoder(FlushForSeek(d, target)) /\ Started(FlushForSeek(d, target), d)
  BY <1>2 DEF FlushForSeek, IsDecoder, Started
<1> QED BY <1>1, <1>2, <1>3

LEMMA QueueKeeps ==
  ASSUME NEW d, NEW pictures, IsDecoder(d)
  PROVE  /\ IsDecoder(Queue(d, pictures)) /\ SamePlace(Queue(d, pictures), d)
         /\ Queue(d, pictures).draining = d.draining
<1>1. PICK reorder, outputs :
        Queue(d, pictures) = [d EXCEPT !.reorder = reorder, !.outputs = outputs]
  BY DEF Queue
<1> QED BY <1>1 DEF IsDecoder, SamePlace

LEMMA ReorderPushKeeps ==
  ASSUME NEW d, NEW picture, IsDecoder(d)
  PROVE  /\ IsDecoder(ReorderPush(d, picture)) /\ SamePlace(ReorderPush(d, picture), d)
         /\ ReorderPush(d, picture).draining = d.draining
<1> DEFINE grown == [d EXCEPT !.reorder = @ \cup {picture}]
           first == CHOOSE p \in grown.reorder :
                      \A q \in grown.reorder : Precedes(p.sample, q.sample)
<1>1. IsDecoder(grown) /\ SamePlace(grown, d) /\ grown.draining = d.draining
  BY DEF IsDecoder, SamePlace
<1>2. ReorderPush(d, picture) =
        IF Cardinality(grown.reorder) > ReorderDepth THEN Queue(grown, {first}) ELSE grown
  BY DEF ReorderPush
<1> HIDE DEF grown, first
<1>3. /\ IsDecoder(Queue(grown, {first})) /\ SamePlace(Queue(grown, {first}), grown)
      /\ Queue(grown, {first}).draining = grown.draining
  BY <1>1, QueueKeeps
<1> QED BY <1>1, <1>2, <1>3 DEF SamePlace

\* A decoder with nothing in progress is not changed by finishing it.
LEMMA FinishKeeps ==
  ASSUME NEW d, IsDecoder(d)
  PROVE  /\ IsDecoder(Finish(d)) /\ Finish(d).configured = d.configured
         /\ Finish(d).expects = d.expects /\ Finish(d).draining = d.draining
         /\ d.current = NoSample => Finish(d) = d
<1>1. CASE d.current = NoSample
  BY <1>1 DEF Finish
<1>2. CASE d.current # NoSample
  <2> DEFINE n == d.current
             pushed == ReorderPush(d, [sample |-> n, shown |-> Materializes(d, n)])
             stored == IF Samples[n].sync THEN 1
                       ELSE IF Samples[n].reference /\ d.references < MaxReferences
                       THEN d.references + 1 ELSE d.references
             time == IF pushed.maximum_completed_pts < Pts[n] THEN Pts[n]
                     ELSE pushed.maximum_completed_pts
  <2>1. Finish(d) = [pushed EXCEPT !.current = NoSample, !.references = stored,
                                   !.maximum_completed_pts = time]
    BY <1>2 DEF Finish
  <2>2. IsDecoder(pushed) /\ SamePlace(pushed, d) /\ pushed.draining = d.draining
    BY ReorderPushKeeps
  <2> HIDE DEF n, pushed, stored, time
  <2> QED BY <1>2, <2>1, <2>2 DEF IsDecoder, SamePlace
<1> QED BY <1>1, <1>2

LEMMA DrainReorderKeeps ==
  ASSUME NEW d, IsDecoder(d)
  PROVE  /\ IsDecoder(DrainReorder(d)) /\ SamePlace(DrainReorder(d), d)
BY QueueKeeps DEF DrainReorder

LEMMA DecodeContinues ==
  ASSUME NEW d, IsDecoder(d), NEW n, NEW discontinuity \in BOOLEAN
  PROVE  /\ IsDecoder(Decode(d, n, discontinuity))
         /\ Decode(d, n, discontinuity).configured = d.configured
         /\ Decode(d, n, discontinuity).expects = n + 1
<1> DEFINE from == IF discontinuity THEN FlushTimeline(d) ELSE d
           begun == Finish(from)
           ready == IF Samples[n].sync THEN DrainReorder(begun) ELSE begun
<1>1. IsDecoder(from) /\ from.configured = d.configured
  BY FlushStarts DEF Started
<1>2. Decode(d, n, discontinuity) = [ready EXCEPT !.current = n, !.expects = n + 1]
  BY DEF Decode
<1> HIDE DEF from
<1>3. IsDecoder(begun) /\ begun.configured = d.configured
  BY <1>1, FinishKeeps
<1> HIDE DEF begun
<1>4. IsDecoder(ready) /\ ready.configured = d.configured
  BY <1>3, DrainReorderKeeps DEF SamePlace
<1> HIDE DEF ready
<1> QED BY <1>2, <1>4 DEF IsDecoder

LEMMA RetargetKeeps ==
  ASSUME NEW d, IsDecoder(d), NEW target
  PROVE  IsDecoder(Retarget(d, target)) /\ SamePlace(Retarget(d, target), d)
<1>1. PICK outputs :
        Retarget(d, target) = [d EXCEPT !.output_start_time = target, !.outputs = outputs]
  BY DEF Retarget
<1> QED BY <1>1 DEF IsDecoder, SamePlace

LEMMA RestoreContinues ==
  ASSUME NEW d, NEW checkpoint, NEW target
  PROVE  /\ IsDecoder(Restore(d, checkpoint, target))
         /\ Restore(d, checkpoint, target).expects = checkpoint.expects
         /\ Restore(d, checkpoint, target).configured = d.configured
<1>1. IsDecoder(Flush(d)) /\ Flush(d).configured = d.configured
  BY FlushStarts DEF Started
<1>2. PICK f : f = Flush(d)
  OBVIOUS
<1>3. PICK start, expects, reorder, references, time :
        /\ Restore(d, checkpoint, target) =
             [f EXCEPT !.output_start_time = start, !.expects = expects, !.reorder = reorder,
                       !.references = references, !.maximum_completed_pts = time]
        /\ expects = checkpoint.expects
  BY <1>2 DEF Restore
<1> QED BY <1>1, <1>2, <1>3 DEF IsDecoder

----------
(* Steps *)

LEMMA FirstIsSync == 1 \in SyncSamples \cup {AtEnd}
<1>1. CASE Len(Samples) = 0
  BY <1>1 DEF AtEnd
<1>2. CASE Len(Samples) # 0
  <2>1. Samples # << >> /\ 1 \in Numbers
    BY <1>2, LengthType DEF Numbers
  <2> QED BY <2>1, SeekAssumption DEF SyncSamples
<1> QED BY <1>1, <1>2

LEMMA PairingInit == Init => Pairing
<1> SUFFICES ASSUME Init PROVE Pairing
  OBVIOUS
<1>1. /\ cursor = 1 /\ held = NoSample /\ discontinuous = FALSE
      /\ decoder = NewDecoder(TRUE, 1) /\ entries = {}
  BY DEF Init
<1>2. IsDecoder(decoder) /\ Started(decoder, decoder)
  BY <1>1, NewDecoderStarts
<1>3. 1 \in 1 .. AtEnd /\ 0 \in 0 .. Len(Samples)
  BY LengthType
<1>4. 1 \in SyncSamples \cup {AtEnd}
  BY FirstIsSync
<1> QED BY <1>1, <1>2, <1>3, <1>4
       DEF Pairing, Shapes, HeldBeforeCursor, EntriesPaired, Continued, Fresh, Started,
           NextSample, NoSample

\* The cursor is moved to a keyframe with a decoder that starts, or with one
\* that continues there.
LEMMA MovedPairs ==
  ASSUME Pairing, NEW to \in 1 .. AtEnd, NEW discontinuity \in BOOLEAN,
         Moves(to, discontinuity), IsDecoder(decoder'),
         EntriesPaired', \A e \in entries' : IsEntry(e),
         decoder'.configured =>
           \/ Started(decoder', decoder) /\ to \in SyncSamples \cup {AtEnd}
           \/ decoder'.expects = to /\ ~ discontinuity
  PROVE  Pairing'
<1>1. cursor' = to /\ held' = NoSample /\ discontinuous' = discontinuity
  BY DEF Moves
<1>2. NextSample' = to
  BY <1>1 DEF NextSample
<1>3. Shapes'
  BY <1>1, LengthType DEF Pairing, Shapes, NoSample
<1>4. HeldBeforeCursor' /\ EntriesPaired'
  BY <1>1 DEF HeldBeforeCursor
<1>5. decoder'.configured => Continued(decoder)' /\ Fresh(decoder)'
  <2>1. to # NoSample
    BY LengthType DEF NoSample
  <2> QED BY <1>1, <1>2, <2>1 DEF Continued, Fresh, Started
<1> QED BY <1>3, <1>4, <1>5 DEF Pairing

LEMMA SyncInTrack == \A n \in SyncSamples : n \in 1 .. AtEnd
<1>1. \A n \in SyncSamples : n \in 1 .. Len(Samples)
  BY LengthType
<1> QED BY <1>1, LengthType

\* The cursor stays and the decoder keeps its place.
LEMMA StaysPaired ==
  ASSUME Pairing, cursor' = cursor, held' = held, discontinuous' \in {discontinuous, FALSE},
         IsDecoder(decoder'), EntriesPaired', \A e \in entries' : IsEntry(e),
         decoder'.configured =>
           /\ decoder.configured /\ decoder'.expects = decoder.expects
           /\ decoder.expects = NoSample => SamePlace(decoder', decoder)
  PROVE  Pairing'
<1>1. NextSample' = NextSample
  BY DEF NextSample
<1>2. Shapes' /\ HeldBeforeCursor'
  BY DEF Pairing, Shapes, HeldBeforeCursor
<1>3. decoder'.configured => Continued(decoder)' /\ Fresh(decoder)'
  BY <1>1 DEF Pairing, Continued, Fresh, SamePlace
<1> QED BY <1>2, <1>3 DEF Pairing

LEMMA EntriesStay ==
  ASSUME Pairing, entries' \subseteq entries
  PROVE  EntriesPaired' /\ \A e \in entries' : IsEntry(e)
BY DEF Pairing, EntriesPaired, Shapes

LEMMA FailsPairs ==
  ASSUME Pairing, Fails
  PROVE  Pairing'
<1>1. /\ cursor' = cursor /\ held' = held /\ discontinuous' = discontinuous
      /\ decoder' = decoder /\ entries' = entries
  BY DEF Fails, callerVars, cacheVars
<1>2. IsDecoder(decoder')
  BY <1>1 DEF Pairing, Shapes
<1> QED BY <1>1, <1>2, EntriesStay, StaysPaired DEF SamePlace

LEMMA PreviewPairs ==
  ASSUME Pairing, NEW target, Preview(target)
  PROVE  Pairing'
<1>1. CASE KeyframeNearest(target) = NoSample
  BY <1>1, FailsPairs DEF Preview
<1>2. CASE KeyframeNearest(target) # NoSample
  <2>1. PICK to : to = KeyframeNearest(target)
    OBVIOUS
  <2>2. to \in SyncSamples /\ to \in 1 .. AtEnd
    <3>1. to \in SyncSamples
      BY <1>2, <2>1, KeyframesAreSync
    <3> QED BY <3>1, SyncInTrack
  <2>3. decoder' = Flush(decoder) /\ Moves(to, TRUE) /\ entries' = entries
    BY <1>2, <2>1 DEF Preview, cacheVars
  <2>4. IsDecoder(decoder') /\ Started(decoder', decoder)
    BY <2>3, FlushStarts
  <2> QED BY <2>2, <2>3, <2>4, EntriesStay, MovedPairs
<1> QED BY <1>1, <1>2

LEMMA PlanResumes ==
  ASSUME NEW target, NEW allow
  PROVE  /\ Plan(target, allow).target = target
         /\ Plan(target, allow).source \in {"ForwardRetarget", "Checkpoint", "Keyframe"}
         /\ Plan(target, allow).source = "Keyframe" =>
              Plan(target, allow).resume = KeyframeAtOrBefore(target)
<1>1. \A keyframe, checkpoint, forward :
        Source(keyframe, checkpoint, forward) \in {"ForwardRetarget", "Checkpoint", "Keyframe"}
  BY DEF Source
<1> DEFINE keyframe == KeyframeAtOrBefore(target)
           forward == IF allow /\ active_exact_target # NoTime /\ target > active_exact_target
                      THEN cursor ELSE NoSample
           checkpoint == Max({NoSample} \cup {e.input_position : e \in LatestBefore(target)})
           source == Source(keyframe, checkpoint, forward)
           resume == CASE source = "ForwardRetarget" -> forward
                       [] source = "Checkpoint" -> checkpoint
                       [] source = "Keyframe" -> keyframe
           selected == SelectedSample(keyframe, target)
           estimate == EstimatedInput(keyframe, selected, resume)
<1>2. Plan(target, allow) = [target |-> target, source |-> source, resume |-> resume,
                             selected |-> selected, estimate |-> estimate]
  BY DEF Plan
<1>3. source \in {"ForwardRetarget", "Checkpoint", "Keyframe"}
  BY <1>1
<1>4. source = "Keyframe" => resume = keyframe
  <2> HIDE DEF source, keyframe, forward, checkpoint
  <2> QED OBVIOUS
<1> HIDE DEF source, resume, selected, estimate, keyframe
<1>5. /\ Plan(target, allow).target = target /\ Plan(target, allow).source = source
      /\ Plan(target, allow).resume = resume
  BY <1>2
<1> QED BY <1>3, <1>4, <1>5 DEF keyframe

LEMMA ExecutePairs ==
  ASSUME Pairing, NEW target, NEW allow, KeyframeAtOrBefore(target) # NoSample,
         Execute(Plan(target, allow))
  PROVE  Pairing'
<1>1. PICK plan : plan = Plan(target, allow)
  OBVIOUS
<1>2. Execute(plan)
  BY <1>1
<1>3. CASE plan.source = "ForwardRetarget"
  <2>1. RetargetForward(plan)
    BY <1>2, <1>3 DEF Execute
  <2>2. CASE ~ CanRetarget(decoder, plan.target)
    BY <2>1, <2>2, FailsPairs DEF RetargetForward
  <2>3. CASE CanRetarget(decoder, plan.target)
    <3>1. /\ decoder' = Retarget(decoder, plan.target) /\ discontinuous' = FALSE
          /\ cursor' = cursor /\ held' = held /\ entries' = entries
      BY <2>1, <2>3 DEF RetargetForward, cacheVars
    <3>2. IsDecoder(decoder') /\ SamePlace(decoder', decoder)
      BY <3>1, RetargetKeeps DEF Pairing, Shapes
    <3> QED BY <3>1, <3>2, EntriesStay, StaysPaired DEF SamePlace
  <2> QED BY <2>2, <2>3
<1>4. CASE plan.source = "Checkpoint"
  <2>1. RestoreCheckpoint(plan)
    BY <1>2, <1>4 DEF Execute
  <2>2. PICK e \in LatestBefore(plan.target) :
          \/ Fails
          \/ /\ decoder' = Restore(decoder, e.checkpoint, plan.target)
             /\ entries' = (entries \ {e}) \cup {[e EXCEPT !.last_used = next_recency]}
             /\ Moves(e.input_position, FALSE)
    BY <2>1 DEF RestoreCheckpoint
  <2>3. CASE Fails
    BY <2>3, FailsPairs
  <2>4. CASE ~ Fails
    <3>1. e \in entries /\ IsEntry(e) /\ e.input_position = e.checkpoint.expects
          /\ e.input_position \in 1 .. AtEnd
      BY DEF LatestBefore, Pairing, EntriesPaired, Shapes
    <3>2. PICK used : used = [e EXCEPT !.last_used = next_recency]
      OBVIOUS
    <3>3. /\ IsEntry(used) /\ used.input_position = e.input_position
          /\ used.checkpoint = e.checkpoint
      BY <3>1, <3>2 DEF IsEntry
    <3>4. EntriesPaired' /\ \A f \in entries' : IsEntry(f)
      <4>1. \A f \in entries' : f \in entries \/ f = used
        BY <2>2, <2>4, <3>2
      <4>2. EntriesPaired /\ \A f \in entries : IsEntry(f)
        BY DEF Pairing, Shapes
      <4> QED BY <3>1, <3>3, <4>1, <4>2 DEF EntriesPaired
    <3>5. PICK to, checkpoint : to = e.input_position /\ checkpoint = e.checkpoint
      OBVIOUS
    <3>6. /\ IsDecoder(decoder') /\ decoder'.expects = to
          /\ Moves(to, FALSE) /\ to \in 1 .. AtEnd
      <4>1. PICK target_time : target_time = plan.target
        OBVIOUS
      <4>2. /\ decoder' = Restore(decoder, checkpoint, target_time)
            /\ Moves(to, FALSE) /\ to \in 1 .. AtEnd /\ checkpoint.expects = to
        BY <2>2, <2>4, <3>1, <3>5, <4>1
      <4>3. IsDecoder(decoder') /\ decoder'.expects = checkpoint.expects
        BY <4>2, RestoreContinues
      <4> QED BY <4>2, <4>3
    <3> QED BY <3>4, <3>6, MovedPairs
  <2> QED BY <2>3, <2>4
<1>5. CASE plan.source = "Keyframe"
  <2>1. RestartAtKeyframe(plan)
    BY <1>2, <1>5 DEF Execute
  <2>2. PICK to : to = plan.resume
    OBVIOUS
  <2>3. to \in SyncSamples /\ to \in 1 .. AtEnd
    <3>1. to = KeyframeAtOrBefore(target)
      BY <1>1, <1>5, <2>2, PlanResumes
    <3>2. to \in SyncSamples
      BY <3>1, KeyframesAreSync
    <3> QED BY <3>2, SyncInTrack
  <2>4. decoder' = FlushForSeek(decoder, plan.target) /\ Moves(to, TRUE) /\ entries' = entries
    BY <2>1, <2>2 DEF RestartAtKeyframe, cacheVars
  <2>5. IsDecoder(decoder') /\ Started(decoder', decoder)
    BY <2>4, FlushStarts
  <2> QED BY <2>3, <2>4, <2>5, EntriesStay, MovedPairs
<1> QED BY <1>1, <1>3, <1>4, <1>5, PlanResumes

LEMMA CapturePairs ==
  ASSUME Pairing, CaptureCheckpoint
  PROVE  Pairing'
<1>1. /\ cursor' = cursor /\ held' = held /\ discontinuous' = discontinuous
      /\ held = NoSample
  BY DEF CaptureCheckpoint, callerVars
<1>2. IsDecoder(decoder)
  BY DEF Pairing, Shapes
<1>3. CASE ~ FarFromLast
  <2>1. decoder' = decoder /\ entries' = entries
    BY <1>3 DEF CaptureCheckpoint, cacheVars
  <2> QED BY <1>1, <1>2, <2>1, EntriesStay, StaysPaired DEF SamePlace
<1>4. CASE FarFromLast
  <2> DEFINE finished == IF decoder.configured /\ ~ decoder.draining
                         THEN Finish(decoder) ELSE decoder
  <2>1. /\ decoder' = finished
        /\ \/ /\ CanCheckpoint(finished) /\ Insert(Checkpoint(finished), cursor)
           \/ entries' = entries
    BY <1>4 DEF CaptureCheckpoint, cacheVars
  <2>2. /\ IsDecoder(finished) /\ finished.configured = decoder.configured
        /\ finished.expects = decoder.expects
        /\ decoder.current = NoSample => finished = decoder
    BY <1>2, FinishKeeps
  <2> HIDE DEF finished
  <2>3. decoder.configured /\ decoder.expects = NoSample => finished = decoder
    BY <2>2 DEF Pairing, Fresh
  <2>4. EntriesPaired' /\ \A e \in entries' : IsEntry(e)
    <3>1. CASE entries' = entries
      BY <3>1, EntriesStay
    <3>2. CASE CanCheckpoint(finished) /\ Insert(Checkpoint(finished), cursor)
      <4>1. PICK checkpoint : checkpoint = Checkpoint(finished)
        OBVIOUS
      <4>2. PICK entry : entry = [checkpoint |-> checkpoint, input_position |-> cursor,
                                  last_used |-> next_recency]
        OBVIOUS
      <4>3. Insert(checkpoint, cursor)
        BY <3>2, <4>1
      <4>4. \A e \in entries' : e \in entries \/ e = entry
        BY <4>2, <4>3 DEF Insert, Kept
      <4>5. /\ IsEntry(entry) /\ entry.input_position = cursor
            /\ entry.checkpoint.expects = decoder.expects
        BY <2>2, <4>1, <4>2 DEF Checkpoint, IsEntry
      <4>6. decoder.configured /\ decoder.expects # NoSample
        BY <2>2, <2>3, <3>2 DEF CanCheckpoint, Pairing, Fresh
      <4>7. decoder.expects = cursor /\ cursor \in 1 .. AtEnd
        BY <1>1, <4>6 DEF Pairing, Continued, NextSample, Shapes
      <4>8. EntriesPaired /\ \A f \in entries : IsEntry(f)
        BY DEF Pairing, Shapes
      <4> QED BY <4>4, <4>5, <4>7, <4>8 DEF EntriesPaired
    <3> QED BY <2>1, <3>1, <3>2
  <2> QED BY <1>1, <2>1, <2>2, <2>3, <2>4, StaysPaired DEF SamePlace
<1> QED BY <1>3, <1>4

LEMMA FeedPairs ==
  ASSUME Pairing, Feed
  PROVE  Pairing'
<1>1. /\ decoder.configured /\ NextSample < AtEnd /\ entries' = entries
      /\ cursor' = IF held # NoSample THEN cursor ELSE cursor + 1
  BY DEF Feed, cacheVars
<1>2. /\ cursor \in 1 .. AtEnd /\ held \in 0 .. Len(Samples) /\ IsDecoder(decoder)
      /\ discontinuous \in BOOLEAN /\ AtEnd = Len(Samples) + 1 /\ Len(Samples) \in Nat
  BY LengthType DEF Pairing, Shapes
<1>3. /\ NextSample \in 1 .. Len(Samples) /\ cursor' = NextSample + 1
      /\ cursor' \in 1 .. AtEnd
  BY <1>1, <1>2 DEF Pairing, HeldBeforeCursor, NextSample, NoSample
<1>4. EntriesPaired' /\ \A e \in entries' : IsEntry(e)
  BY <1>1, EntriesStay
<1>5. CASE decoder.outputs # << >>
  <2>1. held' = NextSample /\ discontinuous' = discontinuous /\ decoder' = decoder
    BY <1>5 DEF Feed
  <2>2. NextSample' = NextSample /\ held' \in 0 .. Len(Samples)
    <3>1. NextSample' = IF held' # NoSample THEN held' ELSE cursor'
      BY DEF NextSample
    <3> QED BY <1>2, <1>3, <2>1, <3>1 DEF NoSample
  <2>3. Shapes' /\ HeldBeforeCursor'
    BY <1>2, <1>3, <1>4, <2>1, <2>2 DEF Shapes, HeldBeforeCursor
  <2>4. Continued(decoder)' /\ Fresh(decoder)'
    BY <1>1, <2>1, <2>2 DEF Pairing, Continued, Fresh
  <2> QED BY <1>4, <2>3, <2>4 DEF Pairing
<1>6. CASE decoder.outputs = << >>
  <2>1. PICK n : n = NextSample
    OBVIOUS
  <2>2. /\ held' = NoSample /\ discontinuous' = FALSE
        /\ decoder' = Decode(decoder, n, discontinuous)
    BY <1>6, <2>1 DEF Feed
  <2>3. PICK discontinuity \in BOOLEAN : discontinuity = discontinuous
    BY <1>2
  <2>4. decoder' = Decode(decoder, n, discontinuity)
    BY <2>2, <2>3
  <2>5. IsDecoder(decoder') /\ decoder'.expects = n + 1
    BY <1>2, <2>3, <2>4, DecodeContinues
  <2>6. NextSample' = n + 1 /\ n + 1 # NoSample
    BY <1>3, <2>1, <2>2 DEF NextSample, NoSample
  <2>7. Shapes' /\ HeldBeforeCursor'
    <3>1. cursor' \in 1 .. AtEnd /\ held' \in 0 .. Len(Samples) /\ discontinuous' \in BOOLEAN
      <4>1. 0 \in 0 .. Len(Samples) /\ FALSE \in BOOLEAN
        BY LengthType
      <4> QED BY <1>3, <2>2, <4>1 DEF NoSample
    <3>2. HeldBeforeCursor'
      BY <2>2 DEF HeldBeforeCursor
    <3>3. \A e \in entries' : IsEntry(e)
      BY <1>4
    <3>4. Shapes'
      BY <2>5, <3>1, <3>3 DEF Shapes
    <3> QED BY <3>2, <3>4
  <2>8. Continued(decoder)' /\ Fresh(decoder)'
    BY <2>2, <2>5, <2>6 DEF Continued, Fresh
  <2> QED BY <1>4, <2>7, <2>8 DEF Pairing
<1> QED BY <1>5, <1>6

LEMMA OutputPairs ==
  ASSUME Pairing, Receive \/ Drain
  PROVE  Pairing'
<1>1. /\ cursor' = cursor /\ held' = held /\ discontinuous' = discontinuous
      /\ entries' = entries
  BY DEF Receive, Drain, callerVars, cacheVars
<1>2. IsDecoder(decoder)
  BY DEF Pairing, Shapes
<1>3. CASE Receive
  <2>1. PICK outputs : decoder' = [decoder EXCEPT !.outputs = outputs]
    BY <1>3 DEF Receive
  <2>2. IsDecoder(decoder') /\ SamePlace(decoder', decoder)
    BY <1>2, <2>1 DEF IsDecoder, SamePlace
  <2> QED BY <1>1, <2>2, EntriesStay, StaysPaired DEF SamePlace
<1>4. CASE Drain
  <2> DEFINE drained == DrainReorder(Finish(decoder))
  <2>1. decoder' = [drained EXCEPT !.draining = TRUE] /\ decoder.configured
    BY <1>4 DEF Drain
  <2>2. IsDecoder(drained) /\ SamePlace(drained, Finish(decoder))
    BY <1>2, FinishKeeps, DrainReorderKeeps
  <2> HIDE DEF drained
  <2>3. IsDecoder(decoder') /\ SamePlace(decoder', Finish(decoder))
    BY <2>1, <2>2 DEF IsDecoder, SamePlace
  <2>4. decoder'.expects = decoder.expects
    BY <1>2, <2>3, FinishKeeps DEF SamePlace
  <2>5. decoder.expects = NoSample => SamePlace(decoder', decoder)
    BY <1>2, <2>1, <2>3, FinishKeeps DEF Pairing, Fresh
  <2> QED BY <1>1, <2>1, <2>3, <2>4, <2>5, EntriesStay, StaysPaired
<1> QED BY <1>3, <1>4

LEMMA ConfigurePairs ==
  ASSUME Pairing, NEW succeeds \in BOOLEAN, NEW format, Configure(succeeds, format)
  PROVE  Pairing'
<1>1. /\ decoder' = NewDecoder(succeeds, format) /\ entries' = entries
      /\ IF succeeds THEN Moves(1, FALSE) ELSE UNCHANGED callerVars
  BY DEF Configure, cacheVars
<1>2. IsDecoder(decoder') /\ decoder'.configured = succeeds
      /\ (decoder.configured = succeeds => Started(decoder', decoder))
      /\ decoder'.expects = NoSample /\ decoder'.current = NoSample
      /\ decoder'.maximum_completed_pts = NoTime
  BY <1>1, NewDecoderStarts DEF NewDecoder
<1>3. EntriesPaired' /\ \A e \in entries' : IsEntry(e)
  BY <1>1, EntriesStay
<1>4. CASE succeeds
  <2>1. cursor' = 1 /\ held' = NoSample /\ discontinuous' = FALSE
    BY <1>1, <1>4 DEF Moves
  <2>2. 1 \in 1 .. AtEnd /\ 0 \in 0 .. Len(Samples) /\ 1 \in SyncSamples \cup {AtEnd}
    BY FirstIsSync, LengthType
  <2>3. NextSample' = 1
    BY <2>1 DEF NextSample
  <2>4. Shapes' /\ HeldBeforeCursor'
    <3>1. cursor' \in 1 .. AtEnd /\ held' \in 0 .. Len(Samples) /\ discontinuous' \in BOOLEAN
      BY <2>1, <2>2 DEF NoSample
    <3>2. IsDecoder(decoder')
      BY <1>2
    <3>3. HeldBeforeCursor'
      BY <2>1 DEF HeldBeforeCursor
    <3>4. \A e \in entries' : IsEntry(e)
      BY <1>3
    <3>5. Shapes'
      BY <3>1, <3>2, <3>4 DEF Shapes
    <3> QED BY <3>3, <3>5
  <2>5. Continued(decoder)' /\ Fresh(decoder)'
    BY <1>2, <2>2, <2>3 DEF Continued, Fresh
  <2> QED BY <1>3, <2>4, <2>5 DEF Pairing
<1>5. CASE ~ succeeds
  <2>1. cursor' = cursor /\ held' = held /\ discontinuous' = discontinuous
    BY <1>1, <1>5 DEF callerVars
  <2> QED BY <1>2, <1>3, <1>5, <2>1, StaysPaired
<1> QED BY <1>4, <1>5

LEMMA PairingStep ==
  ASSUME Pairing, [Next]_vars
  PROVE  Pairing'
<1>1. CASE UNCHANGED vars
  <2>1. Fails
    BY <1>1 DEF vars, Fails, cacheVars, controllerVars, callerVars, goalVars
  <2> QED BY <2>1, FailsPairs
<1>2. ASSUME NEW target \in Targets, NEW allow \in BOOLEAN, BeginExactSeek(target, allow)
      PROVE  Pairing'
  BY <1>2, FailsPairs, ExecutePairs DEF BeginExactSeek
<1>3. ASSUME NEW target \in Targets, NEW allow \in BOOLEAN, NEW budget \in Budgets,
             BeginInteractiveSeek(target, allow, budget)
      PROVE  Pairing'
  BY <1>3, FailsPairs, PreviewPairs, ExecutePairs DEF BeginInteractiveSeek
<1>4. ASSUME NEW target \in Targets, BeginNearestPreview(target)
      PROVE  Pairing'
  BY <1>4, PreviewPairs DEF BeginNearestPreview
<1>5. CASE ClearController
  <2>1. /\ cursor' = cursor /\ held' = held /\ discontinuous' = discontinuous
        /\ decoder' = decoder /\ entries' = {}
    BY <1>5 DEF ClearController, callerVars
  <2>2. IsDecoder(decoder')
    BY <2>1 DEF Pairing, Shapes
  <2> QED BY <2>1, <2>2, EntriesStay, StaysPaired DEF SamePlace
<1>6. CASE CaptureCheckpoint
  BY <1>6, CapturePairs
<1>7. CASE Feed \/ Receive \/ Drain
  BY <1>7, FeedPairs, OutputPairs
<1>8. ASSUME NEW succeeds \in BOOLEAN, NEW format \in {1, 2}, Configure(succeeds, format)
      PROVE  Pairing'
  BY <1>8, ConfigurePairs
<1> QED BY <1>1, <1>2, <1>3, <1>4, <1>5, <1>6, <1>7, <1>8 DEF Next

----------

\* After any seeks, refused ones included, and any reconfiguration, the next
\* packet is the one the decoder continues with, or a keyframe for a decoder
\* that starts: so seek.rs moves cursor and decoder together.
THEOREM AlwaysPaired == Spec => []CursorPaired
<1>1. Pairing => CursorPaired
  <2> SUFFICES ASSUME Pairing PROVE CursorPaired
    OBVIOUS
  <2>1. \A e \in entries : e.input_position = e.checkpoint.expects
    BY DEF Pairing, EntriesPaired
  <2>2. ASSUME decoder.configured, NextSample < AtEnd
        PROVE  \/ NextSample = decoder.expects /\ ~ discontinuous
               \/ decoder.expects = NoSample /\ NextSample \in SyncSamples
    <3>1. NextSample # AtEnd
      BY <2>2, LengthType
    <3> QED BY <2>2, <3>1 DEF Pairing, Continued, Fresh
  <2> QED BY <2>1, <2>2 DEF CursorPaired
<1>2. Pairing /\ [Next]_vars => Pairing'
  BY PairingStep
<1> QED BY <1>1, <1>2, PairingInit, PTL DEF Spec

----------
(* The checkpoint cache *)

\* What the cache's account needs: finitely many entries, uses older than the
\* next one, and checkpoints of no more references than the stream has.
EntryTyped(e) ==
  /\ IsEntry(e) /\ e.last_used \in Nat
  /\ e.checkpoint.references \in 0 .. MaxReferences

CacheTyped ==
  /\ IsFiniteSet(entries) /\ next_recency \in Nat
  /\ \A e \in entries : EntryTyped(e) /\ e.last_used < next_recency
  /\ decoder.references \in 0 .. MaxReferences

Accounted == Pairing /\ CacheTyped /\ CacheAccounted

----------
(* Units *)

Units(set) ==
  {unit \in set \X (1 .. MaxReferences) : unit[2] <= unit[1].checkpoint.references}

LEMMA UnitsFinite ==
  ASSUME NEW set, IsFiniteSet(set)
  PROVE  /\ IsFiniteSet(Units(set)) /\ Bytes(set) = Cardinality(Units(set))
         /\ Bytes(set) \in Nat
<1>1. IsFiniteSet(1 .. MaxReferences)
  <2>1. 1 \in Int /\ MaxReferences \in Int
    BY DEF MaxReferences
  <2> QED BY <2>1, FS_Interval
<1>2. IsFiniteSet(set \X (1 .. MaxReferences))
  BY <1>1, FS_Product
<1>3. Units(set) \in SUBSET (set \X (1 .. MaxReferences))
  BY DEF Units
<1>4. IsFiniteSet(Units(set))
  BY <1>2, <1>3, FS_Subset
<1>5. Bytes(set) = Cardinality(Units(set))
  BY DEF Bytes, Units
<1> QED BY <1>4, <1>5, FS_CardinalityType

\* What is charged for disjoint sets adds up.
LEMMA UnitsAdd ==
  ASSUME NEW S, NEW T, IsFiniteSet(S), IsFiniteSet(T), S \cap T = {}
  PROVE  Bytes(S \cup T) = Bytes(S) + Bytes(T)
<1>1. /\ IsFiniteSet(Units(S)) /\ IsFiniteSet(Units(T)) /\ IsFiniteSet(S \cup T)
      /\ Bytes(S) = Cardinality(Units(S)) /\ Bytes(T) = Cardinality(Units(T))
      /\ Bytes(S) \in Nat /\ Bytes(T) \in Nat
  BY UnitsFinite, FS_Union
<1>2. Bytes(S \cup T) = Cardinality(Units(S \cup T))
  BY <1>1, UnitsFinite
<1>3. Units(S \cup T) = Units(S) \cup Units(T)
  BY DEF Units
<1>4. Units(S) \cap Units(T) = {}
  BY DEF Units
<1>5. Cardinality(Units(S) \cup Units(T))
        = Cardinality(Units(S)) + Cardinality(Units(T)) - Cardinality(Units(S) \cap Units(T))
  BY <1>1, FS_Union
<1>6. Cardinality(Units(S) \cap Units(T)) = 0
  BY <1>4, FS_EmptySet
<1>7. PICK s, u \in Nat : s = Cardinality(Units(S)) /\ u = Cardinality(Units(T))
  BY <1>1
<1>8. s + u - 0 = s + u
  OBVIOUS
<1> QED BY <1>1, <1>2, <1>3, <1>5, <1>6, <1>7, <1>8

\* So does what is left of a set.
LEMMA UnitsLeft ==
  ASSUME NEW S, NEW T \in SUBSET S, IsFiniteSet(S)
  PROVE  Bytes(S \ T) = Bytes(S) - Bytes(T) /\ Bytes(T) <= Bytes(S)
<1>1. IsFiniteSet(T) /\ IsFiniteSet(S \ T)
  BY FS_Subset, FS_Difference
<1>2. S = (S \ T) \cup T /\ (S \ T) \cap T = {}
  OBVIOUS
<1>3. Bytes(S) = Bytes(S \ T) + Bytes(T)
  <2>1. PICK rest : rest = S \ T
    OBVIOUS
  <2>2. Bytes(rest \cup T) = Bytes(rest) + Bytes(T)
    BY <1>1, <1>2, <2>1, UnitsAdd
  <2> QED BY <1>2, <2>1, <2>2
<1>4. Bytes(S) \in Nat /\ Bytes(S \ T) \in Nat /\ Bytes(T) \in Nat
  BY <1>1, UnitsFinite
<1> QED BY <1>3, <1>4

\* One entry costs the references of its checkpoint.
LEMMA UnitsOfOne ==
  ASSUME NEW e, e.checkpoint.references \in 0 .. MaxReferences
  PROVE  Bytes({e}) = e.checkpoint.references
<1>1. PICK n \in 0 .. MaxReferences : n = e.checkpoint.references
  OBVIOUS
<1>2. Units({e}) = {e} \X (1 .. n)
  <2>1. \A k \in 1 .. MaxReferences : k <= n <=> k \in 1 .. n
    BY DEF MaxReferences
  <2>2. 1 .. n \subseteq 1 .. MaxReferences
    BY DEF MaxReferences
  <2> QED BY <1>1, <2>1, <2>2 DEF Units
<1>3. IsFiniteSet({e}) /\ Cardinality({e}) = 1
  BY FS_Singleton
<1>4. IsFiniteSet(1 .. n) /\ Cardinality(1 .. n) = n
  <2>1. n \in Nat
    BY DEF MaxReferences
  <2>2. IsFiniteSet(1 .. n) /\ Cardinality(1 .. n) = IF 1 > n THEN 0 ELSE n - 1 + 1
    BY <2>1, FS_Interval
  <2> QED BY <2>1, <2>2
<1>5. Cardinality({e} \X (1 .. n)) = 1 * n
  BY <1>3, <1>4, FS_Product
<1>6. Bytes({e}) = Cardinality(Units({e}))
  BY <1>3, UnitsFinite
<1>7. 1 * n = n
  BY DEF MaxReferences
<1> QED BY <1>1, <1>2, <1>5, <1>6, <1>7

----------
(* How many references a decoder has *)

Few(d) == d.references \in 0 .. MaxReferences

LEMMA StartsWithFew ==
  ASSUME NEW d, NEW configured, NEW format, NEW target
  PROVE  /\ Few(NewDecoder(configured, format)) /\ Few(Flush(d)) /\ Few(FlushTimeline(d))
         /\ Few(FlushForSeek(d, target))
<1>1. Few(NewDecoder(configured, format)) /\ Few(Flush(d))
  BY DEF Few, NewDecoder, Flush, MaxReferences
<1>2. IsDecoder(Flush(d)) /\ IsDecoder(FlushTimeline(d))
  BY FlushStarts
<1>3. FlushTimeline(d).references = Flush(d).references
  BY <1>2 DEF FlushTimeline, IsDecoder
<1>4. FlushForSeek(d, target).references = FlushTimeline(d).references
  BY <1>2 DEF FlushForSeek, IsDecoder
<1> QED BY <1>1, <1>3, <1>4 DEF Few

LEMMA QueueLeavesReferences ==
  ASSUME NEW d, NEW pictures, IsDecoder(d)
  PROVE  /\ Queue(d, pictures).references = d.references
         /\ DrainReorder(d).references = d.references
<1>1. ASSUME NEW some PROVE Queue(d, some).references = d.references
  <2>1. PICK reorder, outputs :
          Queue(d, some) = [d EXCEPT !.reorder = reorder, !.outputs = outputs]
    BY DEF Queue
  <2> QED BY <2>1 DEF IsDecoder
<1> QED BY <1>1 DEF DrainReorder

LEMMA FinishKeepsFew ==
  ASSUME NEW d, IsDecoder(d), Few(d)
  PROVE  Few(Finish(d))
<1>1. CASE d.current = NoSample
  BY <1>1 DEF Finish
<1>2. CASE d.current # NoSample
  <2> DEFINE n == d.current
             pushed == ReorderPush(d, [sample |-> n, shown |-> Materializes(d, n)])
             stored == IF Samples[n].sync THEN 1
                       ELSE IF Samples[n].reference /\ d.references < MaxReferences
                       THEN d.references + 1 ELSE d.references
             time == IF pushed.maximum_completed_pts < Pts[n] THEN Pts[n]
                     ELSE pushed.maximum_completed_pts
  <2>1. Finish(d) = [pushed EXCEPT !.current = NoSample, !.references = stored,
                                   !.maximum_completed_pts = time]
    BY <1>2 DEF Finish
  <2>2. IsDecoder(pushed)
    BY ReorderPushKeeps
  <2>3. stored \in 0 .. MaxReferences
    BY DEF Few, MaxReferences
  <2> HIDE DEF n, pushed, stored, time
  <2> QED BY <2>1, <2>2, <2>3 DEF IsDecoder, Few
<1> QED BY <1>1, <1>2

LEMMA DecodeKeepsFew ==
  ASSUME NEW d, IsDecoder(d), Few(d), NEW n, NEW discontinuity \in BOOLEAN
  PROVE  Few(Decode(d, n, discontinuity))
<1> DEFINE from == IF discontinuity THEN FlushTimeline(d) ELSE d
           begun == Finish(from)
           ready == IF Samples[n].sync THEN DrainReorder(begun) ELSE begun
<1>1. IsDecoder(from) /\ Few(from)
  BY FlushStarts, StartsWithFew
<1>2. Decode(d, n, discontinuity) = [ready EXCEPT !.current = n, !.expects = n + 1]
  BY DEF Decode
<1> HIDE DEF from
<1>3. IsDecoder(begun) /\ Few(begun)
  BY <1>1, FinishKeeps, FinishKeepsFew
<1> HIDE DEF begun
<1>4. IsDecoder(ready) /\ Few(ready)
  BY <1>3, DrainReorderKeeps, QueueLeavesReferences DEF Few
<1> HIDE DEF ready
<1> QED BY <1>2, <1>4 DEF IsDecoder, Few

LEMMA RetargetLeavesReferences ==
  ASSUME NEW d, IsDecoder(d), NEW target
  PROVE  Retarget(d, target).references = d.references
<1>1. PICK outputs :
        Retarget(d, target) = [d EXCEPT !.output_start_time = target, !.outputs = outputs]
  BY DEF Retarget
<1> QED BY <1>1 DEF IsDecoder

LEMMA RestoreTakesReferences ==
  ASSUME NEW d, NEW checkpoint, NEW target
  PROVE  Restore(d, checkpoint, target).references = checkpoint.references
<1>1. PICK f : f = Flush(d)
  OBVIOUS
<1>2. IsDecoder(f)
  BY <1>1, FlushStarts
<1>3. PICK start, expects, reorder, references, time :
        /\ Restore(d, checkpoint, target) =
             [f EXCEPT !.output_start_time = start, !.expects = expects, !.reorder = reorder,
                       !.references = references, !.maximum_completed_pts = time]
        /\ references = checkpoint.references
  BY <1>1 DEF Restore
<1> QED BY <1>2, <1>3 DEF IsDecoder

----------
(* The account *)

LEMMA LimitsType == MaximumCheckpoints \in Nat /\ MaximumBytes \in Nat
BY SeekAssumption

\* Nothing is added, used or evicted.
LEMMA CacheUntouched ==
  ASSUME CacheTyped, CacheAccounted, UNCHANGED cacheVars, Few(decoder')
  PROVE  CacheTyped' /\ CacheAccounted'
<1>1. /\ entries' = entries /\ next_recency' = next_recency
      /\ estimated_retained_reference_bytes' = estimated_retained_reference_bytes
  BY DEF cacheVars
<1>2. CacheTyped'
  BY <1>1 DEF CacheTyped, Few
<1>3. CacheAccounted'
  BY <1>1 DEF CacheAccounted, Bytes
<1> QED BY <1>2, <1>3

\* A checkpoint that is used becomes the most recent one.
LEMMA UseAccounted ==
  ASSUME CacheTyped, CacheAccounted, NEW e \in entries, NEW used,
         used = [e EXCEPT !.last_used = next_recency],
         entries' = (entries \ {e}) \cup {used}, next_recency' = next_recency + 1,
         UNCHANGED estimated_retained_reference_bytes, Few(decoder')
  PROVE  CacheTyped' /\ CacheAccounted'
<1>1. /\ EntryTyped(e) /\ e.last_used < next_recency /\ IsFiniteSet(entries)
      /\ next_recency \in Nat
  BY DEF CacheTyped
<1>2. /\ IsEntry(used) /\ used.checkpoint = e.checkpoint /\ used.last_used = next_recency
  BY <1>1 DEF EntryTyped, IsEntry
<1>3. PICK rest : rest = entries \ {e}
  OBVIOUS
<1>4. /\ entries' = rest \cup {used} /\ used \notin entries /\ used \notin rest
      /\ e \notin rest /\ entries = rest \cup {e} /\ rest \subseteq entries
  <2>1. used \notin entries
    <3>1. \A f \in entries : f.last_used < next_recency
      BY DEF CacheTyped
    <3>2. ~ (next_recency < next_recency)
      BY <1>1
    <3> QED BY <1>2, <3>1, <3>2
  <2> QED BY <1>3, <2>1
<1>5. IsFiniteSet(rest) /\ IsFiniteSet({used}) /\ IsFiniteSet({e})
  BY <1>1, <1>3, FS_RemoveElement, FS_Singleton
<1>6. IsFiniteSet(entries') /\ Cardinality(entries') = Cardinality(entries)
  <2>1. Cardinality(rest \cup {used}) = Cardinality(rest) + 1 /\ IsFiniteSet(rest \cup {used})
    BY <1>4, <1>5, FS_AddElement
  <2>2. Cardinality(rest \cup {e}) = Cardinality(rest) + 1
    BY <1>4, <1>5, FS_AddElement
  <2> QED BY <1>4, <2>1, <2>2
<1>7. Bytes(entries') = Bytes(entries)
  <2>1. Bytes({used}) = e.checkpoint.references /\ Bytes({e}) = e.checkpoint.references
    BY <1>1, <1>2, UnitsOfOne DEF EntryTyped
  <2>2. Bytes(rest \cup {used}) = Bytes(rest) + Bytes({used})
    <3>1. rest \cap {used} = {}
      BY <1>4
    <3> QED BY <1>5, <3>1, UnitsAdd
  <2>3. Bytes(rest \cup {e}) = Bytes(rest) + Bytes({e})
    <3>1. rest \cap {e} = {}
      BY <1>4
    <3> QED BY <1>5, <3>1, UnitsAdd
  <2> QED BY <1>4, <2>1, <2>2, <2>3
<1>8. \A f \in entries' : f \in rest \/ f = used
  BY <1>4
<1>9. EntryTyped(used) /\ used.last_used < next_recency + 1
  BY <1>1, <1>2 DEF EntryTyped
<1>10. CacheTyped'
  <2>1. \A f \in rest : EntryTyped(f) /\ f.last_used < next_recency + 1
    BY <1>1, <1>4 DEF CacheTyped, EntryTyped
  <2>2. \A f \in entries' : EntryTyped(f) /\ f.last_used < next_recency'
    BY <1>8, <1>9, <2>1
  <2>3. next_recency' \in Nat
    BY <1>1
  <2> QED BY <1>6, <2>2, <2>3 DEF CacheTyped, Few
<1>11. \A f, g \in entries' :
         f # g => f.checkpoint.resume_time # g.checkpoint.resume_time /\ f.last_used # g.last_used
  <2>1. \A f, g \in entries :
          f # g => f.checkpoint.resume_time # g.checkpoint.resume_time /\ f.last_used # g.last_used
    BY DEF CacheAccounted
  <2>2. \A f \in rest : /\ f \in entries /\ f # e
                        /\ f.last_used < next_recency /\ f.last_used \in Nat
    BY <1>4 DEF CacheTyped, EntryTyped
  <2>3. \A f \in rest : /\ f.checkpoint.resume_time # used.checkpoint.resume_time
                        /\ f.last_used # used.last_used
    BY <1>1, <1>2, <2>1, <2>2
  <2> QED BY <1>8, <2>1, <2>2, <2>3
<1> QED BY <1>6, <1>7, <1>10, <1>11 DEF CacheAccounted

\* What eviction leaves is within both limits: all that is left is at least
\* as recent as the least recent of it, whose place decides.
LEMMA KeptWithinLimits ==
  ASSUME NEW set, IsFiniteSet(set), \A e \in set : e.last_used \in Nat,
         NEW bytes, bytes = Bytes(set)
  PROVE  /\ Kept(set, bytes) \in SUBSET set
         /\ Cardinality(Kept(set, bytes)) <= MaximumCheckpoints
         /\ Bytes(Kept(set, bytes)) <= MaximumBytes
<1>1. PICK kept : kept = Kept(set, bytes)
  OBVIOUS
<1>2. kept \in SUBSET set
  BY <1>1 DEF Kept
<1>3. CASE kept = {}
  <2>1. Cardinality(kept) = 0
    BY <1>3, FS_EmptySet
  <2>2. Bytes(kept) = 0
    <3>1. Units({}) = {} /\ Bytes({}) = Cardinality(Units({}))
      BY FS_EmptySet, UnitsFinite DEF Units
    <3> QED BY <1>3, <3>1, FS_EmptySet
  <2> QED BY <1>1, <1>2, <2>1, <2>2, LimitsType
<1>4. CASE kept # {}
  <2>1. PICK uses : uses = {e.last_used : e \in kept}
    OBVIOUS
  <2>2. uses \in SUBSET Nat /\ uses # {}
    BY <1>2, <1>4, <2>1
  <2>3. PICK least \in uses : \A u \in uses : least <= u
    BY <2>2, Minimum
  <2>4. PICK e \in kept : e.last_used = least
    BY <2>1, <2>3
  <2>5. PICK evicted : evicted = {f \in set : f.last_used < e.last_used}
    OBVIOUS
  <2>6. /\ Cardinality(set \ evicted) <= MaximumCheckpoints
        /\ bytes - Bytes(evicted) <= MaximumBytes
    BY <1>1, <2>5 DEF Kept
  <2>7. kept \in SUBSET (set \ evicted)
    <3>1. \A f \in kept : e.last_used <= f.last_used /\ f.last_used \in Nat /\ e.last_used \in Nat
      BY <1>2, <2>1, <2>3, <2>4
    <3>2. \A f \in kept : ~ (f.last_used < e.last_used)
      BY <3>1
    <3> QED BY <1>2, <2>5, <3>2
  <2>8. evicted \in SUBSET set /\ IsFiniteSet(set \ evicted) /\ IsFiniteSet(kept)
    BY <1>2, <2>5, FS_Subset, FS_Difference
  <2>9. Cardinality(kept) <= MaximumCheckpoints
    <3>1. /\ Cardinality(kept) <= Cardinality(set \ evicted)
          /\ Cardinality(kept) \in Nat /\ Cardinality(set \ evicted) \in Nat
      BY <2>7, <2>8, FS_Subset, FS_CardinalityType
    <3> QED BY <2>6, <3>1, LimitsType
  <2>10. Bytes(kept) <= MaximumBytes
    <3>1. Bytes(set \ evicted) = Bytes(set) - Bytes(evicted)
      BY <2>8, UnitsLeft
    <3>2. Bytes(kept) <= Bytes(set \ evicted)
      <4>1. PICK left : left = set \ evicted
        OBVIOUS
      <4>2. IsFiniteSet(left) /\ kept \in SUBSET left
        BY <2>7, <2>8, <4>1
      <4> QED BY <4>1, <4>2, UnitsLeft
    <3>3. Bytes(kept) \in Nat /\ Bytes(set \ evicted) \in Nat
      BY <2>8, UnitsFinite
    <3>4. Bytes(set \ evicted) <= MaximumBytes
      BY <2>6, <3>1
    <3> QED BY <3>2, <3>3, <3>4, LimitsType
  <2> QED BY <1>1, <1>2, <2>9, <2>10
<1> QED BY <1>3, <1>4

LEMMA InsertAccounted ==
  ASSUME CacheTyped, CacheAccounted, NEW checkpoint, NEW position,
         checkpoint.references \in 0 .. MaxReferences,
         Insert(checkpoint, position), Few(decoder')
  PROVE  CacheTyped' /\ CacheAccounted'
<1>1. PICK replaced : replaced = {e \in entries : e.checkpoint.resume_time = checkpoint.resume_time}
  OBVIOUS
<1>2. PICK entry : entry = [checkpoint |-> checkpoint, input_position |-> position,
                            last_used |-> next_recency]
  OBVIOUS
<1>3. PICK rest : rest = entries \ replaced
  OBVIOUS
<1>4. PICK grown : grown = rest \cup {entry}
  OBVIOUS
<1>5. PICK bytes : bytes = estimated_retained_reference_bytes - Bytes(replaced)
                             + checkpoint.references
  OBVIOUS
<1>6. PICK kept : kept = Kept(grown, bytes)
  OBVIOUS
<1>7. /\ next_recency' = next_recency + 1 /\ entries' = kept
      /\ estimated_retained_reference_bytes' = bytes - Bytes(grown \ kept)
  BY <1>1, <1>2, <1>3, <1>4, <1>5, <1>6 DEF Insert
<1>8. /\ IsFiniteSet(entries) /\ next_recency \in Nat
      /\ \A e \in entries : EntryTyped(e) /\ e.last_used < next_recency
      /\ estimated_retained_reference_bytes = Bytes(entries)
  BY DEF CacheTyped, CacheAccounted
<1>9. /\ EntryTyped(entry) /\ entry.last_used = next_recency /\ entry.checkpoint = checkpoint
  BY <1>2, <1>8 DEF EntryTyped, IsEntry
<1>10. /\ \A e \in rest : /\ e \in entries /\ e # entry
                          /\ e.checkpoint.resume_time # checkpoint.resume_time
                          /\ e.last_used # next_recency
  <2>1. \A e \in entries : e.last_used # next_recency
    <3>1. ~ (next_recency < next_recency)
      BY <1>8
    <3> QED BY <1>8, <3>1
  <2> QED BY <1>1, <1>3, <1>9, <2>1
<1>11. IsFiniteSet(rest) /\ IsFiniteSet({entry}) /\ IsFiniteSet(grown)
       /\ replaced \in SUBSET entries /\ IsFiniteSet(replaced)
  <2>1. replaced \in SUBSET entries
    BY <1>1
  <2>2. IsFiniteSet(rest) /\ IsFiniteSet({entry}) /\ IsFiniteSet(replaced)
    BY <1>3, <1>8, <2>1, FS_Difference, FS_Singleton, FS_Subset
  <2> QED BY <1>4, <2>1, <2>2, FS_AddElement
<1>12. bytes = Bytes(grown)
  <2>1. Bytes(rest) = Bytes(entries) - Bytes(replaced)
    BY <1>3, <1>8, <1>11, UnitsLeft
  <2>2. Bytes({entry}) = checkpoint.references
    BY <1>9, UnitsOfOne
  <2>3. Bytes(rest \cup {entry}) = Bytes(rest) + Bytes({entry})
    <3>1. rest \cap {entry} = {}
      BY <1>10
    <3> QED BY <1>11, <3>1, UnitsAdd
  <2> QED BY <1>4, <1>5, <1>8, <2>1, <2>2, <2>3
<1>13. \A e \in grown : EntryTyped(e) /\ e.last_used < next_recency + 1
  <2>1. \A e \in rest : EntryTyped(e) /\ e.last_used < next_recency + 1
    BY <1>8, <1>10 DEF EntryTyped
  <2>2. next_recency < next_recency + 1
    BY <1>8
  <2> QED BY <1>4, <1>9, <2>1, <2>2
<1>14. /\ kept \in SUBSET grown /\ Cardinality(kept) <= MaximumCheckpoints
       /\ Bytes(kept) <= MaximumBytes
  <2>1. \A e \in grown : e.last_used \in Nat
    BY <1>13 DEF EntryTyped
  <2> QED BY <1>6, <1>11, <1>12, <2>1, KeptWithinLimits
<1>15. estimated_retained_reference_bytes' = Bytes(kept)
  <2>1. Bytes(grown \ kept) = Bytes(grown) - Bytes(kept)
    BY <1>11, <1>14, UnitsLeft
  <2>2. IsFiniteSet(kept)
    BY <1>11, <1>14, FS_Subset
  <2>3. PICK b, k \in Nat : b = Bytes(grown) /\ k = Bytes(kept)
    BY <1>11, <2>2, UnitsFinite
  <2>4. b - (b - k) = k
    OBVIOUS
  <2> QED BY <1>7, <1>12, <2>1, <2>3, <2>4
<1>16. \A e, f \in grown :
         e # f => e.checkpoint.resume_time # f.checkpoint.resume_time /\ e.last_used # f.last_used
  <2>1. \A e, f \in entries :
          e # f => e.checkpoint.resume_time # f.checkpoint.resume_time /\ e.last_used # f.last_used
    BY DEF CacheAccounted
  <2> QED BY <1>4, <1>9, <1>10, <2>1
<1>17. CacheTyped'
  <2>1. IsFiniteSet(entries')
    BY <1>7, <1>11, <1>14, FS_Subset
  <2>2. next_recency' \in Nat
    BY <1>7, <1>8
  <2>3. \A e \in entries' : EntryTyped(e) /\ e.last_used < next_recency'
    BY <1>7, <1>13, <1>14
  <2> QED BY <2>1, <2>2, <2>3 DEF CacheTyped, Few
<1>18. CacheAccounted'
  BY <1>7, <1>14, <1>15, <1>16 DEF CacheAccounted
<1> QED BY <1>17, <1>18

----------
(* Steps *)

LEMMA AccountedInit == Init => Accounted
<1> SUFFICES ASSUME Init PROVE Accounted
  OBVIOUS
<1>1. /\ entries = {} /\ estimated_retained_reference_bytes = 0 /\ next_recency = 0
      /\ decoder = NewDecoder(TRUE, 1)
  BY DEF Init
<1>2. Cardinality({}) = 0 /\ IsFiniteSet({}) /\ Bytes({}) = 0
  <2>1. Units({}) = {} /\ Bytes({}) = Cardinality(Units({}))
    BY FS_EmptySet, UnitsFinite DEF Units
  <2> QED BY <2>1, FS_EmptySet
<1>3. CacheTyped
  BY <1>1, <1>2, StartsWithFew DEF CacheTyped, Few
<1>4. CacheAccounted
  BY <1>1, <1>2, LimitsType DEF CacheAccounted
<1> QED BY <1>3, <1>4, PairingInit DEF Accounted

LEMMA ExecuteAccounted ==
  ASSUME Accounted, NEW plan,
         plan.source \in {"ForwardRetarget", "Checkpoint", "Keyframe"}, Execute(plan)
  PROVE  CacheTyped' /\ CacheAccounted'
<1>1. /\ CacheTyped /\ CacheAccounted /\ IsDecoder(decoder) /\ Few(decoder)
  BY DEF Accounted, CacheTyped, Few, Pairing, Shapes
<1>2. PICK target : target = plan.target
  OBVIOUS
<1>3. CASE plan.source = "ForwardRetarget"
  <2>1. RetargetForward(plan)
    BY <1>3 DEF Execute
  <2>2. UNCHANGED cacheVars /\ (decoder' = Retarget(decoder, target) \/ decoder' = decoder)
    BY <1>2, <2>1 DEF RetargetForward, Fails
  <2>3. Few(decoder')
    BY <1>1, <2>2, RetargetLeavesReferences DEF Few
  <2> QED BY <1>1, <2>2, <2>3, CacheUntouched
<1>4. CASE plan.source = "Checkpoint"
  <2>1. RestoreCheckpoint(plan)
    BY <1>4 DEF Execute
  <2>2. PICK e \in LatestBefore(target) :
          \/ Fails
          \/ /\ decoder' = Restore(decoder, e.checkpoint, target)
             /\ entries' = (entries \ {e}) \cup {[e EXCEPT !.last_used = next_recency]}
             /\ next_recency' = next_recency + 1
             /\ UNCHANGED estimated_retained_reference_bytes
    BY <1>2, <2>1 DEF RestoreCheckpoint
  <2>3. CASE Fails
    BY <1>1, <2>3, CacheUntouched DEF Fails, Few
  <2>4. CASE ~ Fails
    <3>1. e \in entries
      BY DEF LatestBefore
    <3>2. PICK checkpoint : checkpoint = e.checkpoint
      OBVIOUS
    <3>3. Few(decoder')
      <4>1. checkpoint.references \in 0 .. MaxReferences
        BY <1>1, <3>1, <3>2 DEF CacheTyped, EntryTyped
      <4>2. PICK d : d = decoder
        OBVIOUS
      <4>3. Restore(d, checkpoint, target).references = checkpoint.references
        BY RestoreTakesReferences
      <4> QED BY <2>2, <2>4, <3>2, <4>1, <4>2, <4>3 DEF Few
    <3>4. PICK used : used = [e EXCEPT !.last_used = next_recency]
      OBVIOUS
    <3> QED BY <1>1, <2>2, <2>4, <3>1, <3>3, <3>4, UseAccounted
  <2> QED BY <2>3, <2>4
<1>5. CASE plan.source = "Keyframe"
  <2>1. UNCHANGED cacheVars /\ decoder' = FlushForSeek(decoder, target)
    BY <1>2, <1>5 DEF Execute, RestartAtKeyframe
  <2>2. Few(decoder')
    <3>1. PICK d : d = decoder
      OBVIOUS
    <3> QED BY <2>1, <3>1, StartsWithFew
  <2> QED BY <1>1, <2>1, <2>2, CacheUntouched
<1> QED BY <1>3, <1>4, <1>5

LEMMA PreviewAccounted ==
  ASSUME Accounted, NEW target, Preview(target)
  PROVE  CacheTyped' /\ CacheAccounted'
<1>1. UNCHANGED cacheVars /\ (decoder' = Flush(decoder) \/ decoder' = decoder)
  BY DEF Preview, Fails
<1>2. Few(decoder')
  <2>1. PICK d : d = decoder
    OBVIOUS
  <2>2. Few(Flush(d))
    BY StartsWithFew
  <2> QED BY <1>1, <2>1, <2>2 DEF Accounted, CacheTyped, Few
<1> QED BY <1>1, <1>2, CacheUntouched DEF Accounted

LEMMA CaptureAccounted ==
  ASSUME Accounted, CaptureCheckpoint
  PROVE  CacheTyped' /\ CacheAccounted'
<1>1. CacheTyped /\ CacheAccounted /\ IsDecoder(decoder) /\ Few(decoder)
  BY DEF Accounted, CacheTyped, Few, Pairing, Shapes
<1>2. CASE ~ FarFromLast
  <2>1. decoder' = decoder /\ UNCHANGED cacheVars
    BY <1>2 DEF CaptureCheckpoint
  <2> QED BY <1>1, <2>1, CacheUntouched DEF Few
<1>3. CASE FarFromLast
  <2> DEFINE finished == IF decoder.configured /\ ~ decoder.draining
                         THEN Finish(decoder) ELSE decoder
  <2>1. /\ decoder' = finished
        /\ Insert(Checkpoint(finished), cursor) \/ UNCHANGED cacheVars
    BY <1>3 DEF CaptureCheckpoint
  <2>2. Few(finished)
    BY <1>1, FinishKeepsFew
  <2> HIDE DEF finished
  <2>3. CASE UNCHANGED cacheVars
    BY <1>1, <2>1, <2>2, <2>3, CacheUntouched
  <2>4. CASE Insert(Checkpoint(finished), cursor)
    <3>1. PICK checkpoint : checkpoint = Checkpoint(finished)
      OBVIOUS
    <3>2. checkpoint.references \in 0 .. MaxReferences
      BY <2>2, <3>1 DEF Checkpoint, Few
    <3>3. PICK position : position = cursor
      OBVIOUS
    <3>4. Insert(checkpoint, position) /\ Few(decoder')
      BY <2>1, <2>2, <2>4, <3>1, <3>3
    <3> QED BY <1>1, <3>2, <3>4, InsertAccounted
  <2> QED BY <2>1, <2>3, <2>4
<1> QED BY <1>2, <1>3

LEMMA LoopAccounted ==
  ASSUME Accounted, Feed \/ Receive \/ Drain
  PROVE  CacheTyped' /\ CacheAccounted'
<1>1. /\ CacheTyped /\ CacheAccounted /\ IsDecoder(decoder) /\ Few(decoder)
      /\ discontinuous \in BOOLEAN /\ UNCHANGED cacheVars
  BY DEF Accounted, CacheTyped, Few, Pairing, Shapes, Feed, Receive, Drain
<1>2. CASE Feed
  <2>1. PICK discontinuity \in BOOLEAN : discontinuity = discontinuous
    BY <1>1
  <2>2. PICK n : n = NextSample
    OBVIOUS
  <2>3. decoder' = decoder \/ decoder' = Decode(decoder, n, discontinuity)
    BY <1>2, <2>1, <2>2 DEF Feed
  <2>4. PICK d : d = decoder
    OBVIOUS
  <2>5. Few(Decode(d, n, discontinuity))
    BY <1>1, <2>4, DecodeKeepsFew
  <2> QED BY <1>1, <2>3, <2>4, <2>5, CacheUntouched DEF Few
<1>3. CASE Receive
  <2>1. PICK outputs : decoder' = [decoder EXCEPT !.outputs = outputs]
    BY <1>3 DEF Receive
  <2>2. Few(decoder')
    BY <1>1, <2>1 DEF IsDecoder, Few
  <2> QED BY <1>1, <2>2, CacheUntouched
<1>4. CASE Drain
  <2> DEFINE drained == DrainReorder(Finish(decoder))
  <2>1. decoder' = [drained EXCEPT !.draining = TRUE]
    BY <1>4 DEF Drain
  <2>2. IsDecoder(drained) /\ drained.references = Finish(decoder).references
    <3>1. IsDecoder(Finish(decoder))
      BY <1>1, FinishKeeps
    <3> QED BY <3>1, DrainReorderKeeps, QueueLeavesReferences
  <2>3. Few(Finish(decoder))
    BY <1>1, FinishKeepsFew
  <2> HIDE DEF drained
  <2>4. Few(decoder')
    BY <2>1, <2>2, <2>3 DEF IsDecoder, Few
  <2> QED BY <1>1, <2>4, CacheUntouched
<1> QED BY <1>2, <1>3, <1>4

LEMMA AccountedStep ==
  ASSUME Accounted, [Next]_vars
  PROVE  Accounted'
<1> SUFFICES CacheTyped' /\ CacheAccounted'
  BY PairingStep DEF Accounted
<1>1. CASE UNCHANGED vars
  BY <1>1, CacheUntouched DEF vars, Accounted, CacheTyped, Few
<1>2. ASSUME NEW target \in Targets, NEW allow \in BOOLEAN, Execute(Plan(target, allow))
      PROVE  CacheTyped' /\ CacheAccounted'
  <2>1. PICK plan : plan = Plan(target, allow)
    OBVIOUS
  <2>2. plan.source \in {"ForwardRetarget", "Checkpoint", "Keyframe"}
    BY <2>1, PlanResumes
  <2> QED BY <1>2, <2>1, <2>2, ExecuteAccounted
<1>3. ASSUME Fails
      PROVE  CacheTyped' /\ CacheAccounted'
  BY <1>3, CacheUntouched DEF Fails, Accounted, CacheTyped, Few
<1>4. ASSUME NEW target \in Targets, NEW allow \in BOOLEAN, BeginExactSeek(target, allow)
      PROVE  CacheTyped' /\ CacheAccounted'
  BY <1>2, <1>3, <1>4 DEF BeginExactSeek
<1>5. ASSUME NEW target \in Targets, NEW allow \in BOOLEAN, NEW budget \in Budgets,
             BeginInteractiveSeek(target, allow, budget)
      PROVE  CacheTyped' /\ CacheAccounted'
  BY <1>2, <1>3, <1>5, PreviewAccounted DEF BeginInteractiveSeek
<1>6. ASSUME NEW target \in Targets, BeginNearestPreview(target)
      PROVE  CacheTyped' /\ CacheAccounted'
  BY <1>6, PreviewAccounted DEF BeginNearestPreview
<1>7. CASE ClearController
  <2>1. /\ entries' = {} /\ estimated_retained_reference_bytes' = 0 /\ next_recency' = 0
        /\ decoder' = decoder
    BY <1>7 DEF ClearController
  <2>2. Cardinality({}) = 0 /\ IsFiniteSet({}) /\ Bytes({}) = 0
    <3>1. Units({}) = {} /\ Bytes({}) = Cardinality(Units({}))
      BY FS_EmptySet, UnitsFinite DEF Units
    <3> QED BY <3>1, FS_EmptySet
  <2>3. CacheTyped'
    BY <2>1, <2>2 DEF Accounted, CacheTyped
  <2>4. CacheAccounted'
    BY <2>1, <2>2, LimitsType DEF CacheAccounted
  <2> QED BY <2>3, <2>4
<1>8. CASE CaptureCheckpoint
  BY <1>8, CaptureAccounted
<1>9. CASE Feed \/ Receive \/ Drain
  BY <1>9, LoopAccounted
<1>10. ASSUME NEW succeeds \in BOOLEAN, NEW format \in {1, 2}, Configure(succeeds, format)
       PROVE  CacheTyped' /\ CacheAccounted'
  <2>1. decoder' = NewDecoder(succeeds, format) /\ UNCHANGED cacheVars
    BY <1>10 DEF Configure
  <2>2. Few(decoder')
    BY <2>1, StartsWithFew
  <2> QED BY <2>1, <2>2, CacheUntouched DEF Accounted
<1> QED BY <1>1, <1>4, <1>5, <1>6, <1>7, <1>8, <1>9, <1>10 DEF Next

\* The cache is charged what its checkpoints keep, stays within the number and
\* the bytes it is given, and has one entry for a time: so insert, latest_before
\* and clear of H264SeekCheckpointCache keep their account.
THEOREM AlwaysAccounted == Spec => []CacheAccounted
<1>1. Accounted => CacheAccounted
  BY DEF Accounted
<1>2. Accounted /\ [Next]_vars => Accounted'
  BY AccountedStep
<1> QED BY <1>1, <1>2, AccountedInit, PTL DEF Spec

----------
(* The first frame after a seek *)

\* A decoder that has accepted nothing.
Blank(d) ==
  /\ d.current = NoSample /\ d.maximum_completed_pts = NoTime
  /\ d.reorder = {} /\ d.outputs = << >>

IsPicture(p) == p = [sample |-> p.sample, shown |-> p.shown]

\* Pictures of samples before the next one, each once, none presented after
\* the time completed.
Pictures(pictures, next, time) ==
  /\ IsFiniteSet(pictures)
  /\ \A p \in pictures :
       /\ IsPicture(p) /\ p.shown \in BOOLEAN
       /\ p.sample \in Numbers /\ p.sample < next /\ Pts[p.sample] <= time
  /\ \A p, q \in pictures : p.sample = q.sample => p = q

Stored(pictures, next, time) ==
  Pictures(pictures, next, time) /\ Cardinality(pictures) <= ReorderDepth

\* All samples before the next one, but that in progress, are presented no
\* later than the time completed.
Completed(current, next, time) ==
  \A n \in Numbers : n < next /\ n # current => Pts[n] <= time

InOrder(samples) ==
  /\ samples \in Seq(Numbers)
  /\ \A i, j \in DOMAIN samples : i < j => Pts[samples[i]] < Pts[samples[j]]

Holds(samples, n) == \E i \in DOMAIN samples : samples[i] = n

Pictured(pictures, n) == \E p \in pictures : p.sample = n

Waiting(d, n) == n = d.current \/ Pictured(d.reorder, n)

\* What a decoder has queued is in order and before all that is still to come.
InPlace(d, next) ==
  /\ InOrder(d.outputs)
  /\ \A m, n \in Numbers :
       Holds(d.outputs, m) /\ (Waiting(d, n) \/ n >= next) => Pts[m] < Pts[n]

Ordered(d, next) ==
  /\ d.current # NoSample =>
       /\ d.current \in Numbers /\ next = d.current + 1
       /\ ~ Pictured(d.reorder, d.current)
  /\ d.maximum_completed_pts = NoTime =>
       /\ d.reorder = {}
       /\ IF d.current = NoSample THEN d.expects = NoSample ELSE d.current \in SyncSamples
  /\ d.maximum_completed_pts # NoTime => Completed(d.current, next, d.maximum_completed_pts)
  /\ d.maximum_completed_pts \in Int
  /\ Stored(d.reorder, next, d.maximum_completed_pts)
  /\ InPlace(d, next)
  /\ d.draining => d.current = NoSample /\ d.reorder = {} /\ next = AtEnd
  /\ d.expects = NoSample => Blank(d)

EntryOrdered(c) ==
  /\ c.resume_time \in Int /\ c.resume_time # NoTime /\ c.expects # NoSample
  /\ Completed(NoSample, c.expects, c.resume_time)
  /\ Stored(c.reorder, c.expects, c.resume_time)

\* Nothing queued is before the target, and only what is stays hidden.
Shows(d, target) ==
  /\ \A n \in Numbers : Holds(d.outputs, n) => Pts[n] >= target
  /\ \A p \in d.reorder : ~ p.shown => Pts[p.sample] < target

\* No sample at or after the target is lost.
Keeps(d, next, target) ==
  \A n \in Numbers :
    n < next /\ Pts[n] >= target => Waiting(d, n) \/ Holds(d.outputs, n)

\* The selected sample of a plan is the first at or after its target, and the
\* required one the last in decode order presented no later.
Later(target) == {n \in Numbers : Pts[n] >= target}

Required(n, m) ==
  /\ Pts[m] <= Pts[n]
  /\ \A k \in Numbers : Pts[k] <= Pts[n] => k <= m

Planned(plan) ==
  /\ plan.target \in Targets /\ plan.resume \in 1 .. AtEnd
  /\ plan.selected = (IF Later(plan.target) = {} THEN NoSample ELSE First(Later(plan.target)))
  /\ plan.selected = NoSample => plan.estimate = AtEnd - plan.resume
  /\ plan.selected # NoSample =>
       \E m \in Numbers :
         /\ Required(plan.selected, m)
         /\ plan.estimate = (IF m - plan.resume + 1 > 0 THEN m - plan.resume + 1 ELSE 0)

\* What was answered, after all it had to wait for, or what can still be.
Answered(n, next) ==
  /\ n = goal.selected
  /\ \A k \in Numbers : Pts[k] <= Pts[n] => k < next

Answering(d, next) ==
  /\ Planned(goal)
  /\ Shows(d, goal.target)
  /\ answer = NoSample => Keeps(d, next, goal.target)
  /\ answer # NoSample => Answered(answer, next)
  /\ fed \in Nat /\ fed \in {next - goal.resume, next - goal.resume + 1}

SeekInv ==
  /\ Ordered(decoder, NextSample)
  /\ ~ decoder.configured => decoder.expects = NoSample
  /\ \A e \in entries : EntryOrdered(e.checkpoint)
  /\ decoder.output_start_time = goal.target
  /\ goal # NoGoal => Answering(decoder, NextSample)

----------
(* Sets in ascending order *)

Before(key, m, n) == key[m] < key[n] \/ (key[m] = key[n] /\ m < n)

Keyed(set, key) ==
  IsFiniteSet(set) /\ \A n \in set : n \in Int /\ key[n] \in Int

IsLeast(m, set, key) == m \in set /\ \A n \in set : n = m \/ Before(key, m, n)

InLine(s, set, key) ==
  /\ s \in Bijection(1 .. Cardinality(set), set)
  /\ \A i, j \in DOMAIN s : i < j => Before(key, s[i], s[j])

LEMMA KeyedSubset ==
  ASSUME NEW set, NEW key, Keyed(set, key), NEW some \in SUBSET set
  PROVE  Keyed(some, key) /\ Cardinality(some) \in Nat
<1>1. IsFiniteSet(some)
  BY FS_Subset DEF Keyed
<1> QED BY <1>1, FS_CardinalityType DEF Keyed

\* A set with fewer members has a least one unless it is empty, and so has
\* one with one member more.
LEMMA LeastExists ==
  ASSUME NEW set, NEW key, Keyed(set, key), set # {}
  PROVE  \E m : IsLeast(m, set, key)
<1> DEFINE Bad == {k \in Nat : \E S \in SUBSET set :
                     S # {} /\ Cardinality(S) = k /\ ~ \E m : IsLeast(m, S, key)}
<1>1. Bad = {}
  <2>1. SUFFICES ASSUME Bad # {} PROVE FALSE
    OBVIOUS
  <2>2. PICK k \in Bad : \A j \in Bad : k <= j
    BY <2>1, Minimum
  <2>3. PICK S \in SUBSET set : S # {} /\ Cardinality(S) = k /\ ~ \E m : IsLeast(m, S, key)
    BY <2>2
  <2>4. PICK x : x \in S
    BY <2>3
  <2>5. PICK rest : rest = S \ {x}
    OBVIOUS
  <2>6. Keyed(S, key) /\ k \in Nat
    BY <2>2, KeyedSubset
  <2>7. Cardinality(rest) = k - 1 /\ IsFiniteSet(rest)
    BY <2>3, <2>4, <2>5, <2>6, FS_RemoveElement DEF Keyed
  <2>8. CASE rest = {}
    <3>1. S = {x}
      BY <2>4, <2>5, <2>8
    <3>2. IsLeast(x, S, key)
      BY <3>1 DEF IsLeast
    <3> QED BY <2>3, <3>2
  <2>9. CASE rest # {}
    <3>1. k - 1 \in Nat /\ k - 1 < k
      <4>1. Cardinality(rest) \in Nat
        BY <2>7, FS_CardinalityType
      <4> QED BY <2>6, <2>7, <4>1
    <3>2. k - 1 \notin Bad
      BY <2>2, <2>6, <3>1
    <3>3. rest \in SUBSET set
      BY <2>5
    <3>4. PICK m : IsLeast(m, rest, key)
      BY <2>7, <2>9, <3>1, <3>2, <3>3
    <3>5. \A n \in S : n \in Int /\ key[n] \in Int /\ (n = x \/ n \in rest)
      BY <2>5, <2>6 DEF Keyed
    <3>6. m \in rest /\ m \in S /\ \A n \in rest : n = m \/ Before(key, m, n)
      BY <2>5, <3>4 DEF IsLeast
    <3>7. CASE Before(key, m, x)
      <4>1. IsLeast(m, S, key)
        BY <3>5, <3>6, <3>7 DEF IsLeast
      <4> QED BY <2>3, <4>1
    <3>8. CASE ~ Before(key, m, x)
      <4>1. ASSUME NEW n \in S PROVE n = x \/ Before(key, x, n)
        BY <2>4, <3>5, <3>6, <3>8 DEF Before
      <4>2. IsLeast(x, S, key)
        BY <2>4, <4>1 DEF IsLeast
      <4> QED BY <2>3, <4>2
    <3> QED BY <3>7, <3>8
  <2> QED BY <2>8, <2>9
<1>2. Cardinality(set) \in Nat /\ set \in SUBSET set
  BY KeyedSubset
<1> QED BY <1>1, <1>2

\* The line of a set is its least member and then the line of the others.
LEMMA LineExists ==
  ASSUME NEW set, NEW key, Keyed(set, key)
  PROVE  \E s : InLine(s, set, key)
<1> DEFINE Bad == {k \in Nat : \E S \in SUBSET set :
                     Cardinality(S) = k /\ ~ \E s : InLine(s, S, key)}
<1>1. Bad = {}
  <2>1. SUFFICES ASSUME Bad # {} PROVE FALSE
    OBVIOUS
  <2>2. PICK k \in Bad : \A j \in Bad : k <= j
    BY <2>1, Minimum
  <2>3. PICK S \in SUBSET set : Cardinality(S) = k /\ ~ \E s : InLine(s, S, key)
    BY <2>2
  <2>4. Keyed(S, key) /\ k \in Nat
    BY <2>2, KeyedSubset
  <2>5. CASE S = {}
    <3>1. k = 0
      BY <2>3, <2>5, FS_EmptySet
    <3> DEFINE s == [i \in 1 .. 0 |-> 0]
    <3>2. s \in Bijection(1 .. 0, {})
      BY DEF Bijection, Injection, Surjection, IsInjective
    <3>3. InLine(s, S, key)
      BY <2>3, <2>5, <3>1, <3>2 DEF InLine
    <3> QED BY <2>3, <3>3
  <2>6. CASE S # {}
    <3>1. PICK m : IsLeast(m, S, key)
      BY <2>4, <2>6, LeastExists
    <3>2. PICK rest : rest = S \ {m}
      OBVIOUS
    <3>3. m \in S /\ \A n \in rest : n \in S /\ n # m /\ Before(key, m, n)
      BY <3>1, <3>2 DEF IsLeast
    <3>4. Cardinality(rest) = k - 1 /\ IsFiniteSet(rest)
      BY <2>3, <2>4, <3>2, <3>3, FS_RemoveElement DEF Keyed
    <3>5. k - 1 \in Nat /\ k - 1 < k
      <4>1. Cardinality(rest) \in Nat
        BY <3>4, FS_CardinalityType
      <4> QED BY <2>4, <3>4, <4>1
    <3>6. k - 1 \notin Bad
      BY <2>2, <2>4, <3>5
    <3>7. rest \in SUBSET set
      BY <3>2
    <3>8. PICK t : InLine(t, rest, key)
      BY <3>4, <3>5, <3>6, <3>7
    <3>9. /\ t \in [1 .. k - 1 -> rest] /\ \A a, b \in 1 .. k - 1 : t[a] = t[b] => a = b
          /\ \A n \in rest : \E a \in 1 .. k - 1 : t[a] = n
          /\ \A i, j \in 1 .. k - 1 : i < j => Before(key, t[i], t[j])
      BY <3>4, <3>8 DEF InLine, Bijection, Injection, Surjection, IsInjective
    <3> DEFINE s == [i \in 1 .. k |-> IF i = 1 THEN m ELSE t[i - 1]]
    <3>10. \A i \in 1 .. k : i = 1 \/ i - 1 \in 1 .. k - 1
      BY <3>5
    <3>11. s \in [1 .. k -> S]
      BY <3>3, <3>9, <3>10
    <3>12. \A a, b \in 1 .. k : s[a] = s[b] => a = b
      <4>1. SUFFICES ASSUME NEW a \in 1 .. k, NEW b \in 1 .. k, s[a] = s[b] PROVE a = b
        OBVIOUS
      <4>2. CASE a = 1 \/ b = 1
        BY <3>3, <3>9, <3>10, <4>1, <4>2
      <4>3. CASE a # 1 /\ b # 1
        <5>1. a - 1 = b - 1
          BY <3>9, <3>10, <4>1, <4>3
        <5> QED BY <5>1
      <4> QED BY <4>2, <4>3
    <3>13. \A n \in S : \E a \in 1 .. k : s[a] = n
      <4>1. SUFFICES ASSUME NEW n \in S PROVE \E a \in 1 .. k : s[a] = n
        OBVIOUS
      <4>2. CASE n = m
        <5>1. 1 \in 1 .. k /\ s[1] = m
          BY <3>5
        <5> QED BY <4>2, <5>1
      <4>3. CASE n # m
        <5>1. PICK a \in 1 .. k - 1 : t[a] = n
          BY <3>2, <3>9, <4>3
        <5>2. a + 1 \in 1 .. k /\ a + 1 # 1 /\ (a + 1) - 1 = a
          BY <3>5
        <5>3. s[a + 1] = n
          BY <5>1, <5>2
        <5> QED BY <5>2, <5>3
      <4> QED BY <4>2, <4>3
    <3>14. \A i, j \in 1 .. k : i < j => Before(key, s[i], s[j])
      <4>1. SUFFICES ASSUME NEW i \in 1 .. k, NEW j \in 1 .. k, i < j
                     PROVE  Before(key, s[i], s[j])
        OBVIOUS
      <4>2. j # 1 /\ j - 1 \in 1 .. k - 1 /\ s[j] = t[j - 1]
        BY <3>5, <4>1
      <4>3. CASE i = 1
        BY <3>3, <3>9, <4>2, <4>3
      <4>4. CASE i # 1
        <5>1. i - 1 \in 1 .. k - 1 /\ s[i] = t[i - 1] /\ i - 1 < j - 1
          BY <3>10, <4>1, <4>4
        <5> QED BY <3>9, <4>2, <5>1
      <4> QED BY <4>3, <4>4
    <3>15. InLine(s, S, key)
      <4>1. DOMAIN s = 1 .. k
        OBVIOUS
      <4> HIDE DEF s
      <4> QED BY <2>3, <3>11, <3>12, <3>13, <3>14, <4>1
             DEF InLine, Bijection, Injection, Surjection, IsInjective
    <3> QED BY <2>3, <3>15
  <2> QED BY <2>5, <2>6
<1>2. Cardinality(set) \in Nat /\ set \in SUBSET set
  BY KeyedSubset
<1> QED BY <1>1, <1>2

\* What Ascending returns: each member once, in the order of the keys.
LEMMA AscendingInLine ==
  ASSUME NEW set, NEW key, Keyed(set, key), NEW s, s = Ascending(set, key)
  PROVE  /\ Cardinality(set) \in Nat /\ s \in [1 .. Cardinality(set) -> set]
         /\ \A n \in set : \E i \in 1 .. Cardinality(set) : s[i] = n
         /\ \A i, j \in 1 .. Cardinality(set) : i < j => Before(key, s[i], s[j])
<1> DEFINE Sorts(t) == \A i, j \in DOMAIN t :
             i < j => key[t[i]] < key[t[j]] \/ (key[t[i]] = key[t[j]] /\ t[i] < t[j])
<1>1. PICK lines : lines = Bijection(1 .. Cardinality(set), set)
  OBVIOUS
<1>2. s \in Bijection(1 .. Cardinality(set), set) /\ Sorts(s)
  <2>1. s = CHOOSE t \in lines : Sorts(t)
    BY <1>1 DEF Ascending
  <2>2. \E t \in lines : Sorts(t)
    BY <1>1, LineExists DEF InLine, Before
  <2> HIDE DEF Sorts
  <2>3. s \in lines /\ Sorts(s)
    BY <2>1, <2>2
  <2> QED BY <1>1, <2>3
<1>3. Cardinality(set) \in Nat
  BY KeyedSubset
<1> QED BY <1>2, <1>3 DEF Bijection, Injection, Surjection, Before

----------
(* Samples in presentation order *)

LEMMA NumbersFinite ==
  /\ IsFiniteSet(Numbers) /\ Numbers \subseteq Nat
  /\ \A n \in Numbers : n \in Int /\ Pts[n] \in Int /\ n >= 1 /\ n < AtEnd
<1>1. 1 \in Int /\ Len(Samples) \in Int /\ Numbers = 1 .. Len(Samples)
  BY LengthType DEF Numbers
<1>2. IsFiniteSet(Numbers)
  BY <1>1, FS_Interval
<1> QED BY <1>1, <1>2, LengthType

LEMMA EmptyInOrder == InOrder(<< >>) /\ \A n : ~ Holds(<< >>, n)
<1>1. << >> \in Seq(Numbers) /\ DOMAIN << >> = {}
  BY EmptySeq, LenProperties
<1> QED BY <1>1 DEF InOrder, Holds

LEMMA HeldAreNumbers ==
  ASSUME NEW samples, InOrder(samples), NEW n, Holds(samples, n)
  PROVE  n \in Numbers
BY LenProperties DEF InOrder, Holds

LEMMA PresentedInOrder ==
  ASSUME ConformingTrack, NEW set \in SUBSET Numbers
  PROVE  /\ InOrder(Presented(set))
         /\ \A n : Holds(Presented(set), n) <=> n \in set
<1>1. PICK s : s = Ascending(set, Pts)
  OBVIOUS
<1>2. Keyed(set, Pts)
  BY NumbersFinite, FS_Subset DEF Keyed
<1>3. PICK k : k = Cardinality(set)
  OBVIOUS
<1>4. /\ k \in Nat /\ s \in [1 .. k -> set] /\ DOMAIN s = 1 .. k
      /\ \A n \in set : \E i \in 1 .. k : s[i] = n
      /\ \A i, j \in 1 .. k : i < j => Before(Pts, s[i], s[j])
  BY <1>1, <1>2, <1>3, AscendingInLine
<1>5. s \in Seq(Numbers)
  <2>1. s \in [1 .. k -> Numbers]
    BY <1>4
  <2> QED BY <1>4, <2>1, SeqDef
<1>6. ASSUME NEW i \in 1 .. k, NEW j \in 1 .. k, i < j PROVE Pts[s[i]] < Pts[s[j]]
  <2>1. s[i] \in Numbers /\ s[j] \in Numbers /\ Before(Pts, s[i], s[j])
    BY <1>4, <1>6
  <2>2. CASE Pts[s[i]] = Pts[s[j]] /\ s[i] < s[j]
    <3>1. s[i] # s[j]
      <4>1. s[i] \in Int /\ s[j] \in Int
        BY <2>1, NumbersFinite
      <4> QED BY <2>2, <4>1
    <3> QED BY <2>1, <2>2, <3>1 DEF ConformingTrack
  <2> QED BY <2>1, <2>2 DEF Before
<1>7. InOrder(s)
  BY <1>4, <1>5, <1>6 DEF InOrder
<1>8. \A n : Holds(s, n) <=> n \in set
  BY <1>4 DEF Holds
<1> QED BY <1>1, <1>7, <1>8 DEF Presented

LEMMA NotBeforeInOrder ==
  ASSUME NEW samples, InOrder(samples), NEW target
  PROVE  /\ InOrder(NotBefore(target, samples))
         /\ \A n : Holds(NotBefore(target, samples), n) <=> Holds(samples, n) /\ Pts[n] >= target
<1>1. PICK kept : kept = {i \in DOMAIN samples : Pts[samples[i]] >= target}
  OBVIOUS
<1>2. PICK key : key = [i \in kept |-> i]
  OBVIOUS
<1>3. PICK place : place = Ascending(kept, key)
  OBVIOUS
<1>4. PICK k : k = Cardinality(kept)
  OBVIOUS
<1>5. PICK s : s = [i \in 1 .. k |-> samples[place[i]]]
  OBVIOUS
<1>6. s = NotBefore(target, samples)
  BY <1>1, <1>2, <1>3, <1>4, <1>5 DEF NotBefore
<1>7. /\ Len(samples) \in Nat /\ DOMAIN samples = 1 .. Len(samples)
      /\ \A i \in DOMAIN samples : samples[i] \in Numbers
      /\ \A i, j \in DOMAIN samples : i < j => Pts[samples[i]] < Pts[samples[j]]
  BY LenProperties, ElementOfSeq DEF InOrder
<1>8. Keyed(kept, key)
  <2>1. 1 \in Int /\ Len(samples) \in Int /\ kept \in SUBSET (1 .. Len(samples))
    BY <1>1, <1>7
  <2>2. IsFiniteSet(1 .. Len(samples))
    BY <2>1, FS_Interval
  <2>3. IsFiniteSet(kept)
    BY <2>1, <2>2, FS_Subset
  <2> QED BY <1>2, <2>1, <2>3 DEF Keyed
<1>9. /\ k \in Nat /\ place \in [1 .. k -> kept]
      /\ \A n \in kept : \E i \in 1 .. k : place[i] = n
      /\ \A i, j \in 1 .. k : i < j => Before(key, place[i], place[j])
  BY <1>3, <1>4, <1>8, AscendingInLine
<1>10. \A i \in 1 .. k : /\ place[i] \in kept /\ place[i] \in DOMAIN samples
                         /\ s[i] = samples[place[i]] /\ s[i] \in Numbers
  BY <1>1, <1>5, <1>7, <1>9
<1>11. s \in Seq(Numbers) /\ DOMAIN s = 1 .. k
  <2>1. DOMAIN s = 1 .. k /\ s \in [1 .. k -> Numbers]
    BY <1>5, <1>10
  <2> QED BY <1>9, <2>1, SeqDef
<1>12. ASSUME NEW i \in 1 .. k, NEW j \in 1 .. k, i < j PROVE Pts[s[i]] < Pts[s[j]]
  <2>1. Before(key, place[i], place[j]) /\ key[place[i]] = place[i] /\ key[place[j]] = place[j]
    BY <1>2, <1>9, <1>10, <1>12
  <2>2. place[i] < place[j]
    BY <1>7, <1>10, <2>1 DEF Before
  <2> QED BY <1>7, <1>10, <2>2
<1>13. InOrder(s)
  BY <1>11, <1>12 DEF InOrder
<1>14. ASSUME NEW n PROVE Holds(s, n) <=> Holds(samples, n) /\ Pts[n] >= target
  <2>1. ASSUME Holds(s, n) PROVE Holds(samples, n) /\ Pts[n] >= target
    BY <1>1, <1>10, <1>11, <2>1 DEF Holds
  <2>2. ASSUME Holds(samples, n), Pts[n] >= target PROVE Holds(s, n)
    <3>1. PICK i \in kept : samples[i] = n
      BY <1>1, <2>2 DEF Holds
    <3> QED BY <1>9, <1>10, <1>11, <3>1 DEF Holds
  <2> QED BY <2>1, <2>2
<1> QED BY <1>6, <1>13, <1>14

LEMMA JoinedInOrder ==
  ASSUME NEW s, NEW t, InOrder(s), InOrder(t),
         \A m, n \in Numbers : Holds(s, m) /\ Holds(t, n) => Pts[m] < Pts[n]
  PROVE  /\ InOrder(s \o t)
         /\ \A n : Holds(s \o t, n) <=> Holds(s, n) \/ Holds(t, n)
<1>1. PICK u : u = s \o t
  OBVIOUS
<1>2. PICK k, l \in Nat : k = Len(s) /\ l = Len(t)
  BY LenProperties DEF InOrder
<1>3. /\ DOMAIN s = 1 .. k /\ DOMAIN t = 1 .. l
      /\ \A i \in 1 .. k : s[i] \in Numbers
      /\ \A i \in 1 .. l : t[i] \in Numbers
  BY <1>2, LenProperties, ElementOfSeq DEF InOrder
<1>4. /\ u \in Seq(Numbers) /\ DOMAIN u = 1 .. k + l
      /\ \A i \in 1 .. k + l : u[i] = IF i <= k THEN s[i] ELSE t[i - k]
  <2>1. /\ u \in Seq(Numbers) /\ Len(u) = k + l
        /\ \A i \in 1 .. k + l : u[i] = IF i <= k THEN s[i] ELSE t[i - k]
    BY <1>1, <1>2, ConcatProperties DEF InOrder
  <2> QED BY <2>1, LenProperties
<1>5. \A n \in 1 .. k + l : (n <= k /\ n \in 1 .. k) \/ (n > k /\ n - k \in 1 .. l)
  BY <1>2
<1>6. \A n : Holds(u, n) <=> Holds(s, n) \/ Holds(t, n)
  <2>1. ASSUME NEW n, Holds(u, n) PROVE Holds(s, n) \/ Holds(t, n)
    <3>1. PICK i \in 1 .. k + l : u[i] = n
      BY <1>4, <2>1 DEF Holds
    <3>2. CASE i <= k
      <4>1. i \in 1 .. k /\ s[i] = n
        BY <1>4, <1>5, <3>1, <3>2
      <4> QED BY <1>3, <4>1 DEF Holds
    <3>3. CASE ~ (i <= k)
      <4>1. i - k \in 1 .. l /\ t[i - k] = n
        BY <1>4, <1>5, <3>1, <3>3
      <4> QED BY <1>3, <4>1 DEF Holds
    <3> QED BY <3>2, <3>3
  <2>2. ASSUME NEW n, Holds(s, n) PROVE Holds(u, n)
    <3>1. PICK i \in 1 .. k : s[i] = n
      BY <1>3, <2>2 DEF Holds
    <3>2. i \in 1 .. k + l /\ i <= k
      BY <1>2
    <3> QED BY <1>4, <3>1, <3>2 DEF Holds
  <2>3. ASSUME NEW n, Holds(t, n) PROVE Holds(u, n)
    <3>1. PICK i \in 1 .. l : t[i] = n
      BY <1>3, <2>3 DEF Holds
    <3>2. i + k \in 1 .. k + l /\ ~ (i + k <= k) /\ (i + k) - k = i
      BY <1>2
    <3>3. u[i + k] = n
      BY <1>4, <3>1, <3>2
    <3> QED BY <1>4, <3>2, <3>3 DEF Holds
  <2> QED BY <2>1, <2>2, <2>3
<1>7. ASSUME NEW i \in 1 .. k + l, NEW j \in 1 .. k + l, i < j PROVE Pts[u[i]] < Pts[u[j]]
  <2>1. CASE j <= k
    <3>1. i \in 1 .. k /\ j \in 1 .. k /\ u[i] = s[i] /\ u[j] = s[j]
      BY <1>2, <1>4, <1>5, <1>7, <2>1
    <3> QED BY <1>3, <1>7, <3>1 DEF InOrder
  <2>2. CASE i > k
    <3>1. i - k \in 1 .. l /\ j - k \in 1 .. l /\ i - k < j - k
          /\ u[i] = t[i - k] /\ u[j] = t[j - k]
      BY <1>2, <1>4, <1>5, <1>7, <2>2
    <3> QED BY <1>3, <3>1 DEF InOrder
  <2>3. CASE i <= k /\ j > k
    <3>1. i \in 1 .. k /\ j - k \in 1 .. l /\ u[i] = s[i] /\ u[j] = t[j - k]
      BY <1>2, <1>4, <1>5, <2>3
    <3>2. Holds(s, u[i]) /\ Holds(t, u[j]) /\ u[i] \in Numbers /\ u[j] \in Numbers
      BY <1>3, <3>1 DEF Holds
    <3> QED BY <3>2
  <2> QED BY <1>2, <2>1, <2>2, <2>3
<1>8. InOrder(u)
  BY <1>4, <1>7 DEF InOrder
<1> QED BY <1>1, <1>6, <1>8

\* The first one in order comes before the others.
LEMMA HeadInOrder ==
  ASSUME NEW s, InOrder(s), s # << >>
  PROVE  /\ Holds(s, Head(s)) /\ InOrder(Tail(s))
         /\ \A n : Holds(s, n) => n = Head(s) \/ Pts[Head(s)] < Pts[n]
         /\ \A n : Holds(Tail(s), n) => Holds(s, n)
<1>1. /\ s \in Seq(Numbers) /\ Len(s) \in Nat /\ DOMAIN s = 1 .. Len(s)
      /\ 1 \in DOMAIN s /\ Head(s) = s[1]
  <2>1. s \in Seq(Numbers) /\ Len(s) \in Nat \ {0} /\ DOMAIN s = 1 .. Len(s)
    BY LenProperties, EmptySeq DEF InOrder
  <2> QED BY <2>1
<1>2. PICK t : t = Tail(s)
  OBVIOUS
<1>3. t \in Seq(Numbers) /\ DOMAIN t = 1 .. Len(s) - 1 /\ \A i \in DOMAIN t : t[i] = s[i + 1]
  <2>1. t \in Seq(Numbers) /\ Len(t) = Len(s) - 1 /\ \A i \in 1 .. Len(t) : t[i] = s[i + 1]
    BY <1>1, <1>2, HeadTailProperties
  <2> QED BY <2>1, LenProperties
<1>4. \A i \in DOMAIN t : i + 1 \in DOMAIN s
  BY <1>1, <1>3
<1>5. InOrder(t)
  <2>1. ASSUME NEW i \in DOMAIN t, NEW j \in DOMAIN t, i < j PROVE Pts[t[i]] < Pts[t[j]]
    <3>1. i + 1 < j + 1
      BY <1>1, <1>3, <2>1
    <3> QED BY <1>3, <1>4, <3>1 DEF InOrder
  <2> QED BY <1>3, <2>1 DEF InOrder
<1>6. \A n : Holds(s, n) => n = Head(s) \/ Pts[Head(s)] < Pts[n]
  <2>1. ASSUME NEW i \in DOMAIN s, i # 1 PROVE Pts[s[1]] < Pts[s[i]]
    <3>1. 1 < i
      BY <1>1, <2>1
    <3> QED BY <1>1, <3>1 DEF InOrder
  <2> QED BY <1>1, <2>1 DEF Holds
<1>7. \A n : Holds(t, n) => Holds(s, n)
  BY <1>3, <1>4 DEF Holds
<1> QED BY <1>1, <1>2, <1>5, <1>6, <1>7 DEF Holds

----------
(* Pictures leave the reorder buffer *)

\* A sample has at most ReorderDepth earlier ones presented after it.
LEMMA DepthReached ==
  ASSUME ConformingTrack, NEW pictures, NEW next \in Int, NEW time,
         Pictures(pictures, next, time), Cardinality(pictures) > ReorderDepth,
         NEW n \in Numbers, n >= next
  PROVE  \E p \in pictures : ~ (Pts[p.sample] > Pts[n])
<1> SUFFICES ASSUME \A p \in pictures : Pts[p.sample] > Pts[n] PROVE FALSE
  OBVIOUS
<1>1. PICK later : later = {m \in Numbers : m < n /\ Pts[m] > Pts[n]}
  OBVIOUS
<1>2. IsFiniteSet(later) /\ Cardinality(later) <= ReorderDepth
  <2>1. later \in SUBSET Numbers
    BY <1>1
  <2> QED BY <1>1, <2>1, NumbersFinite, FS_Subset DEF ConformingTrack
<1>3. PICK f : f = [p \in pictures |-> p.sample]
  OBVIOUS
<1>4. \A p \in pictures : p.sample \in later
  <2>1. SUFFICES ASSUME NEW p \in pictures PROVE p.sample \in later
    OBVIOUS
  <2>2. p.sample \in Numbers /\ p.sample < next /\ Pts[p.sample] > Pts[n]
    BY <2>1 DEF Pictures
  <2>3. p.sample < n
    <3>1. PICK m \in Int : m = p.sample
      BY <2>2, NumbersFinite
    <3>2. m < next /\ n \in Int /\ n >= next
      BY <2>2, <3>1, NumbersFinite
    <3> QED BY <3>1, <3>2
  <2> QED BY <1>1, <2>2, <2>3
<1>5. f \in Injection(pictures, later)
  BY <1>3, <1>4 DEF Injection, IsInjective, Pictures
<1>6. Cardinality(pictures) <= Cardinality(later)
  BY <1>2, <1>5, FS_Injection
<1>7. Cardinality(pictures) \in Nat /\ Cardinality(later) \in Nat /\ ReorderDepth \in Nat
  BY <1>2, FS_CardinalityType, SeekAssumption DEF Pictures
<1> QED BY <1>2, <1>6, <1>7

\* What Queue makes of the pictures that leave: the fields it changes, and
\* what is queued then.
Revealed(d, pictures) == {p.sample : p \in {q \in pictures : q.shown /\ Materializes(d, q.sample)}}

LEMMA QueueAppends ==
  ASSUME ConformingTrack, NEW d, IsDecoder(d), NEW pictures \in SUBSET d.reorder,
         NEW next, NEW time, Pictures(d.reorder, next, time), InOrder(d.outputs),
         \A m, n \in Numbers : Holds(d.outputs, m) /\ Pictured(pictures, n) => Pts[m] < Pts[n],
         NEW q, q = Queue(d, pictures)
  PROVE  /\ IsDecoder(q) /\ SamePlace(q, d) /\ q.draining = d.draining
         /\ q.output_start_time = d.output_start_time
         /\ q.reorder = d.reorder \ pictures /\ InOrder(q.outputs)
         /\ \A n : Holds(q.outputs, n) <=> Holds(d.outputs, n) \/ n \in Revealed(d, pictures)
<1>1. PICK shown : shown = {p \in pictures : p.shown /\ Materializes(d, p.sample)}
  OBVIOUS
<1>2. PICK samples : samples = {p.sample : p \in shown}
  OBVIOUS
<1>3. PICK more : more = Presented(samples)
  OBVIOUS
<1>4. q = [d EXCEPT !.reorder = @ \ pictures, !.outputs = @ \o more]
  BY <1>1, <1>2, <1>3 DEF Queue
<1>5. /\ q.reorder = d.reorder \ pictures /\ q.outputs = d.outputs \o more
      /\ q.output_start_time = d.output_start_time
  BY <1>4 DEF IsDecoder
<1>6. IsDecoder(q) /\ SamePlace(q, d) /\ q.draining = d.draining
  BY QueueKeeps
<1>7. samples = Revealed(d, pictures)
  BY <1>1, <1>2 DEF Revealed
<1>8. samples \in SUBSET Numbers
  BY <1>1, <1>2 DEF Pictures
<1>9. InOrder(more) /\ \A n : Holds(more, n) <=> n \in samples
  BY <1>3, <1>8, PresentedInOrder
<1>10. \A m, n \in Numbers : Holds(d.outputs, m) /\ Holds(more, n) => Pts[m] < Pts[n]
  BY <1>1, <1>2, <1>9 DEF Pictured
<1>11. PICK before : before = d.outputs
  OBVIOUS
<1>12. InOrder(before \o more) /\ \A n : Holds(before \o more, n) <=> Holds(before, n) \/ Holds(more, n)
  BY <1>9, <1>10, <1>11, JoinedInOrder
<1> QED BY <1>5, <1>6, <1>7, <1>9, <1>11, <1>12

\* All pictures leave, when all that are to come are presented later.
LEMMA DrainOrdered ==
  ASSUME ConformingTrack, NEW d, IsDecoder(d), NEW next, Ordered(d, next),
         d.current = NoSample, NEW q, q = DrainReorder(d),
         \A m, n \in Numbers : Pictured(d.reorder, m) /\ n >= next => Pts[m] < Pts[n]
  PROVE  /\ IsDecoder(q) /\ SamePlace(q, d) /\ q.draining = d.draining
         /\ q.output_start_time = d.output_start_time
         /\ q.reorder = {} /\ Ordered(q, next)
         /\ \A target \in Nat : d.output_start_time = target =>
              /\ Shows(d, target) => Shows(q, target)
              /\ Shows(d, target) /\ Keeps(d, next, target) => Keeps(q, next, target)
<1>1. q = Queue(d, d.reorder)
  BY DEF DrainReorder
<1>2. /\ Pictures(d.reorder, next, d.maximum_completed_pts) /\ InOrder(d.outputs)
      /\ \A m, n \in Numbers : Holds(d.outputs, m) /\ Pictured(d.reorder, n) => Pts[m] < Pts[n]
  BY DEF Ordered, Stored, InPlace, Waiting
<1>3. /\ IsDecoder(q) /\ SamePlace(q, d) /\ q.draining = d.draining
      /\ q.output_start_time = d.output_start_time
      /\ q.reorder = {} /\ InOrder(q.outputs)
      /\ \A n : Holds(q.outputs, n) <=> Holds(d.outputs, n) \/ n \in Revealed(d, d.reorder)
  <2>1. PICK all : all = d.reorder
    OBVIOUS
  <2>2. all \in SUBSET d.reorder /\ q = Queue(d, all) /\ d.reorder \ all = {}
    BY <1>1, <2>1
  <2>3. \A m, n \in Numbers : Holds(d.outputs, m) /\ Pictured(all, n) => Pts[m] < Pts[n]
    BY <1>2, <2>1
  <2>4. PICK time : time = d.maximum_completed_pts
    OBVIOUS
  <2>5. /\ IsDecoder(q) /\ SamePlace(q, d) /\ q.draining = d.draining
        /\ q.output_start_time = d.output_start_time
        /\ q.reorder = d.reorder \ all /\ InOrder(q.outputs)
        /\ \A n : Holds(q.outputs, n) <=> Holds(d.outputs, n) \/ n \in Revealed(d, all)
    <3>1. Pictures(d.reorder, next, time) /\ InOrder(d.outputs)
      BY <1>2, <2>4
    <3> QED BY <2>2, <2>3, <3>1, QueueAppends
  <2> QED BY <2>1, <2>2, <2>5
<1>4. \A n \in Revealed(d, d.reorder) : n \in Numbers /\ Pictured(d.reorder, n) /\ Materializes(d, n)
  BY <1>2 DEF Revealed, Pictured, Pictures
<1>5. \A n : ~ Pictured({}, n)
  BY DEF Pictured
<1>6. Stored({}, next, d.maximum_completed_pts)
  BY FS_EmptySet, SeekAssumption DEF Stored, Pictures
<1>7. NoSample \notin Numbers
  BY NumbersFinite DEF NoSample
<1>8. InPlace(q, next)
  <2>1. SUFFICES ASSUME NEW m \in Numbers, NEW n \in Numbers, Holds(q.outputs, m),
                        Waiting(q, n) \/ n >= next
                 PROVE  Pts[m] < Pts[n]
    BY <1>3 DEF InPlace
  <2>2. n >= next
    BY <1>3, <1>5, <1>7, <2>1 DEF Waiting, SamePlace
  <2> QED BY <1>3, <1>4, <2>1, <2>2 DEF Ordered, InPlace
<1>9. d.expects = NoSample => Blank(q)
  <2>1. ASSUME d.expects = NoSample PROVE Blank(q)
    <3>1. Blank(d)
      BY <2>1 DEF Ordered
    <3>2. \A n : ~ Holds(q.outputs, n)
      <4>1. Revealed(d, d.reorder) = {}
        BY <3>1 DEF Blank, Revealed
      <4> QED BY <1>3, <3>1, <4>1, EmptyInOrder DEF Blank
    <3>3. q.outputs = << >>
      BY <1>3, <3>2, HeadInOrder
    <3> QED BY <1>3, <3>1, <3>3 DEF Blank, SamePlace
  <2> QED BY <2>1
<1>10. Ordered(q, next)
  BY <1>3, <1>5, <1>6, <1>8, <1>9 DEF Ordered, SamePlace
<1>11. ASSUME NEW target \in Nat, d.output_start_time = target, Shows(d, target)
       PROVE  Shows(q, target)
  <2>1. \A n \in Revealed(d, d.reorder) : Pts[n] >= target
    <3>1. target # NoTime
      BY DEF NoTime
    <3> QED BY <1>4, <1>11, <3>1 DEF Materializes
  <2> QED BY <1>3, <1>11, <2>1 DEF Shows
<1>12. ASSUME NEW target \in Nat, d.output_start_time = target, Shows(d, target),
              Keeps(d, next, target)
       PROVE  Keeps(q, next, target)
  <2>1. SUFFICES ASSUME NEW n \in Numbers, n < next, Pts[n] >= target
                 PROVE  Holds(q.outputs, n)
    BY DEF Keeps
  <2>2. Pictured(d.reorder, n) \/ Holds(d.outputs, n)
    BY <1>7, <1>12, <2>1 DEF Keeps, Waiting
  <2>3. CASE Pictured(d.reorder, n)
    <3>1. PICK p \in d.reorder : p.sample = n
      BY <2>3 DEF Pictured
    <3>2. p.shown
      <4>1. ~ (Pts[n] < target)
        BY <2>1, NumbersFinite
      <4> QED BY <1>2, <1>12, <3>1, <4>1 DEF Shows
    <3>3. Materializes(d, p.sample)
      BY <1>12, <2>1, <3>1 DEF Materializes
    <3>4. n \in Revealed(d, d.reorder)
      BY <3>1, <3>2, <3>3 DEF Revealed
    <3> QED BY <1>3, <3>4
  <2> QED BY <1>3, <2>2, <2>3
<1> QED BY <1>3, <1>10, <1>11, <1>12

\* The pictures of a reorder buffer that leave when another comes in: none, or
\* the first one, which then comes before all others and all that are to come.
Leaves(q, d, all, left, next) ==
  /\ left \in SUBSET all /\ q.reorder = all \ left /\ InOrder(q.outputs)
  /\ \A n : Holds(q.outputs, n) <=> Holds(d.outputs, n) \/ n \in Revealed(d, left)
  /\ \A m, n \in Numbers :
       Pictured(left, m) /\ (Pictured(q.reorder, n) \/ n >= next) => Pts[m] < Pts[n]

LEMMA SubsetOfPictures ==
  ASSUME NEW all, NEW next, NEW time, Pictures(all, next, time), NEW some \in SUBSET all
  PROVE  Pictures(some, next, time) /\ Cardinality(some) \in Nat
<1>1. IsFiniteSet(some)
  BY FS_Subset DEF Pictures
<1> QED BY <1>1, FS_CardinalityType DEF Pictures

LEMMA PushOrdered ==
  ASSUME ConformingTrack, NEW d, IsDecoder(d), NEW picture, NEW next \in Int, NEW time,
         NEW all, all = d.reorder \cup {picture}, picture \notin d.reorder,
         Pictures(all, next, time), Cardinality(d.reorder) <= ReorderDepth,
         InOrder(d.outputs),
         \A m, n \in Numbers : Holds(d.outputs, m) /\ Pictured(all, n) => Pts[m] < Pts[n],
         NEW q, q = ReorderPush(d, picture)
  PROVE  /\ IsDecoder(q) /\ SamePlace(q, d) /\ q.draining = d.draining
         /\ q.output_start_time = d.output_start_time
         /\ Stored(q.reorder, next, time)
         /\ \E left : Leaves(q, d, all, left, next)
<1>1. PICK grown : grown = [d EXCEPT !.reorder = @ \cup {picture}]
  OBVIOUS
<1>2. PICK first : first = CHOOSE p \in grown.reorder :
                             \A r \in grown.reorder : Precedes(p.sample, r.sample)
  OBVIOUS
<1>3. q = IF Cardinality(grown.reorder) > ReorderDepth THEN Queue(grown, {first}) ELSE grown
  BY <1>1, <1>2 DEF ReorderPush
<1>4. /\ IsDecoder(grown) /\ SamePlace(grown, d) /\ grown.draining = d.draining
      /\ grown.output_start_time = d.output_start_time /\ grown.outputs = d.outputs
      /\ grown.reorder = all
  BY <1>1 DEF IsDecoder, SamePlace
<1>5. IsDecoder(q) /\ SamePlace(q, d) /\ q.draining = d.draining
  BY ReorderPushKeeps
<1>6. Cardinality(all) = Cardinality(d.reorder) + 1 /\ Cardinality(d.reorder) \in Nat
      /\ Cardinality(all) \in Nat /\ IsFiniteSet(all)
  <2>1. d.reorder \in SUBSET all /\ IsFiniteSet(all)
    BY DEF Pictures
  <2>2. IsFiniteSet(d.reorder)
    BY <2>1, FS_Subset
  <2> QED BY <2>1, <2>2, FS_AddElement, FS_CardinalityType
<1>7. ReorderDepth \in Nat
  BY SeekAssumption
<1>8. CASE Cardinality(all) <= ReorderDepth
  <2>1. q = grown
    BY <1>3, <1>4, <1>6, <1>7, <1>8
  <2>2. Leaves(q, d, all, {}, next)
    <3>1. all \ {} = all /\ Revealed(d, {}) = {} /\ {} \in SUBSET all
      BY DEF Revealed
    <3>2. \A n : ~ Pictured({}, n)
      BY DEF Pictured
    <3> QED BY <1>4, <2>1, <3>1, <3>2 DEF Leaves
  <2> QED BY <1>4, <1>5, <1>8, <2>1, <2>2 DEF Stored
<1>9. CASE ~ (Cardinality(all) <= ReorderDepth)
  <2>1. Cardinality(all) > ReorderDepth /\ Cardinality(all) <= ReorderDepth + 1
    BY <1>6, <1>7, <1>9
  <2>2. PICK samples : samples = {p.sample : p \in all}
    OBVIOUS
  <2>3. samples \in SUBSET Numbers /\ samples # {}
    BY <2>2 DEF Pictures
  <2>4. PICK m : m \in samples /\ \A n \in samples : Precedes(m, n)
    BY <2>3, ExtremesExist DEF Extremes, IsFirst
  <2>5. first \in all /\ \A r \in all : Precedes(first.sample, r.sample)
    <3>1. \E p \in all : \A r \in all : Precedes(p.sample, r.sample)
      BY <2>2, <2>4
    <3> QED BY <1>2, <1>4, <3>1
  <2>6. PICK left : left = {first}
    OBVIOUS
  <2>7. q = Queue(grown, left)
    BY <1>3, <1>4, <2>1, <2>6
  <2>8. left \in SUBSET grown.reorder
    BY <1>4, <2>5, <2>6
  <2>9. \A k, n \in Numbers : Holds(grown.outputs, k) /\ Pictured(left, n) => Pts[k] < Pts[n]
    BY <1>4, <2>8 DEF Pictured
  <2>10. /\ q.output_start_time = grown.output_start_time
         /\ q.reorder = grown.reorder \ left /\ InOrder(q.outputs)
         /\ \A n : Holds(q.outputs, n) <=> Holds(grown.outputs, n) \/ n \in Revealed(grown, left)
    <3>1. Pictures(grown.reorder, next, time) /\ InOrder(grown.outputs)
      BY <1>4
    <3>2. IsDecoder(grown) /\ ConformingTrack
      BY <1>4
    <3>3. q.output_start_time = grown.output_start_time
      BY ONLY <2>7, <2>8, <2>9, <3>1, <3>2, QueueAppends
    <3>4. InOrder(q.outputs)
      BY ONLY <2>7, <2>8, <2>9, <3>1, <3>2, QueueAppends
    <3>5. q.reorder = grown.reorder \ left
      <4>1. PICK more : q = [grown EXCEPT !.reorder = @ \ left, !.outputs = more]
        BY <2>7 DEF Queue
      <4>2. IsDecoder(grown)
        BY <1>4
      <4> QED BY ONLY <4>1, <4>2 DEF IsDecoder
    <3>6. \A n : Holds(q.outputs, n) <=> Holds(grown.outputs, n) \/ n \in Revealed(grown, left)
      BY ONLY <2>7, <2>8, <2>9, <3>1, <3>2, QueueAppends
    <3> QED BY ONLY <3>3, <3>4, <3>5, <3>6
  <2>11. Revealed(grown, left) = Revealed(d, left)
    BY <1>4 DEF Revealed, Materializes
  <2>12. first.sample \in Numbers /\ \A p \in all : p.sample \in Numbers
    BY <2>5 DEF Pictures
  <2>13. ASSUME NEW n \in Numbers, Pictured(q.reorder, n) \/ n >= next
         PROVE  Pts[first.sample] < Pts[n]
    <3>1. CASE Pictured(q.reorder, n)
      <4>1. PICK p \in all : p # first /\ p.sample = n
        BY <1>4, <2>6, <2>10, <3>1 DEF Pictured
      <4>2. p.sample # first.sample
        BY <2>5, <4>1 DEF Pictures
      <4>3. Pts[first.sample] # Pts[n]
        BY <2>12, <4>1, <4>2 DEF ConformingTrack
      <4>4. Precedes(first.sample, n)
        BY <2>5, <4>1
      <4> QED BY <4>3, <4>4 DEF Precedes
    <3>2. CASE n >= next
      <4>1. PICK p \in all : ~ (Pts[p.sample] > Pts[n])
        BY <2>1, <3>2, DepthReached
      <4>2. first.sample # n
        <5>1. first.sample < next
          BY <2>5 DEF Pictures
        <5>2. n \in Int /\ first.sample \in Int
          BY <2>12, NumbersFinite
        <5> QED BY <3>2, <5>1, <5>2
      <4>3. Pts[first.sample] # Pts[n]
        BY <2>12, <4>2 DEF ConformingTrack
      <4>4. Precedes(first.sample, p.sample)
        BY <2>5
      <4>5. PICK a, b, c \in Int : a = Pts[first.sample] /\ b = Pts[n] /\ c = Pts[p.sample]
        BY <2>12, NumbersFinite
      <4>6. a <= c /\ ~ (c > b) /\ a # b
        BY <4>1, <4>3, <4>4, <4>5 DEF Precedes
      <4> QED BY <4>5, <4>6
    <3> QED BY <2>13, <3>1, <3>2
  <2>14. Leaves(q, d, all, left, next)
    BY <1>4, <2>6, <2>8, <2>10, <2>11, <2>13 DEF Leaves, Pictured
  <2>15. Stored(q.reorder, next, time)
    <3>1. PICK rest : rest = all \ left
      OBVIOUS
    <3>2. Pictures(rest, next, time)
      BY <3>1, SubsetOfPictures
    <3>3. Cardinality(rest) = Cardinality(all) - 1
      BY <1>6, <2>5, <2>6, <3>1, FS_RemoveElement
    <3>4. Cardinality(rest) <= ReorderDepth
      BY <1>6, <1>7, <2>1, <3>3
    <3> QED BY <1>4, <2>10, <3>1, <3>2, <3>4 DEF Stored
  <2> QED BY <1>4, <1>5, <2>10, <2>14, <2>15
<1> QED BY <1>8, <1>9

\* A picture is stored and reordered: the decoder is left with nothing in
\* progress and as it was in every other respect.
LEMMA FinishOrdered ==
  ASSUME ConformingTrack, NEW d, IsDecoder(d), NEW next \in Int, Ordered(d, next),
         NEW f, f = Finish(d)
  PROVE  /\ IsDecoder(f) /\ f.current = NoSample /\ f.configured = d.configured
         /\ f.expects = d.expects /\ f.draining = d.draining
         /\ f.output_start_time = d.output_start_time
         /\ Ordered(f, next)
         /\ \A target \in Nat : d.output_start_time = target =>
              /\ Shows(d, target) => Shows(f, target)
              /\ Shows(d, target) /\ Keeps(d, next, target) => Keeps(f, next, target)
<1>1. IsDecoder(f) /\ f.configured = d.configured /\ f.expects = d.expects
      /\ f.draining = d.draining /\ (d.current = NoSample => f = d)
  BY FinishKeeps
<1>2. CASE d.current = NoSample
  BY <1>1, <1>2
<1>3. CASE d.current # NoSample
  <2>1. PICK n : n = d.current
    OBVIOUS
  <2>2. /\ n \in Numbers /\ next = n + 1 /\ ~ Pictured(d.reorder, n) /\ n # NoSample
        /\ d.maximum_completed_pts \in Int /\ n \in Int /\ Pts[n] \in Int /\ Pts[n] >= 0
    <3>1. n \in Numbers /\ next = n + 1 /\ ~ Pictured(d.reorder, n)
          /\ d.maximum_completed_pts \in Int
      BY <1>3, <2>1 DEF Ordered
    <3>2. Pts[n] >= 0
      BY <3>1, SeekAssumption DEF Pts, Numbers
    <3> QED BY <1>3, <2>1, <3>1, <3>2, NumbersFinite
  <2>3. PICK picture : picture = [sample |-> n, shown |-> Materializes(d, n)]
    OBVIOUS
  <2>4. PICK pushed : pushed = ReorderPush(d, picture)
    OBVIOUS
  <2>5. PICK stored : stored = IF Samples[n].sync THEN 1
                               ELSE IF Samples[n].reference /\ d.references < MaxReferences
                               THEN d.references + 1 ELSE d.references
    OBVIOUS
  <2>6. PICK time : time = IF d.maximum_completed_pts < Pts[n] THEN Pts[n]
                           ELSE d.maximum_completed_pts
    OBVIOUS
  <2>7. PICK all : all = d.reorder \cup {picture}
    OBVIOUS
  <2>8. /\ time \in Int /\ time # NoTime /\ Pts[n] <= time /\ d.maximum_completed_pts <= time
    BY <2>2, <2>6 DEF NoTime
  <2>9. /\ IsPicture(picture) /\ picture.sample = n /\ picture.shown = Materializes(d, n)
        /\ picture.shown \in BOOLEAN /\ picture \notin d.reorder
    <3>1. picture.sample = n /\ picture.shown = Materializes(d, n) /\ IsPicture(picture)
      BY <2>3 DEF IsPicture
    <3>2. Materializes(d, n) \in BOOLEAN
      BY DEF Materializes
    <3> QED BY <2>2, <3>1, <3>2 DEF Pictured
  <2>10. Pictures(all, next, time)
    <3>1. Pictures(d.reorder, next, d.maximum_completed_pts)
      BY DEF Ordered, Stored
    <3>2. IsFiniteSet(all)
      BY <2>7, <3>1, FS_AddElement DEF Pictures
    <3>3. \A p \in d.reorder :
            /\ IsPicture(p) /\ p.shown \in BOOLEAN
            /\ p.sample \in Numbers /\ p.sample < next /\ Pts[p.sample] <= time
      <4>1. SUFFICES ASSUME NEW p \in d.reorder PROVE Pts[p.sample] <= time
        BY <3>1 DEF Pictures
      <4>2. p.sample \in Numbers /\ Pts[p.sample] <= d.maximum_completed_pts
        BY <3>1, <4>1 DEF Pictures
      <4>3. PICK a \in Int : a = Pts[p.sample]
        BY <4>2, NumbersFinite
      <4> QED BY <2>2, <2>8, <4>2, <4>3
    <3>4. n < next
      BY <2>2
    <3>5. \A p, q \in all : p.sample = q.sample => p = q
      BY <2>2, <2>7, <2>9, <3>1 DEF Pictures, Pictured
    <3> QED BY <2>2, <2>7, <2>8, <2>9, <3>2, <3>3, <3>4, <3>5 DEF Pictures
  <2>11. \A k : Pictured(all, k) <=> Waiting(d, k)
    BY <2>1, <2>7, <2>9 DEF Pictured, Waiting
  <2>12. /\ IsDecoder(pushed) /\ SamePlace(pushed, d) /\ pushed.draining = d.draining
         /\ pushed.output_start_time = d.output_start_time
         /\ Stored(pushed.reorder, next, time)
         /\ \E left : Leaves(pushed, d, all, left, next)
    <3>1. Cardinality(d.reorder) <= ReorderDepth /\ InOrder(d.outputs)
      BY DEF Ordered, Stored, InPlace
    <3>2. \A k, l \in Numbers : Holds(d.outputs, k) /\ Pictured(all, l) => Pts[k] < Pts[l]
      BY <2>11 DEF Ordered, InPlace
    <3> QED BY <2>4, <2>7, <2>9, <2>10, <3>1, <3>2, PushOrdered
  <2>13. PICK left : Leaves(pushed, d, all, left, next)
    BY <2>12
  <2>14. f = [pushed EXCEPT !.current = NoSample, !.references = stored,
                            !.maximum_completed_pts = time]
    <3>1. pushed.maximum_completed_pts = d.maximum_completed_pts
      BY <2>12 DEF SamePlace
    <3> QED BY <1>3, <2>1, <2>3, <2>4, <2>5, <2>6, <3>1 DEF Finish
  <2>15. /\ f.current = NoSample /\ f.maximum_completed_pts = time
         /\ f.reorder = pushed.reorder /\ f.outputs = pushed.outputs
         /\ f.output_start_time = d.output_start_time
    BY <2>12, <2>14 DEF IsDecoder
  <2>16. /\ left \in SUBSET all /\ f.reorder = all \ left /\ InOrder(f.outputs)
         /\ \A k : Holds(f.outputs, k) <=> Holds(d.outputs, k) \/ k \in Revealed(d, left)
         /\ \A k, l \in Numbers :
              Pictured(left, k) /\ (Pictured(f.reorder, l) \/ l >= next) => Pts[k] < Pts[l]
    BY <2>13, <2>15 DEF Leaves
  <2>17. \A k \in Revealed(d, left) :
           k \in Numbers /\ Pictured(left, k) /\ Materializes(d, k)
    BY <2>10, <2>16 DEF Revealed, Pictured, Pictures
  <2>18. \A k \in Numbers : Waiting(f, k) <=> Pictured(f.reorder, k)
    BY <2>15, NumbersFinite DEF Waiting, NoSample
  <2>19. \A k : Pictured(f.reorder, k) => Waiting(d, k)
    <3>1. \A k : Pictured(f.reorder, k) => Pictured(all, k)
      BY <2>16 DEF Pictured
    <3> QED BY <2>11, <3>1
  <2>20. InPlace(f, next)
    <3>1. SUFFICES ASSUME NEW k \in Numbers, NEW l \in Numbers, Holds(f.outputs, k),
                          Waiting(f, l) \/ l >= next
                   PROVE  Pts[k] < Pts[l]
      BY <2>16 DEF InPlace
    <3>2. Pictured(f.reorder, l) \/ l >= next
      BY <2>18, <3>1
    <3>3. CASE Holds(d.outputs, k)
      BY <2>19, <3>2, <3>3 DEF Ordered, InPlace
    <3>4. CASE k \in Revealed(d, left)
      BY <2>16, <2>17, <3>2, <3>4
    <3> QED BY <2>16, <3>1, <3>3, <3>4
  <2>21. Completed(NoSample, next, time)
    <3>1. SUFFICES ASSUME NEW k \in Numbers, k < next PROVE Pts[k] <= time
      BY DEF Completed
    <3>2. k \in Int /\ Pts[k] \in Int
      BY NumbersFinite
    <3>3. CASE k = n
      BY <2>8, <3>3
    <3>4. CASE k # n /\ d.maximum_completed_pts = NoTime
      <4>1. n \in SyncSamples
        BY <1>3, <2>1, <3>4 DEF Ordered
      <4>2. k < n /\ n <= n
        BY <2>2, <3>1, <3>2, <3>4
      <4>3. Pts[k] < Pts[n]
        BY <2>2, <4>1, <4>2 DEF ConformingTrack
      <4> QED BY <2>2, <2>8, <3>2, <4>3
    <3>5. CASE k # n /\ d.maximum_completed_pts # NoTime
      <4>1. Pts[k] <= d.maximum_completed_pts
        BY <2>1, <3>1, <3>5 DEF Ordered, Completed
      <4> QED BY <2>2, <2>8, <3>2, <4>1
    <3> QED BY <3>3, <3>4, <3>5
  <2>22. ~ d.draining /\ d.expects # NoSample
    BY <1>3 DEF Ordered, Blank
  <2>23. Ordered(f, next)
    BY <1>1, <2>8, <2>12, <2>15, <2>20, <2>21, <2>22 DEF Ordered
  <2>24. ASSUME NEW target \in Nat, d.output_start_time = target, Shows(d, target)
         PROVE  Shows(f, target)
    <3>1. target # NoTime
      BY DEF NoTime
    <3>2. \A k \in Revealed(d, left) : Pts[k] >= target
      BY <2>17, <2>24, <3>1 DEF Materializes
    <3>3. \A k \in Numbers : Holds(f.outputs, k) => Pts[k] >= target
      BY <2>16, <2>24, <3>2 DEF Shows
    <3>4. ~ picture.shown => Pts[n] < target
      <4>1. ~ picture.shown => ~ (Pts[n] >= target)
        BY <2>9, <2>24 DEF Materializes
      <4>2. Pts[n] \in Int /\ target \in Int
        BY <2>2
      <4>3. ~ (Pts[n] >= target) => Pts[n] < target
        BY ONLY <4>2
      <4> QED BY <4>1, <4>3
    <3>5. \A p \in f.reorder : p \in d.reorder \/ p = picture
      BY <2>7, <2>16
    <3> QED BY <2>9, <2>24, <3>3, <3>4, <3>5 DEF Shows
  <2>25. ASSUME NEW target \in Nat, d.output_start_time = target, Shows(d, target),
                Keeps(d, next, target)
         PROVE  Keeps(f, next, target)
    <3>1. SUFFICES ASSUME NEW k \in Numbers, k < next, Pts[k] >= target,
                          ~ Pictured(f.reorder, k)
                   PROVE  Holds(f.outputs, k)
      BY <2>18 DEF Keeps
    <3>2. Pictured(all, k) \/ Holds(d.outputs, k)
      BY <2>11, <2>25, <3>1 DEF Keeps
    <3>3. CASE Pictured(all, k)
      <4>1. PICK p \in all : p.sample = k
        BY <3>3 DEF Pictured
      <4>2. p \in left
        BY <2>16, <3>1, <4>1 DEF Pictured
      <4>3. Materializes(d, k)
        BY <2>25, <3>1 DEF Materializes
      <4>4. p.shown
        <5>1. CASE p = picture
          BY <2>9, <4>1, <4>3, <5>1
        <5>2. CASE p \in d.reorder
          <6>1. ~ (Pts[k] < target)
            BY <3>1, NumbersFinite
          <6>2. p.shown \in BOOLEAN
            BY <2>10, <4>1 DEF Pictures
          <6> QED BY <2>25, <4>1, <5>2, <6>1, <6>2 DEF Shows
        <5> QED BY <2>7, <4>1, <5>1, <5>2
      <4>5. k \in Revealed(d, left)
        BY <4>1, <4>2, <4>3, <4>4 DEF Revealed
      <4> QED BY <2>16, <4>5
    <3> QED BY <2>16, <3>2, <3>3
  <2> QED BY <1>1, <2>15, <2>23, <2>24, <2>25
<1> QED BY <1>2, <1>3

----------
(* What the decoder's operations keep in order *)

LEMMA NumbersFacts ==
  /\ NoSample \notin Numbers /\ NoTime \in Int /\ NoTime \notin Nat
  /\ \A n : ~ Pictured({}, n) /\ ~ Holds(<< >>, n)
BY NumbersFinite, EmptyInOrder DEF NoSample, NoTime, Pictured

LEMMA FlushBlank ==
  ASSUME NEW d, NEW target, NEW configured, NEW format
  PROVE  /\ Blank(NewDecoder(configured, format)) /\ ~ NewDecoder(configured, format).draining
         /\ NewDecoder(configured, format).output_start_time = NoTime
         /\ NewDecoder(configured, format).expects = NoSample
         /\ Blank(Flush(d)) /\ ~ Flush(d).draining /\ Flush(d).output_start_time = NoTime
         /\ Blank(FlushTimeline(d)) /\ ~ FlushTimeline(d).draining
         /\ FlushTimeline(d).output_start_time = d.output_start_time
         /\ Blank(FlushForSeek(d, target)) /\ ~ FlushForSeek(d, target).draining
         /\ FlushForSeek(d, target).output_start_time = target
<1>1. ASSUME NEW c, NEW f
      PROVE  /\ Blank(NewDecoder(c, f)) /\ ~ NewDecoder(c, f).draining
             /\ NewDecoder(c, f).output_start_time = NoTime
             /\ NewDecoder(c, f).expects = NoSample
  BY DEF NewDecoder, Blank
<1>2. PICK flushed : flushed = Flush(d)
  OBVIOUS
<1>3. /\ Blank(flushed) /\ ~ flushed.draining /\ flushed.output_start_time = NoTime
      /\ IsDecoder(flushed)
  BY <1>1, <1>2, FlushStarts DEF Flush
<1>4. PICK timeline : timeline = FlushTimeline(d)
  OBVIOUS
<1>5. /\ Blank(timeline) /\ ~ timeline.draining /\ IsDecoder(timeline)
      /\ timeline.output_start_time = d.output_start_time
  <2>1. timeline = [flushed EXCEPT !.output_start_time = d.output_start_time]
    BY <1>2, <1>4 DEF FlushTimeline
  <2> QED BY <1>3, <2>1 DEF IsDecoder, Blank
<1>6. PICK sought : sought = FlushForSeek(d, target)
  OBVIOUS
<1>7. /\ Blank(sought) /\ ~ sought.draining /\ sought.output_start_time = target
  <2>1. sought = [timeline EXCEPT !.output_start_time = target]
    BY <1>4, <1>6 DEF FlushForSeek
  <2> QED BY <1>5, <2>1 DEF IsDecoder, Blank
<1> QED BY <1>1, <1>2, <1>3, <1>4, <1>5, <1>6, <1>7

LEMMA BlankOrdered ==
  ASSUME NEW d, Blank(d), ~ d.draining, d.expects = NoSample, NEW next
  PROVE  /\ Ordered(d, next)
         /\ \A target \in Nat :
              /\ Shows(d, target)
              /\ Keeps(d, next, target) <=> \A n \in Numbers : ~ (n < next /\ Pts[n] >= target)
<1>1. /\ d.current = NoSample /\ d.maximum_completed_pts = NoTime
      /\ d.reorder = {} /\ d.outputs = << >>
  BY DEF Blank
<1>2. Stored({}, next, NoTime)
  BY FS_EmptySet, SeekAssumption DEF Stored, Pictures
<1>3. InPlace(d, next)
  BY <1>1, EmptyInOrder DEF InPlace
<1>4. Ordered(d, next)
  BY <1>1, <1>2, <1>3, NumbersFacts DEF Ordered
<1>5. \A n \in Numbers : ~ Waiting(d, n) /\ ~ Holds(d.outputs, n)
  BY <1>1, NumbersFacts DEF Waiting
<1>6. \A target \in Nat : Shows(d, target)
  BY <1>1, <1>5 DEF Shows
<1> QED BY <1>4, <1>5, <1>6 DEF Keeps

LEMMA DecodeOrdered ==
  ASSUME ConformingTrack, NEW d, IsDecoder(d), NEW n \in Numbers, Ordered(d, n),
         ~ d.draining, NEW discontinuity \in BOOLEAN,
         discontinuity => d.expects = NoSample,
         d.expects = NoSample => n \in SyncSamples,
         NEW q, q = Decode(d, n, discontinuity)
  PROVE  /\ Ordered(q, n + 1) /\ q.output_start_time = d.output_start_time
         /\ \A target \in Nat : d.output_start_time = target =>
              /\ Shows(d, target) => Shows(q, target)
              /\ Shows(d, target) /\ Keeps(d, n, target) => Keeps(q, n + 1, target)
<1>1. PICK from : from = IF discontinuity THEN FlushTimeline(d) ELSE d
  OBVIOUS
<1>2. PICK begun : begun = Finish(from)
  OBVIOUS
<1>3. PICK ready : ready = IF Samples[n].sync THEN DrainReorder(begun) ELSE begun
  OBVIOUS
<1>4. q = [ready EXCEPT !.current = n, !.expects = n + 1]
  BY <1>1, <1>2, <1>3 DEF Decode
<1>5. n \in Int /\ n # NoSample
  BY NumbersFinite, NumbersFacts
<1>6. /\ IsDecoder(from) /\ Ordered(from, n) /\ ~ from.draining
      /\ from.expects = d.expects /\ from.output_start_time = d.output_start_time
      /\ \A target \in Nat : /\ Shows(d, target) => Shows(from, target)
                             /\ Keeps(d, n, target) => Keeps(from, n, target)
  <2>1. CASE ~ discontinuity
    BY <1>1, <2>1
  <2>2. CASE discontinuity
    <3>1. from = FlushTimeline(d)
      BY <1>1, <2>2
    <3>2. d.expects = NoSample /\ Blank(d)
      BY <2>2 DEF Ordered
    <3>3. /\ IsDecoder(from) /\ Blank(from) /\ ~ from.draining /\ from.expects = NoSample
          /\ from.output_start_time = d.output_start_time
      BY <3>1, FlushBlank, FlushStarts DEF Started
    <3>4. /\ Ordered(from, n)
          /\ \A target \in Nat :
               /\ Shows(from, target)
               /\ Keeps(from, n, target) <=> \A k \in Numbers : ~ (k < n /\ Pts[k] >= target)
      BY <3>3, BlankOrdered
    <3>5. \A target \in Nat :
            Keeps(d, n, target) <=> \A k \in Numbers : ~ (k < n /\ Pts[k] >= target)
      BY <3>2, BlankOrdered
    <3> QED BY <3>2, <3>3, <3>4, <3>5
  <2> QED BY <2>1, <2>2
<1>7. /\ IsDecoder(begun) /\ Ordered(begun, n) /\ begun.current = NoSample
      /\ ~ begun.draining /\ begun.expects = d.expects
      /\ begun.output_start_time = d.output_start_time
      /\ \A target \in Nat : d.output_start_time = target =>
           /\ Shows(from, target) => Shows(begun, target)
           /\ Shows(from, target) /\ Keeps(from, n, target) => Keeps(begun, n, target)
  BY <1>2, <1>5, <1>6, FinishOrdered
<1>8. /\ IsDecoder(ready) /\ Ordered(ready, n) /\ ready.current = NoSample
      /\ ~ ready.draining /\ ready.expects = d.expects
      /\ ready.output_start_time = d.output_start_time
      /\ \A target \in Nat : d.output_start_time = target =>
           /\ Shows(begun, target) => Shows(ready, target)
           /\ Shows(begun, target) /\ Keeps(begun, n, target) => Keeps(ready, n, target)
  <2>1. CASE ~ Samples[n].sync
    BY <1>3, <1>7, <2>1
  <2>2. CASE Samples[n].sync
    <3>1. ready = DrainReorder(begun) /\ n \in SyncSamples
      BY <1>3, <2>2 DEF SyncSamples
    <3>2. ASSUME NEW m \in Numbers, NEW k \in Numbers, Pictured(begun.reorder, m), k >= n
          PROVE  Pts[m] < Pts[k]
      <4>1. m < n
        BY <1>7, <3>2 DEF Ordered, Stored, Pictures, Pictured
      <4>2. n <= k
        BY <1>5, <3>2, NumbersFinite
      <4> QED BY <3>1, <4>1, <4>2 DEF ConformingTrack
    <3>3. /\ IsDecoder(ready) /\ SamePlace(ready, begun) /\ ready.draining = begun.draining
          /\ ready.output_start_time = begun.output_start_time /\ Ordered(ready, n)
          /\ \A target \in Nat : begun.output_start_time = target =>
               /\ Shows(begun, target) => Shows(ready, target)
               /\ Shows(begun, target) /\ Keeps(begun, n, target) => Keeps(ready, n, target)
      BY <1>7, <3>1, <3>2, DrainOrdered
    <3> QED BY <1>7, <3>3 DEF SamePlace
  <2> QED BY <2>1, <2>2
<1>9. /\ q.current = n /\ q.expects = n + 1 /\ q.outputs = ready.outputs
      /\ q.reorder = ready.reorder /\ q.draining = ready.draining
      /\ q.maximum_completed_pts = ready.maximum_completed_pts
      /\ q.output_start_time = d.output_start_time
  BY <1>4, <1>8 DEF IsDecoder
<1>10. PICK time : time = ready.maximum_completed_pts
  OBVIOUS
<1>11. \A k \in Numbers : k \in Int /\ (k < n + 1 => k < n \/ k = n) /\ (k < n => k < n + 1)
                          /\ (k >= n + 1 => k >= n) /\ ~ (n < n)
  BY <1>5, NumbersFinite
<1>12. Stored(q.reorder, n + 1, time)
  <2>1. Stored(q.reorder, n, time)
    BY <1>8, <1>9, <1>10 DEF Ordered
  <2> QED BY <1>11, <2>1 DEF Stored, Pictures
<1>13. ~ Pictured(q.reorder, n)
  BY <1>5, <1>8, <1>9, <1>11 DEF Ordered, Stored, Pictures, Pictured
<1>14. time = NoTime => q.reorder = {} /\ n \in SyncSamples
  BY <1>8, <1>9, <1>10 DEF Ordered
<1>15. time # NoTime => Completed(n, n + 1, time)
  <2>1. time # NoTime => Completed(NoSample, n, time)
    BY <1>8, <1>10 DEF Ordered
  <2> QED BY <1>11, <2>1, NumbersFacts DEF Completed
<1>16. InPlace(q, n + 1)
  <2>1. SUFFICES ASSUME NEW m \in Numbers, NEW k \in Numbers, Holds(q.outputs, m),
                        Waiting(q, k) \/ k >= n + 1
                 PROVE  Pts[m] < Pts[k]
    BY <1>8, <1>9 DEF InPlace, Ordered
  <2>2. Waiting(ready, k) \/ k >= n
    <3>1. n >= n
      BY <1>5
    <3> QED BY <1>9, <1>11, <2>1, <3>1 DEF Waiting
  <2> QED BY <1>8, <1>9, <2>1, <2>2 DEF Ordered, InPlace
<1>17. Ordered(q, n + 1)
  <2>1. n + 1 # NoSample
    BY NumbersFinite DEF NoSample
  <2>2. time \in Int
    BY <1>8, <1>10 DEF Ordered
  <2> QED BY <1>5, <1>8, <1>9, <1>10, <1>12, <1>13, <1>14, <1>15, <1>16, <2>1, <2>2 DEF Ordered
<1>18. ASSUME NEW target \in Nat, d.output_start_time = target, Shows(d, target)
       PROVE  Shows(q, target)
  BY <1>6, <1>7, <1>8, <1>9, <1>18 DEF Shows
<1>19. ASSUME NEW target \in Nat, d.output_start_time = target, Shows(d, target),
              Keeps(d, n, target)
       PROVE  Keeps(q, n + 1, target)
  <2>1. Keeps(ready, n, target)
    BY <1>6, <1>7, <1>8, <1>19
  <2>2. SUFFICES ASSUME NEW k \in Numbers, k < n + 1, Pts[k] >= target
                 PROVE  Waiting(q, k) \/ Holds(q.outputs, k)
    BY DEF Keeps
  <2>3. k < n \/ k = n
    BY <1>11, <2>2
  <2> QED BY <1>8, <1>9, <2>1, <2>2, <2>3, NumbersFacts DEF Keeps, Waiting
<1> QED BY <1>9, <1>17, <1>18, <1>19

LEMMA NothingHeld ==
  ASSUME NEW samples, InOrder(samples), \A n : ~ Holds(samples, n)
  PROVE  samples = << >>
BY HeadInOrder

\* The target moves forward: what is queued before it goes.
LEMMA RetargetOrdered ==
  ASSUME NEW d, IsDecoder(d), NEW next, Ordered(d, next), NEW to \in Nat,
         NEW q, q = Retarget(d, to)
  PROVE  /\ Ordered(q, next) /\ q.output_start_time = to
         /\ \A target \in Nat : target <= to =>
              /\ Shows(d, target) => Shows(q, to)
              /\ Keeps(d, next, target) => Keeps(q, next, to)
<1>1. PICK outputs : outputs = NotBefore(to, d.outputs)
  OBVIOUS
<1>2. q = [d EXCEPT !.output_start_time = to, !.outputs = outputs]
  BY <1>1 DEF Retarget
<1>3. /\ q.current = d.current /\ q.expects = d.expects /\ q.outputs = outputs
      /\ q.reorder = d.reorder /\ q.draining = d.draining
      /\ q.maximum_completed_pts = d.maximum_completed_pts /\ q.output_start_time = to
  BY <1>2 DEF IsDecoder
<1>4. InOrder(d.outputs)
  BY DEF Ordered, InPlace
<1>5. InOrder(outputs) /\ \A n : Holds(outputs, n) <=> Holds(d.outputs, n) /\ Pts[n] >= to
  <2>1. PICK queued : queued = d.outputs
    OBVIOUS
  <2>2. outputs = NotBefore(to, queued) /\ InOrder(queued)
    BY <1>1, <1>4, <2>1
  <2>3. InOrder(outputs) /\ \A n : Holds(outputs, n) <=> Holds(queued, n) /\ Pts[n] >= to
    BY <2>2, NotBeforeInOrder
  <2> QED BY <2>1, <2>3
<1>6. InPlace(q, next)
  <2>1. \A n : Waiting(q, n) <=> Waiting(d, n)
    BY <1>3 DEF Waiting
  <2> QED BY <1>3, <1>5, <2>1 DEF Ordered, InPlace
<1>7. d.expects = NoSample => Blank(q)
  <2>1. ASSUME d.expects = NoSample PROVE Blank(q)
    <3>1. Blank(d)
      BY <2>1 DEF Ordered
    <3>2. outputs = << >>
      BY <1>5, <3>1, NothingHeld, NumbersFacts DEF Blank
    <3> QED BY <1>3, <3>1, <3>2 DEF Blank
  <2> QED BY <2>1
<1>8. Ordered(q, next)
  BY <1>3, <1>6, <1>7 DEF Ordered
<1>9. ASSUME NEW target \in Nat, target <= to
      PROVE  /\ Shows(d, target) => Shows(q, to)
             /\ Keeps(d, next, target) => Keeps(q, next, to)
  <2>1. \A p \in d.reorder : p.sample \in Numbers
    BY DEF Ordered, Stored, Pictures
  <2>2. \A n \in Numbers : /\ Pts[n] < target => Pts[n] < to
                           /\ Pts[n] >= to => Pts[n] >= target
    BY <1>9, NumbersFinite
  <2>3. ASSUME Shows(d, target) PROVE Shows(q, to)
    BY <1>3, <1>5, <2>1, <2>2, <2>3 DEF Shows
  <2>4. ASSUME Keeps(d, next, target) PROVE Keeps(q, next, to)
    <3>1. SUFFICES ASSUME NEW n \in Numbers, n < next, Pts[n] >= to
                   PROVE  Waiting(q, n) \/ Holds(q.outputs, n)
      BY DEF Keeps
    <3>2. Waiting(d, n) \/ Holds(d.outputs, n)
      BY <2>2, <2>4, <3>1 DEF Keeps
    <3> QED BY <1>3, <1>5, <3>1, <3>2 DEF Waiting
  <2> QED BY <2>3, <2>4
<1> QED BY <1>3, <1>8, <1>9

\* A checkpoint is restored for a later target: all it has completed is before.
LEMMA RestoreOrdered ==
  ASSUME NEW d, NEW c, EntryOrdered(c), NEW target \in Nat, target > c.resume_time,
         NEW q, q = Restore(d, c, target)
  PROVE  /\ Ordered(q, c.expects) /\ q.output_start_time = target
         /\ Shows(q, target) /\ Keeps(q, c.expects, target)
<1>1. PICK flushed : flushed = Flush(d)
  OBVIOUS
<1>2. IsDecoder(flushed) /\ Blank(flushed) /\ ~ flushed.draining
  BY <1>1, FlushBlank, FlushStarts
<1>3. q = [flushed EXCEPT
             !.output_start_time = target, !.expects = c.expects,
             !.reorder = c.reorder, !.references = c.references,
             !.maximum_completed_pts = c.resume_time]
  BY <1>1 DEF Restore
<1>4. /\ q.current = NoSample /\ q.expects = c.expects /\ q.outputs = << >>
      /\ q.reorder = c.reorder /\ ~ q.draining
      /\ q.maximum_completed_pts = c.resume_time /\ q.output_start_time = target
  BY <1>2, <1>3 DEF IsDecoder, Blank
<1>5. InPlace(q, c.expects)
  BY <1>4, EmptyInOrder DEF InPlace
<1>6. Ordered(q, c.expects)
  BY <1>4, <1>5 DEF EntryOrdered, Ordered
<1>7. c.resume_time \in Int
  BY DEF EntryOrdered
<1>8. \A n \in Numbers : Pts[n] <= c.resume_time => Pts[n] < target /\ ~ (Pts[n] >= target)
  BY <1>7, NumbersFinite
<1>9. Shows(q, target)
  <2>1. \A p \in c.reorder : p.sample \in Numbers /\ Pts[p.sample] <= c.resume_time
    BY DEF EntryOrdered, Stored, Pictures
  <2> QED BY <1>4, <1>8, <2>1, NumbersFacts DEF Shows
<1>10. Keeps(q, c.expects, target)
  <2>1. \A n \in Numbers : n < c.expects => Pts[n] <= c.resume_time
    BY NumbersFacts DEF EntryOrdered, Completed
  <2> QED BY <1>8, <2>1 DEF Keeps
<1> QED BY <1>4, <1>6, <1>9, <1>10

LEMMA CheckpointOrdered ==
  ASSUME NEW d, NEW next, Ordered(d, next), d.current = NoSample, CanCheckpoint(d),
         d.expects = next, next # NoSample
  PROVE  EntryOrdered(Checkpoint(d))
<1>1. PICK c : c = Checkpoint(d)
  OBVIOUS
<1>2. /\ c.resume_time = d.maximum_completed_pts /\ c.expects = next
      /\ c.reorder = d.reorder /\ d.maximum_completed_pts # NoTime
  BY <1>1 DEF Checkpoint, CanCheckpoint
<1> QED BY <1>1, <1>2 DEF Ordered, EntryOrdered

LEMMA ReceiveOrdered ==
  ASSUME NEW d, IsDecoder(d), NEW next, Ordered(d, next), d.outputs # << >>,
         NEW q, q = [d EXCEPT !.outputs = Tail(@)]
  PROVE  /\ Ordered(q, next) /\ q.output_start_time = d.output_start_time
         /\ \A target \in Nat : Shows(d, target) => Shows(q, target)
<1>1. PICK tail : tail = Tail(d.outputs)
  OBVIOUS
<1>2. q = [d EXCEPT !.outputs = tail]
  BY <1>1
<1>3. /\ q.current = d.current /\ q.expects = d.expects /\ q.outputs = tail
      /\ q.reorder = d.reorder /\ q.draining = d.draining
      /\ q.maximum_completed_pts = d.maximum_completed_pts
      /\ q.output_start_time = d.output_start_time
  BY <1>2 DEF IsDecoder
<1>4. InOrder(tail) /\ \A n : Holds(tail, n) => Holds(d.outputs, n)
  <2>1. PICK queued : queued = d.outputs
    OBVIOUS
  <2>2. InOrder(queued) /\ queued # << >> /\ tail = Tail(queued)
    BY <1>1, <2>1 DEF Ordered, InPlace
  <2>3. InOrder(tail) /\ \A n : Holds(tail, n) => Holds(queued, n)
    BY <2>2, HeadInOrder
  <2> QED BY <2>1, <2>3
<1>5. InPlace(q, next)
  <2>1. \A n : Waiting(q, n) <=> Waiting(d, n)
    BY <1>3 DEF Waiting
  <2> QED BY <1>3, <1>4, <2>1 DEF Ordered, InPlace
<1>6. d.expects # NoSample
  BY DEF Ordered, Blank
<1>7. Ordered(q, next)
  BY <1>3, <1>5, <1>6 DEF Ordered
<1> QED BY <1>3, <1>4, <1>7 DEF Shows

LEMMA DrainedOrdered ==
  ASSUME ConformingTrack, NEW d, IsDecoder(d), Ordered(d, AtEnd),
         NEW q, q = [DrainReorder(Finish(d)) EXCEPT !.draining = TRUE]
  PROVE  /\ Ordered(q, AtEnd) /\ q.output_start_time = d.output_start_time
         /\ \A target \in Nat : d.output_start_time = target =>
              /\ Shows(d, target) => Shows(q, target)
              /\ Shows(d, target) /\ Keeps(d, AtEnd, target) => Keeps(q, AtEnd, target)
<1>1. PICK f : f = Finish(d)
  OBVIOUS
<1>2. PICK drained : drained = DrainReorder(f)
  OBVIOUS
<1>3. PICK next \in Int : next = AtEnd
  BY LengthType
<1>4. /\ IsDecoder(f) /\ f.current = NoSample
      /\ f.output_start_time = d.output_start_time /\ Ordered(f, next)
      /\ \A target \in Nat : d.output_start_time = target =>
           /\ Shows(d, target) => Shows(f, target)
           /\ Shows(d, target) /\ Keeps(d, next, target) => Keeps(f, next, target)
  BY <1>1, <1>3, FinishOrdered
<1>5. \A n \in Numbers : ~ (n >= next)
  BY <1>3, NumbersFinite
<1>6. /\ IsDecoder(drained) /\ SamePlace(drained, f)
      /\ drained.output_start_time = f.output_start_time
      /\ drained.reorder = {} /\ Ordered(drained, next)
      /\ \A target \in Nat : f.output_start_time = target =>
           /\ Shows(f, target) => Shows(drained, target)
           /\ Shows(f, target) /\ Keeps(f, next, target) => Keeps(drained, next, target)
  BY <1>2, <1>4, <1>5, DrainOrdered
<1>7. /\ q.current = drained.current /\ q.expects = drained.expects
      /\ q.outputs = drained.outputs /\ q.reorder = drained.reorder
      /\ q.maximum_completed_pts = drained.maximum_completed_pts
      /\ q.output_start_time = drained.output_start_time
  <2>1. q = [drained EXCEPT !.draining = TRUE]
    BY <1>1, <1>2
  <2> QED BY <1>6, <2>1 DEF IsDecoder
<1>8. drained.current = NoSample
  BY <1>4, <1>6 DEF SamePlace
<1>9. \A n : Waiting(q, n) <=> Waiting(drained, n)
  BY <1>7 DEF Waiting
<1>10. Ordered(q, next)
  <2>1. InPlace(q, next)
    BY <1>6, <1>7, <1>9 DEF Ordered, InPlace
  <2>2. q.expects = NoSample => Blank(q)
    BY <1>6, <1>7 DEF Ordered, Blank
  <2> QED BY <1>3, <1>6, <1>7, <1>8, <2>1, <2>2 DEF Ordered
<1>11. \A target \in Nat : /\ Shows(drained, target) => Shows(q, target)
                           /\ Keeps(drained, next, target) => Keeps(q, next, target)
  BY <1>7, <1>9 DEF Shows, Keeps
<1> QED BY <1>3, <1>4, <1>6, <1>7, <1>10, <1>11

----------
(* What a plan selects *)

LEMMA ChosenExtremes ==
  ASSUME NEW set \in SUBSET Numbers, set # {}
  PROVE  IsFirst(First(set), set) /\ IsLastTime(LastTime(set), set)
<1>1. Extremes(set)
  BY ExtremesExist
<1>2. \E m \in set : \A n \in set : Precedes(m, n)
  BY <1>1 DEF Extremes, IsFirst
<1>3. \E m \in set : \A n \in set : Pts[n] <= Pts[m] /\ (Pts[n] = Pts[m] => m <= n)
  BY <1>1 DEF Extremes, IsLastTime
<1> QED BY <1>2, <1>3 DEF First, LastTime, IsFirst, IsLastTime

\* The one first is the only one.
LEMMA FirstUnique ==
  ASSUME NEW set \in SUBSET Numbers, NEW m, IsFirst(m, set)
  PROVE  First(set) = m
<1>1. set # {}
  BY DEF IsFirst
<1>2. PICK f : f = First(set)
  OBVIOUS
<1>3. IsFirst(f, set)
  BY <1>1, <1>2, ChosenExtremes
<1>4. /\ f \in Int /\ m \in Int /\ Pts[f] \in Int /\ Pts[m] \in Int
      /\ Precedes(f, m) /\ Precedes(m, f)
  BY <1>3, NumbersFinite DEF IsFirst
<1>5. f = m
  BY <1>4 DEF Precedes
<1> QED BY <1>2, <1>5

\* The greatest member of a set of samples.
LEMMA GreatestExists ==
  ASSUME NEW set \in SUBSET Numbers, set # {}
  PROVE  Max(set) \in set /\ \A n \in set : n <= Max(set)
<1>1. PICK key : key = [n \in set |-> 0 - n]
  OBVIOUS
<1>2. \A n \in set : n \in Int
  BY NumbersFinite
<1>3. Keyed(set, key)
  <2>1. IsFiniteSet(set)
    BY NumbersFinite, FS_Subset
  <2>2. \A n \in set : key[n] \in Int
    BY <1>1, <1>2
  <2> QED BY <1>2, <2>1, <2>2 DEF Keyed
<1>4. PICK m : IsLeast(m, set, key)
  BY <1>3, LeastExists
<1>5. m \in set /\ \A n \in set : m >= n
  <2>1. m \in set /\ m \in Int
    BY <1>2, <1>4 DEF IsLeast
  <2>2. ASSUME NEW n \in set PROVE m >= n
    <3>1. n = m \/ Before(key, m, n)
      BY <1>4 DEF IsLeast
    <3>2. key[m] = 0 - m /\ key[n] = 0 - n /\ n \in Int
      BY <1>1, <1>2, <2>1
    <3>3. n = m \/ 0 - m < 0 - n \/ (0 - m = 0 - n /\ m < n)
      BY <3>1, <3>2 DEF Before
    <3> QED BY ONLY <2>1, <3>2, <3>3
  <2> QED BY <2>1, <2>2
<1>6. PICK x : x = Max(set)
  OBVIOUS
<1>7. x \in set /\ \A n \in set : x >= n
  BY <1>5, <1>6 DEF Max
<1>8. \A n \in set : n <= x
  BY <1>2, <1>7
<1> QED BY <1>6, <1>7, <1>8

LEMMA GreaterOfTwo ==
  ASSUME NEW a \in Int, NEW b \in Int
  PROVE  Max({a, b}) = IF a > b THEN a ELSE b
<1>1. PICK x : x = Max({a, b})
  OBVIOUS
<1>2. \E y \in {a, b} : \A n \in {a, b} : y >= n
  <2>1. a >= b \/ b >= a
    OBVIOUS
  <2>2. a >= a /\ b >= b
    OBVIOUS
  <2> QED BY <2>1, <2>2
<1>3. x \in {a, b} /\ \A n \in {a, b} : x >= n
  BY <1>1, <1>2 DEF Max
<1>4. x = IF a > b THEN a ELSE b
  BY <1>3
<1> QED BY <1>1, <1>4

\* The keyframe a seek starts from is the last one at or before the target.
LEMMA KeyframeIsLast ==
  ASSUME ConformingTrack, NEW target \in Nat, NEW keyframe,
         keyframe = KeyframeAtOrBefore(target), keyframe # NoSample
  PROVE  /\ keyframe \in SyncSamples /\ Pts[keyframe] <= target
         /\ \A k \in SyncSamples : Pts[k] <= target => k <= keyframe
<1>1. PICK before : before = {n \in SyncSamples : Pts[n] <= target}
  OBVIOUS
<1>2. before # {} /\ keyframe = LastTime(before)
  BY <1>1 DEF KeyframeAtOrBefore
<1>3. SyncSamples \subseteq Numbers /\ before \in SUBSET Numbers
  BY <1>1 DEF SyncSamples
<1>4. IsLastTime(keyframe, before)
  BY <1>2, <1>3, ChosenExtremes
<1>5. keyframe \in SyncSamples /\ Pts[keyframe] <= target
  BY <1>1, <1>4 DEF IsLastTime
<1>6. ASSUME NEW k \in SyncSamples, Pts[k] <= target PROVE k <= keyframe
  <2>1. Pts[k] <= Pts[keyframe]
    BY <1>1, <1>4, <1>6 DEF IsLastTime
  <2>2. /\ k \in Int /\ keyframe \in Int /\ Pts[k] \in Int /\ Pts[keyframe] \in Int
        /\ k \in Numbers
    BY <1>3, <1>5, NumbersFinite
  <2>3. keyframe < k => Pts[keyframe] < Pts[k]
    BY <1>5, <2>2 DEF ConformingTrack
  <2> QED BY <2>1, <2>2, <2>3
<1> QED BY <1>5, <1>6

\* Scanning up to the next keyframe finds what the whole track has.
LEMMA ScanSuffices ==
  ASSUME ConformingTrack, NEW target \in Nat, NEW keyframe,
         keyframe = KeyframeAtOrBefore(target), keyframe # NoSample, NEW n,
         IsFirst(n, Later(target))
  PROVE  /\ n \in Scanned[keyframe] /\ SelectedSample(keyframe, target) = n
         /\ Required(n, RequiredSample(keyframe, n)) /\ RequiredSample(keyframe, n) \in Numbers
<1>1. /\ keyframe \in SyncSamples /\ keyframe \in Numbers /\ Pts[keyframe] <= target
      /\ \A k \in SyncSamples : k \in Numbers /\ (Pts[k] <= target => k <= keyframe)
  BY KeyframeIsLast DEF SyncSamples
<1>2. /\ n \in Numbers /\ Pts[n] >= target
      /\ \A k \in Numbers : Pts[k] >= target => Pts[n] <= Pts[k]
  <2>1. n \in Numbers /\ Pts[n] >= target
    BY DEF IsFirst, Later
  <2>2. ASSUME NEW k \in Numbers, Pts[k] >= target PROVE Pts[n] <= Pts[k]
    <3>1. Precedes(n, k)
      BY <2>2 DEF IsFirst, Later
    <3> QED BY <2>1, <3>1, NumbersFinite DEF Precedes
  <2> QED BY <2>1, <2>2
<1>3. \A k \in Numbers : k \in Int /\ Pts[k] \in Int
  BY NumbersFinite
<1>4. ASSUME NEW m \in Numbers
      PROVE  m \in Scanned[keyframe] <=>
               m >= keyframe /\ \A k \in SyncSamples : keyframe < k => m <= k
  BY <1>1 DEF Scanned
\* A keyframe after this one is after the target, and so not before the first.
<1>5. ASSUME NEW k \in SyncSamples, keyframe < k PROVE Pts[n] <= Pts[k]
  <2>1. ~ (k <= keyframe)
    BY <1>1, <1>3, <1>5
  <2>2. Pts[k] >= target
    BY <1>1, <1>3, <2>1
  <2> QED BY <1>1, <1>2, <2>2
<1>6. ASSUME NEW m \in Numbers, m >= keyframe, Pts[m] <= Pts[n] PROVE m \in Scanned[keyframe]
  <2>1. ASSUME NEW k \in SyncSamples, keyframe < k PROVE m <= k
    <3>1. Pts[n] <= Pts[k]
      BY <1>5, <2>1
    <3>2. k < m => Pts[k] < Pts[m]
      BY DEF ConformingTrack
    <3> QED BY <1>1, <1>2, <1>3, <1>6, <3>1, <3>2
  <2> QED BY <1>4, <1>6, <2>1
<1>7. n >= keyframe
  <2>1. n < keyframe => Pts[n] < Pts[keyframe]
    <3>1. keyframe <= keyframe
      BY <1>1, <1>3
    <3> QED BY <1>1, <1>2, <3>1 DEF ConformingTrack
  <2> QED BY <1>1, <1>2, <1>3, <2>1
<1>8. n \in Scanned[keyframe]
  BY <1>2, <1>3, <1>6, <1>7
<1>9. SelectedSample(keyframe, target) = n
  <2>1. PICK later : later = {m \in Scanned[keyframe] : Pts[m] >= target}
    OBVIOUS
  <2>2. Scanned[keyframe] \subseteq Numbers
    BY <1>1 DEF Scanned
  <2>3. later \in SUBSET Numbers /\ n \in later /\ \A m \in later : m \in Later(target)
    BY <1>2, <1>8, <2>1, <2>2 DEF Later
  <2>4. IsFirst(n, later)
    BY <2>3 DEF IsFirst
  <2>5. First(later) = n
    BY <2>3, <2>4, FirstUnique
  <2> QED BY <2>1, <2>3, <2>5 DEF SelectedSample
<1>10. Required(n, RequiredSample(keyframe, n)) /\ RequiredSample(keyframe, n) \in Numbers
  <2>1. PICK set : set = {m \in Scanned[keyframe] : Pts[m] <= Pts[n]}
    OBVIOUS
  <2>2. PICK last : last = Max(set)
    OBVIOUS
  <2>3. last = RequiredSample(keyframe, n)
    BY <2>1, <2>2 DEF RequiredSample
  <2>4. set \in SUBSET Numbers /\ n \in set
    <3>1. Scanned[keyframe] \subseteq Numbers
      BY <1>1 DEF Scanned
    <3> QED BY <1>2, <1>3, <1>8, <2>1, <3>1
  <2>5. last \in set /\ \A m \in set : m <= last
    BY <2>2, <2>4, GreatestExists
  <2>6. ASSUME NEW m \in Numbers, Pts[m] <= Pts[n] PROVE m <= last
    <3>1. CASE m >= keyframe
      BY <1>6, <2>1, <2>5, <2>6, <3>1
    <3>2. CASE ~ (m >= keyframe)
      <4>1. last >= keyframe /\ last \in Numbers
        BY <1>4, <2>1, <2>4, <2>5
      <4> QED BY <1>1, <1>3, <3>2, <4>1
    <3> QED BY <3>1, <3>2
  <2> QED BY <2>1, <2>3, <2>4, <2>5, <2>6 DEF Required
<1> QED BY <1>8, <1>9, <1>10

LatestStart(target) ==
  Max({NoSample} \cup {e.input_position : e \in LatestBefore(target)})

\* The parts of a plan, and where it resumes.
LEMMA PlanFields ==
  ASSUME NEW target, NEW allow, NEW kept, kept = KeyframeAtOrBefore(target),
         NEW plan, plan = Plan(target, allow)
  PROVE  /\ plan.target = target
         /\ plan.selected = SelectedSample(kept, target)
         /\ plan.estimate = EstimatedInput(kept, plan.selected, plan.resume)
         /\ plan.source = "ForwardRetarget" =>
              /\ allow /\ active_exact_target # NoTime /\ target > active_exact_target
              /\ plan.resume = cursor
         /\ plan.source = "Checkpoint" =>
              plan.resume = LatestStart(target)
         /\ plan.source = "Keyframe" => plan.resume = kept
<1>1. \A keyframe, checkpoint, forward :
        /\ Source(keyframe, checkpoint, forward) \in {"ForwardRetarget", "Checkpoint", "Keyframe"}
        /\ Source(keyframe, checkpoint, forward) = "ForwardRetarget" => forward # NoSample
  BY DEF Source
<1> DEFINE keyframe == KeyframeAtOrBefore(target)
           mayForward == allow /\ active_exact_target # NoTime /\ target > active_exact_target
           forward == IF mayForward THEN cursor ELSE NoSample
           checkpoint == Max({NoSample} \cup {e.input_position : e \in LatestBefore(target)})
           source == Source(keyframe, checkpoint, forward)
           resume == CASE source = "ForwardRetarget" -> forward
                       [] source = "Checkpoint" -> checkpoint
                       [] source = "Keyframe" -> keyframe
           selected == SelectedSample(keyframe, target)
           estimate == EstimatedInput(keyframe, selected, resume)
<1>2. plan = [target |-> target, source |-> source, resume |-> resume,
              selected |-> selected, estimate |-> estimate]
  BY DEF Plan
<1>3. source = "ForwardRetarget" => forward # NoSample
  <2> HIDE DEF keyframe, forward, checkpoint
  <2> QED BY <1>1
<1>4. source = "ForwardRetarget" => mayForward /\ forward = cursor
  <2> HIDE DEF source, mayForward
  <2> QED BY <1>3
<1>5. /\ source = "ForwardRetarget" => resume = forward
      /\ source = "Checkpoint" => resume = checkpoint
      /\ source = "Keyframe" => resume = keyframe
  <2> HIDE DEF source, keyframe, forward, checkpoint
  <2> QED OBVIOUS
<1>6. /\ plan.source = "ForwardRetarget" => mayForward /\ plan.resume = cursor
      /\ plan.source = "Checkpoint" => plan.resume = checkpoint
      /\ plan.source = "Keyframe" => plan.resume = keyframe
      /\ plan.target = target /\ plan.selected = selected
      /\ plan.estimate = EstimatedInput(keyframe, selected, plan.resume)
  <2>1. plan.estimate = estimate /\ plan.resume = resume
    <3> HIDE DEF source, resume, selected, estimate
    <3> QED BY <1>2
  <2>2. /\ plan.source = source /\ plan.resume = resume
        /\ plan.target = target /\ plan.selected = selected
    <3> HIDE DEF source, resume, selected, estimate
    <3> QED BY <1>2
  <2>3. plan.estimate = EstimatedInput(keyframe, selected, plan.resume)
    <3> HIDE DEF resume, selected, keyframe
    <3> QED BY <2>1
  <2> HIDE DEF source, resume, selected, estimate, keyframe, mayForward, forward, checkpoint
  <2> QED BY <1>4, <1>5, <2>2, <2>3
<1>7. keyframe = kept
  OBVIOUS
<1> HIDE DEF checkpoint, selected, keyframe
<1>8. /\ plan.selected = SelectedSample(kept, target)
      /\ plan.estimate = EstimatedInput(kept, plan.selected, plan.resume)
  BY <1>6, <1>7 DEF selected
<1> QED BY <1>6, <1>7, <1>8 DEF checkpoint, LatestStart

\* A plan selects the first sample of the whole track at or after its target,
\* and expects to feed all it takes to present it.
LEMMA PlanDescribed ==
  ASSUME ConformingTrack, NEW target \in Targets, NEW allow,
         KeyframeAtOrBefore(target) # NoSample,
         NEW plan, plan = Plan(target, allow), plan.resume \in 1 .. AtEnd
  PROVE  Planned(plan)
<1>1. target \in Nat /\ AtEnd \in Nat
  BY SeekAssumption, LengthType
<1>2. PICK keyframe : keyframe = KeyframeAtOrBefore(target)
  OBVIOUS
<1>3. /\ plan.target = target
      /\ plan.selected = SelectedSample(keyframe, target)
      /\ plan.estimate = EstimatedInput(keyframe, plan.selected, plan.resume)
  BY <1>2, PlanFields
<1>4. PICK resume \in Int : resume = plan.resume
  BY <1>1
<1>5. PICK selected : selected = plan.selected
  OBVIOUS
<1>6. PICK later : later = Later(target)
  OBVIOUS
<1>7. later \in SUBSET Numbers
  BY <1>6 DEF Later
<1>8. CASE later = {}
  <2>1. {n \in Scanned[keyframe] : Pts[n] >= target} = {}
    <3>1. keyframe \in SyncSamples
      BY <1>1, <1>2, KeyframeIsLast
    <3>2. Scanned[keyframe] \subseteq Numbers
      BY <3>1 DEF Scanned
    <3> QED BY <1>6, <1>8, <3>2 DEF Later
  <2>2. selected = NoSample
    BY <1>3, <1>5, <2>1 DEF SelectedSample
  <2>3. plan.estimate = AtEnd - plan.resume
    BY <1>3, <1>5, <2>2 DEF EstimatedInput
  <2> QED BY <1>3, <1>5, <1>6, <1>8, <2>2, <2>3 DEF Planned
<1>9. CASE later # {}
  <2>1. PICK n : n = First(later)
    OBVIOUS
  <2>2. IsFirst(n, later) /\ n \in Numbers
    BY <1>7, <1>9, <2>1, ChosenExtremes DEF IsFirst
  <2>3. n # NoSample
    BY <2>2, NumbersFacts
  <2>4. PICK m : m = RequiredSample(keyframe, n)
    OBVIOUS
  <2>5. SelectedSample(keyframe, target) = n /\ Required(n, m) /\ m \in Numbers
    BY <1>1, <1>2, <1>6, <2>2, <2>4, ScanSuffices
  <2>6. selected = n
    BY <1>3, <1>5, <2>5
  <2>7. plan.estimate = Max({m - resume + 1, 0})
    BY <1>3, <1>4, <1>5, <2>3, <2>4, <2>6 DEF EstimatedInput
  <2>8. m \in Int /\ m - resume + 1 \in Int
    BY <2>5, NumbersFinite
  <2>9. plan.estimate = IF m - resume + 1 > 0 THEN m - resume + 1 ELSE 0
    BY <2>7, <2>8, GreaterOfTwo
  <2> QED BY <1>3, <1>4, <1>5, <1>6, <1>9, <2>1, <2>3, <2>5, <2>6, <2>9 DEF Planned
<1> QED BY <1>8, <1>9

\* One entry resumes latest before a time.
LEMMA LatestAlone ==
  ASSUME Pairing, CacheAccounted, \A e \in entries : EntryOrdered(e.checkpoint),
         NEW target, NEW e \in LatestBefore(target)
  PROVE  LatestStart(target) = e.input_position
<1>1. LatestBefore(target) = {e}
  <2>1. ASSUME NEW f \in LatestBefore(target) PROVE f = e
    <3>1. /\ e \in entries /\ f \in entries
          /\ f.checkpoint.resume_time <= e.checkpoint.resume_time
          /\ e.checkpoint.resume_time <= f.checkpoint.resume_time
      BY <2>1 DEF LatestBefore
    <3>2. e.checkpoint.resume_time \in Int /\ f.checkpoint.resume_time \in Int
      BY <3>1 DEF EntryOrdered
    <3>3. e.checkpoint.resume_time = f.checkpoint.resume_time
      BY <3>1, <3>2
    <3> QED BY <3>1, <3>3 DEF CacheAccounted
  <2> QED BY <2>1
<1>2. e \in entries
  BY DEF LatestBefore
<1>3. PICK p \in Int : p = e.input_position /\ p > 0
  BY <1>2, LengthType DEF Pairing, EntriesPaired
<1>4. {NoSample} \cup {f.input_position : f \in LatestBefore(target)} = {p, 0}
  BY <1>1, <1>3 DEF NoSample
<1>5. Max({p, 0}) = p
  BY <1>3, GreaterOfTwo
<1> QED BY <1>3, <1>4, <1>5 DEF LatestStart

----------
(* Every step keeps it *)

LEMMA NextInTrack ==
  ASSUME Pairing
  PROVE  /\ NextSample \in Int /\ NextSample \in 1 .. AtEnd
         /\ NextSample < AtEnd => NextSample \in Numbers
         /\ cursor \in Int /\ NextSample \in {cursor, cursor - 1}
<1>1. /\ cursor \in 1 .. AtEnd /\ held \in 0 .. Len(Samples)
      /\ Len(Samples) \in Nat /\ AtEnd = Len(Samples) + 1
  BY LengthType DEF Pairing, Shapes
<1>2. Numbers = 1 .. Len(Samples)
  BY LengthType DEF Numbers
<1>3. held # NoSample => cursor = held + 1
  BY DEF Pairing, HeldBeforeCursor
<1>4. NextSample = IF held # 0 THEN held ELSE cursor
  BY DEF NextSample, NoSample
<1>5. PICK c \in Int, h \in Int : c = cursor /\ h = held
  BY <1>1
<1>6. PICK next : next = NextSample
  OBVIOUS
<1> QED BY <1>1, <1>2, <1>3, <1>4, <1>5, <1>6 DEF NoSample

\* What the invariant says of the next state, by its parts.
LEMMA SeekAgain ==
  ASSUME NEW d, d = decoder', NEW next, next = NextSample', NEW g, g = goal',
         NEW a, a = answer', NEW f, f = fed',
         Ordered(d, next), ~ d.configured => d.expects = NoSample,
         \A e \in entries' : EntryOrdered(e.checkpoint),
         d.output_start_time = g.target,
         g # NoGoal =>
           /\ Planned(g) /\ Shows(d, g.target)
           /\ a = NoSample => Keeps(d, next, g.target)
           /\ a # NoSample => a = g.selected /\ \A k \in Numbers : Pts[k] <= Pts[a] => k < next
           /\ f \in Nat /\ f \in {next - g.resume, next - g.resume + 1}
  PROVE  SeekInv'
<1>1. Ordered(decoder', NextSample') /\ (~ decoder'.configured => decoder'.expects = NoSample)
  OBVIOUS
<1>2. decoder'.output_start_time = goal'.target
  OBVIOUS
<1>3. goal' # NoGoal => Answering(decoder, NextSample)'
  BY DEF Answering, Answered
<1> QED BY <1>1, <1>2, <1>3 DEF SeekInv

LEMMA SeekInit == Init => SeekInv
<1> SUFFICES ASSUME Init PROVE SeekInv
  OBVIOUS
<1>1. PICK d : d = NewDecoder(TRUE, 1)
  OBVIOUS
<1>2. /\ decoder = d /\ entries = {} /\ goal = NoGoal
  BY <1>1 DEF Init
<1>3. Blank(d) /\ ~ d.draining /\ d.expects = NoSample /\ d.output_start_time = NoTime
  BY <1>1 DEF NewDecoder, Blank
<1>4. PICK next : next = NextSample
  OBVIOUS
<1>5. Ordered(d, next)
  BY <1>3, BlankOrdered
<1>6. NoGoal.target = NoTime
  BY DEF NoGoal
<1> QED BY <1>2, <1>3, <1>4, <1>5, <1>6 DEF SeekInv

LEMMA SeekKept ==
  ASSUME SeekInv, UNCHANGED <<cursor, held, decoder, goal, answer, fed>>,
         entries' \subseteq entries
  PROVE  SeekInv'
<1>1. NextSample' = NextSample
  BY DEF NextSample
<1>2. \A e \in entries' : EntryOrdered(e.checkpoint)
  BY DEF SeekInv
<1>3. PICK d, next, g, a, f : d = decoder /\ next = NextSample /\ g = goal /\ a = answer /\ f = fed
  OBVIOUS
<1>4. Ordered(d, next) /\ (~ d.configured => d.expects = NoSample) /\ d.output_start_time = g.target
  BY <1>3 DEF SeekInv
<1>5. g # NoGoal =>
        /\ Planned(g) /\ Shows(d, g.target)
        /\ a = NoSample => Keeps(d, next, g.target)
        /\ a # NoSample => a = g.selected /\ \A k \in Numbers : Pts[k] <= Pts[a] => k < next
        /\ f \in Nat /\ f \in {next - g.resume, next - g.resume + 1}
  BY <1>3 DEF SeekInv, Answering, Answered
<1>6. /\ d = decoder' /\ next = NextSample' /\ g = goal' /\ a = answer' /\ f = fed'
  BY <1>1, <1>3
<1> QED BY <1>2, <1>4, <1>5, <1>6, SeekAgain

LEMMA FailsSeek ==
  ASSUME SeekInv, Fails
  PROVE  SeekInv'
BY SeekKept DEF Fails, callerVars, cacheVars, goalVars

\* A decoder that starts afresh with no seek in progress.
LEMMA StartsSeek ==
  ASSUME SeekInv, goal' = NoGoal, entries' = entries, Blank(decoder'),
         ~ decoder'.draining, decoder'.expects = NoSample,
         decoder'.output_start_time = NoTime
  PROVE  SeekInv'
<1>1. PICK d, next, g, a, f :
        d = decoder' /\ next = NextSample' /\ g = goal' /\ a = answer' /\ f = fed'
  OBVIOUS
<1>2. Ordered(d, next)
  BY <1>1, BlankOrdered
<1>3. d.output_start_time = g.target /\ ~ (g # NoGoal)
  BY <1>1 DEF NoGoal
<1>4. \A e \in entries' : EntryOrdered(e.checkpoint)
  BY DEF SeekInv
<1>5. ~ d.configured => d.expects = NoSample
  BY <1>1
<1> QED BY <1>1, <1>2, <1>3, <1>4, <1>5, SeekAgain

LEMMA PreviewSeek ==
  ASSUME SeekInv, NEW target, Preview(target)
  PROVE  SeekInv'
<1>1. CASE KeyframeNearest(target) = NoSample
  BY <1>1, FailsSeek DEF Preview
<1>2. CASE KeyframeNearest(target) # NoSample
  <2>1. decoder' = Flush(decoder) /\ goal' = NoGoal /\ entries' = entries
    BY <1>2 DEF Preview, cacheVars
  <2>2. PICK d : d = decoder
    OBVIOUS
  <2>3. /\ Blank(Flush(d)) /\ ~ Flush(d).draining /\ Flush(d).output_start_time = NoTime
        /\ Flush(d).expects = NoSample
    BY FlushBlank, FlushStarts DEF Started
  <2> QED BY <2>1, <2>2, <2>3, StartsSeek
<1> QED BY <1>1, <1>2

\* A seek begins with a decoder that has lost nothing it needs.
LEMMA BeginsSeek ==
  ASSUME NEW plan, Planned(plan), goal' = plan, answer' = NoSample, fed' = 0,
         NEW d, d = decoder', NEW next \in Int, next = NextSample',
         next \in {plan.resume, plan.resume - 1},
         Ordered(d, next), ~ d.configured => d.expects = NoSample,
         \A e \in entries' : EntryOrdered(e.checkpoint),
         d.output_start_time = plan.target,
         Shows(d, plan.target), Keeps(d, next, plan.target)
  PROVE  SeekInv'
<1>1. PICK a, f : a = answer' /\ f = fed'
  OBVIOUS
<1>2. a = NoSample /\ f = 0
  BY <1>1
<1>3. f \in Nat /\ f \in {next - plan.resume, next - plan.resume + 1}
  <2>1. AtEnd \in Nat
    BY LengthType
  <2>2. PICK r \in Int : r = plan.resume
    BY <2>1 DEF Planned
  <2>3. next = r \/ next = r - 1
    BY <2>2
  <2>4. 0 = next - r \/ 0 = next - r + 1
    BY <2>3
  <2> QED BY <1>2, <2>2, <2>4
<1> QED BY <1>1, <1>2, <1>3, SeekAgain

LEMMA RetargetSeek ==
  ASSUME ConformingTrack, Pairing, SeekInv, NEW target \in Targets, NEW allow,
         KeyframeAtOrBefore(target) # NoSample, MayGoForward(allow),
         NEW plan, plan = Plan(target, allow), plan.source = "ForwardRetarget",
         RetargetForward(plan)
  PROVE  SeekInv'
<1>1. CASE ~ CanRetarget(decoder, plan.target)
  BY <1>1, FailsSeek DEF RetargetForward
<1>2. CASE CanRetarget(decoder, plan.target)
  <2>1. /\ plan.target = target /\ allow /\ plan.resume = cursor
    BY PlanFields
  <2>2. /\ decoder' = Retarget(decoder, target)
        /\ goal' = plan /\ answer' = NoSample /\ fed' = 0
        /\ cursor' = cursor /\ held' = held /\ entries' = entries
    BY <1>2, <2>1 DEF RetargetForward, Begins, cacheVars
  <2>3. PICK d, next : d = decoder /\ next = NextSample
    OBVIOUS
  <2>4. PICK q : q = Retarget(d, target)
    OBVIOUS
  <2>5. PICK before : before = goal.target
    OBVIOUS
  <2>6. d.output_start_time # NoTime /\ target >= d.output_start_time
    BY <1>2, <2>1, <2>3 DEF CanRetarget
  <2>7. d.output_start_time = before
    BY <2>3, <2>5 DEF SeekInv
  <2>8. goal # NoGoal /\ answer = NoSample
    BY <2>1, <2>5, <2>6, <2>7 DEF NoGoal, MayGoForward
  <2>9. /\ Planned(goal) /\ Shows(d, before) /\ Keeps(d, next, before)
    BY <2>3, <2>5, <2>8 DEF SeekInv, Answering
  <2>10. target \in Nat /\ before \in Nat /\ before <= target
    <3>1. Targets \subseteq Nat
      BY SeekAssumption
    <3>2. before \in Targets
      BY <2>5, <2>9 DEF Planned
    <3> QED BY <2>6, <2>7, <3>1, <3>2
  <2>11. IsDecoder(d) /\ Ordered(d, next) /\ (~ d.configured => d.expects = NoSample)
    BY <2>3 DEF SeekInv, Pairing, Shapes
  <2>12. /\ Ordered(q, next) /\ q.output_start_time = target
         /\ Shows(q, target) /\ Keeps(q, next, target)
    BY <2>4, <2>9, <2>10, <2>11, RetargetOrdered
  <2>13. q.configured = d.configured /\ q.expects = d.expects
    BY <2>4, <2>11, RetargetKeeps DEF SamePlace
  <2>14. q = decoder' /\ next = NextSample'
    BY <2>2, <2>3, <2>4 DEF NextSample
  <2>15. next \in Int /\ next \in {plan.resume, plan.resume - 1}
    BY <2>1, <2>3, NextInTrack
  <2>16. Planned(plan)
    BY <2>1, PlanDescribed DEF Pairing, Shapes
  <2>17. \A e \in entries' : EntryOrdered(e.checkpoint)
    BY <2>2 DEF SeekInv
  <2> QED BY <2>1, <2>2, <2>11, <2>12, <2>13, <2>14, <2>15, <2>16, <2>17, BeginsSeek
<1> QED BY <1>1, <1>2

LEMMA RestoreSeek ==
  ASSUME ConformingTrack, Pairing, CacheAccounted, SeekInv,
         NEW target \in Targets, NEW allow, KeyframeAtOrBefore(target) # NoSample,
         NEW plan, plan = Plan(target, allow), plan.source = "Checkpoint",
         RestoreCheckpoint(plan)
  PROVE  SeekInv'
<1>1. plan.target = target /\ plan.resume = LatestStart(target)
  BY PlanFields
<1>2. \A e \in entries : EntryOrdered(e.checkpoint)
  BY DEF SeekInv
<1>3. PICK e \in LatestBefore(target) :
        \/ Fails
        \/ /\ CanRestore(decoder, e.checkpoint, target)
           /\ decoder' = Restore(decoder, e.checkpoint, target)
           /\ entries' = (entries \ {e}) \cup {[e EXCEPT !.last_used = next_recency]}
           /\ Begins(plan) /\ Moves(e.input_position, FALSE)
  BY <1>1 DEF RestoreCheckpoint
<1>4. CASE Fails
  BY <1>4, FailsSeek
<1>5. CASE ~ Fails
  <2>1. PICK c, next : c = e.checkpoint /\ next = e.input_position
    OBVIOUS
  <2>2. /\ e \in entries /\ IsEntry(e) /\ next = c.expects /\ next \in 1 .. AtEnd
        /\ EntryOrdered(c)
    BY <1>2, <2>1 DEF LatestBefore, Pairing, Shapes, EntriesPaired
  <2>3. PICK d : d = decoder
    OBVIOUS
  <2>4. PICK q : q = Restore(d, c, target)
    OBVIOUS
  <2>5. /\ CanRestore(d, c, target) /\ decoder' = q
        /\ goal' = plan /\ answer' = NoSample /\ fed' = 0 /\ cursor' = next /\ held' = NoSample
    BY <1>3, <1>5, <2>1, <2>3, <2>4 DEF Begins, Moves
  <2>6. target \in Nat /\ target > c.resume_time /\ d.configured
    BY <2>5, SeekAssumption DEF CanRestore
  <2>7. /\ Ordered(q, next) /\ q.output_start_time = target
        /\ Shows(q, target) /\ Keeps(q, next, target)
    BY <2>2, <2>4, <2>6, RestoreOrdered
  <2>8. q.configured = d.configured
    BY <2>4, RestoreContinues
  <2>9. next = NextSample'
    BY <2>5 DEF NextSample
  <2>10. plan.resume = next
    BY <1>1, <1>2, <2>1, LatestAlone
  <2>11. next \in Int /\ next \in {plan.resume, plan.resume - 1}
    BY <2>2, <2>10, LengthType
  <2>12. Planned(plan)
    BY <2>2, <2>10, PlanDescribed
  <2>13. \A f \in entries' : EntryOrdered(f.checkpoint)
    <3>1. PICK used : used = [e EXCEPT !.last_used = next_recency]
      OBVIOUS
    <3>2. used.checkpoint = c
      BY <2>1, <2>2, <3>1 DEF IsEntry
    <3>3. \A f \in entries' : f \in entries \/ f = used
      BY <1>3, <1>5, <3>1
    <3> QED BY <1>2, <2>2, <3>2, <3>3
  <2> QED BY <1>1, <2>5, <2>6, <2>7, <2>8, <2>9, <2>11, <2>12, <2>13, BeginsSeek
<1> QED BY <1>4, <1>5

LEMMA RestartSeek ==
  ASSUME ConformingTrack, Pairing, SeekInv, NEW target \in Targets, NEW allow,
         KeyframeAtOrBefore(target) # NoSample,
         NEW plan, plan = Plan(target, allow), plan.source = "Keyframe",
         RestartAtKeyframe(plan)
  PROVE  SeekInv'
<1>1. PICK keyframe : keyframe = KeyframeAtOrBefore(target)
  OBVIOUS
<1>2. plan.target = target /\ plan.resume = keyframe
  BY <1>1, PlanFields
<1>3. target \in Nat
  BY SeekAssumption
<1>4. keyframe \in SyncSamples /\ keyframe \in Numbers /\ Pts[keyframe] <= target
  BY <1>1, <1>3, KeyframeIsLast DEF SyncSamples
<1>5. PICK d : d = decoder
  OBVIOUS
<1>6. PICK q : q = FlushForSeek(d, target)
  OBVIOUS
<1>7. /\ decoder' = q /\ goal' = plan /\ answer' = NoSample /\ fed' = 0
      /\ cursor' = keyframe /\ held' = NoSample /\ entries' = entries
  BY <1>2, <1>5, <1>6 DEF RestartAtKeyframe, Begins, Moves, cacheVars
<1>8. Blank(q) /\ ~ q.draining /\ q.output_start_time = target
  BY <1>6, FlushBlank
<1>9. q.expects = NoSample
  BY <1>6, FlushStarts DEF Started
<1>10. Ordered(q, keyframe) /\ Shows(q, target)
  BY <1>3, <1>8, <1>9, BlankOrdered
<1>11. Keeps(q, keyframe, target)
  <2>1. ASSUME NEW n \in Numbers, n < keyframe PROVE ~ (Pts[n] >= target)
    <3>1. Pts[n] < Pts[keyframe]
      <4>1. keyframe <= keyframe
        BY <1>4, NumbersFinite
      <4> QED BY <1>4, <2>1, <4>1 DEF ConformingTrack
    <3> QED BY <1>3, <1>4, <3>1, NumbersFinite
  <2> QED BY <2>1 DEF Keeps
<1>12. keyframe = NextSample'
  BY <1>7 DEF NextSample
<1>13. keyframe \in Int /\ keyframe \in {plan.resume, plan.resume - 1} /\ keyframe \in 1 .. AtEnd
  BY <1>2, <1>4, NumbersFinite, SyncInTrack
<1>14. Planned(plan)
  BY <1>1, <1>2, <1>13, PlanDescribed
<1>15. \A e \in entries' : EntryOrdered(e.checkpoint)
  BY <1>7 DEF SeekInv
<1> QED BY <1>2, <1>7, <1>8, <1>9, <1>10, <1>11, <1>12, <1>13, <1>14, <1>15, BeginsSeek

LEMMA ExecuteSeek ==
  ASSUME ConformingTrack, Accounted, SeekInv, NEW target \in Targets, NEW allow,
         KeyframeAtOrBefore(target) # NoSample, MayGoForward(allow),
         Execute(Plan(target, allow))
  PROVE  SeekInv'
<1>1. PICK plan : plan = Plan(target, allow)
  OBVIOUS
<1>2. Pairing /\ CacheAccounted
  BY DEF Accounted
<1>3. plan.source \in {"ForwardRetarget", "Checkpoint", "Keyframe"}
  BY <1>1, PlanResumes
<1>4. CASE plan.source = "ForwardRetarget"
  <2>1. RetargetForward(plan)
    BY <1>1, <1>4 DEF Execute
  <2> QED BY <1>1, <1>2, <1>4, <2>1, RetargetSeek
<1>5. CASE plan.source = "Checkpoint"
  <2>1. RestoreCheckpoint(plan)
    BY <1>1, <1>5 DEF Execute
  <2> QED BY <1>1, <1>2, <1>5, <2>1, RestoreSeek
<1>6. CASE plan.source = "Keyframe"
  <2>1. RestartAtKeyframe(plan)
    BY <1>1, <1>6 DEF Execute
  <2> QED BY <1>1, <1>2, <1>6, <2>1, RestartSeek
<1> QED BY <1>3, <1>4, <1>5, <1>6

\* What the invariant says of a seek in progress.
LEMMA SeekFacts ==
  ASSUME SeekInv, NEW d, d = decoder, NEW next, next = NextSample
  PROVE  /\ Ordered(d, next) /\ d.output_start_time = goal.target
         /\ \A e \in entries : EntryOrdered(e.checkpoint)
         /\ ~ d.configured => d.expects = NoSample
         /\ goal # NoGoal =>
              /\ Planned(goal) /\ goal.target \in Nat /\ Shows(d, goal.target)
              /\ answer = NoSample => Keeps(d, next, goal.target)
              /\ answer # NoSample => Answered(answer, next)
              /\ fed \in Nat /\ fed \in {next - goal.resume, next - goal.resume + 1}
<1>1. goal # NoGoal => Answering(d, next)
  BY DEF SeekInv
<1>2. Planned(goal) => goal.target \in Nat
  BY SeekAssumption DEF Planned
<1> QED BY <1>1, <1>2 DEF SeekInv, Answering

\* A step of the decoder on its way: the goal stays, and so does the answer.
LEMMA GoesOn ==
  ASSUME SeekInv, goal' = goal, answer' = answer,
         NEW d, d = decoder, NEW next \in Int, next = NextSample,
         NEW q, q = decoder', NEW after \in Int, after = NextSample', after >= next,
         Ordered(q, after), q.output_start_time = d.output_start_time,
         ~ q.configured => q.expects = NoSample,
         \A e \in entries' : EntryOrdered(e.checkpoint),
         \A target \in Nat : d.output_start_time = target =>
           /\ Shows(d, target) => Shows(q, target)
           /\ Shows(d, target) /\ Keeps(d, next, target) => Keeps(q, after, target),
         goal # NoGoal =>
           fed' \in Nat /\ fed' \in {after - goal.resume, after - goal.resume + 1}
  PROVE  SeekInv'
<1>1. PICK g, a, f : g = goal /\ a = answer /\ f = fed'
  OBVIOUS
<1>2. /\ d.output_start_time = g.target
      /\ g # NoGoal =>
           /\ Planned(g) /\ g.target \in Nat /\ Shows(d, g.target)
           /\ a = NoSample => Keeps(d, next, g.target)
           /\ a # NoSample => Answered(a, next)
  BY <1>1, SeekFacts
<1>3. ASSUME g # NoGoal
      PROVE  /\ Planned(g) /\ Shows(q, g.target)
             /\ a = NoSample => Keeps(q, after, g.target)
             /\ a # NoSample => a = g.selected /\ \A k \in Numbers : Pts[k] <= Pts[a] => k < after
             /\ f \in Nat /\ f \in {after - g.resume, after - g.resume + 1}
  <2>1. PICK target \in Nat : target = g.target
    BY <1>2, <1>3
  <2>2. /\ Shows(q, target) /\ (a = NoSample => Keeps(q, after, target))
    BY <1>2, <1>3, <2>1
  <2>3. ASSUME a # NoSample
        PROVE  a = g.selected /\ \A k \in Numbers : Pts[k] <= Pts[a] => k < after
    <3>1. a = g.selected /\ \A k \in Numbers : Pts[k] <= Pts[a] => k < next
      BY <1>1, <1>2, <1>3, <2>3 DEF Answered
    <3> QED BY <3>1, NumbersFinite
  <2> QED BY <1>1, <1>2, <1>3, <2>1, <2>2, <2>3
<1>4. g = goal' /\ a = answer' /\ f = fed' /\ q.output_start_time = g.target
  BY <1>1, <1>2
<1> QED BY <1>3, <1>4, SeekAgain

LEMMA CaptureSeek ==
  ASSUME ConformingTrack, Pairing, SeekInv, CaptureCheckpoint
  PROVE  SeekInv'
<1>1. /\ cursor' = cursor /\ held' = held /\ held = NoSample
      /\ goal' = goal /\ answer' = answer /\ fed' = fed
  BY DEF CaptureCheckpoint, callerVars, goalVars
<1>2. CASE ~ FarFromLast
  <2>1. decoder' = decoder /\ entries' = entries
    BY <1>2 DEF CaptureCheckpoint, cacheVars
  <2> QED BY <1>1, <2>1, SeekKept
<1>3. CASE FarFromLast
  <2> DEFINE finished == IF decoder.configured /\ ~ decoder.draining
                         THEN Finish(decoder) ELSE decoder
  <2>1. /\ decoder' = finished
        /\ \/ CanCheckpoint(finished) /\ Insert(Checkpoint(finished), cursor)
           \/ entries' = entries
    BY <1>3 DEF CaptureCheckpoint, cacheVars
  <2>2. PICK d : d = decoder
    OBVIOUS
  <2>3. PICK next : next = NextSample
    OBVIOUS
  <2>4. /\ IsDecoder(d) /\ next \in Int /\ next \in 1 .. AtEnd /\ next = cursor /\ next = NextSample'
    BY <1>1, <2>2, <2>3, NextInTrack DEF Pairing, Shapes, NextSample
  <2>5. /\ Ordered(d, next) /\ (~ d.configured => d.expects = NoSample)
        /\ \A e \in entries : EntryOrdered(e.checkpoint)
    BY <2>2, <2>3, SeekFacts
  <2>6. PICK q : q = finished
    OBVIOUS
  <2>7. q = IF d.configured /\ ~ d.draining THEN Finish(d) ELSE d
    BY <2>2, <2>6
  <2> HIDE DEF finished
  <2>8. /\ Ordered(q, next) /\ q.output_start_time = d.output_start_time
        /\ q.configured = d.configured /\ q.expects = d.expects /\ q.draining = d.draining
        /\ d.configured /\ ~ d.draining => q.current = NoSample
        /\ \A target \in Nat : d.output_start_time = target =>
             /\ Shows(d, target) => Shows(q, target)
             /\ Shows(d, target) /\ Keeps(d, next, target) => Keeps(q, next, target)
    <3>1. CASE d.configured /\ ~ d.draining
      BY <2>4, <2>5, <2>7, <3>1, FinishOrdered
    <3>2. CASE ~ (d.configured /\ ~ d.draining)
      <4>1. q = d
        BY <2>7, <3>2
      <4> QED BY <2>5, <3>2, <4>1
    <3> QED BY <3>1, <3>2
  <2>9. \A e \in entries' : EntryOrdered(e.checkpoint)
    <3>1. CASE entries' = entries
      BY <2>5, <3>1
    <3>2. CASE CanCheckpoint(q) /\ Insert(Checkpoint(q), cursor)
      <4>1. PICK checkpoint : checkpoint = Checkpoint(q)
        OBVIOUS
      <4>2. PICK entry : entry = [checkpoint |-> checkpoint, input_position |-> cursor,
                                  last_used |-> next_recency]
        OBVIOUS
      <4>3. Insert(checkpoint, cursor)
        BY <3>2, <4>1
      <4>4. \A e \in entries' : e \in entries \/ e = entry
        BY <4>2, <4>3 DEF Insert, Kept
      <4>5. q.configured /\ ~ q.draining /\ q.maximum_completed_pts # NoTime
        BY <3>2 DEF CanCheckpoint
      <4>6. q.current = NoSample /\ q.expects # NoSample
        BY <2>8, <4>5 DEF Ordered, Blank
      <4>7. q.expects = next /\ next # NoSample
        BY <2>2, <2>3, <2>4, <2>8, <4>5, <4>6 DEF Pairing, Continued, NoSample
      <4>8. EntryOrdered(checkpoint)
        BY <2>8, <3>2, <4>1, <4>6, <4>7, CheckpointOrdered
      <4>9. entry.checkpoint = checkpoint
        BY <4>2
      <4> QED BY <2>5, <4>4, <4>8, <4>9
    <3> QED BY <2>1, <2>6, <3>1, <3>2
  <2>10. goal # NoGoal => fed' \in Nat /\ fed' \in {next - goal.resume, next - goal.resume + 1}
    BY <1>1, <2>2, <2>3, SeekFacts
  <2>11. next >= next /\ q = decoder' /\ (~ q.configured => q.expects = NoSample)
    BY <2>1, <2>4, <2>5, <2>6, <2>8
  <2> QED BY <1>1, <2>2, <2>3, <2>4, <2>8, <2>9, <2>10, <2>11, GoesOn
<1> QED BY <1>2, <1>3

LEMMA FeedSeek ==
  ASSUME ConformingTrack, Pairing, SeekInv, Feed
  PROVE  SeekInv'
<1>1. PICK d, n : d = decoder /\ n = NextSample
  OBVIOUS
<1>2. /\ d.configured /\ ~ d.draining /\ n < AtEnd
      /\ cursor' = IF held # NoSample THEN cursor ELSE cursor + 1
      /\ goal' = goal /\ answer' = answer /\ entries' = entries
  BY <1>1 DEF Feed, cacheVars
<1>3. n \in Numbers /\ n \in Int /\ cursor \in Int /\ IsDecoder(d) /\ n # NoSample
  BY <1>1, <1>2, NextInTrack, NumbersFacts DEF Pairing, Shapes
<1>4. cursor' = n + 1
  BY <1>1, <1>2, <1>3 DEF NextSample, Pairing, HeldBeforeCursor
<1>5. CASE d.outputs # << >>
  <2>1. held' = n /\ decoder' = decoder /\ fed' = fed
    BY <1>1, <1>5 DEF Feed
  <2>2. n = NextSample'
    BY <1>3, <2>1 DEF NextSample
  <2>3. Ordered(d, n) /\ \A e \in entries' : EntryOrdered(e.checkpoint)
    BY <1>1, <1>2, SeekFacts
  <2>4. goal # NoGoal => fed' \in Nat /\ fed' \in {n - goal.resume, n - goal.resume + 1}
    BY <1>1, <2>1, SeekFacts
  <2>5. n >= n /\ d = decoder' /\ (~ d.configured => d.expects = NoSample)
    BY <1>1, <1>2, <1>3, <2>1
  <2>6. \A target \in Nat : d.output_start_time = target =>
           /\ Shows(d, target) => Shows(d, target)
           /\ Shows(d, target) /\ Keeps(d, n, target) => Keeps(d, n, target)
    OBVIOUS
  <2> QED BY <1>1, <1>2, <1>3, <2>2, <2>3, <2>4, <2>5, <2>6, GoesOn
<1>6. CASE d.outputs = << >>
  <2>1. PICK discontinuity \in BOOLEAN : discontinuity = discontinuous
    BY DEF Pairing, Shapes
  <2>2. PICK q : q = Decode(d, n, discontinuity)
    OBVIOUS
  <2>3. held' = NoSample /\ decoder' = q /\ fed' = fed + 1
    BY <1>1, <1>6, <2>1, <2>2 DEF Feed
  <2>4. PICK after \in Int : after = n + 1
    BY <1>3
  <2>5. after = NextSample' /\ after >= n
    BY <1>3, <1>4, <2>3, <2>4 DEF NextSample
  <2>6. /\ discontinuity => d.expects = NoSample
        /\ d.expects = NoSample => n \in SyncSamples
    <3>1. Continued(d) /\ Fresh(d)
      BY <1>1, <1>2 DEF Pairing
    <3>2. discontinuity => d.expects = NoSample
      BY <2>1, <3>1 DEF Continued
    <3>3. n # AtEnd
      BY <1>2, <1>3, LengthType
    <3> QED BY <1>1, <3>1, <3>2, <3>3 DEF Fresh
  <2>7. Ordered(d, n) /\ \A e \in entries' : EntryOrdered(e.checkpoint)
    BY <1>1, <1>2, SeekFacts
  <2>8. /\ Ordered(q, after) /\ q.output_start_time = d.output_start_time
        /\ \A target \in Nat : d.output_start_time = target =>
             /\ Shows(d, target) => Shows(q, target)
             /\ Shows(d, target) /\ Keeps(d, n, target) => Keeps(q, after, target)
    BY <1>2, <1>3, <2>2, <2>4, <2>6, <2>7, DecodeOrdered
  <2>9. q.configured
    BY <1>2, <1>3, <2>2, DecodeContinues
  <2>10. goal # NoGoal => fed' \in Nat /\ fed' \in {after - goal.resume, after - goal.resume + 1}
    <3> SUFFICES ASSUME goal # NoGoal
                 PROVE  fed' \in Nat /\ fed' \in {after - goal.resume, after - goal.resume + 1}
      OBVIOUS
    <3>1. Planned(goal) /\ fed \in Nat /\ fed \in {n - goal.resume, n - goal.resume + 1}
      BY <1>1, SeekFacts
    <3>2. PICK r \in Int : r = goal.resume
      BY <3>1, LengthType DEF Planned
    <3>3. PICK f \in Nat : f = fed
      BY <3>1
    <3>4. f + 1 = after - r \/ f + 1 = after - r + 1
      BY <1>3, <2>4, <3>1, <3>2, <3>3
    <3> QED BY <2>3, <3>2, <3>3, <3>4
  <2> QED BY <1>1, <1>2, <1>3, <2>3, <2>5, <2>7, <2>8, <2>9, <2>10, GoesOn
<1> QED BY <1>5, <1>6

\* The first frame received is the one selected.
LEMMA FirstIsSelected ==
  ASSUME ConformingTrack, NEW d, NEW next \in Int, Ordered(d, next), d.outputs # << >>,
         NEW g, Planned(g), g.target \in Nat, Shows(d, g.target), Keeps(d, next, g.target),
         NEW h, h = Head(d.outputs)
  PROVE  /\ h \in Numbers /\ h = g.selected
         /\ \A k \in Numbers : Pts[k] <= Pts[h] => k < next
<1>1. PICK s : s = d.outputs
  OBVIOUS
<1>2. PICK target \in Nat : target = g.target
  OBVIOUS
<1>3. /\ InOrder(s) /\ s # << >>
      /\ \A m, n \in Numbers : Holds(s, m) /\ (Waiting(d, n) \/ n >= next) => Pts[m] < Pts[n]
  BY <1>1 DEF Ordered, InPlace
<1>4. /\ Holds(s, h) /\ h \in Numbers
      /\ \A n : Holds(s, n) => n = h \/ Pts[h] < Pts[n]
  BY <1>1, <1>3, HeadInOrder, HeldAreNumbers
<1>5. Pts[h] >= target
  BY <1>1, <1>2, <1>4 DEF Shows
<1>6. PICK later : later = Later(target)
  OBVIOUS
<1>7. later \in SUBSET Numbers /\ h \in later
  BY <1>4, <1>5, <1>6 DEF Later
<1>8. PICK n : n = First(later)
  OBVIOUS
<1>9. IsFirst(n, later) /\ n \in Numbers /\ n = g.selected
  BY <1>2, <1>6, <1>7, <1>8, ChosenExtremes DEF Planned, IsFirst
<1>10. Pts[n] >= target /\ Pts[n] <= Pts[h]
  BY <1>4, <1>6, <1>7, <1>9, NumbersFinite DEF IsFirst, Later, Precedes
<1>11. ~ (Pts[h] < Pts[n])
  BY <1>4, <1>9, <1>10, NumbersFinite
<1>12. n < next
  <2>1. n \in Int /\ (n < next \/ n >= next)
    BY <1>9, NumbersFinite
  <2> QED BY <1>3, <1>4, <1>9, <1>11, <2>1
<1>13. Holds(s, n)
  <2>1. Waiting(d, n) \/ Holds(s, n)
    BY <1>1, <1>2, <1>9, <1>10, <1>12 DEF Keeps
  <2> QED BY <1>3, <1>4, <1>9, <1>11, <2>1
<1>14. n = h
  BY <1>4, <1>11, <1>13
<1>15. ASSUME NEW k \in Numbers, Pts[k] <= Pts[h] PROVE k < next
  <2>1. /\ k \in Int /\ Pts[k] \in Int /\ Pts[h] \in Int
    BY <1>4, NumbersFinite
  <2>2. ~ (k >= next)
    BY <1>3, <1>4, <1>15, <2>1
  <2> QED BY <2>1, <2>2
<1> QED BY <1>4, <1>9, <1>14, <1>15

LEMMA ReceiveSeek ==
  ASSUME ConformingTrack, Pairing, SeekInv, Receive
  PROVE  SeekInv'
<1>1. PICK d, next : d = decoder /\ next = NextSample
  OBVIOUS
<1>2. PICK q : q = [d EXCEPT !.outputs = Tail(@)]
  OBVIOUS
<1>3. PICK h : h = Head(d.outputs)
  OBVIOUS
<1>4. /\ d.outputs # << >> /\ decoder' = q /\ answer' = (IF answer = NoSample THEN h ELSE answer)
      /\ cursor' = cursor /\ held' = held /\ entries' = entries /\ goal' = goal /\ fed' = fed
  BY <1>1, <1>2, <1>3 DEF Receive, callerVars, cacheVars
<1>5. IsDecoder(d) /\ next \in Int /\ next = NextSample'
  BY <1>1, <1>4, NextInTrack DEF Pairing, Shapes, NextSample
<1>6. PICK g, a, f : g = goal /\ a = answer' /\ f = fed'
  OBVIOUS
<1>7. /\ Ordered(d, next) /\ d.output_start_time = g.target
      /\ \A e \in entries' : EntryOrdered(e.checkpoint)
      /\ ~ d.configured => d.expects = NoSample
      /\ g # NoGoal =>
           /\ Planned(g) /\ g.target \in Nat /\ Shows(d, g.target)
           /\ answer = NoSample => Keeps(d, next, g.target)
           /\ answer # NoSample => Answered(answer, next)
           /\ f \in Nat /\ f \in {next - g.resume, next - g.resume + 1}
  BY <1>1, <1>4, <1>6, SeekFacts
<1>8. /\ Ordered(q, next) /\ q.output_start_time = d.output_start_time
      /\ \A target \in Nat : Shows(d, target) => Shows(q, target)
  BY <1>2, <1>4, <1>5, <1>7, ReceiveOrdered
<1>9. q.configured = d.configured /\ q.expects = d.expects
  BY <1>2, <1>5 DEF IsDecoder
<1>10. ASSUME g # NoGoal
       PROVE  a # NoSample /\ a = g.selected /\ \A k \in Numbers : Pts[k] <= Pts[a] => k < next
  <2>1. CASE answer = NoSample
    <3>1. a = h
      BY <1>4, <1>6, <2>1
    <3>2. /\ h \in Numbers /\ h = g.selected
          /\ \A k \in Numbers : Pts[k] <= Pts[h] => k < next
      BY <1>3, <1>4, <1>5, <1>7, <1>10, <2>1, FirstIsSelected
    <3> QED BY <3>1, <3>2, NumbersFacts
  <2>2. CASE answer # NoSample
    <3>1. a = answer /\ Answered(answer, next)
      BY <1>4, <1>6, <1>7, <1>10, <2>2
    <3> QED BY <1>6, <2>2, <3>1 DEF Answered
  <2> QED BY <2>1, <2>2
<1>11. g # NoGoal =>
         /\ Planned(g) /\ Shows(q, g.target)
         /\ a = NoSample => Keeps(q, next, g.target)
         /\ a # NoSample => a = g.selected /\ \A k \in Numbers : Pts[k] <= Pts[a] => k < next
         /\ f \in Nat /\ f \in {next - g.resume, next - g.resume + 1}
  BY <1>7, <1>8, <1>10
<1>12. q = decoder' /\ g = goal'
  BY <1>4, <1>6
<1> QED BY <1>5, <1>6, <1>7, <1>8, <1>9, <1>11, <1>12, SeekAgain

LEMMA DrainSeek ==
  ASSUME ConformingTrack, Pairing, SeekInv, Drain
  PROVE  SeekInv'
<1>1. PICK d, next : d = decoder /\ next = NextSample
  OBVIOUS
<1>2. PICK q : q = [DrainReorder(Finish(d)) EXCEPT !.draining = TRUE]
  OBVIOUS
<1>3. /\ d.configured /\ next = AtEnd /\ decoder' = q
      /\ cursor' = cursor /\ held' = held /\ entries' = entries
      /\ goal' = goal /\ answer' = answer /\ fed' = fed
  BY <1>1, <1>2 DEF Drain, callerVars, cacheVars, goalVars
<1>4. IsDecoder(d) /\ next \in Int /\ next = NextSample' /\ next >= next
  BY <1>1, <1>3, NextInTrack DEF Pairing, Shapes, NextSample
<1>5. /\ Ordered(d, next) /\ \A e \in entries' : EntryOrdered(e.checkpoint)
      /\ goal # NoGoal => fed' \in Nat /\ fed' \in {next - goal.resume, next - goal.resume + 1}
  BY <1>1, <1>3, SeekFacts
<1>6. /\ Ordered(q, next) /\ q.output_start_time = d.output_start_time
      /\ \A target \in Nat : d.output_start_time = target =>
           /\ Shows(d, target) => Shows(q, target)
           /\ Shows(d, target) /\ Keeps(d, next, target) => Keeps(q, next, target)
  <2>1. Ordered(d, AtEnd)
    BY <1>3, <1>5
  <2>2. /\ Ordered(q, AtEnd) /\ q.output_start_time = d.output_start_time
        /\ \A target \in Nat : d.output_start_time = target =>
             /\ Shows(d, target) => Shows(q, target)
             /\ Shows(d, target) /\ Keeps(d, AtEnd, target) => Keeps(q, AtEnd, target)
    BY <1>2, <1>4, <2>1, DrainedOrdered
  <2> QED BY <1>3, <2>2
<1>7. q.configured
  <2>1. PICK finished : finished = Finish(d)
    OBVIOUS
  <2>2. IsDecoder(finished) /\ finished.configured = d.configured
    BY <1>4, <2>1, FinishKeeps
  <2>3. PICK drained : drained = DrainReorder(finished)
    OBVIOUS
  <2>4. IsDecoder(drained) /\ drained.configured = d.configured
    BY <2>2, <2>3, DrainReorderKeeps DEF SamePlace
  <2>5. q = [drained EXCEPT !.draining = TRUE]
    BY <1>2, <2>1, <2>3
  <2> QED BY <1>3, <2>4, <2>5 DEF IsDecoder
<1> QED BY <1>1, <1>3, <1>4, <1>5, <1>6, <1>7, GoesOn

LEMMA SeekStep ==
  ASSUME ConformingTrack, Accounted, SeekInv, [Next]_vars
  PROVE  SeekInv'
<1>1. Pairing
  BY DEF Accounted
<1>2. CASE UNCHANGED vars
  <2>1. entries' = entries /\ UNCHANGED <<cursor, held, decoder, goal, answer, fed>>
    BY <1>2 DEF vars, callerVars, cacheVars, goalVars
  <2> QED BY <2>1, SeekKept
<1>3. ASSUME NEW target \in Targets, NEW allow \in BOOLEAN, BeginExactSeek(target, allow)
      PROVE  SeekInv'
  BY <1>3, ExecuteSeek, FailsSeek DEF BeginExactSeek
<1>4. ASSUME NEW target \in Targets, NEW allow \in BOOLEAN, NEW budget \in Budgets,
             BeginInteractiveSeek(target, allow, budget)
      PROVE  SeekInv'
  BY <1>4, ExecuteSeek, FailsSeek, PreviewSeek DEF BeginInteractiveSeek
<1>5. ASSUME NEW target \in Targets, BeginNearestPreview(target)
      PROVE  SeekInv'
  BY <1>5, PreviewSeek DEF BeginNearestPreview
<1>6. CASE CaptureCheckpoint
  BY <1>1, <1>6, CaptureSeek
<1>7. CASE ClearController
  <2>1. entries' = {} /\ UNCHANGED <<cursor, held, decoder, goal, answer, fed>>
    BY <1>7 DEF ClearController, callerVars, goalVars
  <2> QED BY <2>1, SeekKept
<1>8. CASE Feed
  BY <1>1, <1>8, FeedSeek
<1>9. CASE Receive
  BY <1>1, <1>9, ReceiveSeek
<1>10. CASE Drain
  BY <1>1, <1>10, DrainSeek
<1>11. ASSUME NEW succeeds \in BOOLEAN, NEW format \in {1, 2}, Configure(succeeds, format)
       PROVE  SeekInv'
  <2>1. decoder' = NewDecoder(succeeds, format) /\ goal' = NoGoal /\ entries' = entries
    BY <1>11 DEF Configure, cacheVars
  <2>2. PICK d : d = NewDecoder(succeeds, format)
    OBVIOUS
  <2>3. Blank(d) /\ ~ d.draining /\ d.expects = NoSample /\ d.output_start_time = NoTime
    BY <2>2 DEF NewDecoder, Blank
  <2> QED BY <2>1, <2>2, <2>3, StartsSeek
<1> QED BY <1>2, <1>3, <1>4, <1>5, <1>6, <1>7, <1>8, <1>9, <1>10, <1>11 DEF Next

----------
(* The first frame, and when it comes *)

\* While nothing is queued, what has been fed beyond the last sample needed
\* for the selected one is held back with it.
LEMMA HeldBack ==
  ASSUME NEW d, NEW next \in Int, next <= AtEnd, Ordered(d, next), d.outputs = << >>,
         NEW s \in Numbers, NEW m \in Numbers, Required(s, m),
         NEW target \in Nat, Pts[s] >= target, Keeps(d, next, target)
  PROVE  next <= m + 1 + ReorderDepth
<1>1. /\ s \in Int /\ m \in Int /\ Pts[s] \in Int /\ ReorderDepth \in Nat
      /\ \A k \in Numbers : k \in Int /\ Pts[k] \in Int
  BY NumbersFinite, SeekAssumption
<1>2. s <= m
  <2>1. Pts[s] <= Pts[s]
    BY <1>1
  <2> QED BY <2>1 DEF Required
<1>3. ASSUME NEW k \in Numbers, k < next, Pts[k] >= target
      PROVE  k = d.current \/ Pictured(d.reorder, k)
  <2>1. Waiting(d, k) \/ Holds(d.outputs, k)
    BY <1>3 DEF Keeps
  <2>2. ~ Holds(d.outputs, k)
    BY EmptyInOrder
  <2> QED BY <2>1, <2>2 DEF Waiting
<1>4. CASE ~ (next - 2 >= m)
  BY <1>1, <1>4
<1>5. CASE next - 2 >= m
  <2>1. d.current # NoSample => next = d.current + 1 /\ d.current \in Numbers
    BY DEF Ordered
  <2>2. ASSUME NEW k \in Numbers, k <= next - 2 PROVE k # d.current
    <3>1. k \in Int /\ k # NoSample
      BY <2>2, NumbersFacts, NumbersFinite
    <3>2. ASSUME k = d.current PROVE FALSE
      <4>1. next = k + 1
        BY <2>1, <3>1, <3>2
      <4> QED BY <2>2, <3>1, <4>1
    <3> QED BY <3>2
  <2>3. ASSUME NEW k \in Numbers, k <= next - 2, Pts[k] >= target PROVE Pictured(d.reorder, k)
    <3>1. k < next
      BY <1>1, <2>3
    <3> QED BY <1>3, <2>2, <2>3, <3>1
  <2>4. Pictured(d.reorder, s)
    <3>1. s <= next - 2
      BY <1>1, <1>2, <1>5
    <3> QED BY <2>3, <3>1
  <2>5. ASSUME NEW k \in m .. next - 2, k # m PROVE Pictured(d.reorder, k)
    <3>1. k \in Int /\ k > m /\ k <= next - 2 /\ k < AtEnd /\ k >= 1
      BY <1>1, <2>5, NumbersFinite, LengthType
    <3>2. k \in Numbers
      BY <3>1, LengthType DEF Numbers
    <3>3. ~ (Pts[k] <= Pts[s])
      BY <1>1, <3>1, <3>2 DEF Required
    <3>4. Pts[k] >= target
      BY <1>1, <3>2, <3>3
    <3> QED BY <2>3, <3>1, <3>2, <3>4
  <2>6. PICK place : place = [k \in m .. next - 2 |-> IF k = m THEN s ELSE k]
    OBVIOUS
  <2>7. \A k \in m .. next - 2 : \E p \in d.reorder : p.sample = place[k]
    BY <2>4, <2>5, <2>6 DEF Pictured
  <2>8. PICK f : f = [k \in m .. next - 2 |-> CHOOSE p \in d.reorder : p.sample = place[k]]
    OBVIOUS
  <2>9. \A k \in m .. next - 2 : f[k] \in d.reorder /\ f[k].sample = place[k]
    BY <2>7, <2>8
  <2>10. \A k, l \in m .. next - 2 : place[k] = place[l] => k = l
    <3>1. \A k \in m .. next - 2 : k \in Int /\ (k = m \/ k > m)
      BY <1>1
    <3>2. ASSUME NEW k \in m .. next - 2, NEW l \in m .. next - 2, place[k] = place[l]
          PROVE  k = l
      <4>1. /\ k \in Int /\ l \in Int /\ (k = m \/ k > m) /\ (l = m \/ l > m)
            /\ place[k] = (IF k = m THEN s ELSE k) /\ place[l] = (IF l = m THEN s ELSE l)
        BY <2>6, <3>1
      <4>2. (IF k = m THEN s ELSE k) = (IF l = m THEN s ELSE l)
        BY <3>2, <4>1
      <4> QED BY <1>1, <1>2, <4>1, <4>2
    <3> QED BY <3>2
  <2>11. f \in Injection(m .. next - 2, d.reorder)
    <3>1. f \in [m .. next - 2 -> d.reorder]
      BY <2>8, <2>9
    <3>2. \A k, l \in m .. next - 2 : f[k] = f[l] => k = l
      BY <2>9, <2>10
    <3> QED BY <3>1, <3>2 DEF Injection, IsInjective
  <2>12. IsFiniteSet(d.reorder) /\ Cardinality(d.reorder) <= ReorderDepth
    BY DEF Ordered, Stored, Pictures
  <2>13. Cardinality(m .. next - 2) <= Cardinality(d.reorder)
    BY <2>11, <2>12, FS_Injection
  <2>14. PICK last \in Int : last = next - 2
    BY <1>1
  <2>15. Cardinality(m .. last) = last - m + 1
    <3>1. Cardinality(m .. last) = IF m > last THEN 0 ELSE last - m + 1
      BY <1>1, FS_Interval
    <3> QED BY <1>1, <1>5, <2>14, <3>1
  <2>16. Cardinality(d.reorder) \in Nat
    BY <2>12, FS_CardinalityType
  <2>17. last - m + 1 <= ReorderDepth
    BY <1>1, <2>12, <2>13, <2>14, <2>15, <2>16
  <2> QED BY <1>1, <2>14, <2>17
<1> QED BY <1>4, <1>5

LEMMA EstimateKept ==
  ASSUME ConformingTrack, Pairing, SeekInv, goal # NoGoal
  PROVE  EstimateIsClose
<1>1. PICK d, next, g : d = decoder /\ next = NextSample /\ g = goal
  OBVIOUS
<1>2. next \in Int /\ next <= AtEnd /\ AtEnd \in Int /\ ReorderDepth \in Nat
  BY <1>1, NextInTrack, LengthType, SeekAssumption
<1>3. /\ Ordered(d, next) /\ Planned(g) /\ g.target \in Nat
      /\ answer = NoSample => Keeps(d, next, g.target)
      /\ answer # NoSample => Answered(answer, next)
      /\ fed \in Nat /\ fed \in {next - g.resume, next - g.resume + 1}
  BY <1>1, SeekFacts
<1>4. PICK target \in Nat, r \in Int : target = g.target /\ r = g.resume
  BY <1>2, <1>3 DEF Planned
<1>5. PICK f \in Nat : f = fed /\ f >= next - r /\ f <= next - r + 1
  <2>1. fed = next - r \/ fed = next - r + 1
    BY <1>3, <1>4
  <2> QED BY <1>2, <1>3, <2>1
<1>6. PICK s : s = g.selected
  OBVIOUS
<1>7. s = (IF Later(target) = {} THEN NoSample ELSE First(Later(target)))
  BY <1>3, <1>4, <1>6 DEF Planned
<1>8. s # NoSample => s \in Numbers /\ Pts[s] >= target
  <2>1. Later(target) \in SUBSET Numbers
    BY DEF Later
  <2>2. Later(target) # {} => First(Later(target)) \in Later(target)
    BY <2>1, ChosenExtremes DEF IsFirst
  <2> QED BY <1>7, <2>2 DEF Later
<1>9. ASSUME s = NoSample PROVE g.estimate = AtEnd - r
  BY <1>3, <1>4, <1>6, <1>9 DEF Planned
<1>10. ASSUME s # NoSample
       PROVE  \E m \in Numbers : Required(s, m) /\
                g.estimate = (IF m - r + 1 > 0 THEN m - r + 1 ELSE 0)
  BY <1>3, <1>4, <1>6, <1>10 DEF Planned
<1>11. ASSUME answer # NoSample PROVE f >= g.estimate
  <2>1. answer = s /\ \A k \in Numbers : Pts[k] <= Pts[s] => k < next
    BY <1>1, <1>3, <1>6, <1>11 DEF Answered
  <2>2. PICK m \in Numbers : Required(s, m) /\
          g.estimate = (IF m - r + 1 > 0 THEN m - r + 1 ELSE 0)
    BY <1>10, <1>11, <2>1
  <2>3. m < next /\ m \in Int
    BY <2>1, <2>2, NumbersFinite DEF Required
  <2> QED BY <1>2, <1>5, <2>2, <2>3
<1>12. ASSUME answer = NoSample, d.outputs = << >> PROVE f <= g.estimate + ReorderDepth + 1
  <2>1. CASE s = NoSample
    BY <1>2, <1>5, <1>9, <2>1
  <2>2. CASE s # NoSample
    <3>1. PICK m \in Numbers : Required(s, m) /\
            g.estimate = (IF m - r + 1 > 0 THEN m - r + 1 ELSE 0)
      BY <1>10, <2>2
    <3>2. next <= m + 1 + ReorderDepth
      BY <1>2, <1>3, <1>4, <1>8, <1>12, <2>2, <3>1, HeldBack
    <3>3. m \in Int
      BY NumbersFinite
    <3> QED BY <1>2, <1>5, <3>1, <3>2, <3>3
  <2> QED BY <2>1, <2>2
<1>13. PICK estimate \in Int : estimate = g.estimate
  <2>1. CASE s = NoSample
    BY <1>2, <1>9, <2>1
  <2>2. CASE s # NoSample
    BY <1>10, <2>2, NumbersFinite
  <2> QED BY <2>1, <2>2
<1>14. answer # NoSample => fed >= goal.estimate
  BY <1>1, <1>5, <1>11
<1>15. ASSUME answer = NoSample, decoder.outputs = << >>
       PROVE  ~ (fed > goal.estimate + ReorderDepth + 1)
  <2>1. f <= estimate + ReorderDepth + 1
    BY <1>1, <1>12, <1>13, <1>15
  <2>2. ~ (f > estimate + ReorderDepth + 1)
    BY <1>2, <2>1
  <2> QED BY <1>1, <1>5, <1>13, <2>2
<1> QED BY <1>14, <1>15 DEF EstimateIsClose

LEMMA SeekExact ==
  ASSUME ConformingTrack, Accounted, SeekInv
  PROVE  FirstFrameExact
<1> SUFFICES ASSUME goal # NoGoal
             PROVE  /\ goal.selected = (IF Later(goal.target) = {} THEN NoSample
                                        ELSE First(Later(goal.target)))
                    /\ answer # NoSample => answer = goal.selected
                    /\ decoder.draining /\ decoder.outputs = << >> => answer = goal.selected
                    /\ EstimateIsClose
  BY DEF FirstFrameExact, Later
<1>1. PICK d, next : d = decoder /\ next = NextSample
  OBVIOUS
<1>2. /\ Ordered(d, next) /\ Planned(goal) /\ goal.target \in Nat
      /\ answer = NoSample => Keeps(d, next, goal.target)
      /\ answer # NoSample => Answered(answer, next)
  BY <1>1, SeekFacts
<1>3. goal.selected = (IF Later(goal.target) = {} THEN NoSample ELSE First(Later(goal.target)))
  BY <1>2 DEF Planned
<1>4. answer # NoSample => answer = goal.selected
  BY <1>2 DEF Answered
\* A decoder that has drained has nothing in it: what it still owed was queued.
<1>5. ASSUME decoder.draining, decoder.outputs = << >>, answer = NoSample
      PROVE  goal.selected = NoSample
  <2>1. d.current = NoSample /\ d.reorder = {} /\ next = AtEnd
    BY <1>1, <1>2, <1>5 DEF Ordered
  <2>2. ASSUME NEW n \in Numbers, Pts[n] >= goal.target PROVE FALSE
    <3>1. n < next /\ n # NoSample
      BY <2>1, NumbersFinite, NumbersFacts
    <3>2. Waiting(d, n) \/ Holds(d.outputs, n)
      BY <1>2, <1>5, <2>2, <3>1 DEF Keeps
    <3> QED BY <1>1, <1>5, <2>1, <3>1, <3>2, NumbersFacts DEF Waiting
  <2>3. Later(goal.target) = {}
    BY <2>2 DEF Later
  <2> QED BY <1>3, <2>3
<1>6. EstimateIsClose
  BY EstimateKept DEF Accounted
<1> QED BY <1>3, <1>4, <1>5, <1>6

\* After an exact seek, whatever preceded it, the first frame is the first in
\* the track at or after the target and the one the plan selected, a track that
\* ends without it has none, and it takes the packets estimated and at most the
\* reorder depth and one more: for every track whose samples are ordered as the
\* encoder of a stream with that reorder depth orders them.
THEOREM FirstFrame == ConformingTrack => (Spec => []FirstFrameExact)
<1> SUFFICES ASSUME ConformingTrack PROVE Spec => []FirstFrameExact
  OBVIOUS
<1>1. Init => Accounted /\ SeekInv
  BY AccountedInit, SeekInit
<1>2. Accounted /\ SeekInv /\ [Next]_vars => Accounted' /\ SeekInv'
  BY AccountedStep, SeekStep
<1>3. Accounted /\ SeekInv => FirstFrameExact
  BY SeekExact
<1> QED BY <1>1, <1>2, <1>3, PTL DEF Spec
=============================================================================
