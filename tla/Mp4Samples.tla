----------------------------- MODULE Mp4Samples -----------------------------
(***************************************************************************)
(* The sample index of decv-mp4: what sample_table.rs and fragment.rs read *)
(* from the tables and the movie fragments of one video track, and how the *)
(* index is searched for keyframes and prefetched.  A track that the       *)
(* demuxer does not index has id OtherTrack.  None is an absent field.     *)
(***************************************************************************)
EXTENDS Integers, Sequences, FiniteSets, TLC
LOCAL INSTANCE SequencesExt
LOCAL INSTANCE FiniteSetsExt

CONSTANTS Descriptions,      \* number of sample descriptions of the track
          VideoTrack, OtherTrack,
          MediaTimescale, MovieTimescale

None == -99   \* no offset, time or index of the instances
Refused == [ok |-> FALSE, samples |-> <<>>]
Accepted(samples) == [ok |-> TRUE, samples |-> samples]

Sum(values) == FoldLeft(LAMBDA a, b : a + b, 0, values)
Counts(entries) == [i \in DOMAIN entries |-> entries[i].count]

(***************************************************************************)
(* Run-length tables.                                                      *)
(***************************************************************************)
\* The entry that each sample of a run-length table belongs to.
Expand(entries) ==
  FlattenSeq([i \in DOMAIN entries |-> [j \in 1 .. entries[i].count |-> entries[i]]])

parse_time_to_sample(entries, sample_count) ==
  /\ \A i \in DOMAIN entries : entries[i].count # 0
  /\ Sum(Counts(entries)) = sample_count

\* An absent ctts box stands for offset 0.
parse_composition_offsets(entries, sample_count) ==
  entries = <<>> \/ parse_time_to_sample(entries, sample_count)
CompositionOffsets(entries, sample_count) ==
  IF entries = <<>> THEN Expand(<<[count |-> sample_count, offset |-> 0]>>) ELSE Expand(entries)

\* 4-bit sizes are packed two in a byte, the first in the high half.
PackedSize(bytes, i) ==
  IF i % 2 = 1 THEN bytes[(i + 1) \div 2] \div 16 ELSE bytes[(i + 1) \div 2] % 16
Fields(box) == IF box.field_size = 4 THEN (box.count + 1) \div 2
               ELSE IF box.default_size # 0 THEN 0 ELSE box.count
SizesFinished(box) == Len(box.entries) = Fields(box)
parse_compact_sample_sizes(box) == [i \in 1 .. box.count |-> PackedSize(box.entries, i)]
parse_sample_sizes(box) ==
  IF box.field_size = 4 THEN parse_compact_sample_sizes(box)
  ELSE IF box.default_size # 0 THEN [i \in 1 .. box.count |-> box.default_size]
  ELSE box.entries

\* A track without an stss box has only sync samples.
parse_sync_samples(box, sample_count) ==
  IF box.present THEN [i \in 1 .. sample_count |-> i \in Range(box.numbers)]
  ELSE [i \in 1 .. sample_count |-> TRUE]
SyncSamplesValid(box, sample_count) ==
  /\ \A i \in DOMAIN box.numbers : box.numbers[i] \in 1 .. sample_count
  /\ \A i \in 2 .. Len(box.numbers) : box.numbers[i - 1] < box.numbers[i]

parse_sample_to_chunk(entries) ==
  /\ entries # <<>> => entries[1].first_chunk = 1
  /\ \A i \in 2 .. Len(entries) : entries[i - 1].first_chunk < entries[i].first_chunk
  /\ \A i \in DOMAIN entries : /\ entries[i].samples_per_chunk # 0
                               /\ entries[i].description_index \in 1 .. Descriptions

\* The entry in force for a chunk: the last one that begins at or before it.
EntryBeforeChunk(entries, chunk) ==
  entries[Max({1} \cup {i \in DOMAIN entries : entries[i].first_chunk < chunk})]
EntryOfChunk(entries, chunk) ==
  entries[Max({1} \cup {i \in DOMAIN entries : entries[i].first_chunk <= chunk})]

\* The chunks hand out the samples in turn, each chunk from its own offset.
assign_sample_offsets(sizes, entries, chunk_offsets, file_length) ==
  LET Chunk(state, chunk) ==
        LET entry == EntryOfChunk(entries, chunk)
            taken == Len(state.places)
            Size(j) == IF taken + j > Len(sizes) THEN 0 ELSE sizes[taken + j]
            at == FoldLeft(LAMBDA ends, j : Append(ends, Last(ends) + Size(j)),
                           <<chunk_offsets[chunk]>>, [j \in 1 .. entry.samples_per_chunk |-> j])
        IN  [ok |-> /\ state.ok /\ Last(at) <= file_length
                    /\ taken + entry.samples_per_chunk <= Len(sizes),
             places |-> state.places \o
                          [j \in 1 .. entry.samples_per_chunk |->
                             [offset |-> at[j], description |-> entry.description_index - 1]]]
      all == FoldLeft(Chunk, [ok |-> TRUE, places |-> <<>>],
                      [chunk \in DOMAIN chunk_offsets |-> chunk])
  IN  IF sizes = <<>>
      THEN [ok |-> entries = <<>> /\ chunk_offsets = <<>>, places |-> <<>>]
      ELSE IF \/ chunk_offsets = <<>> \/ entries = <<>>
              \/ Last(entries).first_chunk > Len(chunk_offsets)
      THEN [ok |-> FALSE, places |-> <<>>]
      ELSE [all EXCEPT !.ok = @ /\ Len(all.places) = Len(sizes)]

Sample(place, size, decode_time, composition_offset, duration, sync) ==
  [offset |-> place.offset, description |-> place.description, size |-> size,
   decode_time |-> decode_time, presentation_time |-> decode_time + composition_offset,
   duration |-> duration, sync |-> sync]

parse_sample_table(t, file_length) ==
  LET count == t.sizes.count
      sizes == parse_sample_sizes(t.sizes)
      located == assign_sample_offsets(sizes, t.stsc, t.stco, file_length)
      deltas == [i \in 1 .. count |-> Expand(t.stts)[i].delta]
      offsets == CompositionOffsets(t.ctts, count)
      sync == parse_sync_samples(t.stss, count)
  IN  IF /\ Descriptions # 0 /\ SizesFinished(t.sizes)
         /\ parse_time_to_sample(t.stts, count)
         /\ parse_composition_offsets(t.ctts, count)
         /\ parse_sample_to_chunk(t.stsc)
         /\ SyncSamplesValid(t.stss, count)
         /\ located.ok
      THEN Accepted([i \in 1 .. count |->
             Sample(located.places[i], sizes[i], Sum(SubSeq(deltas, 1, i - 1)),
                    offsets[i].offset, deltas[i], sync[i])])
      ELSE Refused

(***************************************************************************)
(* Movie fragments.  A default missing in the tfhd box comes from the trex *)
(* box of the track.                                                       *)
(***************************************************************************)
Or(value, default) == IF value # None THEN value ELSE default
TrackDefaults(trex, track) ==
  IF track \in DOMAIN trex THEN trex[track]
  ELSE [description |-> None, duration |-> None, size |-> None, flags |-> None]

\* Flags are 0 for a sync sample and 1 for sample_is_non_sync_sample.
parse_track_fragment_header(tfhd) ==
  ~ (tfhd.base # None /\ tfhd.moof) /\ tfhd.description # 0

RunField(sample, field, default) == Or(sample[field], default)
RunFlags(run, i, default) ==
  Or(run.samples[i].flags, IF i = 1 THEN Or(run.first_flags, default) ELSE default)

parse_track_run(run, base, description, defaults, file_length, state) ==
  LET start == IF run.data_offset = None THEN state.end ELSE base + run.data_offset
      Step(s, i) ==
        LET x == run.samples[i]
            duration == RunField(x, "duration", defaults.duration)
            size == RunField(x, "size", defaults.size)
            flags == RunFlags(run, i, defaults.flags)
        IN  [ok |-> /\ s.ok /\ flags # None /\ duration > 0 /\ size > 0
                    /\ s.end + size <= file_length,
             end |-> s.end + size, time |-> s.time + duration,
             samples |-> Append(s.samples,
               Sample([offset |-> s.end, description |-> description], size, s.time,
                      x.composition_offset, duration, flags = 0))]
      clash == run.first_flags # None /\ \E i \in DOMAIN run.samples : run.samples[i].flags # None
  IN  FoldLeft(Step,
        [state EXCEPT !.ok = @ /\ ~ clash /\ (run.data_offset = None => state.end # None)
                               /\ start >= 0,
                      !.end = start],
        [i \in DOMAIN run.samples |-> i])

\* index: what has been read, with the decode time of the next sample.
parse_track_fragment(traf, moof_offset, trex, file_length, index) ==
  LET tfhd == traf.tfhd
      own == TrackDefaults(trex, tfhd.track)
      description == Or(tfhd.description, own.description)
      defaults == [duration |-> Or(tfhd.duration, own.duration),
                   size |-> Or(tfhd.size, own.size), flags |-> Or(tfhd.flags, own.flags)]
      begun == [ok |-> TRUE, end |-> None, time |-> Or(traf.tfdt, index.next), samples |-> <<>>]
      read == FoldLeft(LAMBDA state, run :
                parse_track_run(run, IF tfhd.base # None THEN tfhd.base ELSE moof_offset,
                                description - 1, defaults, file_length, state),
                begun, traf.runs)
  IN  IF ~ index.ok \/ ~ parse_track_fragment_header(tfhd)
         \/ tfhd.track \notin {VideoTrack, OtherTrack}
      THEN [index EXCEPT !.ok = FALSE]
      ELSE IF tfhd.track = OtherTrack \/ (traf.runs = <<>> /\ tfhd.empty) THEN index
      ELSE IF \/ traf.runs = <<>> \/ tfhd.empty \/ description \notin 1 .. Descriptions
              \/ (tfhd.base = None /\ ~ tfhd.moof) \/ ~ read.ok
      THEN [index EXCEPT !.ok = FALSE]
      ELSE [index EXCEPT !.samples = @ \o read.samples, !.next = read.time]

parse_movie_fragment(moof, trex, file_length, index) ==
  FoldLeft(LAMBDA i, traf : parse_track_fragment(traf, moof.offset, trex, file_length, i),
           index, moof.trafs)

\* The trex boxes are there exactly when the movie has an mvex box.
append_fragmented_samples(table, fragmented, trex, moofs, file_length) ==
  IF ~ table.ok \/ ~ fragmented THEN table
  ELSE LET last == IF table.samples = <<>> THEN 0
                   ELSE Last(table.samples).decode_time + Last(table.samples).duration
           index == FoldLeft(LAMBDA i, moof : parse_movie_fragment(moof, trex, file_length, i),
                             [ok |-> TRUE, samples |-> table.samples, next |-> last], moofs)
       IN  IF index.ok THEN Accepted(index.samples) ELSE Refused

(***************************************************************************)
(* Searching the index.  Times are compared exactly across time scales:    *)
(* target is [value, timescale].                                           *)
(***************************************************************************)
\* The offset of a single media edit that empty edits may precede; None when
\* the edits are anything else.
linear_timeline_offset(edits) ==
  LET empty == SelectSeq(edits, LAMBDA e : e.media_time = None)
      scaled == Sum([i \in DOMAIN empty |-> empty[i].duration]) * MediaTimescale
      linear == /\ Len(empty) = Len(edits) - 1 /\ Last(edits).media_time # None
                /\ Last(edits).rate = 1 /\ scaled % MovieTimescale = 0
  IN  IF edits = <<>> THEN [ok |-> TRUE, value |-> 0]
      ELSE IF linear
      THEN [ok |-> TRUE, value |-> (scaled \div MovieTimescale) - Last(edits).media_time]
      ELSE [ok |-> FALSE, value |-> 0]

Adjusted(sample, offset, target) == (sample.presentation_time + offset) * target.timescale
Scaled(target) == target.value * MediaTimescale
adjusted_presentation_time_is_before(s, offset, target) ==
  Adjusted(s, offset, target) < Scaled(target)
adjusted_presentation_time_is_not_after(s, offset, target) ==
  Adjusted(s, offset, target) <= Scaled(target)
adjusted_presentation_distance(s, offset, target) ==
  LET d == Adjusted(s, offset, target) - Scaled(target) IN IF d < 0 THEN -d ELSE d

\* Sync samples, zero-based, ordered by presentation time and then index.
sync_sample_indices_by_presentation(samples) ==
  LET at(i) == samples[i + 1].presentation_time
  IN  SortSeq(SelectSeq([i \in DOMAIN samples |-> i - 1], LAMBDA i : samples[i + 1].sync),
              LAMBDA i, j : at(i) < at(j) \/ (at(i) = at(j) /\ i < j))

\* The length of the prefix of a partitioned sequence that satisfies Test.
partition_point(s, Test(_)) == Cardinality({i \in DOMAIN s : Test(s[i])})

\* The first of the sync samples that share the presentation time of one.
FirstEqual(samples, sync, position) ==
  sync[1 + partition_point(SubSeq(sync, 1, position),
             LAMBDA i : samples[i + 1].presentation_time
                          < samples[sync[position] + 1].presentation_time)]

keyframe_at_or_before(samples, offset, target) ==
  LET sync == sync_sample_indices_by_presentation(samples)
      position == partition_point(sync, LAMBDA i :
                    adjusted_presentation_time_is_not_after(samples[i + 1], offset, target))
  IN  IF position = 0 THEN None ELSE FirstEqual(samples, sync, position)

keyframe_at_or_after(samples, offset, target) ==
  LET sync == sync_sample_indices_by_presentation(samples)
      position == partition_point(sync, LAMBDA i :
                    adjusted_presentation_time_is_before(samples[i + 1], offset, target))
  IN  IF position = Len(sync) THEN None ELSE sync[position + 1]

LastWins(before, after) == before < after
BeforePreferred(before, after) == before <= after
keyframe_nearest(samples, offset, target) ==
  LET sync == sync_sample_indices_by_presentation(samples)
      position == partition_point(sync, LAMBDA i :
                    adjusted_presentation_time_is_before(samples[i + 1], offset, target))
      after == keyframe_at_or_after(samples, offset, target)
      before == FirstEqual(samples, sync, position)
      Distance(i) == adjusted_presentation_distance(samples[i + 1], offset, target)
  IN  IF position = 0 THEN after
      ELSE IF after = None \/ BeforePreferred(Distance(before), Distance(after))
      THEN before ELSE after

\* Audio samples are not reordered as a rule; when they are, the last of the
\* latest ones wins.
audio_sample_at_or_before(samples, offset, target) ==
  LET fits == {i \in DOMAIN samples :
                 adjusted_presentation_time_is_not_after(samples[i], offset, target)}
      time(i) == samples[i].presentation_time
      sorted == \A i \in 2 .. Len(samples) : time(i - 1) <= time(i)
  IN  IF fits = {} THEN None
      ELSE IF sorted THEN Cardinality(fits) - 1
      ELSE Max({i \in fits : \A j \in fits : time(j) <= time(i)}) - 1

\* The span grows sample by sample while it stays within the budget; the
\* first sample is taken whatever its size.
prefetch_samples(samples, first, budget) ==
  LET upcoming == SubSeq(samples, first + 1, Len(samples))
      Grow(span, s) ==
        LET wider == [span EXCEPT !.from = Min({@, s.offset}),
                                  !.to = Max({@, s.offset + s.size})]
        IN  IF span.open /\ wider.to - wider.from <= budget THEN [wider EXCEPT !.count = @ + 1]
            ELSE [span EXCEPT !.open = FALSE]
      begun == [from |-> upcoming[1].offset, to |-> upcoming[1].offset + upcoming[1].size,
                count |-> 1, open |-> TRUE]
      nothing == [from |-> 0, to |-> 0, count |-> 0, open |-> FALSE]
  IN  IF budget = 0 \/ upcoming = <<>> THEN nothing ELSE FoldLeft(Grow, begun, Tail(upcoming))
=============================================================================
