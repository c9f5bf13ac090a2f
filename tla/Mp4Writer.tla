------------------------------ MODULE Mp4Writer ------------------------------
(***************************************************************************)
(* A muxer writes the samples of a track chunk by chunk and fragment by    *)
(* fragment, in any of the forms the tables allow; Mp4Samples must read    *)
(* back what it wrote and refuse an index that one fault made inconsistent.*)
(***************************************************************************)
EXTENDS Mp4Samples
LOCAL INSTANCE SequencesExt
LOCAL INSTANCE FiniteSetsExt

CONSTANTS
  Drafts,        \* [size, duration, composition_offset, sync] of a sample to write
  Trex,          \* the trex box of the track
  Layouts,       \* [box, stss, fragmented]: how sizes are written ("default",
                 \* "wide", "packed"), whether there are stss and mvex boxes
  Styles,        \* ways to write a fragment
  EditLists, Targets, Budgets,
  MaxSamples     \* bound: samples of the file

VARIABLES
  table,       \* the boxes of stbl
  moofs,       \* the movie fragments
  length,      \* bytes of the file
  written,     \* the samples as the muxer has them in mind
  fragmented,  \* there is an mvex box
  box,         \* how sizes are written
  damaged

writerVars == <<table, moofs, length, written, fragmented, box, damaged>>

WriterInit ==
  /\ damaged = FALSE /\ moofs = <<>> /\ written = <<>> /\ length = 1
  /\ \E layout \in Layouts :
       /\ box = layout.box /\ fragmented = layout.fragmented
       /\ table = [stts |-> <<>>, ctts |-> <<>>, stsc |-> <<>>, stco |-> <<>>,
                   stss |-> [present |-> layout.stss, numbers |-> <<>>],
                   sizes |-> [field_size |-> IF box = "packed" THEN 4 ELSE 32, count |-> 0,
                              default_size |-> 0, entries |-> <<>>]]

NextTime == IF written = <<>> THEN 0 ELSE Last(written).decode_time + Last(written).duration

\* Where each of some samples begins when the first one begins at start.
Layout(start, drafts) ==
  [i \in DOMAIN drafts |-> start + Sum([j \in 1 .. i - 1 |-> drafts[j].size])]
Bytes(drafts) == Sum([j \in DOMAIN drafts |-> drafts[j].size])
InMind(places, drafts, description, time) ==
  [i \in DOMAIN drafts |->
     Sample([offset |-> places[i], description |-> description - 1], drafts[i].size,
            time + Sum([j \in 1 .. i - 1 |-> drafts[j].duration]),
            drafts[i].composition_offset, drafts[i].duration, drafts[i].sync)]

\* One more sample in a run-length table, in the last run when merge allows it.
Counted(entries, entry, merge) ==
  IF merge /\ entries # <<>> /\ [Last(entries) EXCEPT !.count = 1] = entry
  THEN [entries EXCEPT ![Len(entries)].count = @ + 1] ELSE Append(entries, entry)

WithSize(sizes, size) ==
  LET i == sizes.count + 1 IN
  [sizes EXCEPT
     !.count = i,
     !.default_size = IF box = "default" THEN size ELSE 0,
     !.entries = CASE box = "default" -> <<>>
                   [] box = "wide" -> Append(@, size)
                   [] box = "packed" ->
                        IF i % 2 = 1 THEN Append(@, size * 16)
                        ELSE [@ EXCEPT ![i \div 2] = @ + size]]

WithSample(t, draft, merge) ==
  [t EXCEPT !.stts = Counted(@, [count |-> 1, delta |-> draft.duration], merge),
            !.ctts = Counted(@, [count |-> 1, offset |-> draft.composition_offset], merge),
            !.sizes = WithSize(@, draft.size),
            !.stss.numbers = IF draft.sync /\ t.stss.present THEN Append(@, t.sizes.count + 1) ELSE @]

Room(drafts) == ~ damaged /\ Len(written) + Len(drafts) <= MaxSamples

\* A chunk begins gap bytes after what is there.
WriteChunk(drafts, description, gap, merge) ==
  /\ Room(drafts) /\ moofs = <<>>
  /\ \A i \in DOMAIN drafts : drafts[i].sync \/ table.stss.present
  /\ box = "default" => \A i \in DOMAIN drafts : drafts[i].size = drafts[1].size
  /\ box = "default" /\ written # <<>> => drafts[1].size = table.sizes.default_size
  /\ LET start == length + gap
         entry == [first_chunk |-> Len(table.stco) + 1, samples_per_chunk |-> Len(drafts),
                   description_index |-> description]
         Same == table.stsc # <<>> /\ [Last(table.stsc) EXCEPT !.first_chunk = entry.first_chunk] = entry
         filled == FoldLeft(LAMBDA t, d : WithSample(t, d, merge), table, drafts)
     IN  /\ table' = [filled EXCEPT !.stco = Append(@, start),
                                    !.stsc = IF Same /\ merge THEN @ ELSE Append(@, entry)]
         /\ length' = start + Bytes(drafts)
         /\ written' = written \o InMind(Layout(start, drafts), drafts, description, NextTime)
  /\ UNCHANGED <<moofs, fragmented, box, damaged>>

Flags(draft) == IF draft.sync THEN 0 ELSE 1
AllAre(drafts, from, Value(_), value) == \A i \in from .. Len(drafts) : Value(drafts[i]) = value
Writable(style, drafts) ==
  LET From(way, Value(_), default) ==
        CASE way = "trex" -> AllAre(drafts, 1, Value, default)
          [] way = "tfhd" -> AllAre(drafts, 1, Value, Value(drafts[1]))
          [] way = "first" -> AllAre(drafts, 2, Value, default)
          [] way = "each" -> TRUE
  IN  /\ From(style.duration, LAMBDA d : d.duration, Trex.duration)
      /\ From(style.size, LAMBDA d : d.size, Trex.size)
      /\ From(style.flags, Flags, Trex.flags)
      /\ style.second # "none" => Len(drafts) > 1

\* The boxes of a fragment in a style; second tells how its last sample is
\* written: in the only run, in a run that continues, or in one of its own.
Moof(style, drafts, description, offset, start, time) ==
  LET base == IF style.base = "explicit" THEN 1 ELSE offset
      split == IF style.second = "none" THEN Len(drafts) ELSE Len(drafts) - 1
      Each(way, value) == IF way = "each" THEN value ELSE None
      Coded(d) == [duration |-> Each(style.duration, d.duration), size |-> Each(style.size, d.size),
                   flags |-> Each(style.flags, Flags(d)), composition_offset |-> d.composition_offset]
      Run(from, to, at, first) ==
        [data_offset |-> at, first_flags |-> first,
         samples |-> [i \in 1 .. to - from + 1 |-> Coded(drafts[from + i - 1])]]
      second == IF style.second = "none" THEN <<>>
                ELSE <<Run(Len(drafts), Len(drafts),
                           IF style.second = "own"
                           THEN start + Bytes(SubSeq(drafts, 1, split)) + 1 - base ELSE None, None)>>
      Tfhd(way, value) == IF way = "tfhd" THEN value ELSE None
      traf == [tfhd |-> [track |-> VideoTrack,
                         base |-> IF style.base = "explicit" THEN base ELSE None,
                         moof |-> style.base # "explicit",
                         description |-> IF description = Trex.description THEN None ELSE description,
                         duration |-> Tfhd(style.duration, drafts[1].duration),
                         size |-> Tfhd(style.size, drafts[1].size),
                         flags |-> Tfhd(style.flags, Flags(drafts[1])), empty |-> FALSE],
               tfdt |-> time,
               runs |-> <<Run(1, split, start - base,
                              IF style.flags = "first" THEN Flags(drafts[1]) ELSE None)>> \o second]
      other == [traf EXCEPT !.tfhd.track = IF style.other = "empty" THEN VideoTrack ELSE OtherTrack,
                            !.tfhd.empty = style.other = "empty",
                            !.runs = IF style.other = "empty" THEN <<>> ELSE @]
  IN  [offset |-> offset, trafs |-> IF style.other = "none" THEN <<traf>> ELSE <<other, traf>>]

\* A moof box is one byte long here; its data may come before it.
WriteFragment(style, drafts, description, jump) ==
  /\ fragmented /\ Room(drafts) /\ Writable(style, drafts)
  /\ style.tfdt \/ jump = 0
  /\ LET hole == IF style.second = "own" THEN 1 ELSE 0
         behind == style.base = "behind"
         start == IF behind THEN length ELSE length + 1
         offset == IF behind THEN length + Bytes(drafts) + hole ELSE length
         places == [i \in DOMAIN drafts |->
                      Layout(start, drafts)[i] + IF i = Len(drafts) THEN hole ELSE 0]
         time == NextTime + jump
     IN  /\ moofs' = Append(moofs, Moof(style, drafts, description, offset, start,
                                        IF style.tfdt THEN time ELSE None))
         /\ length' = length + Bytes(drafts) + hole + 1
         /\ written' = written \o InMind(places, drafts, description, time)
  /\ UNCHANGED <<table, fragmented, box, damaged>>

\* One fault that makes the index disagree with itself or with the file.  Faults
\* of a table strike before there are fragments, those of fragments the first one.
Damage ==
  /\ ~ damaged /\ damaged' = TRUE
  /\ \/ /\ table.stco # <<>> /\ moofs = <<>>
        /\ \/ table' = [table EXCEPT !.stts[1].count = @ + 1]
           \/ table' = [table EXCEPT !.ctts[1].count = @ + 1]
           \/ table' = [table EXCEPT !.stco = Front(@)]
           \/ table' = [table EXCEPT !.stsc[Len(table.stsc)].samples_per_chunk = @ + 1]
           \/ table' = [table EXCEPT !.stss = [present |-> TRUE, numbers |->
                                                 Append(@.numbers, table.sizes.count + 1)]]
           \/ table' = [table EXCEPT !.sizes = WithSize(@, 1)]
        /\ UNCHANGED <<moofs, length>>
     \/ /\ Len(moofs) = 1
        /\ LET i == 1
               j == Len(moofs[1].trafs)
               Traf(traf) == moofs' = [moofs EXCEPT ![i].trafs[j] = traf]
               traf == moofs[i].trafs[j]
           IN  \/ Traf([traf EXCEPT !.runs[1].data_offset = None])
               \/ Traf([traf EXCEPT !.runs = <<>>])
               \/ Traf([traf EXCEPT !.tfhd.description = Descriptions + 1])
               \/ Traf([traf EXCEPT !.runs[1].first_flags = 1, !.runs[1].samples[1].flags = 0])
               \/ Traf([traf EXCEPT !.tfhd.base = None, !.tfhd.moof = FALSE])
        /\ UNCHANGED <<table, length>>
     \/ /\ written # <<>> /\ Len(moofs) <= 1
        /\ length' = Max({s.offset + s.size : s \in Range(written)}) - 1
        /\ UNCHANGED <<table, moofs>>
  /\ UNCHANGED <<written, fragmented, box>>

WriterNext ==
  \/ \E drafts \in UNION {[1 .. n -> Drafts] : n \in 1 .. 2}, description \in 1 .. Descriptions :
       \/ \E merge \in BOOLEAN : WriteChunk(drafts, description, description - 1, merge)
       \/ \E style \in Styles, jump \in 0 .. 1 : WriteFragment(style, drafts, description, jump)
  \/ Damage

Index == append_fragmented_samples(parse_sample_table(table, length), fragmented,
           (VideoTrack :> Trex), moofs, length)

\* Whatever tables, runs, defaults and offsets the muxer chose, the index is
\* the samples it wrote; tables that disagree about the number of samples,
\* and data beyond the file, are refused (sample_table.rs, fragment.rs).
SamplesAsWritten == IF damaged THEN ~ Index.ok ELSE Index = Accepted(written)

\* Sync samples at or before, at or after and nearest to a target, as
\* movie.rs:398-441 describes them; the earliest in decode order of the ones
\* presented at the same time.
KeyframeAsDescribed(samples, offset, target) ==
  LET sync == {i \in DOMAIN samples : samples[i].sync}
      time(i) == Adjusted(samples[i], offset, target)
      First(S, Better(_, _)) ==
        LET best == {i \in S : \A j \in S : ~ Better(j, i)}
        IN  IF S = {} THEN None ELSE Min(best) - 1
      distance(i) == adjusted_presentation_distance(samples[i], offset, target)
  IN  /\ keyframe_at_or_before(samples, offset, target) =
           First({i \in sync : time(i) <= Scaled(target)}, LAMBDA i, j : time(i) > time(j))
      /\ keyframe_at_or_after(samples, offset, target) =
           First({i \in sync : time(i) >= Scaled(target)}, LAMBDA i, j : time(i) < time(j))
      /\ keyframe_nearest(samples, offset, target) =
           First(sync, LAMBDA i, j : \/ distance(i) < distance(j)
                                     \/ distance(i) = distance(j) /\ time(i) < time(j))
      /\ LET found == audio_sample_at_or_before(samples, offset, target)
             fits == {i \in DOMAIN samples : time(i) <= Scaled(target)}
         IN  IF fits = {} THEN found = None
             ELSE found + 1 \in fits /\ \A i \in fits : time(i) <= time(found + 1)

\* The span covers its samples, keeps within the budget unless it is a single
\* sample, and stops only where the next sample would exceed the budget
\* (demuxer.rs:40-47).
PrefetchAsDescribed(samples, first, budget) ==
  LET span == prefetch_samples(samples, first, budget)
      covered == {samples[i] : i \in first + 1 .. first + span.count}
      next == first + span.count + 1
  IN  budget > 0 /\ first < Len(samples) =>
        /\ span.count >= 1
        /\ span.from = Min({s.offset : s \in covered})
        /\ span.to = Max({s.offset + s.size : s \in covered})
        /\ span.count = 1 \/ span.to - span.from <= budget
        /\ next <= Len(samples) =>
             Max({span.to, samples[next].offset + samples[next].size})
               - Min({span.from, samples[next].offset}) > budget

\* Searching the index gives the sample that the documentation promises, for
\* every edit list and time scale.
IndexSearchedAsDescribed ==
  ~ damaged =>
    /\ \A edits \in EditLists, target \in Targets :
         LET offset == linear_timeline_offset(edits)
         IN  offset.ok => KeyframeAsDescribed(written, offset.value, target)
    /\ \A first \in 0 .. Len(written), budget \in Budgets :
         PrefetchAsDescribed(written, first, budget)

WriterSpec == WriterInit /\ [][WriterNext]_writerVars
=============================================================================
