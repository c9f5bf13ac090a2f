------------------------------ MODULE Mp4Boxes ------------------------------
(***************************************************************************)
(* A movie from the bytes of its file: the boxes and their nesting, the    *)
(* headers, edit lists, sample descriptions and tables of every track, the *)
(* movie fragments, and the packets that are read through the index        *)
(* (boxes.rs, reader.rs, movie.rs, sample_table.rs, fragment.rs, edit.rs,  *)
(* audio.rs, demuxer.rs).  What the tables mean is Mp4Samples.  Offsets    *)
(* count from 0.  A name of four letters is the number of its place in     *)
(* Names.  An error of any kind makes ok FALSE; only for audio entries     *)
(* does it matter which error it is.                                       *)
(***************************************************************************)
EXTENDS Integers, Sequences, FiniteSets
LOCAL INSTANCE SequencesExt
LOCAL INSTANCE FiniteSetsExt

VARIABLE file   \* the bytes of the input

Sm(Descriptions, VideoTrack, OtherTrack, MediaTimescale, MovieTimescale) == INSTANCE Mp4Samples
\* Operators of Mp4Samples that no constant enters.
Pure == INSTANCE Mp4Samples WITH Descriptions <- 0, VideoTrack <- 0, OtherTrack <- 0,
                                 MediaTimescale <- 1, MovieTimescale <- 1

Names == <<"ftyp", "mdat", "free", "uuid", "moov", "mvhd", "trak", "tkhd", "mdia", "edts", "elst",
           "mdhd", "hdlr", "minf", "stbl", "stsd", "stts", "ctts", "stsc", "stsz", "stz2", "stco",
           "co64", "stss", "mvex", "trex", "moof", "traf", "tfhd", "tfdt", "trun", "vide", "soun",
           "text", "avc1", "avc3", "avcC", "vp09", "vpcC", "mp4a", "esds", "hev1">>
FourCc(number) == IF number \in DOMAIN Names THEN Names[number] ELSE "none"

None == Pure!None
MAX_SAMPLE_COUNT == 2000000
Huge == 1000000000   \* stands for every number from 2^30
AllOnes == -1        \* a field of at least four bytes with every bit set

(***************************************************************************)
(* Fields of fixed width, most significant byte first; a negative width is *)
(* a two's complement number and width 0 an absent field.                  *)
(***************************************************************************)
Fold(bytes) == FoldLeft(LAMBDA value, byte : value * 256 + byte, 0, bytes)
Low(bytes) == SubSeq(bytes, Max({1, Len(bytes) - 3}), Len(bytes))
Unsigned(bytes) ==
  IF Len(bytes) >= 4 /\ \A i \in DOMAIN bytes : bytes[i] = 255 THEN AllOnes
  ELSE IF \/ \E i \in 1 .. Len(bytes) - 4 : bytes[i] # 0
          \/ Len(bytes) >= 4 /\ Low(bytes)[1] >= 64
  THEN Huge ELSE Fold(Low(bytes))
Signed(bytes) ==
  IF bytes[1] < 128 THEN Unsigned(bytes)
  ELSE -1 - Unsigned([i \in DOMAIN bytes |-> 255 - bytes[i]])

Width(w) == IF w < 0 THEN -w ELSE w
Value(at, w) ==
  IF w = 0 THEN None
  ELSE IF w < 0 THEN Signed(SubSeq(file, at + 1, at - w)) ELSE Unsigned(SubSeq(file, at + 1, at + w))

\* Where each of some fields begins when they follow each other.
Total(widths) == FoldLeft(LAMBDA sum, w : sum + Width(w), 0, widths)
Values(at, widths) ==
  [i \in DOMAIN widths |-> Value(at + Total(SubSeq(widths, 1, i - 1)), widths[i])]

\* A reader of a range: v holds the fields that the last step read.
Reader(from, to) == [ok |-> from <= to, at |-> from, to |-> to, v |-> <<>>]
ReadTo(r, widths, end) ==
  IF r.ok /\ end <= r.to THEN [r EXCEPT !.at = end, !.v = Values(r.at, widths)]
  ELSE [r EXCEPT !.ok = FALSE, !.v = [i \in DOMAIN widths |-> 0]]
Read(r, widths) == ReadTo(r, widths, r.at + Total(widths))
read_vec(r) == SubSeq(file, r.at + 1, r.to)

\* count rows of fields that end where the range ends.
Rows(r, count, widths) ==
  LET left == r.to - r.at
      total == Total(widths)
      fits == /\ r.ok /\ count \in 0 .. MAX_SAMPLE_COUNT
              /\ IF total = 0 THEN left = 0 ELSE left % total = 0 /\ left \div total = count
  IN  [ok |-> fits,
       rows |-> IF fits THEN [i \in 1 .. count |-> Values(r.at + (i - 1) * total, widths)] ELSE <<>>]

(***************************************************************************)
(* Boxes.                                                                  *)
(***************************************************************************)
Checked(kind, at, size, header, to) ==
  [ok |-> header <= size /\ size <= to - at, kind |-> kind, at |-> at,
   payload |-> at + header, end |-> at + size]
BoxOf(base, extended, kind, to) ==
  LET size == base.v[1]
      at == base.at - 8
      user == IF kind = "uuid" THEN 16 ELSE 0
  IN  IF ~ base.ok \/ (size = 1 /\ ~ extended.ok) THEN [Checked(kind, base.at, 0, 8, to) EXCEPT !.ok = FALSE]
      ELSE IF size = 1 THEN Checked(kind, at, extended.v[1], 16 + user, to)
      ELSE Checked(kind, at, IF size = 0 THEN to - at ELSE size, 8 + user, to)
BoxFrom(base, to) == BoxOf(base, Read(base, <<8>>), FourCc(base.v[2]), to)
ReadBox(at, to) == BoxFrom(Read(Reader(at, to), <<4, 4>>), to)

\* The boxes of a range; the first one that is not well formed is the last.
RECURSIVE BoxesFrom(_, _, _)
BoxesFrom(from, to, before) ==
  LET at == IF before = <<>> THEN from ELSE Last(before).end
  IN  IF (before # <<>> /\ ~ Last(before).ok) \/ at = to THEN before
      ELSE BoxesFrom(from, to, Append(before, ReadBox(at, to)))
boxes_in(from, to) == BoxesFrom(from, to, <<>>)
Children(box) == boxes_in(box.payload, box.end)
WellFormed(boxes) == \A i \in DOMAIN boxes : boxes[i].ok

Kind(boxes, kinds) == SelectSeq(boxes, LAMBDA b : b.kind \in kinds)
\* Every box is well formed, there is at most one of each group and one of
\* each mandatory group.
Holds(boxes, mandatory, optional) ==
  /\ WellFormed(boxes)
  /\ \A kinds \in mandatory : Len(Kind(boxes, kinds)) = 1
  /\ \A kinds \in optional : Len(Kind(boxes, kinds)) <= 1
The(boxes, kinds) == Kind(boxes, kinds)[1]
Present(boxes, kinds) == Kind(boxes, kinds) # <<>>

Payload(box) == Reader(box.payload, box.end)
\* Version and flags of a full box, then more fields.
FullBox(box, widths) == Read(Payload(box), <<1, 3>> \o widths)
\* A table: widths of a row by version.
TableRows(r, forms) ==
  IF r.ok /\ r.v[1] < Len(forms) /\ r.v[2] = 0 THEN Rows(r, r.v[3], forms[r.v[1] + 1])
  ELSE [ok |-> FALSE, rows |-> <<>>]
Table(box, forms) == TableRows(FullBox(box, <<4>>), forms)

(***************************************************************************)
(* Headers and edit lists.                                                 *)
(***************************************************************************)
Version(box) == FullBox(box, <<>>).v[1]
DurationHeader(r) ==
  [ok |-> r.ok /\ r.v[1] \in 0 .. 1 /\ r.v[4] # 0, timescale |-> r.v[4],
   duration |-> IF r.v[5] = AllOnes THEN None ELSE r.v[5]]
parse_duration_header(box) ==
  DurationHeader(FullBox(box, IF Version(box) = 0 THEN <<8, 4, 4>> ELSE <<16, 4, 8>>))

\* Width and height are the last fields, after at least 52 bytes.
TrackHeader(r, size) ==
  [ok |-> r.ok /\ r.v[1] \in 0 .. 1 /\ r.v[4] # 0 /\ r.to - r.at >= 60,
   id |-> r.v[4], flags |-> r.v[2], width |-> size.v[1], height |-> size.v[2]]
SizedTrackHeader(r) == TrackHeader(r, Read([r EXCEPT !.at = r.to - 8], <<4, 4>>))
parse_track_header(box) ==
  SizedTrackHeader(FullBox(box, IF Version(box) = 0 THEN <<8, 4, 8>> ELSE <<16, 4, 12>>))

Handler(r) == [ok |-> r.ok, handler |-> FourCc(r.v[4])]
parse_handler(box) == Handler(FullBox(box, <<4, 4>>))

\* A rate other than one is not told apart further.
EditsOf(table) ==
  [ok |-> table.ok /\ \A i \in DOMAIN table.rows : table.rows[i][2] >= -1,
   edits |-> [i \in DOMAIN table.rows |->
                [duration |-> table.rows[i][1],
                 media_time |-> IF table.rows[i][2] = -1 THEN None ELSE table.rows[i][2],
                 rate |-> IF table.rows[i][4] = 0 THEN table.rows[i][3] ELSE None]]]
parse_edit_list(box) == EditsOf(Table(box, <<<<4, -4, -2, -2>>, <<8, -8, -2, -2>>>>))
EditsIn(children) ==
  IF ~ Holds(children, {}, {{"elst"}}) THEN [ok |-> FALSE, edits |-> <<>>]
  ELSE IF ~ Present(children, {"elst"}) THEN [ok |-> TRUE, edits |-> <<>>]
  ELSE parse_edit_list(The(children, {"elst"}))
parse_edit_container(box) == EditsIn(Children(box))

(***************************************************************************)
(* Sample descriptions: [verdict, codec, format, ...].                     *)
(***************************************************************************)
Invalid == [verdict |-> "invalid"]
Unsupported(format) == [verdict |-> "ok", codec |-> "unsupported", format |-> format]

parse_vp_codec_configuration(data) ==
  [ok |-> /\ Len(data) >= 12 /\ data[1] = 1 /\ \A i \in 2 .. 4 : data[i] = 0
          /\ Len(data) = 12 + data[11] * 256 + data[12],
   fields |-> IF Len(data) < 12 THEN <<>>
              ELSE <<data[5], data[6], data[7] \div 16, (data[7] \div 2) % 8, data[7] % 2>>
                     \o SubSeq(data, 8, 10)]

VideoEntry(entry, r, codec, data, fields) ==
  [verdict |-> "ok", codec |-> codec, format |-> entry.kind, data_reference_index |-> r.v[2],
   width |-> r.v[4], height |-> r.v[5], codec_configuration |-> data, fields |-> fields]
Vp9SampleEntry(entry, r, data, vp) ==
  IF vp.ok THEN VideoEntry(entry, r, "vp9", data, vp.fields) ELSE Invalid
ConfiguredEntry(entry, r, data) ==
  IF entry.kind = "vp09" THEN Vp9SampleEntry(entry, r, data, parse_vp_codec_configuration(data))
  ELSE VideoEntry(entry, r, "h264", data, <<>>)
VideoEntryHolding(entry, r, children, kind) ==
  IF ~ Holds(children, {{kind}}, {}) THEN Invalid
  ELSE ConfiguredEntry(entry, r, read_vec(Payload(The(children, {kind}))))
VisualSampleEntry(entry, r) ==
  IF ~ r.ok THEN Invalid
  ELSE VideoEntryHolding(entry, r, boxes_in(r.at, r.to), IF entry.kind = "vp09" THEN "vpcC" ELSE "avcC")
parse_video_sample_entry(entry) ==
  IF entry.kind \notin {"avc1", "avc3", "vp09"} THEN Unsupported(entry.kind)
  ELSE VisualSampleEntry(entry, Read(Payload(entry), <<6, 2, 16, 2, 2, 50>>))

\* Descriptors inside an esds box: up to four bytes of seven bits of length.
NoDescriptor == [ok |-> FALSE, tag |-> 0, body |-> <<>>, end |-> 0]
DescriptorOf(tag, data, from, length) ==
  IF from + length > Len(data) THEN NoDescriptor
  ELSE [ok |-> TRUE, tag |-> tag, end |-> from + length, body |-> SubSeq(data, from + 1, from + length)]
DescriptorBehind(data, at, n) ==
  DescriptorOf(data[at + 1], data, at + 1 + n,
    FoldLeft(LAMBDA value, byte : value * 128 + (byte % 128), 0, SubSeq(data, at + 2, at + 1 + n)))
DescriptorEnding(data, at, stops) ==
  IF stops = {} THEN NoDescriptor ELSE DescriptorBehind(data, at, Min(stops))
ParseDescriptor(data, at) ==
  DescriptorEnding(data, at, {n \in 1 .. 4 : at + n < Len(data) /\ data[at + 1 + n] < 128})
RECURSIVE find_descriptor(_, _, _)
FoundOrNext(data, found, wanted, Next(_)) ==
  IF ~ found.ok THEN NoDescriptor ELSE IF found.tag = wanted THEN found ELSE Next(found.end)
find_descriptor(data, at, wanted) ==
  IF at >= Len(data) THEN NoDescriptor
  ELSE FoundOrNext(data, ParseDescriptor(data, at), wanted, LAMBDA next : find_descriptor(data, next, wanted))

\* The flags of an ES descriptor announce a dependency, a URL and a clock.
skip_es_descriptor_header(body) ==
  LET flags == body[3]
      url == 3 + IF flags >= 128 THEN 2 ELSE 0
      after == IF (flags \div 64) % 2 = 0 THEN url
               ELSE IF url >= Len(body) THEN Len(body) + 1 ELSE url + 1 + body[url + 1]
  IN  IF Len(body) < 3 THEN 1 + Len(body) ELSE after + IF (flags \div 32) % 2 = 1 THEN 2 ELSE 0

DecoderSpecific(decoder, specific) ==
  IF ~ decoder.ok \/ Len(decoder.body) < 13 THEN Invalid
  ELSE IF decoder.body[1] # 64 THEN [verdict |-> "unsupported"]
  ELSE IF \/ decoder.body[2] \div 4 # 5 \/ decoder.body[2] % 2 = 0
          \/ ~ specific.ok \/ specific.body = <<>> THEN Invalid
  ELSE [verdict |-> "ok", config |-> specific.body]
DecoderConfig(decoder) == DecoderSpecific(decoder, find_descriptor(decoder.body, 13, 5))
InEsDescriptor(body, skipped) ==
  IF skipped > Len(body) THEN Invalid ELSE DecoderConfig(find_descriptor(body, skipped, 4))
EsDescriptor(data, root) ==
  IF ~ root.ok \/ root.tag # 3 \/ root.end # Len(data) THEN Invalid
  ELSE InEsDescriptor(root.body, skip_es_descriptor_header(root.body))
EsdsData(r, data) ==
  IF ~ r.ok \/ r.v # <<0, 0>> THEN Invalid ELSE EsDescriptor(data, ParseDescriptor(data, 0))
Esds(r) == EsdsData(r, read_vec(r))
parse_esds(box) == Esds(FullBox(box, <<>>))

SampleRates == <<96000, 88200, 64000, 48000, 44100, 32000, 24000, 22050, 16000, 12000, 11025, 8000, 7350>>
\* n bits of the data from bit at; None beyond its end.
AudioBits(data, at, n) ==
  IF at + n > 8 * Len(data) THEN None
  ELSE FoldLeft(LAMBDA value, i : value * 2 + ((data[((at + i) \div 8) + 1] \div 2 ^ (7 - ((at + i) % 8))) % 2),
                0, [i \in 1 .. n |-> i - 1])
parse_audio_specific_config(data) ==
  LET object == AudioBits(data, 0, 5)
      index == AudioBits(data, 5, 4)
      rate == IF index = 15 THEN AudioBits(data, 9, 24)
              ELSE IF index + 1 \in DOMAIN SampleRates THEN SampleRates[index + 1] ELSE None
      channels == AudioBits(data, IF index = 15 THEN 33 ELSE 9, 4)
  IN  IF object = None \/ (object = 31 /\ AudioBits(data, 5, 6) = None) THEN Invalid
      ELSE IF object # 2 THEN [verdict |-> "unsupported"]
      ELSE IF rate \in {None, 0} \/ channels = None THEN Invalid
      ELSE IF channels \notin 1 .. 2 THEN [verdict |-> "unsupported"]
      ELSE [verdict |-> "ok", rate |-> rate, channels |-> channels]

\* The first esds box is read before the boxes behind it.
AacEntry(entry, r, data, config) ==
  IF config.verdict # "ok" THEN config
  ELSE IF config.rate # r.v[8] \/ config.channels # r.v[5] THEN Invalid
  ELSE [verdict |-> "ok", codec |-> "aac", format |-> entry.kind, data_reference_index |-> r.v[2],
        channel_count |-> r.v[5], sample_size |-> r.v[6], sample_rate |-> r.v[8],
        codec_configuration |-> data]
EsdsEntry(entry, r, children, parsed) ==
  IF parsed.verdict # "ok" THEN parsed
  ELSE IF ~ Holds(children, {{"esds"}}, {}) THEN Invalid
  ELSE AacEntry(entry, r, parsed.config, parse_audio_specific_config(parsed.config))
EntryWithEsds(entry, r, children) ==
  IF ~ Present(children, {"esds"}) THEN Invalid ELSE EsdsEntry(entry, r, children, parse_esds(The(children, {"esds"})))
AudioSampleEntry(entry, r) ==
  IF ~ r.ok THEN Invalid
  ELSE IF r.v[3] # 0 THEN [verdict |-> "unsupported"]
  ELSE IF r.v[5] = 0 THEN Invalid
  ELSE IF r.v[9] # 0 THEN [verdict |-> "unsupported"]
  ELSE IF r.v[8] = 0 THEN Invalid
  ELSE EntryWithEsds(entry, r, boxes_in(r.at, r.to))
parse_aac_sample_entry(entry) == AudioSampleEntry(entry, Read(Payload(entry), <<6, 2, 2, 6, 2, 2, 4, 2, 2>>))
OrUnsupported(entry, parsed) == IF parsed.verdict = "unsupported" THEN Unsupported(entry.kind) ELSE parsed
parse_audio_sample_entry(entry) ==
  IF entry.kind # "mp4a" THEN Unsupported(entry.kind) ELSE OrUnsupported(entry, parse_aac_sample_entry(entry))

Entries(r, entries, parsed) ==
  [ok |-> r.ok /\ r.v[1] = 0 /\ Len(entries) = r.v[3] /\ \A i \in DOMAIN parsed : parsed[i].verdict = "ok",
   descriptions |-> parsed]
EntriesOf(r, entries, handler) ==
  Entries(r, entries, [i \in DOMAIN entries |->
                         IF ~ entries[i].ok THEN Invalid
                         ELSE IF handler = "vide" THEN parse_video_sample_entry(entries[i])
                         ELSE parse_audio_sample_entry(entries[i])])
EntriesBehind(r, handler) == EntriesOf(r, boxes_in(r.at, r.to), handler)
parse_sample_description_box(box, handler) == EntriesBehind(FullBox(box, <<4>>), handler)

\* What a packet's decoder is configured with: [ok, codec, length_size, data].
decoder_config(description) ==
  IF description.codec = "unsupported" THEN [ok |-> FALSE, codec |-> "none", length_size |-> 0, data |-> <<>>]
  ELSE LET data == description.codec_configuration
           avc == description.codec = "h264"
       IN  [ok |-> avc => /\ Len(data) >= 6
                          /\ data[1] = 1 /\ data[5] \div 4 = 63 /\ data[6] \div 32 = 7,
            codec |-> description.codec,
            length_size |-> IF avc /\ Len(data) >= 5 THEN (data[5] % 4) + 1 ELSE 0,
            data |-> data]

(***************************************************************************)
(* Sample tables and fragments, in the records that Mp4Samples reads.      *)
(***************************************************************************)
SizeTable(field_size, default, count, table) ==
  [ok |-> table.ok /\ count \in 0 .. MAX_SAMPLE_COUNT,
   sizes |-> [field_size |-> field_size, count |-> count, default_size |-> default,
              entries |-> [i \in DOMAIN table.rows |-> table.rows[i][1]]]]
PlainSizes(r) ==
  SizeTable(32, r.v[3], r.v[4], IF r.v[1] # 0 \/ r.v[2] # 0 THEN [ok |-> FALSE, rows |-> <<>>]
                                ELSE Rows(r, IF r.v[3] = 0 THEN r.v[4] ELSE 0, <<4>>))
CompactSizes(r) ==
  SizeTable(r.v[4], 0, r.v[5], IF r.v[1] # 0 \/ r.v[2] # 0 \/ r.v[3] # 0 \/ r.v[4] \notin {4, 8, 16}
                               THEN [ok |-> FALSE, rows |-> <<>>]
                               ELSE Rows(r, IF r.v[4] = 4 THEN (r.v[5] + 1) \div 2 ELSE r.v[5],
                                         <<IF r.v[4] = 16 THEN 2 ELSE 1>>))
Sizes(box) == IF box.kind = "stsz" THEN PlainSizes(FullBox(box, <<4, 4>>)) ELSE CompactSizes(FullBox(box, <<3, 1, 4>>))

NoTable == [ok |-> TRUE, rows |-> <<>>]
SampleTableBoxes(children) ==
  Holds(children, {{"stts"}, {"stsc"}, {"stsz", "stz2"}, {"stco", "co64"}}, {{"ctts"}, {"stss"}})
OptionalTable(children, kind, forms) ==
  IF Present(children, {kind}) THEN Table(The(children, {kind}), forms) ELSE NoTable
Columns(rows, i) == [k \in DOMAIN rows |-> rows[k][i]]
Tables(sizes, stts, ctts, stsc, offsets, stss, synced) ==
  [ok |-> /\ sizes.ok /\ stts.ok /\ ctts.ok /\ stsc.ok /\ offsets.ok /\ stss.ok
          /\ \A i \in DOMAIN ctts.rows : ctts.rows[i][1] # 0,
   tables |->
     [sizes |-> sizes.sizes,
      stts |-> [i \in DOMAIN stts.rows |-> [count |-> stts.rows[i][1], delta |-> stts.rows[i][2]]],
      ctts |-> [i \in DOMAIN ctts.rows |-> [count |-> ctts.rows[i][1], offset |-> ctts.rows[i][2]]],
      stsc |-> [i \in DOMAIN stsc.rows |->
                  [first_chunk |-> stsc.rows[i][1], samples_per_chunk |-> stsc.rows[i][2],
                   description_index |-> stsc.rows[i][3]]],
      stco |-> Columns(offsets.rows, 1),
      stss |-> [present |-> synced, numbers |-> Columns(stss.rows, 1)]]]
ChunkOffsets(chunks) == Table(chunks, <<<<IF chunks.kind = "stco" THEN 4 ELSE 8>>>>)
read_sample_table(children) ==
  Tables(Sizes(The(children, {"stsz", "stz2"})),
         Table(The(children, {"stts"}), <<<<4, 4>>>>),
         OptionalTable(children, "ctts", <<<<4, 4>>, <<4, -4>>>>),
         Table(The(children, {"stsc"}), <<<<4, 4, 4>>>>),
         ChunkOffsets(The(children, {"stco", "co64"})),
         OptionalTable(children, "stss", <<<<4>>>>), Present(children, {"stss"}))

Has(flags, bit) == (flags \div bit) % 2 = 1
OnlyKnown(flags, bits) == flags = FoldSet(LAMBDA bit, sum : bit + sum, 0, {bit \in bits : Has(flags, bit)})
If(flags, bit, width) == IF Has(flags, bit) THEN width ELSE 0
\* Of the flags of a sample, sample_is_non_sync_sample.
NonSync(flags) == IF flags = None THEN None ELSE (flags \div 65536) % 2

Trex(r) ==
  [ok |-> r.ok /\ r.at = r.to /\ r.v[1] = 0 /\ r.v[2] = 0 /\ r.v[3] # 0 /\ r.v[4] # 0,
   track |-> r.v[3],
   defaults |-> [description |-> r.v[4], duration |-> r.v[5], size |-> r.v[6], flags |-> NonSync(r.v[7])]]
TrexOf(box) == Trex(FullBox(box, <<4, 4, 4, 4, 4>>))
TrexByTrack(ok, trex, tracks) ==
  [ok |-> ok /\ (\A i \in DOMAIN trex : trex[i].ok) /\ Cardinality(tracks) = Len(trex),
   trex |-> [t \in tracks |-> trex[CHOOSE i \in DOMAIN trex : trex[i].track = t].defaults]]
AllTrex(ok, trex) == TrexByTrack(ok, trex, {trex[i].track : i \in DOMAIN trex})
TrexAmong(ok, boxes) == AllTrex(ok, [i \in DOMAIN boxes |-> TrexOf(boxes[i])])
TrexIn(children) == TrexAmong(WellFormed(children), Kind(children, {"trex"}))
parse_track_extends(box) == TrexIn(Children(box))

Tfhd(head, flags, r) ==
  [ok |-> /\ r.ok /\ r.at = r.to /\ head.v[1] = 0 /\ head.v[3] # 0
          /\ OnlyKnown(flags, {1, 2, 8, 16, 32, 65536, 131072}),
   tfhd |-> [track |-> head.v[3], base |-> r.v[1], moof |-> Has(flags, 131072), description |-> r.v[2],
             duration |-> r.v[3], size |-> r.v[4], flags |-> NonSync(r.v[5]), empty |-> Has(flags, 65536)]]
TfhdFlagged(head, flags) ==
  Tfhd(head, flags, Read(head, <<If(flags, 1, 8), If(flags, 2, 4), If(flags, 8, 4), If(flags, 16, 4), If(flags, 32, 4)>>))
TfhdFrom(head) == TfhdFlagged(head, head.v[2])
read_tfhd(box) == TfhdFrom(FullBox(box, <<4>>))

Tfdt(r) ==
  [ok |-> r.ok /\ r.at = r.to /\ r.v[1] \in 0 .. 1 /\ r.v[2] = 0 /\ r.v[3] # AllOnes, time |-> r.v[3]]
read_tfdt(box) == Tfdt(FullBox(box, <<IF Version(box) = 0 THEN 4 ELSE 8>>))

Trun(head, flags, r, table) ==
  [ok |-> /\ table.ok /\ head.v[1] \in 0 .. 1 /\ OnlyKnown(flags, {1, 4, 256, 512, 1024, 2048})
          /\ ~ (Has(flags, 4) /\ Has(flags, 1024)),
   run |-> [data_offset |-> r.v[1], first_flags |-> NonSync(r.v[2]),
            samples |-> [i \in DOMAIN table.rows |->
              [duration |-> table.rows[i][1], size |-> table.rows[i][2],
               flags |-> NonSync(table.rows[i][3]),
               composition_offset |-> IF table.rows[i][4] = None THEN 0 ELSE table.rows[i][4]]]]]
TrunRows(head, flags, r) ==
  Trun(head, flags, r, Rows(r, head.v[3], <<If(flags, 256, 4), If(flags, 512, 4), If(flags, 1024, 4),
                                            If(flags, 2048, IF head.v[1] = 0 THEN 4 ELSE -4)>>))
TrunFlagged(head, flags) == TrunRows(head, flags, Read(head, <<If(flags, 1, -4), If(flags, 4, 4)>>))
TrunFrom(head) == TrunFlagged(head, head.v[2])
read_trun(box) == TrunFrom(FullBox(box, <<4>>))

\* indexed: the tracks with sample descriptions; of the others only the header
\* of a fragment is read.
Traf(head, timed, tfdt, runs, known, indexed) ==
  [ok |-> /\ head.ok /\ Pure!parse_track_fragment_header(head.tfhd) /\ head.tfhd.track \in known
          /\ head.tfhd.track \in indexed /\ runs # <<>> =>
               (timed => tfdt.ok) /\ \A i \in DOMAIN runs : runs[i].ok,
   traf |-> [tfhd |-> head.tfhd, tfdt |-> IF timed THEN tfdt.time ELSE None,
             runs |-> [i \in DOMAIN runs |-> runs[i].run]]]
RunsAmong(boxes) == [i \in DOMAIN boxes |-> read_trun(boxes[i])]
TrafIn(children, known, indexed) ==
  IF ~ Holds(children, {{"tfhd"}}, {{"tfdt"}}) THEN [ok |-> FALSE]
  ELSE Traf(read_tfhd(The(children, {"tfhd"})), Present(children, {"tfdt"}), read_tfdt(The(children, {"tfdt"})),
            RunsAmong(Kind(children, {"trun"})), known, indexed)
read_traf(box, known, indexed) == TrafIn(Children(box), known, indexed)
Moof(offset, ok, trafs) ==
  IF ok /\ \A i \in DOMAIN trafs : trafs[i].ok
  THEN [ok |-> TRUE, offset |-> offset, trafs |-> [i \in DOMAIN trafs |-> trafs[i].traf]]
  ELSE [ok |-> FALSE]
TrafsAmong(boxes, known, indexed) == [i \in DOMAIN boxes |-> read_traf(boxes[i], known, indexed)]
MoofIn(offset, children, known, indexed) ==
  Moof(offset, WellFormed(children), TrafsAmong(Kind(children, {"traf"}), known, indexed))
read_moof(box, known, indexed) == MoofIn(box.at, Children(box), known, indexed)

(***************************************************************************)
(* Tracks and the movie.                                                   *)
(***************************************************************************)
Bad == [ok |-> FALSE]

\* Descriptions and samples; a track of another handler is not indexed.
IndexOf(stsd, table) == [ok |-> table.ok, descriptions |-> stsd.descriptions, samples |-> table.samples]
IndexRead(stsd, read) ==
  IF ~ read.ok THEN Bad
  ELSE IndexOf(stsd, Sm(Len(stsd.descriptions), 0, 0, 1, 1)!parse_sample_table(read.tables, Len(file)))
IndexDescribed(stsd, stbl) ==
  IF ~ stsd.ok \/ ~ SampleTableBoxes(stbl) THEN Bad ELSE IndexRead(stsd, read_sample_table(stbl))
IndexIn(stbl, handler) ==
  IF ~ Holds(stbl, {{"stsd"}}, {}) THEN Bad
  ELSE IndexDescribed(parse_sample_description_box(The(stbl, {"stsd"}), handler), stbl)
parse_media_sample_table(boxes, handler) ==
  IF ~ Holds(boxes, {{"stbl"}}, {}) THEN Bad ELSE IndexIn(Children(The(boxes, {"stbl"})), handler)
Indexed(media, handler) ==
  IF handler \notin {"vide", "soun"} THEN [ok |-> TRUE, descriptions |-> <<>>, samples |-> <<>>]
  ELSE IF ~ Present(media, {"minf"}) THEN Bad
  ELSE parse_media_sample_table(Children(The(media, {"minf"})), handler)

WholeTrack(header, edits, time, handler, index) ==
  IF ~ index.ok THEN Bad
  ELSE [ok |-> TRUE, id |-> header.id, flags |-> header.flags, width |-> header.width,
        height |-> header.height, edits |-> edits.edits, media_timescale |-> time.timescale,
        media_duration |-> time.duration, handler |-> handler,
        descriptions |-> index.descriptions, samples |-> index.samples]
TimedTrack(media, header, edits, time, kind) ==
  IF ~ header.ok \/ ~ edits.ok \/ ~ time.ok \/ ~ kind.ok THEN Bad
  ELSE WholeTrack(header, edits, time, kind.handler, Indexed(media, kind.handler))
Described(media, header, edits) ==
  IF ~ Holds(media, {{"mdhd"}, {"hdlr"}}, {{"minf"}}) THEN Bad
  ELSE TimedTrack(media, header, edits, parse_duration_header(The(media, {"mdhd"})),
                  parse_handler(The(media, {"hdlr"})))
TrackIn(children) ==
  IF ~ Holds(children, {{"tkhd"}, {"mdia"}}, {{"edts"}}) THEN Bad
  ELSE Described(Children(The(children, {"mdia"})),
                 parse_track_header(The(children, {"tkhd"})),
                 IF Present(children, {"edts"}) THEN parse_edit_container(The(children, {"edts"}))
                 ELSE [ok |-> TRUE, edits |-> <<>>])
ParseTrack(box) == TrackIn(Children(box))

\* A fragment extends the first track of its id.
Grown(ok, tracks, grown) ==
  [ok |-> ok /\ \A i \in DOMAIN tracks : grown[i].ok,
   tracks |-> [i \in DOMAIN tracks |-> [tracks[i] EXCEPT !.samples = grown[i].samples]]]
append_fragmented_samples(tracks, extends, moofs) ==
  LET IsFirst(i) == ~ \E j \in 1 .. i - 1 : tracks[j].id = tracks[i].id
      Own(moof, i) == [offset |-> moof.offset,
                       trafs |-> SelectSeq(moof.trafs, LAMBDA t : t.tfhd.track = tracks[i].id)]
  IN  Grown(extends.ok, tracks, [i \in DOMAIN tracks |->
        Sm(Len(tracks[i].descriptions), tracks[i].id, 0, 1, 1)!append_fragmented_samples(
          [ok |-> TRUE, samples |-> tracks[i].samples], TRUE, extends.trex,
          IF IsFirst(i) /\ tracks[i].descriptions # <<>>
          THEN [k \in DOMAIN moofs |-> Own(moofs[k], i)] ELSE <<>>, Len(file))])

Movie(ok, time, tracks) ==
  IF ok THEN [ok |-> TRUE, timescale |-> time.timescale, duration |-> time.duration, tracks |-> tracks] ELSE Bad
MovieGrown(time, grown) == Movie(grown.ok, time, grown.tracks)
Extend(time, tracks, mvex, moofs) ==
  IF \E k \in DOMAIN moofs : ~ moofs[k].ok THEN Bad
  ELSE MovieGrown(time, append_fragmented_samples(tracks, parse_track_extends(mvex), moofs))
MoofsAmong(boxes, known, indexed) == [k \in DOMAIN boxes |-> read_moof(boxes[k], known, indexed)]
Extended(top, children, time, tracks) ==
  IF ~ Present(children, {"mvex"}) THEN Movie(TRUE, time, tracks)
  ELSE Extend(time, tracks, The(children, {"mvex"}),
         MoofsAmong(Kind(top, {"moof"}), {tracks[i].id : i \in DOMAIN tracks},
                    {tracks[i].id : i \in {j \in DOMAIN tracks : tracks[j].descriptions # <<>>}}))
Assembled(top, children, time, tracks) ==
  IF ~ time.ok \/ \E i \in DOMAIN tracks : ~ tracks[i].ok THEN Bad
  ELSE Extended(top, children, time, tracks)
TracksAmong(boxes) == [i \in DOMAIN boxes |-> ParseTrack(boxes[i])]
InMovie(top, children) ==
  IF ~ Holds(children, {{"mvhd"}}, {{"mvex"}}) THEN Bad
  ELSE Assembled(top, children, parse_duration_header(The(children, {"mvhd"})),
                 TracksAmong(Kind(children, {"trak"})))
MovieAmong(top) ==
  IF ~ Holds(top, {{"moov"}}, {}) THEN Bad ELSE InMovie(top, Children(The(top, {"moov"})))
ParseMovie == MovieAmong(boxes_in(0, Len(file)))

(***************************************************************************)
(* Packets.  Their times are on the timeline of the edit list.             *)
(***************************************************************************)
read_packet(movie, track, i) ==
  LET sample == track.samples[i]
      offset == Sm(0, 0, 0, track.media_timescale, movie.timescale)!linear_timeline_offset(track.edits)
  IN  [ok |-> offset.ok, data |-> SubSeq(file, sample.offset + 1, sample.offset + sample.size),
       pts |-> sample.presentation_time + offset.value, dts |-> sample.decode_time + offset.value,
       duration |-> sample.duration, keyframe |-> track.handler = "soun" \/ sample.sync,
       config |-> decoder_config(track.descriptions[sample.description + 1])]

\* What next_packet of a new cursor returns until the end of its track.
Packets(movie, track) == [i \in DOMAIN track.samples |-> read_packet(movie, track, i)]
=============================================================================
