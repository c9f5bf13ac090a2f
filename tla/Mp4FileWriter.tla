--------------------------- MODULE Mp4FileWriter ---------------------------
(***************************************************************************)
(* A muxer that writes a movie of a video, an audio and a text track byte  *)
(* by byte, as ISO/IEC 14496-12, -14 and -15 describe the boxes, in any of *)
(* the forms they allow, or with one fault.  Mp4Boxes must give back the   *)
(* movie that was meant, and refuse every fault.                           *)
(***************************************************************************)
EXTENDS Integers, Sequences, FiniteSets
LOCAL INSTANCE SequencesExt

VARIABLES
  file,    \* the bytes
  form,    \* how the boxes are written
  fault,   \* [way, kind]: what is wrong with the boxes of a kind
  boxes,   \* the trees of its boxes
  places   \* where the parts of the file begin
fileVars == <<file, form, fault, boxes, places>>

B == INSTANCE Mp4Boxes

Joining == [parts \in Seq(Seq(Int)) |-> FlattenSeq(parts)]
Joined(parts) == Joining[<<>> \o parts]
NoFault == [way |-> "none", kind |-> "nothing"]

(***************************************************************************)
(* Boxes to write: [kind, fields, children].  A field is a number and its  *)
(* width in bytes, most significant byte first.                            *)
(***************************************************************************)
FieldBox(kind, fields) == [kind |-> kind, fields |-> fields, children |-> <<>>]
VersionBox(kind, version, flags, fields) ==
  FieldBox(kind, <<<<version, 1>>, <<flags, 3>>>> \o fields)
ParentBox(kind, children) == [kind |-> kind, fields |-> <<>>, children |-> children]
Raw(bytes) == [i \in DOMAIN bytes |-> <<bytes[i], 1>>]
RowFields(rows, widths) ==
  LET n == Len(widths)
  IN  [k \in 1 .. Len(rows) * n |-> <<rows[((k - 1) \div n) + 1][((k - 1) % n) + 1], widths[((k - 1) % n) + 1]>>]
TableBox(kind, version, rows, widths) ==
  VersionBox(kind, version, 0, <<<<Len(rows), 4>>>> \o RowFields(rows, widths))
NumberOf(kind) == IF kind = "none" THEN 0 ELSE CHOOSE i \in DOMAIN B!Names : B!Names[i] = kind

Digit(n, place) ==
  IF place = 3 THEN (n \div 16777216) % 256
  ELSE IF place > 3 THEN (IF n < 0 THEN 255 ELSE 0) ELSE (n \div 256 ^ place) % 256
FieldBytes(fields) ==
  Joined([i \in DOMAIN fields |-> [j \in 1 .. fields[i][2] |-> Digit(fields[i][1], fields[i][2] - j)]])

\* w: [form, fault].  A box as its form wants it, or with the fault of its kind.
Hit(w, kind, ways) == w.fault.kind = kind /\ w.fault.way \in ways
Spoilt(w, kind) == [payload \in Seq(0 .. 255) |->
  IF Hit(w, kind, {"short"}) THEN SubSeq(payload, 1, Len(payload) - 1)
  ELSE IF Hit(w, kind, {"fewer"}) THEN [payload EXCEPT ![8] = @ - 1]
  ELSE IF Hit(w, kind, {"long"}) THEN payload \o <<0>>
  ELSE IF Hit(w, kind, {"version"}) THEN <<payload[1] + 2>> \o Tail(payload)
  ELSE payload]
Framed(w, kind, wide) == [payload \in Seq(0 .. 255) |->
  LET size == (IF wide THEN 16 ELSE 8) + Len(payload)
      told == IF Hit(w, kind, {"tiny"}) THEN 7 ELSE IF Hit(w, kind, {"broad"}) THEN size + 1 ELSE size
  IN  FieldBytes(IF wide THEN <<<<1, 4>>, <<NumberOf(kind), 4>>, <<told, 8>>>>
                 ELSE <<<<IF kind = w.last THEN 0 ELSE told, 4>>, <<NumberOf(kind), 4>>>>) \o payload]
Repeated(w, kind) == [box \in Seq(0 .. 255) |->
  IF Hit(w, kind, {"without"}) THEN <<>> ELSE IF Hit(w, kind, {"twice"}) THEN box \o box ELSE box]

\* Boxes that every reader skips, behind each child.
Noise(noise) ==
  CASE noise = "none" -> <<>> [] noise = "free" -> <<FieldBox("free", Raw(<<7>>))>>
    [] noise = "uuid" -> <<FieldBox("uuid", <<<<0, 16>>, <<7, 2>>>>)>>
RECURSIVE BoxBytes(_, _)
BoxBytes(w, node) ==
  LET wide == w.form.header = "wide" /\ node.kind # w.last
      noise == IF node.fields = <<>> THEN Noise(w.form.noise) ELSE <<>>
      Child(i) == BoxBytes(w, node.children[i]) \o Joined([j \in DOMAIN noise |-> BoxBytes(w, noise[j])])
  IN  Repeated(w, node.kind)[Framed(w, node.kind, wide)[Spoilt(w, node.kind)[
        FieldBytes(node.fields) \o Joined([i \in DOMAIN node.children |-> Child(i)])]]]

(***************************************************************************)
(* The movie that is meant: a track of four video samples in two chunks,   *)
(* one of three audio samples in a chunk between them, and one of text     *)
(* that has no tables.  m is the form.                                     *)
(***************************************************************************)
V == 5   A == 3   T == 9       \* ids of the tracks
MovieScale == 6
Scale(id) == IF id = A THEN 44100 ELSE 2
VideoSizes(m) == IF m.sizes = "default" THEN <<2, 2, 2, 2>> ELSE <<2, 15, 1, 3>>
AudioSizes(m) == IF m.sizes = "default" THEN <<2, 2, 2>> ELSE <<3, 1, 2>>
Offsets(m) == CASE m.ctts = "none" -> <<0, 0, 0, 0>>
                [] m.ctts = "unsigned" -> <<0, 3, 3, 1>>
                [] m.ctts = "signed" -> <<0, 3, 3, -1>>
Durations == <<2, 2, 1, 1>>
Fragmented(m) == m.fragments # "none"
FragmentSizes(m) == IF m.fragments = "defaults" THEN <<2, 2>> ELSE <<3, 1>>
FragmentDurations(m) == IF m.fragments = "defaults" THEN <<2, 2>> ELSE <<1, 3>>
FragmentTime(m) == IF m.fragments = "moof" THEN 300 ELSE 6
FragmentSync(m) == <<TRUE, m.fragments = "defaults">>

\* The bytes of sample i of a track; those of fragments count on from 7.
Data(id, i, size) == [j \in 1 .. size |-> (id * 20) + (i * 7) + j]
AllData(id, first, sizes) == Joined([i \in DOMAIN sizes |-> Data(id, first + i - 1, sizes[i])])

\* Where the audio data begins and ends, and how far behind it is in a fragment.
AudioStart(m) == Len(AllData(V, 1, SubSeq(VideoSizes(m), 1, 3)))
AudioEnd(m) == AudioStart(m) + Len(AllData(A, 1, AudioSizes(m)))
FragmentGap(m) == Len(AllData(V, 7, FragmentSizes(m)))

AvcRecord == <<1, 100, 0, 30, 252 + 3, 224 + 1, 0, 0, 0>>
VpRecord == <<1, 0, 0, 0, 2, 31, (10 * 16) + (3 * 2) + 1, 9, 16, 8, 0, 1, 77>>
\* Object type, index of the rate, rate when the index is 15, channels.
AacRecord(m) == CASE m.audio = "explicit" -> <<23, 128, 86, 34, 16>>
                  [] m.audio = "main" -> <<10, 16>>
                  [] m.audio = "reserved" -> <<22, 144>>
                  [] m.audio = "mono" -> <<18, 8>>
                  [] OTHER -> <<18, 16>>
Configuration(kind, m) ==
  CASE kind = "avc" -> [ok |-> TRUE, codec |-> "h264", length_size |-> 4, data |-> AvcRecord]
    [] kind = "vp09" -> [ok |-> TRUE, codec |-> "vp9", length_size |-> 0, data |-> VpRecord]
    [] kind = "aac" -> [ok |-> TRUE, codec |-> "aac", length_size |-> 0, data |-> AacRecord(m)]
    [] kind = "unsupported" -> [ok |-> FALSE, codec |-> "none", length_size |-> 0, data |-> <<>>]
VideoKind(m) == IF m.video = "hev1" THEN "unsupported" ELSE "avc"
AudioKind(m) == IF m.audio \in {"ac-3", "versioned", "fraction", "object", "main"} THEN "unsupported" ELSE "aac"

Unsupported(format) == [verdict |-> "ok", codec |-> "unsupported", format |-> format]
Visual(format, codec, data, fields) ==
  [verdict |-> "ok", codec |-> codec, format |-> format, data_reference_index |-> 1, width |-> 640,
   height |-> 360, codec_configuration |-> data, fields |-> fields]
Descriptions(id, m) ==
  CASE id = V -> <<IF m.video = "hev1" THEN Unsupported("hev1") ELSE Visual(m.video, "h264", AvcRecord, <<>>),
                   Visual("vp09", "vp9", VpRecord, <<2, 31, 10, 3, 1, 9, 16, 8>>)>>
    [] id = A -> <<IF AudioKind(m) = "unsupported"
                   THEN Unsupported(IF m.audio = "ac-3" THEN "none" ELSE "mp4a")
                   ELSE [verdict |-> "ok", codec |-> "aac", format |-> "mp4a", data_reference_index |-> 1,
                         channel_count |-> 2, sample_size |-> 16, sample_rate |-> 44100,
                         codec_configuration |-> AacRecord(m)]>>
    [] id = T -> <<>>

\* Samples in a row from a place and a time.
InARow(at, time, sizes, durations, offsets, sync, descriptions) ==
  LET Before(values, i) == FoldLeft(LAMBDA sum, value : sum + value, 0, SubSeq(values, 1, i - 1))
  IN  [i \in DOMAIN sizes |->
         [offset |-> at + Before(sizes, i), description |-> descriptions[i] - 1, size |-> sizes[i],
          decode_time |-> time + Before(durations, i),
          presentation_time |-> time + Before(durations, i) + offsets[i],
          duration |-> durations[i], sync |-> sync[i]]]
\* base, fragment: where the data of the mdat boxes begins.
VideoSamples(m, base, fragment) ==
  LET gap == AudioEnd(m) - AudioStart(m)
      row == InARow(base, 0, VideoSizes(m), Durations, Offsets(m),
                    [i \in 1 .. 4 |-> ~ m.stss \/ i \in {1, 4}], <<1, 1, 1, 2>>)
  IN  [row EXCEPT ![4].offset = @ + gap] \o
        IF ~ Fragmented(m) THEN <<>>
        ELSE InARow(fragment, FragmentTime(m), FragmentSizes(m), FragmentDurations(m),
                    IF m.fragments = "explicit" THEN <<0, -2>> ELSE <<0, 0>>, FragmentSync(m), <<2, 2>>)
AudioSamples(m, base, fragment) ==
  InARow(base + AudioStart(m), 0, AudioSizes(m), <<4, 4, 4>>,
         <<0, 0, 0>>, <<TRUE, TRUE, TRUE>>, <<1, 1, 1>>) \o
    IF ~ Fragmented(m) THEN <<>>
    ELSE InARow(fragment + FragmentGap(m), 12, <<2>>, <<5>>, <<0>>, <<TRUE>>, <<1>>)

\* [movie duration, media time, rate]; the linear list shifts by 6 * 2 / 6 - 1.
Edits(m) == CASE m.edits = "linear" -> <<<<6, -1, 1, 0>>, <<12, 1, 1, 0>>>>
              [] m.edits = "fast" -> <<<<12, 0, 2, 0>>>>
              [] m.edits \in {"none", "empty"} -> <<>>
Shift(m) == IF m.edits = "linear" THEN 1 ELSE 0

Track(id, m, base, fragment) ==
  [ok |-> TRUE, id |-> id, flags |-> 3, width |-> 640 * 65536, height |-> 360 * 65536,
   edits |-> IF id # V THEN <<>>
             ELSE [i \in DOMAIN Edits(m) |->
                     [duration |-> Edits(m)[i][1], rate |-> Edits(m)[i][3],
                      media_time |-> IF Edits(m)[i][2] = -1 THEN B!None ELSE Edits(m)[i][2]]],
   media_timescale |-> Scale(id), media_duration |-> IF m.duration = -1 THEN B!None ELSE m.duration,
   handler |-> CASE id = V -> "vide" [] id = A -> "soun" [] id = T -> "text",
   descriptions |-> Descriptions(id, m),
   samples |-> CASE id = V -> VideoSamples(m, base, fragment)
                 [] id = A -> AudioSamples(m, base, fragment)
                 [] id = T -> <<>>]

(***************************************************************************)
(* Its boxes.                                                              *)
(***************************************************************************)
DurationBox(m, kind, scale) ==
  VersionBox(kind, m.version, 0,
    IF m.version = 0 THEN <<<<0, 8>>, <<scale, 4>>, <<m.duration, 4>>, <<0, 4>>>>
    ELSE <<<<0, 16>>, <<scale, 4>>, <<m.duration, 8>>, <<0, 4>>>>)
TrackHeaderBox(m, id) ==
  VersionBox("tkhd", m.version, 3,
    (IF m.version = 0 THEN <<<<0, 8>>, <<id, 4>>, <<0, 8>>>> ELSE <<<<0, 16>>, <<id, 4>>, <<0, 12>>>>)
      \o <<<<0, 52>>, <<640 * 65536, 4>>, <<360 * 65536, 4>>>>)
HandlerOf(id) == CASE id = V -> "vide" [] id = A -> "soun" [] id = T -> "text"
EditBoxes(m) ==
  LET widths == IF m.version = 0 THEN <<4, 4, 2, 2>> ELSE <<8, 8, 2, 2>>
  IN  CASE m.edits = "none" -> <<>>
        [] m.edits = "empty" -> <<ParentBox("edts", <<>>)>>
        [] OTHER -> <<ParentBox("edts", <<TableBox("elst", m.version, Edits(m), widths)>>)>>

VisualEntry(kind, children) ==
  [kind |-> kind, children |-> children,
   fields |-> <<<<0, 6>>, <<1, 2>>, <<0, 16>>, <<640, 2>>, <<360, 2>>, <<0, 50>>>>]
\* The flags of the ES descriptor announce a dependency, a URL of two bytes
\* and a clock; descriptor lengths take one byte or four.
DescriptorBytes(long, tag, body) ==
  <<tag>> \o (IF long THEN <<128, 128, 128>> ELSE <<>>) \o <<Len(body)>> \o body
EsdsBytes(m, long) ==
  LET object == IF m.audio = "object" THEN 107 ELSE 64
      stream == CASE m.audio = "stream" -> 17 [] m.audio = "bit" -> 20 [] OTHER -> 21
      decoder == <<object, stream, 0, 0, 0, 0, 0, 0, 0, 0, 0, 0, 0>> \o DescriptorBytes(long, 5, AacRecord(m))
  IN  DescriptorBytes(long, 3,
        (IF long THEN <<0, 1, 128 + 64 + 32, 0, 2, 2, 65, 66, 0, 3>> ELSE <<0, 1, 0>>)
          \o DescriptorBytes(long, 4, decoder) \o DescriptorBytes(long, 6, <<2>>))
AudioEntry(m) ==
  [kind |-> IF m.audio = "ac-3" THEN "none" ELSE "mp4a",
   fields |-> <<<<0, 6>>, <<1, 2>>, <<IF m.audio = "versioned" THEN 1 ELSE 0, 2>>, <<0, 6>>, <<2, 2>>, <<16, 2>>,
                <<0, 4>>, <<IF m.audio = "rate" THEN 48000 ELSE 44100, 2>>,
                <<IF m.audio = "fraction" THEN 1 ELSE 0, 2>>>>,
   children |-> <<VersionBox("esds", 0, 0, Raw(EsdsBytes(m, m.audio = "long")))>>]
Entries(m, id) ==
  IF id = A THEN <<AudioEntry(m)>>
  ELSE <<VisualEntry(m.video, IF m.video = "hev1" THEN <<>> ELSE <<FieldBox("avcC", Raw(AvcRecord))>>),
         VisualEntry("vp09", <<FieldBox("vpcC", Raw(VpRecord))>>)>>
DescriptionBox(entries) ==
  [kind |-> "stsd", children |-> entries, fields |-> <<<<0, 4>>, <<Len(entries), 4>>>>]

SizeBox(m, sizes) ==
  LET At(i) == IF i \in DOMAIN sizes THEN sizes[i] ELSE 0
      Each(width) == [i \in DOMAIN sizes |-> <<sizes[i], width>>]
      Compact(width, fields) == VersionBox("stz2", 0, 0, <<<<width, 4>>, <<Len(sizes), 4>>>> \o fields)
      Plainly(default, fields) == VersionBox("stsz", 0, 0, <<<<default, 4>>, <<Len(sizes), 4>>>> \o fields)
  IN  CASE m.sizes = "default" -> Plainly(sizes[1], <<>>)
        [] m.sizes = "each" -> Plainly(0, Each(4))
        [] m.sizes = "nibbles" ->
             Compact(4, [i \in 1 .. (Len(sizes) + 1) \div 2 |-> <<(16 * At((2 * i) - 1)) + At(2 * i), 1>>])
        [] m.sizes = "bytes" -> Compact(8, Each(1))
        [] m.sizes = "words" -> Compact(16, Each(2))
ChunkBox(m, rows) ==
  TableBox(IF m.wide THEN "co64" ELSE "stco", 0, rows, <<IF m.wide THEN 8 ELSE 4>>)

VideoTables(m, base) ==
  LET CtsBox(version, last) == <<TableBox("ctts", version, <<<<1, 0>>, <<2, 3>>, <<1, last>>>>, <<4, 4>>)>>
  IN  <<DescriptionBox(Entries(m, V)), TableBox("stts", 0, <<<<2, 2>>, <<2, 1>>>>, <<4, 4>>)>>
        \o (CASE m.ctts = "none" -> <<>> [] m.ctts = "unsigned" -> CtsBox(0, 1) [] m.ctts = "signed" -> CtsBox(1, -1))
        \o (IF m.stss THEN <<TableBox("stss", 0, <<<<1>>, <<4>>>>, <<4>>)>> ELSE <<>>)
        \o <<TableBox("stsc", 0, <<<<1, 3, 1>>, <<2, 1, 2>>>>, <<4, 4, 4>>), SizeBox(m, VideoSizes(m)),
             ChunkBox(m, <<<<base>>, <<base + AudioEnd(m)>>>>)>>
AudioTables(m, base) ==
  <<ChunkBox(m, <<<<base + AudioStart(m)>>>>), SizeBox(m, AudioSizes(m)),
    TableBox("stsc", 0, <<<<1, 3, 1>>>>, <<4, 4, 4>>), TableBox("stts", 0, <<<<3, 4>>>>, <<4, 4>>),
    DescriptionBox(Entries(m, A))>>
\* tables: the boxes of stbl; the text track has no minf box.
TrackBox(m, id, edits, tables) ==
  ParentBox("trak",
    <<TrackHeaderBox(m, id)>> \o edits \o
    <<ParentBox("mdia", <<DurationBox(m, "mdhd", Scale(id)),
                         VersionBox("hdlr", 0, 0, <<<<0, 4>>, <<NumberOf(HandlerOf(id)), 4>>, <<0, 13>>>>)>>
        \o IF tables = <<>> THEN <<>> ELSE <<ParentBox("minf", <<ParentBox("stbl", tables)>>)>>)>>)

\* Flags of a sample that depends on no other one, and of one that does.
Sync == 2 * 16777216
NonSync == 16777216 + 65536
MovieBox(m, base) ==
  ParentBox("moov",
    <<DurationBox(m, "mvhd", MovieScale), TrackBox(m, V, EditBoxes(m), VideoTables(m, base)),
      TrackBox(m, A, <<>>, AudioTables(m, base)), TrackBox(m, T, <<>>, <<>>)>> \o
    IF Fragmented(m)
    THEN <<ParentBox("mvex", [i \in 1 .. 2 |->
             VersionBox("trex", 0, 0, RowFields(<<<<<<V, 2, 2, 2, NonSync>>, <<A, 1, 5, 1, Sync>>>>[i]>>,
                                                <<4, 4, 4, 4, 4>>))])>>
    ELSE <<>>)

\* A fragment at a place in the file whose data begins at data: the video
\* samples in one run or two, a fragment of the text that nobody reads, and
\* the audio sample.
Tfhd(id, flags, fields) == VersionBox("tfhd", 0, flags, <<<<id, 4>>>> \o fields)
Trun(version, flags, count, fields) == VersionBox("trun", version, flags, <<<<count, 4>>>> \o fields)
Tfdt(m, time) == VersionBox("tfdt", m.version, 0, <<<<time, IF m.version = 0 THEN 4 ELSE 8>>>>)
VideoTraf(m, at, data) ==
  CASE m.fragments = "explicit" ->
         <<Tfhd(V, 1 + 2, <<<<9, 8>>, <<2, 4>>>>), Tfdt(m, 6),
           Trun(1, 1 + 256 + 512 + 1024 + 2048, 2,
                <<<<data - 9, 4>>>> \o RowFields(<<<<1, 3, Sync, 0>>, <<3, 1, NonSync, -2>>>>, <<4, 4, 4, 4>>))>>
    [] m.fragments = "moof" ->
         <<Tfhd(V, 131072 + 32, <<<<NonSync, 4>>>>), Tfdt(m, 300),
           Trun(0, 1 + 4 + 256 + 512, 1, <<<<data - at, 4>>, <<Sync, 4>>, <<1, 4>>, <<3, 4>>>>),
           Trun(0, 256 + 512, 1, <<<<3, 4>>, <<1, 4>>>>)>>
    [] m.fragments = "defaults" ->
         <<Tfhd(V, 131072 + 32, <<<<Sync, 4>>>>), Trun(0, 1, 2, <<<<data - at, 4>>>>)>>
FragmentBox(m, at, data) ==
  ParentBox("moof",
    <<ParentBox("traf", VideoTraf(m, at, data)),
      ParentBox("traf", <<Tfhd(T, 131072, <<>>), Trun(7, 0, 1, <<>>)>>),
      ParentBox("traf", <<Tfhd(A, 131072 + 8 + 16, <<<<5, 4>>, <<2, 4>>>>),
                         Trun(0, 1, 1, <<<<data - at + FragmentGap(m), 4>>>>)>>)>>)

\* The file: its type, its data before or after the movie, and a fragment
\* with its data.  at: [base, data, fragment, more], where the data of the
\* first mdat box, that box, the fragment and its data begin.
HeaderSize(w) == IF w.form.header = "wide" THEN 16 ELSE 8
DataBox(m) ==
  FieldBox("mdat", Raw(AllData(V, 1, SubSeq(VideoSizes(m), 1, 3)) \o AllData(A, 1, AudioSizes(m))
                         \o Data(V, 4, VideoSizes(m)[4])))
MoreData(m) == FieldBox("mdat", Raw(AllData(V, 7, FragmentSizes(m)) \o Data(A, 7, 2)))
Parts(m, at) ==
  LET movie == <<MovieBox(m, at.base)>>
      data == <<DataBox(m)>>
  IN  <<FieldBox("ftyp", <<<<0, 8>>>>)>> \o (IF m.first THEN movie \o data ELSE data \o movie)
        \o IF Fragmented(m) THEN <<FragmentBox(m, at.fragment, at.more), MoreData(m)>> ELSE <<>>
Nowhere == [base |-> 0, fragment |-> 0, more |-> 0]
\* The sizes of the boxes do not depend on the places in them.
DataHeader(w) == IF w.last = "mdat" THEN 8 ELSE HeaderSize(w)
LaidOut(w, parts) ==
  LET Before(i) == Len(Joined([j \in 1 .. i - 1 |-> BoxBytes(w, parts[j])]))
      fragment == Len(parts) - 1
  IN  [base |-> Before(IF w.form.first THEN 3 ELSE 2) + DataHeader(w), fragment |-> Before(fragment),
       more |-> Before(fragment + 1) + HeaderSize(w)]
Written(w, parts) ==
  LET whole == Joined([i \in DOMAIN parts |-> BoxBytes(w, parts[i])])
  IN  CASE w.fault.way = "cut" -> SubSeq(whole, 1, Len(whole) - 1)
        [] w.fault.way = "stub" -> whole \o BoxBytes(w, FieldBox("uuid", <<<<0, 1>>>>))
        [] OTHER -> whole

(***************************************************************************)
(* Forms and faults.                                                       *)
(***************************************************************************)
Plain == [header |-> "plain", open |-> FALSE, noise |-> "none", version |-> 0, duration |-> 60,
          sizes |-> "each", wide |-> FALSE, ctts |-> "signed", stss |-> TRUE, edits |-> "linear",
          fragments |-> "explicit", first |-> FALSE, video |-> "avc1", audio |-> "plain"]
Other == [Plain EXCEPT !.header = "wide", !.noise = "free", !.version = 1, !.sizes = "nibbles", !.wide = TRUE,
                       !.ctts = "unsigned", !.fragments = "moof", !.first = TRUE, !.video = "avc3", !.audio = "long"]
Forms ==
  UNION {
    {[f EXCEPT !.noise = noise, !.header = header] : noise \in {"none", "free", "uuid"}, header \in {"plain", "wide"}}
      \cup {[f EXCEPT !.open = TRUE, !.fragments = "none", !.first = first] : first \in BOOLEAN}
      \cup {[f EXCEPT !.version = version, !.duration = duration] : version \in 0 .. 1, duration \in {60, -1}}
      \cup {[f EXCEPT !.sizes = sizes, !.wide = wide] :
              sizes \in {"default", "each", "nibbles", "bytes", "words"}, wide \in BOOLEAN}
      \cup {[f EXCEPT !.ctts = ctts, !.stss = stss] : ctts \in {"none", "unsigned", "signed"}, stss \in BOOLEAN}
      \cup {[f EXCEPT !.edits = edits] : edits \in {"none", "empty", "linear", "fast"}}
      \cup {[f EXCEPT !.fragments = how, !.first = first] :
              how \in {"none", "explicit", "moof", "defaults"}, first \in BOOLEAN}
      \cup {[f EXCEPT !.video = video] : video \in {"avc1", "avc3", "hev1"}}
      \cup {[f EXCEPT !.audio = audio] :
              audio \in {"plain", "explicit", "long", "ac-3", "versioned", "fraction", "object", "main",
                         "rate", "mono", "reserved", "stream", "bit"}}
    : f \in {Plain, Other}}

Common == {"stts", "ctts", "stsc", "stss", "elst", "trex", "tfhd", "tfdt"}
Own(m) == IF m.wide THEN {"stz2", "co64"} ELSE {"stsz", "stco"}
Fault(ways, kinds) == [way : ways, kind : kinds]
\* Each makes the movie one that must be refused.
Faults(m) ==
  Fault({"without"}, Own(m) \cup
        {"moov", "mvhd", "tkhd", "mdia", "mdhd", "hdlr", "minf", "stbl", "stsd", "stts", "stsc", "tfhd", "trun",
         "avcC", "vpcC", "esds"})
    \cup Fault({"twice"}, Own(m) \cup Common \cup
               {"moov", "mvhd", "tkhd", "mdia", "edts", "mdhd", "hdlr", "minf", "stbl", "stsd", "mvex", "avcC",
                "vpcC", "esds"})
    \cup Fault({"short", "long"}, Own(m) \cup Common \cup {"stsd", "trun", "vpcC", "esds"})
    \cup Fault({"version"}, Own(m) \cup Common \cup {"mvhd", "tkhd", "mdhd", "stsd", "trun", "esds"})
    \cup Fault({"tiny", "broad"}, {"trak", "traf", "avcC"} \cup Own(m))
    \cup Fault({"fewer"}, {"stsd"}) \cup Fault({"cut", "stub"}, {"file"})

\* last: the box that reaches to the end of the file, when one does.
Way(f, wrong) == [form |-> f, fault |-> wrong,
                    last |-> CASE ~ f.open -> "nothing" [] f.first -> "mdat" [] OTHER -> "moov"]
FileInit ==
  /\ form \in Forms /\ boxes = Parts(form, Nowhere) /\ places = Nowhere
  /\ fault = NoFault /\ file = <<>>
Place ==
  /\ places = Nowhere
  /\ places' = LaidOut(Way(form, NoFault), boxes)
  /\ boxes' = Parts(form, places')
  /\ UNCHANGED <<file, form, fault>>
Write ==
  /\ places # Nowhere /\ file = <<>>
  /\ fault' \in {NoFault} \cup IF form \in {Plain, Other} THEN Faults(form) ELSE {}
  /\ file' = Written(Way(form, fault'), boxes)
  /\ UNCHANGED <<form, boxes, places>>
FileNext == Place \/ Write

(***************************************************************************)
(* What the demuxer must make of it.                                       *)
(***************************************************************************)
Flawed == fault # NoFault \/ form.audio \in {"rate", "mono", "reserved", "stream", "bit"}
Packet(id, i, sample, last, kind, timed, shift) ==
  [ok |-> timed, data |-> Data(id, IF i > last THEN 7 + i - last - 1 ELSE i, sample.size),
   pts |-> sample.presentation_time + shift, dts |-> sample.decode_time + shift,
   duration |-> sample.duration, keyframe |-> sample.sync, config |-> Configuration(kind, form)]

Intended(m, at) ==
  [ok |-> TRUE, timescale |-> MovieScale,
   duration |-> IF m.duration = -1 THEN B!None ELSE m.duration,
   tracks |-> <<Track(V, m, at.base, at.more), Track(A, m, at.base, at.more), Track(T, m, at.base, at.more)>>]
PacketsMeant(movie) ==
  LET video == movie.tracks[1].samples
      audio == movie.tracks[2].samples
  IN  <<[i \in DOMAIN video |->
           Packet(V, i, video[i], 4, IF i < 4 THEN VideoKind(form) ELSE "vp09", form.edits # "fast", Shift(form))],
        [i \in DOMAIN audio |-> Packet(A, i, audio[i], 3, AudioKind(form), TRUE, 0)]>>

AsMeant(movie, meant) ==
  IF Flawed THEN ~ movie.ok ELSE
  /\ movie = meant
  /\ <<B!Packets(movie, movie.tracks[1]), B!Packets(movie, movie.tracks[2])>> = PacketsMeant(meant)

\* A movie is read back with its tracks, descriptions, samples and the bytes
\* and times of its packets, in whichever form its boxes are written; a box
\* that is missing, doubled, cut, too long or of another version, and audio
\* that disagrees with itself, refuse it (movie.rs, boxes.rs, fragment.rs).
MovieReadBack ==
  IF file = <<>> THEN TRUE ELSE AsMeant(B!ParseMovie, Intended(form, places))

FileSpec == FileInit /\ [][FileNext]_fileVars
=============================================================================
