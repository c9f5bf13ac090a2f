------------------------------ MODULE Vp9Headers ------------------------------
(***************************************************************************)
(* VP9 packets as decv-vp9 takes them apart: the index of a superframe and *)
(* the uncompressed header of a frame, with the state that headers hand on *)
(* to later ones; and the writer that sends only what has changed.         *)
(***************************************************************************)
EXTENDS HeaderSyntax
LOCAL INSTANCE SequencesExt
LOCAL INSTANCE FiniteSetsExt
LOCAL INSTANCE TLC

(***************************************************************************)
(* Superframes: bytes that end in an index, between two equal markers.     *)
(***************************************************************************)
SUPERFRAME_MARKER == 192
IsMarker(byte) == byte \div 32 = SUPERFRAME_MARKER \div 32
frame_count(marker) == (marker % 8) + 1
magnitude(marker) == ((marker \div 8) % 4) + 1
index_size(marker) == 2 + frame_count(marker) * magnitude(marker)

LittleEndian(bytes) == FoldRight(LAMBDA byte, n : byte + 256 * n, bytes, 0)
SizesIn(index, marker) ==
  [k \in 1 .. frame_count(marker) |->
    LittleEndian(SubSeq(index, 2 + (k - 1) * magnitude(marker), 1 + k * magnitude(marker)))]
Sum(sizes) == FoldLeft(LAMBDA n, size : n + size, 0, sizes)
Cut(payload, sizes) ==
  [k \in DOMAIN sizes |->
    SubSeq(payload, Sum(SubSeq(sizes, 1, k - 1)) + 1, Sum(SubSeq(sizes, 1, k)))]
NoFrames == [ok |-> FALSE, frames |-> <<>>]
Covering(payload, sizes) ==
  IF (\A k \in DOMAIN sizes : sizes[k] > 0) /\ Sum(sizes) = Len(payload)
  THEN [ok |-> TRUE, frames |-> Cut(payload, sizes)] ELSE NoFrames
Indexed(packet, marker, length) ==
  IF length < index_size(marker) \/ packet[length - index_size(marker) + 1] # marker THEN NoFrames
  ELSE Covering(SubSeq(packet, 1, length - index_size(marker)),
                SizesIn(SubSeq(packet, length - index_size(marker) + 1, length), marker))
Superframe(packet) ==
  IF packet = <<>> THEN NoFrames
  ELSE IF IsMarker(Last(packet)) THEN Indexed(packet, Last(packet), Len(packet))
  ELSE [ok |-> TRUE, frames |-> <<packet>>]

(***************************************************************************)
(* The parser's state.  sizes and colors are those of the slots that hold  *)
(* a frame, deltas the four of references and the two of modes; a segment  *)
(* feature is <<>> or its value.                                           *)
(***************************************************************************)
MAX_TILE_WIDTH_B64 == 64
MIN_TILE_WIDTH_B64 == 4
DefaultDeltas == <<1, 0, -1, -1, 0, 0>>
NoFeatures == [segment \in 1 .. 8 |-> [feature \in 1 .. 4 |-> <<>>]]
DefaultSegmentation ==
  [enabled |-> 0, update_map |-> 0, tree |-> [k \in 1 .. 7 |-> 255], temporal_update |-> 0,
   prediction |-> [k \in 1 .. 3 |-> 255], update_data |-> 0, absolute |-> 0, features |-> NoFeatures]
HeaderParser ==
  [sizes |-> <<>>, colors |-> <<>>, deltas |-> DefaultDeltas, segmentation |-> DefaultSegmentation]
reset_independent_state(s) == [s EXCEPT !.deltas = DefaultDeltas, !.segmentation = DefaultSegmentation]

(***************************************************************************)
(* The elements of a header.                                               *)
(***************************************************************************)
Exactly(name, n, value) == [U(name, n) EXCEPT !.lo = value, !.hi = value]
Zero(name) == Exactly(name, 1, 0)
signed(bits) == <<U("magnitude", bits), Flag("sign")>>
SignedValue(h) == IF IsSet(h, "sign") THEN - h.magnitude ELSE h.magnitude
Or(h, name, default) == IF name \in DOMAIN h THEN h[name] ELSE default

FrameMarker ==
  <<Exactly("frame_marker", 2, 2), Flag("profile_low"), Flag("profile_high")>>
  \o When(Both(Is("profile_low", {1}), Is("profile_high", {1})), <<Zero("reserved")>>)
  \o <<Flag("show_existing_frame")>> \o WhenSet("show_existing_frame", <<U("slot", 3)>>)
  \o When(Is("show_existing_frame", {0}), <<Flag("frame_type"), Flag("show_frame"), Flag("error_resilient")>>)
Profile(h) == h.profile_low + 2 * h.profile_high

read_sync_code == <<Exactly("sync_0", 8, 73), Exactly("sync_1", 8, 131), Exactly("sync_2", 8, 66)>>
Srgb == 7
read_color_config(profile) ==
  Given(profile >= 2, <<Flag("twelve_bit")>>)
  \o <<[U("color_space", 3) EXCEPT !.hi = IF profile \in {0, 2} THEN Srgb - 1 ELSE Srgb]>>
  \o When(Is("color_space", 0 .. Srgb - 1),
       <<Flag("full_range")>> \o Given(profile \in {1, 3}, <<Flag("subsampling_x"), Flag("subsampling_y")>>))
  \o Given(profile \in {1, 3}, <<Zero("color_reserved")>>)
default_profile_zero_color == <<8, 0, 0, 1, 1>>
\* Depth, space, range, and which axes are subsampled.
ColorConfig(h, profile) ==
  IF "color_space" \notin DOMAIN h THEN default_profile_zero_color
  ELSE <<IF profile < 2 THEN 8 ELSE 10 + 2 * h.twelve_bit, h.color_space>>
       \o (IF h.color_space = Srgb THEN <<1, 0, 0>>
           ELSE <<h.full_range, Or(h, "subsampling_x", 1), Or(h, "subsampling_y", 1)>>)

read_frame_size == <<U("width_minus1", 16), U("height_minus1", 16)>>
read_render_size ==
  <<Flag("render_size_different")>>
  \o WhenSet("render_size_different", <<U("render_width_minus1", 16), U("render_height_minus1", 16)>>)

\* A frame that is not a key frame: intra-only, which only a hidden one can be, or inter.
IntraOnly == Is("intra_only", {1})
Predicted == Is("intra_only", {0}) \cup Is("show_frame", {1})
References == <<Items("references", "", 3, <<U("index", 3), Flag("sign_bias")>>)>>
read_frame_size_with_refs ==
  <<Flag("found_1")>> \o When(Is("found_1", {0}), <<Flag("found_2")>>)
  \o When(Is("found_2", {0}), <<Flag("found_3")>>)
InterpolationElements ==
  <<Flag("switchable")>> \o When(Is("switchable", {0}), <<U("filter", 2)>>)
FrameElements(key, profile) ==
  IF key THEN read_sync_code \o read_color_config(profile) \o read_frame_size \o read_render_size
  ELSE When(Is("show_frame", {0}), <<Flag("intra_only")>>)
       \o When(Is("error_resilient", {0}), <<U("reset_frame_context", 2)>>)
       \o When(IntraOnly, read_sync_code \o Given(profile > 0, read_color_config(profile)))
       \o <<U("refresh_frame_flags", 8)>>
       \o When(Predicted, References \o read_frame_size_with_refs)
       \o When(IntraOnly \cup Is("found_3", {0}), read_frame_size) \o read_render_size
       \o When(Predicted, <<Flag("high_precision")>> \o InterpolationElements)
FilterNames == <<"EightTapSmooth", "EightTap", "EightTapSharp", "Bilinear">>
InterpolationFilter(h) ==
  IF IsSet(h, "switchable") THEN "Switchable" ELSE FilterNames[Or(h, "filter", 1) + 1]

ContextElements ==
  When(Is("error_resilient", {0}), <<Flag("refresh_frame_context"), Flag("frame_parallel_decoding")>>)
  \o <<U("frame_context_index", 2)>>
read_loop_filter ==
  <<U("level", 6), U("sharpness", 3), Flag("delta_enabled")>>
  \o WhenSet("delta_enabled", <<Flag("delta_update")>>)
  \o WhenSet("delta_update", <<Items("deltas", "", 6, <<Flag("update")>> \o WhenSet("update", signed(6)))>>)
read_quantization ==
  <<U("base_q_idx", 8), Items("q_deltas", "", 3, <<Flag("present")>> \o WhenSet("present", signed(4)))>>

read_probability == <<Flag("update")>> \o WhenSet("update", <<U("probability", 8)>>)
SegmentFeature(k, bits, is_signed) ==
  LET enabled == <<"enabled_1", "enabled_2", "enabled_3", "enabled_4">>[k]
      value == <<"value_1", "value_2", "value_3", "value_4">>[k]
      sign == <<"sign_1", "sign_2", "sign_3", "sign_4">>[k]
  IN  <<Flag(enabled)>>
      \o WhenSet(enabled, Given(bits > 0, <<U(value, bits)>>) \o Given(is_signed, <<Flag(sign)>>))
SegmentFeatures ==
  SegmentFeature(1, 8, TRUE) \o SegmentFeature(2, 6, TRUE) \o SegmentFeature(3, 2, FALSE)
    \o SegmentFeature(4, 0, FALSE)
read_segmentation ==
  <<Flag("segmentation_enabled")>>
  \o WhenSet("segmentation_enabled", <<Flag("update_map")>>)
  \o WhenSet("update_map", <<Items("tree", "", 7, read_probability), Flag("temporal_update")>>)
  \o WhenSet("temporal_update", <<Items("prediction", "", 3, read_probability)>>)
  \o WhenSet("segmentation_enabled", <<Flag("update_data")>>)
  \o WhenSet("update_data", <<Flag("absolute"), Items("features", "", 8, SegmentFeatures)>>)

HeaderElements(key, profile) ==
  FrameElements(key, profile) \o ContextElements \o read_loop_filter \o read_quantization \o read_segmentation

(***************************************************************************)
(* What the elements mean.                                                 *)
(***************************************************************************)
is_intra_only(h) == h.frame_type = 0 \/ IsSet(h, "intra_only")
Found(h) == {k \in 1 .. 3 : IsSet(h, <<"found_1", "found_2", "found_3">>[k])}
FoundSlot(h) == h.references[Min(Found(h))].index
ReferenceKnown(s, h) == Found(h) # {} => FoundSlot(h) \in DOMAIN s.sizes
CodedSize(s, h) ==
  IF Found(h) = {} THEN <<h.width_minus1 + 1, h.height_minus1 + 1>> ELSE SubSeq(s.sizes[FoundSlot(h)], 1, 2)
FrameSize(coded, h) ==
  coded \o (IF IsSet(h, "render_size_different") THEN <<h.render_width_minus1 + 1, h.render_height_minus1 + 1>>
            ELSE coded)
FrameColor(s, h) ==
  IF is_intra_only(h) THEN ColorConfig(h, Profile(h)) ELSE Or(s.colors, h.references[1].index, <<>>)

UpdatedDeltas(deltas, h) ==
  IF IsSet(h, "delta_update")
  THEN [k \in 1 .. 6 |-> IF h.deltas[k].update = 1 THEN SignedValue(h.deltas[k]) ELSE deltas[k]] ELSE deltas
Quantization(h) ==
  <<h.base_q_idx>> \o [k \in 1 .. 3 |-> IF h.q_deltas[k].present = 1 THEN SignedValue(h.q_deltas[k]) ELSE 0]

Probabilities(items) == [k \in DOMAIN items |-> Or(items[k], "probability", 255)]
FeatureValue(h, k) ==
  LET enabled == <<"enabled_1", "enabled_2", "enabled_3", "enabled_4">>[k]
      value == <<"value_1", "value_2", "value_3", "value_4">>[k]
      sign == <<"sign_1", "sign_2", "sign_3", "sign_4">>[k]
  IN  IF ~ IsSet(h, enabled) THEN <<>> ELSE <<(IF IsSet(h, sign) THEN -1 ELSE 1) * Or(h, value, 0)>>
WithMap(g, h) ==
  IF ~ IsSet(h, "update_map") THEN g
  ELSE [g EXCEPT !.tree = Probabilities(h.tree), !.temporal_update = h.temporal_update,
                 !.prediction = IF IsSet(h, "temporal_update") THEN Probabilities(h.prediction)
                                ELSE DefaultSegmentation.prediction]
WithData(g, h) ==
  IF ~ IsSet(h, "update_data") THEN g
  ELSE [g EXCEPT !.absolute = h.absolute,
                 !.features = [segment \in 1 .. 8 |-> [k \in 1 .. 4 |-> FeatureValue(h.features[segment], k)]]]
UpdatedSegmentation(g, h) ==
  WithData(WithMap([g EXCEPT !.enabled = h.segmentation_enabled, !.update_map = Or(h, "update_map", 0),
                             !.temporal_update = 0, !.update_data = Or(h, "update_data", 0)], h), h)

\* Tile columns are counted up from the fewest that are narrow enough; rows are two flags.
SuperblockColumns(width) == (((width + 7) \div 8) + 7) \div 8
FewestColumns(columns) == Min({k \in 0 .. 4 : MAX_TILE_WIDTH_B64 * 2 ^ k >= columns})
MostColumns(columns) == Max({0} \cup {k \in 1 .. 8 : columns \div 2 ^ k >= MIN_TILE_WIDTH_B64})
Ones(bits, at, limit) ==
  Max({k \in 0 .. limit : at + k <= Len(bits) /\ \A i \in 1 .. k : bits[at + i] = 1})
TileColumns(p, ones, fewest, most) ==
  [p EXCEPT !.h = ("tile_columns_log2" :> fewest + ones) @@ @,
            !.at = @ + (IF fewest + ones < most THEN ones + 1 ELSE ones)]
TileRows == <<Flag("tile_row")>> \o WhenSet("tile_row", <<Flag("second_tile_row")>>)
read_tile_info(p, columns) ==
  IF ~ p.ok THEN p
  ELSE Elements(TileColumns(p, Ones(p.bits, p.at, MostColumns(columns) - FewestColumns(columns)),
                            FewestColumns(columns), MostColumns(columns)), TileRows)

(***************************************************************************)
(* Parsing.  bits are those of a whole frame, in bytes of eight; refused   *)
(* data leaves the state as it was.                                        *)
(***************************************************************************)
Result(ok, header, state) == [ok |-> ok, header |-> header, state |-> state]
NoHeader == [shown_slot |-> -1]

ShowExisting(s, h) ==
  IF h.slot \notin DOMAIN s.sizes THEN Result(FALSE, NoHeader, s)
  ELSE Result(TRUE, [shown_slot |-> h.slot, profile |-> Profile(h), size |-> s.sizes[h.slot],
                     color |-> s.colors[h.slot]], s)

RefreshedSlots(h) ==
  IF h.frame_type = 0 THEN 0 .. 7 ELSE {slot \in 0 .. 7 : (h.refresh_frame_flags \div 2 ^ slot) % 2 = 1}
HeaderOf(h, size, color, deltas, segmentation) ==
  [shown_slot |-> -1, profile |-> Profile(h), key |-> 1 - h.frame_type, show_frame |-> h.show_frame,
   error_resilient |-> h.error_resilient, intra_only |-> is_intra_only(h),
   reset_frame_context |-> Or(h, "reset_frame_context", 0), color |-> color, size |-> size,
   refresh |-> RefreshedSlots(h), references |-> Or(h, "references", <<>>),
   high_precision |-> Or(h, "high_precision", 0), interpolation_filter |-> InterpolationFilter(h),
   refresh_frame_context |-> Or(h, "refresh_frame_context", 0),
   frame_parallel_decoding |-> Or(h, "frame_parallel_decoding", 1),
   frame_context_index |->
     IF is_intra_only(h) \/ h.error_resilient = 1 THEN 0 ELSE h.frame_context_index,
   loop_filter |-> <<h.level, h.sharpness, h.delta_enabled>>, deltas |-> deltas,
   quantization |-> Quantization(h), segmentation |-> segmentation,
   tiles |-> <<h.tile_columns_log2, h.tile_row + Or(h, "second_tile_row", 0)>>,
   compressed |-> h.compressed_header_size]
StateAfter(s, header) ==
  [sizes |-> [slot \in header.refresh |-> header.size] @@ s.sizes,
   colors |-> [slot \in header.refresh |-> header.color] @@ s.colors,
   deltas |-> header.deltas, segmentation |-> header.segmentation]
Commit(s, header) == Result(TRUE, header, StateAfter(s, header))
Interpret(s, h, size, color) ==
  Commit(s, HeaderOf(h, size, color, UpdatedDeltas(s.deltas, h), UpdatedSegmentation(s.segmentation, h)))

byte_position(p) == (p.at + 7) \div 8
Sized(s, p, size) ==
  IF /\ p.ok /\ p.h.compressed_header_size > 0
     /\ byte_position(p) + p.h.compressed_header_size <= Len(p.bits) \div 8
  THEN Interpret(IF is_intra_only(p.h) \/ p.h.error_resilient = 1 THEN reset_independent_state(s) ELSE s,
                 p.h, size, FrameColor(s, p.h))
  ELSE Result(FALSE, NoHeader, s)
WithSize(s, p, size) ==
  Sized(s, Elements(read_tile_info(p, SuperblockColumns(size[1])), <<U("compressed_header_size", 16)>>), size)
WithElements(s, p) ==
  IF p.ok /\ ReferenceKnown(s, p.h) THEN WithSize(s, p, FrameSize(CodedSize(s, p.h), p.h))
  ELSE Result(FALSE, NoHeader, s)
WithMarker(s, p) ==
  IF ~ p.ok THEN Result(FALSE, NoHeader, s)
  ELSE IF p.h.show_existing_frame = 1 THEN ShowExisting(s, p.h)
  ELSE WithElements(s, Elements(p, HeaderElements(p.h.frame_type = 0, Profile(p.h))))
\* What is refused leaves the state as it was.
parse(s, bits) == WithMarker(s, Elements(New(bits), FrameMarker))

(***************************************************************************)
(* The writer.  A frame is a record of what it shall be; memory is what    *)
(* the frames it has sent leave: the frames in the slots and the deltas    *)
(* and features in force.  An independent frame starts from the defaults.  *)
(***************************************************************************)
Bits(value, n) == [i \in 1 .. n |-> (value \div 2 ^ (n - i)) % 2]
SignedBits(v, n) == Bits(IF v < 0 THEN - v ELSE v, n) \o <<IF v < 0 THEN 1 ELSE 0>>
FlagBit(condition) == IF condition THEN <<1>> ELSE <<0>>
\* A flag, and bits when it is set.
Optional(condition, bits) == IF condition THEN <<1>> \o bits ELSE <<0>>
ProbabilityBits(p) == Optional(p # 255, Bits(p, 8))
Each(seq, Op(_)) == FlattenSeq([k \in DOMAIN seq |-> Op(seq[k])])

Memory == [slots |-> <<>>, deltas |-> <<1, 0, -1, -1, 0, 0>>, absolute |-> 0, features |-> NoFeatures]
Independent(f) == f.kind \in {"key", "intra"} \/ f.resilient
InForce(f, memory) == IF Independent(f) THEN [Memory EXCEPT !.slots = memory.slots] ELSE memory

\* Depth, space, range, subsampling; profiles 1 and 3 send the subsampling.
ColorBits(f) ==
  Given(f.profile >= 2, FlagBit(f.color[1] = 12)) \o Bits(f.color[2], 3)
  \o Given(f.color[2] # 7, <<f.color[3]>>)
  \o Given(f.profile % 2 = 1, Given(f.color[2] # 7, <<f.color[4], f.color[5]>>) \o <<0>>)
SizeOf(f, memory) ==
  IF f.size_from = 0 THEN f.coded ELSE SubSeq(memory.slots[f.references[f.size_from].index].size, 1, 2)
RenderedSize(f, memory) ==
  SizeOf(f, memory) \o (IF f.render = <<>> THEN SizeOf(f, memory) ELSE f.render)
SizeBits(size) == Bits(size[1] - 1, 16) \o Bits(size[2] - 1, 16)
RenderBits(f) == Optional(f.render # <<>>, SizeBits(f.render))
FoundBits(f) ==
  IF f.size_from = 0 THEN <<0, 0, 0>> \o SizeBits(f.coded) ELSE [k \in 1 .. f.size_from |-> IF k = f.size_from THEN 1 ELSE 0]
RefreshBits(f) == [k \in 1 .. 8 |-> IF 8 - k \in f.refresh THEN 1 ELSE 0]
Sync == Bits(73, 8) \o Bits(131, 8) \o Bits(66, 8)
FilterBits(filter) ==
  CASE filter = "Switchable" -> <<1>> [] filter = "EightTapSmooth" -> <<0, 0, 0>>
    [] filter = "EightTap" -> <<0, 0, 1>> [] filter = "EightTapSharp" -> <<0, 1, 0>>
    [] filter = "Bilinear" -> <<0, 1, 1>>
KindBits(f) ==
  LET reset == Given(~ f.resilient, Bits(f.reset_frame_context, 2))
      hidden == Given(~ f.show, FlagBit(f.kind = "intra"))
  IN  CASE f.kind = "key" -> Sync \o ColorBits(f) \o SizeBits(f.coded) \o RenderBits(f)
        [] f.kind = "intra" ->
             hidden \o reset \o Sync \o Given(f.profile > 0, ColorBits(f)) \o RefreshBits(f)
               \o SizeBits(f.coded) \o RenderBits(f)
        [] f.kind = "inter" ->
             hidden \o reset \o RefreshBits(f) \o Each(f.references, LAMBDA r : Bits(r.index, 3) \o <<r.sign_bias>>)
               \o FoundBits(f) \o RenderBits(f) \o <<f.high_precision>> \o FilterBits(f.filter)
DeltaBits(f, memory) ==
  Optional(f.deltas # <<>>,
    Optional(f.deltas # memory.deltas,
      FlattenSeq([k \in DOMAIN f.deltas |-> Optional(f.deltas[k] # memory.deltas[k], SignedBits(f.deltas[k], 6))])))
FeatureBits(segment) ==
  Optional(segment[1] # <<>>, IF segment[1] = <<>> THEN <<>> ELSE SignedBits(segment[1][1], 8))
    \o Optional(segment[2] # <<>>, IF segment[2] = <<>> THEN <<>> ELSE SignedBits(segment[2][1], 6))
    \o Optional(segment[3] # <<>>, IF segment[3] = <<>> THEN <<>> ELSE Bits(segment[3][1], 2))
    \o FlagBit(segment[4] # <<>>)
\* Segmentation is <<>> when it is off; an empty tree, prediction or list of features is not sent.
SegmentationBits(g) ==
  IF g = <<>> THEN <<0>>
  ELSE <<1>> \o Optional(g.tree # <<>>,
                  Each(g.tree, ProbabilityBits) \o Optional(g.prediction # <<>>, Each(g.prediction, ProbabilityBits)))
       \o Optional(g.features # <<>>, <<g.absolute>> \o Each(g.features, FeatureBits))
\* A tile has at least 256 columns of samples and at most 4096.
TileLimits(width) ==
  LET superblocks == (width + 63) \div 64
  IN  [fewest |-> Min({k \in 0 .. 8 : superblocks <= 64 * 2 ^ k}),
       most |-> Max({k \in 0 .. 8 : k = 0 \/ superblocks >= 4 * 2 ^ k})]
TileBits(f, limits) ==
  [k \in 1 .. f.tiles[1] - limits.fewest |-> 1] \o Given(f.tiles[1] < limits.most, <<0>>)
    \o Optional(f.tiles[2] > 0, FlagBit(f.tiles[2] = 2))
BodyBits(f, memory) ==
  KindBits(f) \o Given(~ f.resilient, <<f.refresh_frame_context, f.parallel>>) \o Bits(f.context_index, 2)
    \o Bits(f.level, 6) \o Bits(f.sharpness, 3) \o DeltaBits(f, memory)
    \o Bits(f.quantizer[1], 8) \o Each(Tail(f.quantizer), LAMBDA v : Optional(v # 0, SignedBits(v, 4)))
    \o SegmentationBits(f.segmentation) \o TileBits(f, TileLimits(SizeOf(f, memory)[1]))
    \o Bits(f.compressed, 16)
HeaderBits(f, memory) ==
  <<1, 0, f.profile % 2, f.profile \div 2>> \o Given(f.profile = 3, <<0>>)
    \o (IF f.kind = "existing" THEN <<1>> \o Bits(f.slot, 3)
        ELSE <<0>> \o FlagBit(f.kind # "key") \o FlagBit(f.show) \o FlagBit(f.resilient)
               \o BodyBits(f, InForce(f, memory)))
Padded(bits) == bits \o [i \in 1 .. (- Len(bits)) % 8 |-> 0]
Body(f) == [i \in 1 .. 8 * f.compressed |-> 1]
FrameBits(f, memory) == Padded(HeaderBits(f, memory)) \o Body(f)

SentColor(f, memory) ==
  CASE f.kind = "inter" -> memory.slots[f.references[1].index].color
    [] f.kind = "intra" /\ f.profile = 0 -> <<8, 0, 0, 1, 1>>
    [] OTHER -> f.color
Refreshed(f) == IF f.kind = "key" THEN 0 .. 7 ELSE f.refresh
Remember(f, memory) ==
  [slots |-> [slot \in Refreshed(f) |-> [size |-> RenderedSize(f, memory), color |-> SentColor(f, memory)]]
             @@ memory.slots,
   deltas |-> IF f.deltas = <<>> THEN memory.deltas ELSE f.deltas,
   absolute |-> IF f.segmentation = <<>> \/ f.segmentation.features = <<>> THEN memory.absolute ELSE f.segmentation.absolute,
   features |-> IF f.segmentation = <<>> \/ f.segmentation.features = <<>> THEN memory.features ELSE f.segmentation.features]
MemoryAfter(f, memory) == IF f.kind = "existing" THEN memory ELSE Remember(f, InForce(f, memory))

(***************************************************************************)
(* Properties.                                                             *)
(***************************************************************************)
SegmentationAsSent(g, f, after) ==
  /\ g.absolute = after.absolute /\ g.features = after.features
  /\ g.enabled = (IF f.segmentation = <<>> THEN 0 ELSE 1)
  /\ f.segmentation = <<>> => g.update_map = 0 /\ g.temporal_update = 0 /\ g.update_data = 0
  /\ f.segmentation # <<>> =>
       /\ g.update_map = (IF f.segmentation.tree = <<>> THEN 0 ELSE 1)
       /\ g.update_data = (IF f.segmentation.features = <<>> THEN 0 ELSE 1)
       /\ f.segmentation.tree # <<>> =>
            /\ g.tree = f.segmentation.tree
            /\ g.temporal_update = (IF f.segmentation.prediction = <<>> THEN 0 ELSE 1)
            /\ f.segmentation.prediction # <<>> => g.prediction = f.segmentation.prediction
ReferencesAsSent(h, f) ==
  IF f.kind # "inter" THEN h.interpolation_filter = "EightTap"
  ELSE /\ h.references = f.references /\ h.high_precision = f.high_precision
       /\ h.interpolation_filter = f.filter
ContextAsSent(h, f) ==
  /\ h.reset_frame_context = (IF f.kind = "key" \/ f.resilient THEN 0 ELSE f.reset_frame_context)
  /\ h.refresh_frame_context = (IF f.resilient THEN 0 ELSE f.refresh_frame_context)
  /\ h.frame_parallel_decoding = (IF f.resilient THEN 1 ELSE f.parallel)
  /\ h.frame_context_index = (IF Independent(f) THEN 0 ELSE f.context_index)
DecodedAsSent(h, f, after, size, color) ==
  /\ h.key = (IF f.kind = "key" THEN 1 ELSE 0) /\ h.intra_only = (f.kind \in {"key", "intra"})
  /\ <<h.show_frame, h.error_resilient>> = FlagBit(f.show) \o FlagBit(f.resilient)
  /\ h.size = size /\ h.color = color /\ h.refresh = Refreshed(f)
  /\ ReferencesAsSent(h, f) /\ ContextAsSent(h, f)
  /\ h.loop_filter = <<f.level, f.sharpness>> \o FlagBit(f.deltas # <<>>)
  /\ h.deltas = after.deltas /\ h.quantization = f.quantizer
  /\ SegmentationAsSent(h.segmentation, f, after)
  /\ h.tiles = f.tiles /\ h.compressed = f.compressed
AsSent(h, f, memory) ==
  IF f.kind = "existing"
  THEN h.shown_slot = f.slot /\ h.size = memory.slots[f.slot].size /\ h.color = memory.slots[f.slot].color
  ELSE /\ h.shown_slot = -1
       /\ DecodedAsSent(h, f, MemoryAfter(f, memory), RenderedSize(f, memory), SentColor(f, memory))

\* A frame that arrives cut is refused, and the next one is read as if it had not come.
RECURSIVE StreamReadBack(_, _, _)
WholeReadBack(r, f, frames, memory) ==
  r.ok /\ AsSent(r.header, f, memory) /\ StreamReadBack(Tail(frames), r.state, MemoryAfter(f, memory))
CutRefused(r, frames, s, memory) == ~ r.ok /\ r.state = s /\ StreamReadBack(Tail(frames), s, memory)
OneReadBack(f, frames, s, memory, bits) ==
  IF f.cut THEN CutRefused(parse(s, SubSeq(bits, 1, Len(bits) - 8)), frames, s, memory)
  ELSE WholeReadBack(parse(s, bits), f, frames, memory)
StreamReadBack(frames, s, memory) ==
  frames = <<>> \/ OneReadBack(Head(frames), frames, s, memory, FrameBits(Head(frames), memory))
Vp9HeadersReadBack(frames) == StreamReadBack(frames, HeaderParser, Memory)

\* The frames of a packet come back whole; a packet whose index does not add up is refused.
SizeBytes(size, n) == [i \in 1 .. n |-> (size \div 256 ^ (i - 1)) % 256]
PacketOf(frames, n) ==
  LET marker == SUPERFRAME_MARKER + 8 * (n - 1) + Len(frames) - 1
  IN  FlattenSeq(frames) \o <<marker>> \o Each(frames, LAMBDA f : SizeBytes(Len(f), n)) \o <<marker>>
SuperframeReadBack(frames, n) ==
  /\ Superframe(PacketOf(frames, n)) = [ok |-> TRUE, frames |-> frames]
  /\ ~ Superframe(Tail(PacketOf(frames, n))).ok
  /\ ~ Superframe(<<0>> \o PacketOf(frames, n)).ok
  /\ ~ Superframe(PacketOf(Append(frames, <<>>), n)).ok

(***************************************************************************)
(* Inputs.                                                                 *)
(***************************************************************************)
PlainFrame ==
  [kind |-> "key", show |-> TRUE, resilient |-> FALSE, profile |-> 0, color |-> <<8, 2, 1, 1, 1>>,
   coded |-> <<64, 48>>, render |-> <<>>, size_from |-> 0, slot |-> 0, refresh |-> {}, references |-> <<>>,
   high_precision |-> 0, filter |-> "EightTap", reset_frame_context |-> 0, refresh_frame_context |-> 1,
   parallel |-> 0, context_index |-> 0, level |-> 9, sharpness |-> 4, deltas |-> <<>>,
   quantizer |-> <<60, 0, -15, 3>>, segmentation |-> <<>>, tiles |-> <<0, 0>>, compressed |-> 2, cut |-> FALSE]
MapOnly == [tree |-> <<1, 255, 0, 254, 255, 7, 128>>, prediction |-> <<>>, features |-> <<>>, absolute |-> 0]
Temporal == [MapOnly EXCEPT !.prediction = <<255, 3, 200>>]
DataOnly ==
  [tree |-> <<>>, prediction |-> <<>>, absolute |-> 1,
   features |-> [s \in 1 .. 8 |-> <<<<s - 5>>, IF s % 2 = 0 THEN <<>> ELSE <<-63>>, <<s % 4>>, IF s < 4 THEN <<0>> ELSE <<>>>>]]
AsBefore == [MapOnly EXCEPT !.tree = <<>>]
SomeKeys ==
  {[PlainFrame EXCEPT !.deltas = d, !.segmentation = g] : d \in {<<>>, <<1, -2, -1, 63, 0, 5>>}, g \in {<<>>, DataOnly}}
  \cup {[PlainFrame EXCEPT !.profile = 1, !.color = <<8, 7, 1, 0, 0>>],
        [PlainFrame EXCEPT !.profile = 3, !.color = <<12, 5, 0, 1, 0>>, !.render = <<1, 65536>>],
        [PlainFrame EXCEPT !.profile = 2, !.color = <<10, 0, 1, 1, 1>>],
        [PlainFrame EXCEPT !.coded = <<4160, 8>>, !.tiles = <<3, 2>>],
        [PlainFrame EXCEPT !.coded = <<513, 1>>, !.tiles = <<1, 1>>]}
PlainInter ==
  [PlainFrame EXCEPT !.kind = "inter", !.size_from = 1, !.refresh = {0, 7}, !.context_index = 2,
     !.references = <<[index |-> 0, sign_bias |-> 0], [index |-> 3, sign_bias |-> 1], [index |-> 7, sign_bias |-> 0]>>]
Filters == {"EightTap", "EightTapSmooth", "EightTapSharp", "Bilinear", "Switchable"}
PlainIntra == [PlainFrame EXCEPT !.kind = "intra", !.show = FALSE, !.refresh = {3}, !.reset_frame_context = 3, !.coded = <<24, 24>>]
SomeSecond(key) ==
  {[PlainInter EXCEPT !.filter = filter, !.high_precision = 1] : filter \in Filters}
  \cup {[PlainInter EXCEPT !.segmentation = g, !.deltas = d, !.resilient = r, !.cut = c] :
          g \in {MapOnly, Temporal, DataOnly, AsBefore}, d \in {<<1, 0, -1, -1, 0, 0>>, <<-63, 0, 2, -1, 1, 0>>},
          r \in BOOLEAN, c \in BOOLEAN}
  \cup {[PlainIntra EXCEPT !.deltas = <<1, 0, 0, -1, 0, 2>>, !.cut = c] : c \in BOOLEAN}
  \cup {[PlainInter EXCEPT !.size_from = 0, !.coded = <<32, 65536>>, !.refresh = {3}, !.show = FALSE],
        [PlainFrame EXCEPT !.kind = "existing", !.slot = 5]}
SomeThird ==
  {[PlainInter EXCEPT !.size_from = 2, !.segmentation = AsBefore, !.deltas = <<1, 0, -1, 5, 0, 0>>, !.parallel = 1],
   [PlainInter EXCEPT !.size_from = 3, !.render = <<9, 8>>, !.refresh_frame_context = 0],
   [PlainFrame EXCEPT !.kind = "existing", !.slot = 3]}
WithLimits(f, key) ==
  IF f.kind = "inter" /\ f.size_from > 0 THEN [f EXCEPT !.profile = key.profile, !.tiles = <<TileLimits(key.coded[1]).fewest, 1>>]
  ELSE [f EXCEPT !.profile = key.profile, !.color = key.color, !.tiles = <<0, 0>>]
\* The frame that may follow: the sizes of the reference it takes its own from allow its tiles.
SomeStreams ==
  {<<k>> \o <<WithLimits(f, k)>> : k \in SomeKeys, f \in SomeSecond(PlainFrame)}
  \cup {<<k, f, g>> : k \in {k \in SomeKeys : k.coded = <<64, 48>> /\ k.profile = 0}, f \in SomeSecond(PlainFrame), g \in SomeThird}
SomePackets ==
  {[frames |-> f, bytes |-> n] : n \in 1 .. 3,
     f \in UNION {[1 .. m -> {<<1>>, <<2, 193>>, <<3, 3, 3>>}] : m \in 1 .. 3} \cup {[k \in 1 .. 7 |-> <<k>>]}}
  \cup {[frames |-> <<[i \in 1 .. 300 |-> i % 7], <<5>>>>, bytes |-> 2]}
===============================================================================
