# Verification of decv

TLA+ specifications of the decv media library (Rust, `src/crates/`), their TLC
runs, and proofs checked by TLAPS. Line numbers are those of the sources; the
full correspondence of definitions to lines is `map` in `PROJECT.json`, and
`hazards` there lists what is hard to test, at its line, with the properties
aimed at it.

## The system

decv opens a media source, demuxes MP4 samples, and decodes H.264 or VP9 video
and AAC audio in pure Rust. Nothing is persisted; a process that dies loses
everything, so there is no recovery to model.

| Component | State it keeps | Operations | What makes it correct |
| --- | --- | --- | --- |
| **Range cache** `decv-network/src/cache.rs` | blocks by index with recency, one entry per fetch (Loading, Ready, Failed) | `read_at`, `prefetch`, `clear`, from many threads | bytes are the source's; concurrent misses share a fetch; no reader sleeps for ever; errors are not cached; memory comes back to its limit |
| HTTP input `decv-network/src/http.rs` | URL, length, validators | one range request | a response that is not the range asked for is an error |
| **Picture buffer** `decv-h264/src/dpb.rs` | references, MaxLongTermFrameIdx, next id | store IDR, sliding window, MMCO 1-6, clear, lists | unique names, limits, atomic marking, decoding order across `frame_num` wrap |
| **Picture order count** `decv-h264/src/picture.rs` | previous lsb/msb, frame_num, offset, MMCO 5 flags | `derive` per picture | the counts the encoder meant |
| **H.264 decoder** `decv-h264/src/decoder.rs`, `reorder.rs` | picture being decoded, buffer, reorder buffer, worker completions, output queue, seek target | `send_packet`, `receive_frame`, `drain`, `flush`, seeks, checkpoints | every picture once, in presentation order, formats announced, bounded memory, every call returns |
| **Seek controller** `decv/src/seek.rs`, checkpoint cache `decoder.rs:207-357` | active exact target, checkpoints with their byte budget, cursor position | plan, begin exact or interactive seek, capture, restore | cursor and decoder state stay paired when a step fails; the first frame is the one sought |
| **H.264 parsing** `nal.rs`, `rbsp.rs`, `sps.rs`, `pps.rs`, `slice.rs`, `parameter_sets.rs` | parameter sets, identity of the current picture | push NAL | headers are what was written; active parameters |
| **H.264 entropy decoding** `cabac*.rs`, `cavlc*.rs`, `macroblock.rs` | arithmetic decoder, contexts, grids of neighbours | macroblocks of I, P and B slices | what an encoder coded is read back, to the last bit |
| **H.264 prediction and filter** `motion.rs`, `b_motion.rs`, `motion_field.rs`, `intra_modes.rs`, `inter_prediction.rs`, `deblock.rs` | grids, motion fields, surfaces | resolve, predict, filter | the values the standard defines, in scalar code and in vector lanes |
| **H.264 reconstruction** `reconstruction.rs`, `*_reconstruction.rs` | surfaces, batches in workers, completed macroblocks | sessions and slices of a picture | the pixels of the sequential decoder |
| **VP9 decoder** `decv-vp9/src/` | eight references, probability contexts, modes, output queue | packets of frames, superframes, reset, flush | slots and contexts refreshed together; a key frame resynchronizes |
| **MP4 demuxer** `decv-mp4/src/` | sample tables, fragments, edits, cursor | read, seek | samples in decode order, right bytes and times; damaged files refused |
| **Bit readers** `bit-readers/src/` | position, cached word | every read | the bits of the string, whatever the cache holds |
| Audio, facade, CLI, core types | little or none | | |

Interactions: the demuxer reads through `MediaInput`, which the range cache
implements for several threads at once. The application moves packets from a
cursor into the decoder and frames out of it; the decoder owns its buffers and
spawns work on a rayon pool whose answers come back through channels that it
polls or waits on. The seek controller calls both cursor and decoder.

What is hard here: threads interleaving in the cache between lock, fetch and
completion; workers that answer in any order while the caller flushes, seeks,
retargets or restores; errors of one picture surfacing in a later call; grids
that are never cleared and must not show what an abandoned slice left; numbers
that wrap (`frame_num`, order counts, reference ids); marking sequences that
fail half-way; formats in which one thing can be written in many ways.

## Modules

Three kinds. Machines have state and one action per operation. Parsers and
arithmetic are operators over inputs; each is paired with a writer or a
definition taken from the standards (H.264, VP9, ISO/IEC 14496-12), external to
the code, and both are compared over every input of a bounded set. The MC modules
choose the inputs; several put independent machines side by side in one run,
where a variable `machine` says which one moves.

| Module | Models | Proofs | MC module |
| --- | --- | --- | --- |
| `RangeCache` | `CachedRangeInput` with threads | `RangeCacheProofs` | `MCCacheAndSlices`, `MCEveryCallReturns` |
| `DecodedPictureBuffer` | marking and storing references | `ReferenceStreamProofs` | `MCConformingStream` |
| `ReferenceLists`, `ReferenceStream` | lists of P and B slices; a conforming stream driving buffer and lists | `ReferenceStreamProofs` | `MCConformingStream` |
| `PictureOrder` | `PictureOrderCountState::derive` and an encoder that numbers pictures | | `MCConformingStream` |
| `BitReader`, `PlainBits` | the cached bit reader; the plain string of bits | | `MCConformingStream` |
| `NalFraming` | Annex B, length prefixes, avcC, emulation prevention | | `MCConformingStream` |
| `HeaderSyntax`, `HeaderStream` | parameter sets and slice headers; their writer | | `MCConformingStream` |
| `H264Decoder` | the push/pull decoder and its caller | `H264DecoderProofs`, `H264LossProofs`, `H264OrderProofs` | `MCH264Decoder`, `MCEveryCallReturns` |
| `SeekController` | the controller, cursor, checkpoint cache, the decoder reduced to what it promises | `SeekControllerProofs` | `MCSeekInFile` |
| `SliceReconstruction`, `InOrderReconstruction` | slices, batches and workers; the abstract specification they implement | `SliceReconstructionProofs` | `MCCacheAndSlices`, `MCEveryCallReturns` |
| `CabacEngine`, `CavlcBlock` | the arithmetic decoder; coefficient blocks with tables and levels | | `MCPictureCoding` |
| `MacroblockSyntax`, `CabacMacroblocks`, `CavlcMacroblocks`, `MacroblockStream` | macroblocks, their residual, both entropy codings with neighbour contexts; the encoder | | `MCPictureCoding` |
| `Motion`, `Deblocking`, `PredictionStream` | vectors, direct modes, motion fields, intra modes, the filter; definitions over partitions | | `MCPictureCoding` |
| `InterPrediction` | samples between samples and beyond the edges, scalar, in lanes, copied | | `MCPictureCoding` |
| `Vp9Decoder` | the VP9 decoder over packets, losses and resets | `Vp9DecoderProofs` | `MCPictureCoding` |
| `Vp9Headers`, `Vp9Entropy` | superframe index and headers; boolean decoder, probabilities, adaptation; their writers | | both of the above |
| `Mp4Samples`, `Mp4Writer` | sample index, search, prefetch; a muxer of tables and fragments | | `MCSeekInFile` |
| `Mp4Boxes`, `Mp4FileWriter` | boxes of a file byte by byte; a muxer with one fault | | `MCSeekInFile` |

`RangeCache`: one action per step of `get_block_through` and `fetch_blocks`
between two accesses to shared state. The cache mutex is `locked`; a miss holds
it from lookup to the end of the reservation, over several steps. An entry is
named by the recency taken when it is inserted, so an entry that `clear` has
dropped is distinct from a later one of the same block. `Clear` may happen
between any two steps. Fetches return the right bytes or fail; the source does
not change, its byte at position p is p. Left out: statistics, poisoned mutexes,
overflow of u64 offsets, and that `oldest_ready_block` asks the entries one
after another rather than at once.

`DecodedPictureBuffer`: `store_idr`, `store_short_term` and `clear` are one
action each. `store_adaptive` runs one operation per step on clones, as the
code does, so that a failure in the middle and the final commit are steps of
their own. Pictures and motion fields are left out; `MaxReferenceId` stands for
`u32::MAX`. Sequences may hold any operations in any order: neither the parser
(slice.rs:579-612) nor the buffer (dpb.rs:466-529) refuses one. Two sequences
leave what the standard forbids. `<<LimitTo(1), MarkCurrent(0), Assign(1, 0)>>`
stores two references with long-term index 0, as MMCO 3 looks for the index among
the references only and not at the current picture's (dpb.rs:490); and
`<<LimitTo(1), MarkCurrent(0), LimitTo(0)>>` one with an index above the maximum.
`ListsConform` says that no sequence gives away, limits or clears the index MMCO 6
gave the current picture; with it hold `UniqueKeys` and `LongTermWithinMaximum`,
the rest holds of every sequence.
`ReferenceStream` keeps the decoding order in `arrival`, and
`ModifiedListAsDescribed` restates list modification by the list it should
produce. `PictureOrder` has an encoder that numbers pictures without wrapping
and computes the counts that 8.2.1 of the standard describes from these numbers;
the parser sees only what a slice header carries, and `DerivesIntended` equates
them.

`H264Decoder`: a call is a sequence of steps (`todo`); each action executes
the first one, an error drops the rest, as `?` does. Worker answers
(`WorkerAnswers`) fall between any two steps. A packet holds one picture of one
slice with a pts; its format stands for the SPS. What pixels and markings do is
reduced to whether they fail (`damage`): a failed slice leaves the unfinished
picture behind, which fails again when it is finished; a refused marking fails
when the picture is stored. The caller (`send_packet` with its cursor `next`)
gets a packet back with `NeedOutput` and loses it with an error, seeks to
keyframes, marks a discontinuity after a jump, and keeps one checkpoint with its
cursor. Variables after `result` are the caller's or histories. `received`,
`first`, `sent` and `errors` start again with every restart; restoring a
checkpoint goes on with the count of the restart it was taken in. Threads
stand for a parallelism; a pool is used from two on. Not modelled: pictures
without pts, several slices per picture, workers that panic (rayon aborts).

`SeekController`: every operation of `H264Mp4ExactSeekController`, each cursor or
decoder call of which may fail, in the order of the code with its rollback. The
decoder is what `H264Decoder` promises: a packet it expects next, a reorder
buffer, and the frames it will give. The checkpoint cache is in full; bytes are
small numbers.

`SliceReconstruction`: a session reconstructs the slices of a picture in one of
four ways: macroblock by macroblock (CAVLC), or parsed into batches of
predicted macroblocks that the caller, a pool, or a pipeline worker
reconstructs while parsing goes on (CABAC). An intra macroblock waits for the
batch in flight and flushes the pending one. The grids that tell a macroblock
of its neighbours are never cleared: a cell holds the id of the slice that
wrote it. Pixels are abstracted to the slice and the neighbours they were made
from, so `InOrderReconstruction` can say that batches, workers, errors and
abandoned slices are not visible.

`Vp9Decoder`: a packet is a superframe; each step decodes one frame, which may
fail before or after its header is committed, and the caller may lose packets,
flush, reset or mark a discontinuity. The state of a decoder that received
everything runs along (`intended`), every context, slot and segment map is a
value that says which frame made it and whether it was made from exactly what
the encoder had. Hidden frames, frames shown again, sizes taken from a
reference, error-resilient and intra-only frames are kinds of frames.

Entropy, headers and files. A `MacroblockStream` picture has four macroblocks in
one or two slices, all types next to each other; the encoder's contexts are those
of clause 9.3.3.1.1, which asks what a neighbouring macroblock, block or
partition holds, while the decoder keeps grids. In the macroblock model a CAVLC
coefficient block is one code; `CavlcBlock` has it bit by bit. `HeaderStream`
writes syntax elements from a table in the order of clause 7.3.
`Mp4FileWriter` writes a movie of three tracks in every form the boxes allow, or
with a box missing, doubled, cut, too long or of another version. Four-letter
names are numbers of a table and numbers from 2^30 are `Huge`.

## Runs

States are distinct ones.

| Run | Bounds | Shows |
| --- | --- | --- |
| `cache_and_slices` | 2 threads, 2 calls each, 1 clear, 5 bytes in blocks of 2, 2 blocks; 2 pictures of 2x2 macroblocks, 2 slices, four executors, 1 fault | exact reads, shared fetches, errors forgotten, capacity regained; refinement of `InOrderReconstruction`; 1.78M states |
| `every_call_returns` | cache: 2 threads, 1 call each, 3 bytes in blocks of 1; decoder: 1 stream, no pool and a pool of 2, 1 disturbance; slices of a picture of 1x3 macroblocks in batches of one row, pool and pipeline, 1 fault | every call of the cache, of the decoder and of a slice returns; 117,000 states |
| `conforming_stream` | 3 references, MaxFrameNum 4, ids up to 4, 10 pictures, 15 MMCO sequences, `ListsConform` among the assumptions TLC evaluates; order counts over 7 pictures with lsb cycle 4 and frame_num cycle 3; bit strings of up to 5 bytes of 2 bits; every choice of optional header parts | marking, lists, order counts, bit reader, framing, parameter sets, slice headers, VP9 frames, packets and compressed headers; 1.30M states |
| `decoder` | 3 streams of 4 or 5 pictures, no pool and a pool of 3, reorder depth 1, 2 disturbances | output contract; 3.55M states |
| `seek` | a track of 8 samples in two groups, 3 seeks, 2 captures, cache of 2 checkpoints and 3 bytes; files of 3 samples in every form; movies of 3 tracks with up to one fault | pairing and exact first frames; the sample index and movies as written; 543,000 states |
| `picture_coding` | VP9: 4 packets of 7 kinds, 2 slots, 2 contexts, 2 sizes and colors, 2 resets; pictures of 2x2 macroblocks; one partition of each size at each fraction | VP9 resynchronization and output; macroblocks, codes, prediction and samples against their definitions; 209,000 states |
| `reference_reset`, `decoder_format`, `decoder_reset`, `seek_spacing`, `pcm_restart`, `chroma_footprint` | as above, smaller | findings, see below |

Why the bounds are enough. The cache needs two threads for every conflict in
its code (two owners, an owner and a waiter, an owner and a thread that evicts),
a span of two blocks, a short last block and a capacity that both spans exceed;
three requests cross blocks, start inside one and lie outside the source. Ten
pictures take `frame_num` twice round a cycle of four with three references, so
every reference is compared across the wrap. Streams of four or five pictures
have a reordered picture, two coded video sequences, a change of format, an end
of sequence and an end of stream; a pool of three has two pictures in workers,
one in decoding and one in the reorder buffer, and without a pool the streams
are longer than what back-pressure lets in. Two disturbances allow a damaged
picture with a seek, a checkpoint restored after a flush, and two seeks in a row.
MC modules choose streams rather than all sequences of pictures: arbitrary
order counts with a wrong reorder depth are not conforming and prove nothing.
The reorder depth of a stream is the one it needs. Three seeks allow a plan made
from a checkpoint of an earlier one after a failure in between. Two by two
macroblocks have every combination of present and absent neighbours, and two
slices put a neighbour into another slice. For liveness three macroblocks are
three batches: one at the worker, one pending, one being parsed. Four VP9 packets are a key frame, a
loss, a frame that depends on it and the next key frame.

Deadlock checking is off in runs whose callers stop at a bound or whose machine
only evaluates inputs.

Fairness. `RangeCache!FairSpec` has strong fairness of each thread's steps, the
fetch included: a fetch ends with an answer or a timeout, and the mutex, held
for finitely many steps, is not denied for ever to a thread that can take it
again and again. Nothing is assumed of calls: no thread has to make one.
`H264Decoder!FairSpec` has weak fairness of the steps of a call, which runs on
the caller's thread, and of the workers as one: some worker answers as long as
one is busy. A worker runs finite code over a picture and sends its answer
through a channel of capacity one, so it never waits for the caller.
`SliceReconstruction!FairSliceSpec` has weak fairness of the caller's thread within a
slice and of a worker that has a batch, for the same reasons.

## Findings

* `reference_reset`: the buffer keeps the `frame_num` of a picture with MMCO 5
  (dpb.rs:548), while the stream continues from 0; a later picture is refused.
* `decoder_format`: `flush_timeline` (decoder.rs:1416) drops a queued format
  announcement without resetting `announced_format`.
* `decoder_reset`: a picture with MMCO 5 enters the reorder buffer with counts
  that start again, and nothing drains the buffer (decoder.rs:1345).
* `seek_spacing`: a checkpoint may be taken next to one the cache still holds
  (seek.rs:362), closer than the documented distance.
* `pcm_restart`: the samples of an I_PCM macroblock in CABAC are read from nine
  bits before the place where an encoder writes them (cabac.rs:428), against
  the comment at cabac.rs:422-423.
* `chroma_footprint`: scalar chroma interpolation reads the next column and row
  for any fraction (inter_prediction.rs:1748-1749), but the window that permits it
  not to clip counts them only where the fraction is not 0. A block that ends at
  the plane's edge reads outside, against the assertions and the comment at 1780-1784.

`decoder` therefore checks `FormatAnnounced` up to announcements lost by a
flush, over streams without MMCO 5, and the engine's read-back leaves the
position after I_PCM to `pcm_restart`. A read outside a plane has no value in
`InterPrediction`: `SamplesAsDefined` says what the samples are when all reads lie
inside, and that the others are only those of `chroma_footprint`
(`OutsideOnlyThere`).

What the models follow although the standards, or the code's own assertions, say
otherwise, and what restricts the inputs therefore:

* `InFlightBounded` is stated with the deepest reorder buffer of the stream. With
  the depth of the current SPS it fails as soon as a new SPS has a shallower
  one: the buffer shrinks only as pictures come. The proof attempt found this.
* `decode_rbsp` refuses a payload that ends in `cabac_zero_words` (00 00 03; the
  test at rbsp.rs:143 wants it so), so written payloads end in the byte of the
  stop bit.
* `parse_slice_group_change_cycle` (slice.rs:658-679) reads
  floor(log2(floor(PicSize / Rate))) + 1 bits where the standard has
  Ceil(Log2(PicSize ÷ Rate + 1)); the rates chosen divide the size.
* A slice is read with the version of the SPS its PPS was parsed against.
* With `direct_8x8_inference` the co-located blocks are (0,0), (2,0), (0,2), (2,2)
  (b_motion.rs:11-12, motion_field.rs:104-105), not the corners of the macroblock;
  the definition in `PredictionStream` follows the code.
* A VP9 key frame with segmentation but no map of its own keeps the segment ids
  of before (decoder.rs:132-146); `KeyFrameResynchronizes` is about key frames
  that keep no map. `reset_frame_context` 2 on intra-only frames resets context
  0 (header.rs:409-417, decoder.rs:218). `ColorSpace::from_bits`
  (header.rs:53-68) names spaces shifted by one; the model compares numbers.
* A movie with a `vpcC` box of a version other than 1 is refused as a whole.

## Proofs

Every theorem is of the form `Spec => []Inv`, an action property, or a
refinement, for all values of the constants under the module's `ASSUME`. Some
have a named hypothesis on the stream too, which says what a conforming stream
is and which the code does not check: `NoReset`, `ListsConform`, `ConformingTrack`
and `ConformingStreams`. None assumes the bounds of the runs; the bounds that limit
the caller (numbers of calls, pictures, packets) are arbitrary numbers.

`RangeCacheProofs`, from `ConfigAssumption`: any set of threads, length, block
size, capacity and calls. `RInv` gives `TypeOK`, `ReadsAreExact`,
`InFlightIsShared` and `FailuresAreNotCached`. Its parts: `Control`, what each
program counter says of the thread's cursor, span and mutex; `Identity`, an
unsettled entry belongs to one position of one span; `Matching`, the entry of a
block holds or will hold the bytes of that block; `Removed`, entries leave the
cache before they are failed. `Matching` is what makes reads exact, for a hit is
only as good as the entry found; `Identity` is needed for sharing, as two
owners of an entry could settle it behind each other's back. `CacheInv` adds
`Awaited` (an entry in the cache or waited for is settled or owned by a thread
that will settle it), `OverflowIsTrimmed` (too many blocks are there only while
somebody is about to trim or nothing can be trimmed) and `PrefetchInv` (the
part of the window a lone prefetch has passed is in the cache). They give
`AwaitedBlockIsRequested`, `QuiescentCapacity` and `PrefetchKeepsWindow`.

`ReferenceStreamProofs`, of the buffer alone from `DpbAssumption`: `TypeOK`, `UniqueKeys`,
`WithinLimit`, `LongTermWithinMaximum` and `MarkingIsAtomic` for every limit,
`MaxFrameNum`, number of ids above the limit and set of MMCO sequences. What they
say of long-term indices has the hypothesis `ListsConform` (`KeysUnique`,
`LongTermBounded`, `StreamSound`), without which it is false; `ShortKeysUnique`,
`LimitKept` and `AtomicMarking` have none. `DInv` repeats for the copies what holds of the
committed buffer: a commit replaces one by the other, so the invariant must hold
of the copies throughout the sequence, together with the room left for the
current picture's index.

Of the buffer in a stream, from `StreamAssumption` too: any conforming stream. The
lemmas about the steps of the buffer hold of whatever numbers are passed, so
`StreamSound` takes them over. `ShortTermsNameable` is the first half of
`EveryReferenceNameable`: modulo `MaxFrameNum` a reference has one distance from
the current picture, as `NamedByNumber` and `OneDifference` compute.
`NeverRefusedEarly` states `SlidingNeverRefused` of streams whose marking
contains no MMCO 5 (`NoReset`); `Recent` keeps every reference as many numbers
behind as there were pictures since. With MMCO 5 it is false, which the run
`reference_reset` shows, as the code stores the picture under its old number.

`H264DecoderProofs`, from `DecoderAssumption`: any streams, parallelisms and
depths, and all calls. `Types` and `Control` say which sequences of steps a call can have
left (`Follows`), what holds when the first one runs (`HeadReady`), that a call
starts at most one picture, and that nothing is half-finished behind it
(`AfterFinish`). On them rest: `Bounded`, which counts the frames in the output,
the reorder buffer, the workers, the picture being decoded and those the
remaining steps can add (`InFlightIsBounded`); `FromTarget`, frames queued and
received are not before the target, whether a worker, the caller's thread or
a restored checkpoint brought them (`SeekIsExact`); and `Known` with
`Answered` (`FormatIsAnnounced`): for every frame in the queue the last
announcement before it, or what the caller was told last, is its format.

`H264LossProofs`, from the same assumption: `LossesAreReported`. A picture the
caller handed over is owed from `first` to `Upto` unless an IDR picture may keep
it back. `Accounted` says that nothing of an owed picture is lost: while it is to be
output it is on its way (`EnRoute`: current, or named by a step left) or shown
(at a worker, waiting for its turn, queued, received); while it lies after all
completed ones it is still to be recorded. The second half is what a checkpoint
needs: `Restore` empties every place at once, the target it sets lies after
what was completed, and so only a picture presented later can be missed
(`Later`, `Saved`). `Charged` bounds what is owed and not accounted for by
three pictures for each error: the one a worker answered for, the one being
finished and the one being sent, for `Fail` drops all steps left. It does not hold of single steps
unless one knows what a step finds, so it rests on `Agenda` (in which order steps
may be left, whose pictures they name, where the cursor is), `Heads` (what holds
when the first step runs: a restart finds nothing in flight, a finished
drain an empty reorder buffer), `Coding` (no picture enters without a format),
`Drained` and `Ended` (at the end nothing is left anywhere, so all that is owed and
not received is lost). TLC has checked the conjunction over the streams of
`decoder`.

`H264OrderProofs`, from `DecoderAssumption` and `ConformingStreams`:
`PresentationOrder`, for every number of workers and reorder depth and every mixture of
calls. A stream conforms (`Conforms`) if its coded video sequences are presented one
after the other, each of one format and in the order of its counts, with
no more pictures decoded early than the format's depth. The parser takes a
stream's word for this, so it has to be a hypothesis; TLC evaluates it of
the streams of `decoder`, which satisfy it, and of the one of `decoder_reset`, which
starts its counts again within a sequence and does not: there the property is
violated. `Tidy` holds while no error is reported: pictures reach
the reorder buffer in decoding order, but for skipped ones, and are of one
sequence (`Order`); the depth in use and the frames on their way are of one format
(`Fitting`); and what has been output precedes what is still on its way or to be
sent (`Emission`). The last is disturbed only when a frame leaves the
reorder buffer. When it is drained all are of one sequence and nothing else of it
comes. When it overflows, the lowest goes first, and `LowestIsNext` shows that none
that comes later precedes it: otherwise all the entries, one more than the depth,
would be pictures decoded early, which an injection into `DecodedEarly`
excludes (`FewEarly`). `Pushes` and `EndsApart` say what a step finds where the
shape of the call does not, and `KeptOrder` says the same of a checkpoint, whose
entries were in order when it was taken. It rests on `Agenda` and `Heads`
of `H264LossProofs`. TLC has checked the conjunction (`Orderly`) over the streams of
`decoder`.

`SeekControllerProofs`, from `SeekAssumption`: `CursorPaired` for every track,
target, budget, cache limit and failure. `Pairing` adds that a packet handed
back is the one before the cursor, that every entry's checkpoint expects the
packet of the entry's position, and that a configured decoder either expects the
cursor's packet or starts at a keyframe. `Accounted` adds to it that entries are
finitely many, older than the next use and of at most `MaxReferences` references;
the charge is the size of a set of units (`Units`), so that what eviction, a
replacement or a use leaves follows from the library's facts on finite sets
(`CacheAccounted`).

`FirstFrameExact` (`FirstFrame`) has a hypothesis of its own, `ConformingTrack`:
times are distinct, a keyframe is presented after all samples before it and before all
after it, and at most `ReorderDepth` earlier samples are presented after a sample. It
is what H.264 demands around an IDR picture and what the stream's header promises
of its depth; the code does not check it of a track, and `MCSeekInFile` assumes it
of its own, so TLC evaluates it there. `SeekInv`
describes what the decoder holds of the samples before the next one: what is queued is
in order of presentation and before all that is waiting or still to come
(`InPlace`), all that is complete is presented no later than
`maximum_completed_pts` (`Completed`), and, until a frame has been received, every
sample at or after the target is still in the decoder (`Keeps`). The second is what
restoring a checkpoint rests on: its target lies after the time completed, so all it
leaves behind is before the target. The depth bound enters in `DepthReached`: in a
buffer that overflows, the first picture precedes all that comes later.
`ScanSuffices` shows that scanning up to the next keyframe finds the first
sample of the whole track, and `HeldBack` that a decoder which shows nothing has been fed at
most `ReorderDepth` samples beyond the ones needed, by an injection into its reorder buffer. TLC
has checked `SeekInv` on the controller of `seek`.

`SliceReconstructionProofs`, from `ReconstructionAssumption`: any sizes, batches
and numbers of slices. `SInv` says that the macroblocks of a slice are, in order,
those completed, those of the batch in flight and those pending (`Pixels`), and
that the grids show just these (`Visible`), until an error; after it only what
is completed counts, and the next id makes the rest invisible (`Ids`). It gives
`CompletedMeansWritten`, `NeighboursAreOfThisSlice`, and `ReconstructsInOrder`:
the initial states map to initial states of `InOrderReconstruction`, and every
step to one of its steps or a stutter.

`Vp9DecoderProofs`, from `ConstantsAssumption`: any packets, sizes, colors,
slots and contexts. `KeyFrameResynchronizes` rests on two lemmas about one frame:
from equal states a frame makes equal states (`SameFromSame`), and a key frame
that keeps no segment map makes equal states from any two (`KeyForgets`).
`ShownAsIntended` follows by counting: `ShownInOrder` says that what is queued
and what is owed carry the next ids, behind an announcement of their format.

Only model-checked:

* `RecentFirst`, `WindowDropsEarliest`, `ModifiedListAsDescribed`, the B lists of
  `EveryReferenceNameable`, `DerivesIntended` and everything that says "as written" or
  "read back" compare folds or recursive definitions over sequences of any
  length: induction over data, which the provers cannot do.
* Liveness (`EveryCallComesBack`, `EverySliceReturns`): ENABLED is beyond TLAPS
  here.

## Not modelled

* VP9 tiles, prediction, transforms and loop filter; H.264 weighted prediction,
  inverse transform and intra samples: arithmetic over large data without state that outlives a block.
* The context initialization tables of CABAC and the default probabilities of
  VP9; macroblock-layer error paths that restore a snapshot; the range checks of
  vector differences and shape validations of headers. `PcmSamples` is 2 for 384, VP9's
  coefficient bands are 2 for 6, level prefixes go up to `WidestPrefix`.
* MP4 overflow and allocation checks other than the sample count limit; which
  error a damaged file gives, except for audio entries.
* HTTP and the CLI are I/O around a few checks, the audio decoder adapts a
  library, the facade forwards calls, core types are traits and values.

## Plan

Done: every component above except those under "Not modelled", and the proof of
every safety invariant of the machines that does not need an induction over data.
