------------------------------ MODULE BitReader ------------------------------
(***************************************************************************)
(* bit-readers/src/bit.rs: a reader that keeps the next bits in a cache of *)
(* two words and refills it by words, double words or bytes.  A byte has   *)
(* ByteBits bits and a word WordBytes bytes, scaled down together.         *)
(***************************************************************************)
EXTENDS PlainBits
LOCAL INSTANCE SequencesExt

CONSTANTS ByteBits, WordBytes,
          Inputs          \* byte strings read, each byte a sequence of bits
\* WordBits = ByteBits * WordBytes

VARIABLES data,
          cursor,    \* bytes loaded into the cache so far
          cache,     \* valid bits of the cache, the next one first
          answer     \* the last call: [call, count, ok, value]

readerVars == <<data, cursor, cache, answer>>

bits == FlattenSeq(data)
bit_position == cursor * ByteBits - Len(cache)
Unloaded == Len(data) - cursor
remaining_bits == Unloaded * ByteBits + Len(cache)

ReaderInit ==
  /\ data \in Inputs /\ cursor = 0 /\ cache = <<>>
  /\ answer = [call |-> "new", count |-> 0, ok |-> TRUE, value |-> 0]

\* The reader after more bytes have been loaded: [cursor, cache].
Held == [cursor |-> cursor, cache |-> cache]
Loaded(r, bytes) ==
  [cursor |-> r.cursor + bytes,
   cache |-> r.cache \o FlattenSeq(SubSeq(data, r.cursor + 1, r.cursor + bytes))]
Consumed(r, count) == [r EXCEPT !.cache = SubSeq(@, count + 1, Len(@))]

\* refill_for: words while they last, then bytes, until count bits are there.
RefillBy(r) == Loaded(r, IF Len(data) - r.cursor >= WordBytes THEN WordBytes ELSE 1)
refill_for(r, count) ==
  FoldLeft(LAMBDA s, i : IF Len(s.cache) < count THEN RefillBy(s) ELSE s, r,
           [i \in 1 .. WordBits |-> i])

has_bits(r, count) ==
  \/ Len(r.cache) >= count
  \/ Len(data) - r.cursor >= (count - Len(r.cache) + ByteBits - 1) \div ByteBits

\* One call: its answer, and the reader after it.
Returns(call, count, ok, value, r) ==
  /\ answer' = [call |-> call, count |-> count, ok |-> ok, value |-> value]
  /\ cursor' = r.cursor /\ cache' = r.cache
  /\ UNCHANGED data

\* An empty cache is filled with two words, one word or one byte.
FilledForBit(r) ==
  IF r.cache # <<>> THEN r
  ELSE IF Len(data) - r.cursor >= 2 * WordBytes THEN Loaded(r, 2 * WordBytes)
  ELSE RefillBy(r)
read_bit ==
  IF remaining_bits = 0 THEN Returns("bits", 1, FALSE, 0, Held)
  ELSE LET r == FilledForBit(Held)
       IN  Returns("bits", 1, TRUE, Head(r.cache), Consumed(r, 1))

Peek(call, count, used) ==
  LET filled == refill_for(Held, count)
  IN  IF count > WordBits \/ ~ has_bits(Held, count) THEN Returns(call, count, FALSE, 0, Held)
      ELSE Returns(call, count, TRUE, Value(SubSeq(filled.cache, 1, count)),
                   Consumed(filled, used))
Read(count) == Peek("bits", count, count)      \* read_bits and read_bits_const
PeekBits(count) == Peek("peek", count, 0)

\* The lookahead of read_ue: a word of bits if there are that many.
Lookahead ==
  LET word == IF Len(cache) < WordBits /\ Unloaded >= WordBytes THEN Loaded(Held, WordBytes) ELSE Held
  IN  FoldLeft(LAMBDA s, i : IF Len(s.cache) < WordBits /\ s.cursor < Len(data)
                             THEN Loaded(s, 1) ELSE s, word, [i \in 1 .. WordBytes |-> i])

\* Codes whose bits are in the lookahead, padded with zeros, are taken from it;
\* longer ones are read bit by bit on a copy of the reader.
AvailableAsWord(r) == WordBits
Available(r) == IF Len(r.cache) < WordBits THEN Len(r.cache) ELSE WordBits
read_ue_slow(r, code, zeros) ==
  LET prefix == FoldLeft(LAMBDA s, i : Consumed(FilledForBit(s), 1), r,
                         [i \in 1 .. zeros + 1 |-> i])
  IN  IF code.ok THEN Consumed(refill_for(prefix, zeros), zeros) ELSE r

ReadCode(call, Map(_), Fits(_)) ==
  LET r == Lookahead
      window == SubSeq(r.cache \o [i \in 1 .. WordBits |-> 0], 1, WordBits)
      zeros == LeadingZeros(window, 0)
      length == 2 * zeros + 1
      rest == r.cache \o FlattenSeq(SubSeq(data, r.cursor + 1, Len(data)))
      code == IF length < WordBits
              THEN [ok |-> length <= Available(r), at |-> length,
                    value |-> 2 ^ zeros - 1 + Value(SubSeq(window, zeros + 2, length))]
              ELSE read_ue(rest, 0)
      after == IF length < WordBits THEN Consumed(r, length)
               ELSE read_ue_slow(r, code, LeadingZeros(rest, 0))
  IN  IF Available(r) > 0 /\ code.ok /\ Fits(code.value)
      THEN Returns(call, 0, TRUE, Map(code.value), after)
      ELSE Returns(call, 0, FALSE, 0, IF call = "ue" THEN r ELSE Held)

ReadUe == ReadCode("ue", LAMBDA v : v, LAMBDA v : TRUE)
ReadSe == ReadCode("se", Signed, LAMBDA v : Signed(v) < 2 ^ (WordBits - 1))

\* Whole bytes are stepped over without being loaded.
Skipped(count) ==
  IF count <= Len(cache) THEN Consumed(Held, count)
  ELSE LET left == count - Len(cache)
           bytes == [cursor |-> cursor + (left \div ByteBits), cache |-> <<>>]
       IN  Consumed(refill_for(bytes, left % ByteBits), left % ByteBits)
skip_bits(count) ==
  IF count > remaining_bits THEN Returns("skip", count, FALSE, 0, Held)
  ELSE Returns("skip", count, TRUE, 0, Skipped(count))
byte_align ==
  LET count == (ByteBits - (bit_position % ByteBits)) % ByteBits
  IN  Returns("skip", count, TRUE, 0, Skipped(count))

\* A new reader is skipped to the position count bits back.
rewound_by(count) ==
  LET target == bit_position - count
      start == [cursor |-> target \div ByteBits, cache |-> <<>>]
  IN  IF target < 0 THEN Returns("rewind", count, FALSE, 0, Held)
      ELSE Returns("rewind", count, TRUE, 0,
                   Consumed(refill_for(start, target % ByteBits), target % ByteBits))

ReaderNext ==
  \/ read_bit \/ ReadUe \/ ReadSe \/ byte_align
  \/ \E count \in 0 .. WordBits + 1 :
       Read(count) \/ PeekBits(count) \/ skip_bits(count) \/ rewound_by(count)

ReaderSpec == ReaderInit /\ [][ReaderNext]_readerVars

\* What a reader without a cache would do at the same position.
Plainly(call, count, ok, value, at) ==
  LET string == bits
      read == CASE call = "bits" -> read_bits(string, bit_position, count)
                [] call = "peek" -> [read_bits(string, bit_position, count) EXCEPT !.at = bit_position]
                [] call = "ue" -> read_ue(string, bit_position)
                [] call = "se" -> read_se(string, bit_position)
                [] call = "skip" -> IF bit_position + count <= Len(string)
                                    THEN Answer(0, bit_position + count) ELSE Short(bit_position)
                [] call = "rewind" -> IF count <= bit_position
                                      THEN Answer(0, bit_position - count) ELSE Short(bit_position)
  IN  ok = read.ok /\ value = read.value /\ at = read.at

\* Whatever was called before and however the cache was filled, each call
\* answers and moves as a reader of the plain bit string does; a refused call
\* moves nothing (bit.rs:84-86, 114-117, 150-154).
ReadsAsPlain ==
  [][Plainly(answer'.call, answer'.count, answer'.ok, answer'.value, bit_position')]_readerVars
=============================================================================
