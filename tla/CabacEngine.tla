----------------------------- MODULE CabacEngine -----------------------------
(***************************************************************************)
(* The binary arithmetic decoder (cabac.rs) over a sequence of bits, and   *)
(* the arithmetic encoder of clause 9.3.4 that wrote them.  Where the code *)
(* fails, ok is FALSE.                                                     *)
(***************************************************************************)
EXTENDS Integers, Sequences

CONSTANT PcmSamples  \* samples of an I_PCM macroblock; 384 in the code

Bypass == -1
Terminate == 276
INITIAL_RANGE == 510
RANGE_TAB_LPS ==
  <<<<128, 176, 208, 240>>, <<128, 167, 197, 227>>, <<128, 158, 187, 216>>,
     <<123, 150, 178, 205>>, <<116, 142, 169, 195>>, <<111, 135, 160, 185>>,
     <<105, 128, 152, 175>>, <<100, 122, 144, 166>>, <<95, 116, 137, 158>>,
     <<90, 110, 130, 150>>, <<85, 104, 123, 142>>, <<81, 99, 117, 135>>, <<77, 94, 111, 128>>,
     <<73, 89, 105, 122>>, <<69, 85, 100, 116>>, <<66, 80, 95, 110>>, <<62, 76, 90, 104>>,
     <<59, 72, 86, 99>>, <<56, 69, 81, 94>>, <<53, 65, 77, 89>>, <<51, 62, 73, 85>>,
     <<48, 59, 69, 80>>, <<46, 56, 66, 76>>, <<43, 53, 63, 72>>, <<41, 50, 59, 69>>,
     <<39, 48, 56, 65>>, <<37, 45, 54, 62>>, <<35, 43, 51, 59>>, <<33, 41, 48, 56>>,
     <<32, 39, 46, 53>>, <<30, 37, 43, 50>>, <<29, 35, 41, 48>>, <<27, 33, 39, 45>>,
     <<26, 31, 37, 43>>, <<24, 30, 35, 41>>, <<23, 28, 33, 39>>, <<22, 27, 32, 37>>,
     <<21, 26, 30, 35>>, <<20, 24, 29, 33>>, <<19, 23, 27, 31>>, <<18, 22, 26, 30>>,
     <<17, 21, 25, 28>>, <<16, 20, 23, 27>>, <<15, 19, 22, 25>>, <<14, 18, 21, 24>>,
     <<14, 17, 20, 23>>, <<13, 16, 19, 22>>, <<12, 15, 18, 21>>, <<12, 14, 17, 20>>,
     <<11, 14, 16, 19>>, <<11, 13, 15, 18>>, <<10, 12, 15, 17>>, <<10, 12, 14, 16>>,
     <<9, 11, 13, 15>>, <<9, 11, 12, 14>>, <<8, 10, 12, 14>>, <<8, 9, 11, 13>>, <<7, 9, 11, 12>>,
     <<7, 9, 10, 12>>, <<7, 8, 10, 11>>, <<6, 8, 9, 11>>, <<6, 7, 9, 10>>, <<6, 7, 8, 9>>,
     <<2, 2, 2, 2>>>>
TRANS_IDX_MPS == [i \in 0 .. 63 |-> IF i < 62 THEN i + 1 ELSE i]
TRANS_IDX_LPS ==
  <<0, 0, 1, 2, 2, 4, 4, 5, 6, 7, 8, 9, 9, 11, 11, 12, 13, 13, 15, 15, 16, 16, 18, 18, 19,
    19, 21, 21, 22, 22, 23, 24, 24, 25, 26, 26, 27, 27, 28, 29, 29, 30, 30, 30, 31, 32, 32,
    33, 33, 33, 34, 34, 35, 35, 35, 36, 36, 36, 37, 37, 37, 38, 38, 63>>
LpsRange(state, range) == RANGE_TAB_LPS[state.probability_state + 1][((range \div 64) % 4) + 1]
\* The next state after the more probable symbol, and after the other one.
TRANS_STATE_MPS(state) == [state EXCEPT !.probability_state = TRANS_IDX_MPS[@]]
TRANS_STATE_LPS(state) ==
  [probability_state |-> TRANS_IDX_LPS[state.probability_state + 1],
   most_probable_symbol |->
     IF state.probability_state = 0 THEN 1 - state.most_probable_symbol ELSE state.most_probable_symbol]
Clamp(v) == CASE v < 1 -> 1 [] v > 126 -> 126 [] OTHER -> v
OfPreState(pre) ==
  IF pre <= 63 THEN [probability_state |-> 63 - pre, most_probable_symbol |-> 0]
  ELSE [probability_state |-> pre - 64, most_probable_symbol |-> 1]
initialize(m, n, slice_qp_y) == OfPreState(Clamp(((m * slice_qp_y) \div 16) + n))

(* The decoder.                                                                *)
RECURSIVE Taken(_, _, _, _)
\* offset with n more bits shifted in.
Taken(bits, at, n, offset) == IF n = 0 THEN offset ELSE Taken(bits, at + 1, n - 1, 2 * offset + bits[at + 1])
Broken(d) == [d EXCEPT !.ok = FALSE]
new(bits, at, contexts) ==
  IF at % 8 # 0 \/ at + 9 > Len(bits)
  THEN [ok |-> FALSE, bits |-> bits, at |-> at, range |-> 0, offset |-> 0, bin |-> 0,
        terminated |-> FALSE, contexts |-> contexts]
  ELSE [ok |-> Taken(bits, at, 9, 0) < INITIAL_RANGE, bits |-> bits, at |-> at + 9, range |-> INITIAL_RANGE,
        offset |-> Taken(bits, at, 9, 0), bin |-> 0, terminated |-> FALSE, contexts |-> contexts]
Shift(range) == CHOOSE n \in 0 .. 8 : range * 2 ^ n \in 256 .. 511
renormalize(d, shift) ==
  IF d.at + shift > Len(d.bits) THEN Broken(d)
  ELSE [d EXCEPT !.range = @ * 2 ^ shift, !.offset = Taken(d.bits, d.at, shift, @), !.at = @ + shift]
Renormalized(d) == IF d.range < 256 THEN renormalize(d, Shift(d.range)) ELSE d
Decided(d, context, lps) ==
  IF d.offset < d.range - lps
  THEN Renormalized([d EXCEPT !.range = @ - lps, !.bin = d.contexts[context].most_probable_symbol,
                              !.contexts[context] = TRANS_STATE_MPS(@)])
  ELSE Renormalized([d EXCEPT !.range = lps, !.offset = @ - (d.range - lps),
                              !.bin = 1 - d.contexts[context].most_probable_symbol,
                              !.contexts[context] = TRANS_STATE_LPS(@)])
decode_decision(d, context) == Decided(d, context, LpsRange(d.contexts[context], d.range))
BypassBin(d, offset) ==
  IF offset < d.range THEN [d EXCEPT !.bin = 0, !.offset = offset, !.at = @ + 1]
  ELSE [d EXCEPT !.bin = 1, !.offset = offset - d.range, !.at = @ + 1]
decode_bypass(d) ==
  IF d.at = Len(d.bits) THEN Broken(d) ELSE BypassBin(d, 2 * d.offset + d.bits[d.at + 1])
decode_terminate(d) ==
  IF d.offset >= d.range - 2 THEN [d EXCEPT !.range = @ - 2, !.bin = 1, !.terminated = TRUE]
  ELSE Renormalized([d EXCEPT !.range = @ - 2, !.bin = 0])

\* The samples of I_PCM from the byte at or after the rewound position.
ReadPcm(d, at) ==
  IF at + 8 * PcmSamples > Len(d.bits) THEN [decoder |-> Broken(d), samples |-> <<>>]
  ELSE [decoder |-> new(d.bits, at + 8 * PcmSamples, d.contexts),
        samples |-> [i \in 1 .. PcmSamples |-> Taken(d.bits, at + 8 * (i - 1), 8, 0)]]
Aligned(at) == at + (-at % 8)
decode_pcm_420_8bit_and_restart(d) ==
  IF ~ d.terminated \/ \E i \in d.at - 9 + 1 .. Aligned(d.at - 9) : d.bits[i] # 0
  THEN [decoder |-> Broken(d), samples |-> <<>>] ELSE ReadPcm(d, Aligned(d.at - 9))

(* The encoder: PutBit, RenormE, EncodeDecision, EncodeBypass, EncodeFlush.     *)
Encoder(bits, contexts) ==
  [low |-> 0, range |-> 510, outstanding |-> 0, first |-> TRUE, bits |-> bits, contexts |-> contexts]
PutBit(e, b) ==
  [e EXCEPT !.bits = @ \o (IF e.first THEN <<>> ELSE <<b>>) \o [i \in 1 .. e.outstanding |-> 1 - b],
            !.first = FALSE, !.outstanding = 0]
Doubled(e) == [e EXCEPT !.low = 2 * @, !.range = 2 * @]
\* One bit is settled, or waits for a carry.
Settle(e, low, half) ==
  CASE low < half -> PutBit(e, 0)
    [] low >= 2 * half -> PutBit([e EXCEPT !.low = @ - 2 * half], 1)
    [] OTHER -> [e EXCEPT !.low = @ - half, !.outstanding = @ + 1]
RECURSIVE RenormE(_)
RenormE(e) == IF e.range >= 256 THEN e ELSE RenormE(Doubled(Settle(e, e.low, 256)))
EncodeDecision(e, context, bin, lps) ==
  IF bin = e.contexts[context].most_probable_symbol
  THEN RenormE([e EXCEPT !.range = @ - lps, !.contexts[context] = TRANS_STATE_MPS(@)])
  ELSE RenormE([e EXCEPT !.low = @ + e.range - lps, !.range = lps, !.contexts[context] = TRANS_STATE_LPS(@)])
EncodeBypass(e, low) == Settle([e EXCEPT !.low = low], low, 512)
LastBits(e) == [e EXCEPT !.bits = @ \o <<(e.low \div 256) % 2, 1>>]
EncodeFlush(e) ==
  LastBits(PutBit(RenormE([e EXCEPT !.low = @ + e.range - 2, !.range = 2]),
                  (RenormE([e EXCEPT !.low = @ + e.range - 2, !.range = 2]).low \div 512) % 2))
Encode(e, s) ==
  CASE s[1] = Bypass -> EncodeBypass(e, 2 * e.low + s[2] * e.range)
    [] s[1] = Terminate ->
         IF s[2] = 1 THEN EncodeFlush(e) ELSE RenormE([e EXCEPT !.range = @ - 2])
    [] OTHER -> EncodeDecision(e, s[1], s[2], LpsRange(e.contexts[s[1]], e.range))
RECURSIVE EncodeAll(_, _)
EncodeAll(e, symbols) ==
  IF e.range = 0 \/ symbols = <<>> THEN e ELSE EncodeAll(Encode(e, Head(symbols)), Tail(symbols))

(* Reading back.                                                               *)
Decode(d, context) ==
  CASE context = Bypass -> decode_bypass(d)
    [] context = Terminate -> decode_terminate(d)
    [] OTHER -> decode_decision(d, context)
RECURSIVE DecodesTo(_, _)
BinIs(d, symbols) == IF d.ok /\ d.bin = Head(symbols)[2] THEN DecodesTo(d, Tail(symbols)) ELSE Broken(d)
\* The decoder after the symbols, broken when a bin differs.
DecodesTo(d, symbols) == IF ~ d.ok \/ symbols = <<>> THEN d ELSE BinIs(Decode(d, Head(symbols)[1]), symbols)
\* What follows the codeword of a slice: alignment of the last, stop bit.
WithTail(bits) == bits \o [i \in 1 .. Aligned(Len(bits)) - Len(bits) |-> 0]

\* Every bin is decoded as it was coded, with the same contexts at the end, and the
\* decoder has then taken exactly the bits of the codeword, the stop bit last.
EngineReadsBack(contexts, symbols) ==
  LET e == EncodeAll(Encoder(<<>>, contexts), symbols \o << <<Terminate, 1>> >>)
      d == DecodesTo(new(WithTail(e.bits), 0, contexts), symbols \o << <<Terminate, 1>> >>)
  IN  d.ok /\ d.terminated /\ d.at = Len(e.bits) /\ d.contexts = e.contexts

\* "Rewinding those bits recovers the syntax position at which `pcm_alignment_zero_bit`
\* begins" (cabac.rs:427): the samples after a codeword that ends in I_PCM are read.
ByteBits(v) == [i \in 1 .. 8 |-> (v \div 2 ^ (8 - i)) % 2]
RECURSIVE BytesBits(_)
BytesBits(bytes) == IF bytes = <<>> THEN <<>> ELSE ByteBits(Head(bytes)) \o BytesBits(Tail(bytes))
PcmReadBack(contexts, symbols, samples) ==
  LET ending == symbols \o << <<Terminate, 1>> >>
      e == EncodeAll(Encoder(<<>>, contexts), ending)
      after == EncodeAll(Encoder(WithTail(e.bits) \o BytesBits(samples), e.contexts), ending)
      read == decode_pcm_420_8bit_and_restart(DecodesTo(new(WithTail(after.bits), 0, contexts), ending))
  IN  read.decoder.ok /\ read.samples = samples /\ DecodesTo(read.decoder, ending).ok

(* Inputs: contexts initialized from three pairs, and strings of bins.          *)
SomeContexts == { [i \in 0 .. 1 |-> initialize(p[i + 1][1], p[i + 1][2], qp)] :
                    p \in {<< <<20, -15>>, <<-28, 127>> >>, << <<2, 54>>, <<0, 64>> >>}, qp \in {0, 30, 51} }
Symbols == {<<0, 0>>, <<0, 1>>, <<1, 0>>, <<1, 1>>, <<Bypass, 0>>, <<Bypass, 1>>, <<Terminate, 0>>}
RECURSIVE Repeated(_, _)
Repeated(s, n) == IF n = 0 THEN <<>> ELSE s \o Repeated(s, n - 1)
\* Short strings, and patterns long enough for carries and for the last states.
SymbolStrings ==
  UNION {[1 .. n -> Symbols] : n \in 0 .. 3}
    \cup {Repeated(s, 24) : s \in [1 .. 2 -> Symbols]} \cup {Repeated(<<s>>, 70) : s \in Symbols}
=============================================================================
