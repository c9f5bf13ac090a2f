----------------------------- MODULE CavlcBlock -----------------------------
(***************************************************************************)
(* Transform coefficients in CAVLC: the code tables (cavlc_tables.rs), the *)
(* decoder of a block (cavlc.rs) over a sequence of bits, and the encoder  *)
(* of clause 9.2.  An answer is [ok, value, at]; where the code fails, ok  *)
(* is FALSE.  nc is the context of coeff_token, ChromaDc for chroma DC.    *)
(***************************************************************************)
EXTENDS Integers, Sequences, FiniteSets

(* The tables, each code <<bits, length>>; the entries of a coeff_token     *)
(* table are in the order of Tokens.                                        *)
\* total_coeff and trailing_ones of the entries, up to four or sixteen coefficients.
Tokens(n) ==
  LET entries[t \in 0 .. n] ==
        (IF t = 0 THEN <<>> ELSE entries[t - 1])
          \o [k \in 1 .. (IF t < 3 THEN t ELSE 3) + 1 |-> [total_coeff |-> t, trailing_ones |-> k - 1]]
  IN  entries[n]
COEFF_TOKEN_0_TO_1 ==
  <<<<1, 1>>, <<5, 6>>, <<1, 2>>, <<7, 8>>, <<4, 6>>, <<1, 3>>, <<7, 9>>, <<6, 8>>, <<5, 7>>,
    <<3, 5>>, <<7, 10>>, <<6, 9>>, <<5, 8>>, <<3, 6>>, <<7, 11>>, <<6, 10>>, <<5, 9>>, <<4, 7>>,
    <<15, 13>>, <<6, 11>>, <<5, 10>>, <<4, 8>>, <<11, 13>>, <<14, 13>>, <<5, 11>>, <<4, 9>>,
    <<8, 13>>, <<10, 13>>, <<13, 13>>, <<4, 10>>, <<15, 14>>, <<14, 14>>, <<9, 13>>, <<4, 11>>,
    <<11, 14>>, <<10, 14>>, <<13, 14>>, <<12, 13>>, <<15, 15>>, <<14, 15>>, <<9, 14>>, <<12,
    14>>, <<11, 15>>, <<10, 15>>, <<13, 15>>, <<8, 14>>, <<15, 16>>, <<1, 15>>, <<9, 15>>, <<12,
    15>>, <<11, 16>>, <<14, 16>>, <<13, 16>>, <<8, 15>>, <<7, 16>>, <<10, 16>>, <<9, 16>>, <<12,
    16>>, <<4, 16>>, <<6, 16>>, <<5, 16>>, <<8, 16>>>>
COEFF_TOKEN_2_TO_3 ==
  <<<<3, 2>>, <<11, 6>>, <<2, 2>>, <<7, 6>>, <<7, 5>>, <<3, 3>>, <<7, 7>>, <<10, 6>>, <<9, 6>>,
    <<5, 4>>, <<7, 8>>, <<6, 6>>, <<5, 6>>, <<4, 4>>, <<4, 8>>, <<6, 7>>, <<5, 7>>, <<6, 5>>,
    <<7, 9>>, <<6, 8>>, <<5, 8>>, <<8, 6>>, <<15, 11>>, <<6, 9>>, <<5, 9>>, <<4, 6>>, <<11,
    11>>, <<14, 11>>, <<13, 11>>, <<4, 7>>, <<15, 12>>, <<10, 11>>, <<9, 11>>, <<4, 9>>, <<11,
    12>>, <<14, 12>>, <<13, 12>>, <<12, 11>>, <<8, 12>>, <<10, 12>>, <<9, 12>>, <<8, 11>>, <<15,
    13>>, <<14, 13>>, <<13, 13>>, <<12, 12>>, <<11, 13>>, <<10, 13>>, <<9, 13>>, <<12, 13>>,
    <<7, 13>>, <<11, 14>>, <<6, 13>>, <<8, 13>>, <<9, 14>>, <<8, 14>>, <<10, 14>>, <<1, 13>>,
    <<7, 14>>, <<6, 14>>, <<5, 14>>, <<4, 14>>>>
COEFF_TOKEN_4_TO_7 ==
  <<<<15, 4>>, <<15, 6>>, <<14, 4>>, <<11, 6>>, <<15, 5>>, <<13, 4>>, <<8, 6>>, <<12, 5>>, <<14,
    5>>, <<12, 4>>, <<15, 7>>, <<10, 5>>, <<11, 5>>, <<11, 4>>, <<11, 7>>, <<8, 5>>, <<9, 5>>,
    <<10, 4>>, <<9, 7>>, <<14, 6>>, <<13, 6>>, <<9, 4>>, <<8, 7>>, <<10, 6>>, <<9, 6>>, <<8,
    4>>, <<15, 8>>, <<14, 7>>, <<13, 7>>, <<13, 5>>, <<11, 8>>, <<14, 8>>, <<10, 7>>, <<12, 6>>,
    <<15, 9>>, <<10, 8>>, <<13, 8>>, <<12, 7>>, <<11, 9>>, <<14, 9>>, <<9, 8>>, <<12, 8>>, <<8,
    9>>, <<10, 9>>, <<13, 9>>, <<8, 8>>, <<13, 10>>, <<7, 9>>, <<9, 9>>, <<12, 9>>, <<9, 10>>,
    <<12, 10>>, <<11, 10>>, <<10, 10>>, <<5, 10>>, <<8, 10>>, <<7, 10>>, <<6, 10>>, <<1, 10>>,
    <<4, 10>>, <<3, 10>>, <<2, 10>>>>
COEFF_TOKEN_CHROMA_DC_420 ==
  <<<<1, 2>>, <<7, 6>>, <<1, 1>>, <<4, 6>>, <<6, 6>>, <<1, 3>>, <<3, 6>>, <<3, 7>>, <<2, 7>>,
    <<5, 6>>, <<2, 6>>, <<3, 8>>, <<2, 8>>, <<0, 7>>>>
TOTAL_ZEROS_4X4 ==
  <<<<<<1, 1>>, <<3, 3>>, <<2, 3>>, <<3, 4>>, <<2, 4>>, <<3, 5>>, <<2, 5>>, <<3, 6>>, <<2, 6>>,
    <<3, 7>>, <<2, 7>>, <<3, 8>>, <<2, 8>>, <<3, 9>>, <<2, 9>>, <<1, 9>>>>, <<<<7, 3>>, <<6,
    3>>, <<5, 3>>, <<4, 3>>, <<3, 3>>, <<5, 4>>, <<4, 4>>, <<3, 4>>, <<2, 4>>, <<3, 5>>, <<2,
    5>>, <<3, 6>>, <<2, 6>>, <<1, 6>>, <<0, 6>>>>, <<<<5, 4>>, <<7, 3>>, <<6, 3>>, <<5, 3>>,
    <<4, 4>>, <<3, 4>>, <<4, 3>>, <<3, 3>>, <<2, 4>>, <<3, 5>>, <<2, 5>>, <<1, 6>>, <<1, 5>>,
    <<0, 6>>>>, <<<<3, 5>>, <<7, 3>>, <<5, 4>>, <<4, 4>>, <<6, 3>>, <<5, 3>>, <<4, 3>>, <<3,
    4>>, <<3, 3>>, <<2, 4>>, <<2, 5>>, <<1, 5>>, <<0, 5>>>>, <<<<5, 4>>, <<4, 4>>, <<3, 4>>,
    <<7, 3>>, <<6, 3>>, <<5, 3>>, <<4, 3>>, <<3, 3>>, <<2, 4>>, <<1, 5>>, <<1, 4>>, <<0, 5>>>>,
    <<<<1, 6>>, <<1, 5>>, <<7, 3>>, <<6, 3>>, <<5, 3>>, <<4, 3>>, <<3, 3>>, <<2, 3>>, <<1, 4>>,
    <<1, 3>>, <<0, 6>>>>, <<<<1, 6>>, <<1, 5>>, <<5, 3>>, <<4, 3>>, <<3, 3>>, <<3, 2>>, <<2,
    3>>, <<1, 4>>, <<1, 3>>, <<0, 6>>>>, <<<<1, 6>>, <<1, 4>>, <<1, 5>>, <<3, 3>>, <<3, 2>>,
    <<2, 2>>, <<2, 3>>, <<1, 3>>, <<0, 6>>>>, <<<<1, 6>>, <<0, 6>>, <<1, 4>>, <<3, 2>>, <<2,
    2>>, <<1, 3>>, <<1, 2>>, <<1, 5>>>>, <<<<1, 5>>, <<0, 5>>, <<1, 3>>, <<3, 2>>, <<2, 2>>,
    <<1, 2>>, <<1, 4>>>>, <<<<0, 4>>, <<1, 4>>, <<1, 3>>, <<2, 3>>, <<1, 1>>, <<3, 3>>>>, <<<<0,
    4>>, <<1, 4>>, <<1, 2>>, <<1, 1>>, <<1, 3>>>>, <<<<0, 3>>, <<1, 3>>, <<1, 1>>, <<1, 2>>>>,
    <<<<0, 2>>, <<1, 2>>, <<1, 1>>>>, <<<<0, 1>>, <<1, 1>>>>>>
TOTAL_ZEROS_CHROMA_DC_420 ==
  <<<<<<1, 1>>, <<1, 2>>, <<1, 3>>, <<0, 3>>>>, <<<<1, 1>>, <<1, 2>>, <<0, 2>>>>, <<<<1, 1>>,
    <<0, 1>>>>>>
RUN_BEFORE_SMALL ==
  <<<<<<1, 1>>, <<0, 1>>>>, <<<<1, 1>>, <<1, 2>>, <<0, 2>>>>, <<<<3, 2>>, <<2, 2>>, <<1, 2>>,
    <<0, 2>>>>, <<<<3, 2>>, <<2, 2>>, <<1, 2>>, <<1, 3>>, <<0, 3>>>>, <<<<3, 2>>, <<2, 2>>, <<3,
    3>>, <<2, 3>>, <<1, 3>>, <<0, 3>>>>, <<<<3, 2>>, <<0, 3>>, <<1, 3>>, <<3, 3>>, <<2, 3>>,
    <<5, 3>>, <<4, 3>>>>>>

(* The decoder.                                                             *)
ChromaDc == -1
LOOKUP_BITS == 12
Answer(value, at) == [ok |-> TRUE, value |-> value, at |-> at]
Fail(at) == [ok |-> FALSE, value |-> 0, at |-> at]
Number(bits, at, n) ==
  LET v[k \in 0 .. n] == IF k = 0 THEN 0 ELSE 2 * v[k - 1] + bits[at + k] IN v[n]
read_bits(bits, at, n) ==
  IF at + n > Len(bits) THEN Fail(at) ELSE Answer(Number(bits, at, n), at + n)

\* The places of the codes that agree with a window of the given width.
Agreeing(table, window, width) ==
  {k \in 1 .. Len(table) : table[k][2] <= width /\ table[k][1] = window \div 2 ^ (width - table[k][2])}
Lengths(table) == {table[k][2] : k \in 1 .. Len(table)}
Longest(lengths) == CHOOSE n \in lengths : \A m \in lengths : m <= n
Nearest(lengths) == CHOOSE n \in lengths : \A m \in lengths : n <= m
\* Bit by bit: the first length at which a code ends.
RECURSIVE Walk(_, _, _, _, _, _)
WalkOn(table, bits, at, longest, length, value) ==
  IF \E k \in 1 .. Len(table) : table[k] = <<value, length>>
  THEN Answer(CHOOSE k \in 1 .. Len(table) : table[k] = <<value, length>>, at)
  ELSE Walk(table, bits, at, longest, length, value)
Walk(table, bits, at, longest, length, value) ==
  IF length = longest \/ at = Len(bits) THEN Fail(at)
  ELSE WalkOn(table, bits, at + 1, longest, length + 1, 2 * value + bits[at + 1])
\* The lookup table holds the last entry written to a place; a list is searched from
\* its first code.
LastListed(table, bits, at, found) ==
  IF found = {} THEN Walk(table, bits, at, 16, 0, 0)
  ELSE Answer(Longest(found), at + table[Longest(found)][2])
decode_vlc(table, bits, at) ==
  IF at + LOOKUP_BITS <= Len(bits)
  THEN LastListed(table, bits, at, Agreeing(table, Number(bits, at, LOOKUP_BITS), LOOKUP_BITS))
  ELSE Walk(table, bits, at, 16, 0, 0)
FirstListed(table, at, found) ==
  IF found = {} THEN Fail(at) ELSE Answer(Nearest(found) - 1, at + table[Nearest(found)][2])
ListedFrom(answer) == IF answer.ok THEN [answer EXCEPT !.value = @ - 1] ELSE answer
\* decode_code_index: the value is the place of the code, from zero.
CodeIndex(table, bits, at, longest) ==
  IF at + longest <= Len(bits)
  THEN FirstListed(table, at, Agreeing(table, Number(bits, at, longest), longest))
  ELSE ListedFrom(Walk(table, bits, at, longest, 0, 0))
decode_code_index(table, bits, at) == CodeIndex(table, bits, at, Longest(Lengths(table)))

(* coeff_token.                                                                *)
TokenTable(nc) ==
  CASE nc = ChromaDc -> COEFF_TOKEN_CHROMA_DC_420
    [] nc \in 0 .. 1 -> COEFF_TOKEN_0_TO_1
    [] nc \in 2 .. 3 -> COEFF_TOKEN_2_TO_3
    [] OTHER -> COEFF_TOKEN_4_TO_7
AllTokens == [n \in {4, 16} |-> Tokens(n)]
TokenOf(nc, k) == AllTokens[IF nc = ChromaDc THEN 4 ELSE 16][k]
FixedToken(code) ==
  IF ~ code.ok THEN code
  ELSE CASE code.value = 3 -> [code EXCEPT !.value = [total_coeff |-> 0, trailing_ones |-> 0]]
         [] code.value < 4 /\ code.value > 1 -> Fail(code.at)
         [] OTHER -> [code EXCEPT !.value =
                        [total_coeff |-> (code.value \div 4) + 1, trailing_ones |-> code.value % 4]]
ListedToken(nc, code) == IF code.ok THEN [code EXCEPT !.value = TokenOf(nc, @)] ELSE code
Bounded(token, max_num_coeff) ==
  IF token.ok /\ ( \/ token.value.total_coeff > max_num_coeff
                   \/ token.value.trailing_ones > 3
                   \/ token.value.trailing_ones > token.value.total_coeff)
  THEN Fail(token.at) ELSE token
decode_coeff_token(bits, at, nc, max_num_coeff) ==
  Bounded(IF nc >= 8 THEN FixedToken(read_bits(bits, at, 6))
          ELSE ListedToken(nc, decode_vlc(TokenTable(nc), bits, at)), max_num_coeff)

(* Levels, highest frequency first.  d is [ok, at, levels].                    *)
decode_level_prefix(bits, at) ==
  LET ones == {n \in 0 .. 31 : at + n < Len(bits) /\ bits[at + n + 1] = 1}
  IN  IF ones = {} THEN Fail(at) ELSE Answer(Nearest(ones), at + Nearest(ones) + 1)
\* Mutant: a prefix of fourteen zeros always has the suffix of the current length.
SuffixSizeAsCurrent(prefix, suffix_length) == IF prefix >= 15 THEN prefix - 3 ELSE suffix_length
SuffixSize(prefix, suffix_length) ==
  CASE prefix = 14 /\ suffix_length = 0 -> 4 [] prefix >= 15 -> prefix - 3 [] OTHER -> suffix_length
LevelCode(prefix, suffix, suffix_length, first) ==
  (IF prefix < 15 THEN prefix ELSE 15) * 2 ^ suffix_length + suffix
    + (IF prefix >= 15 /\ suffix_length = 0 THEN 15 ELSE 0)
    + (IF prefix >= 16 THEN 2 ^ (prefix - 3) - 4096 ELSE 0)
    + (IF first THEN 2 ELSE 0)
LevelOf(code) == IF code % 2 = 0 THEN (code + 2) \div 2 ELSE (-code - 1) \div 2
Size(level) == IF level < 0 THEN -level ELSE level
Started(suffix_length) == IF suffix_length = 0 THEN 1 ELSE suffix_length
Grown(level, length) == IF Size(level) > 3 * 2 ^ (length - 1) /\ length < 6 THEN length + 1 ELSE length
NextLength(level, suffix_length) == Grown(level, Started(suffix_length))
\* Levels beyond the i32 of the code are not written: prefixes stay below 29.
WidestPrefix == 28
RECURSIVE MoreLevels(_, _, _, _)
AddLevel(bits, d, token, suffix_length, level) ==
  MoreLevels(bits, [d EXCEPT !.levels = Append(@, level)], token, NextLength(level, suffix_length))
WithSuffix(bits, d, token, suffix_length, prefix, suffix) ==
  IF ~ suffix.ok THEN Fail(d.at)
  ELSE AddLevel(bits, [d EXCEPT !.at = suffix.at], token, suffix_length,
         LevelOf(LevelCode(prefix, suffix.value, suffix_length,
                           Len(d.levels) = token.trailing_ones /\ token.trailing_ones < 3)))
WithPrefix(bits, d, token, suffix_length, prefix) ==
  IF ~ prefix.ok \/ prefix.value > WidestPrefix THEN Fail(d.at)
  ELSE WithSuffix(bits, d, token, suffix_length, prefix.value,
         read_bits(bits, prefix.at, SuffixSize(prefix.value, suffix_length)))
MoreLevels(bits, d, token, suffix_length) ==
  IF Len(d.levels) = token.total_coeff THEN d
  ELSE WithPrefix(bits, d, token, suffix_length, decode_level_prefix(bits, d.at))
InitialLength(token) == IF token.total_coeff > 10 /\ token.trailing_ones < 3 THEN 1 ELSE 0
decode_levels(bits, at, token) ==
  IF at + token.trailing_ones > Len(bits) THEN Fail(at)
  ELSE MoreLevels(bits, [ok |-> TRUE, at |-> at + token.trailing_ones,
                         levels |-> [i \in 1 .. token.trailing_ones |-> 1 - 2 * bits[at + i]]],
                  token, InitialLength(token))

(* Runs of zeros before each coefficient.                                      *)
decode_total_zeros(bits, at, total_coeff, max_num_coeff) ==
  LET zeros == decode_code_index(IF max_num_coeff = 4 THEN TOTAL_ZEROS_CHROMA_DC_420[total_coeff]
                                 ELSE TOTAL_ZEROS_4X4[total_coeff], bits, at)
  IN  IF zeros.ok /\ zeros.value > max_num_coeff - total_coeff THEN Fail(at) ELSE zeros
LongRun(bits, zeros) ==
  IF zeros.ok /\ zeros.value <= 7 THEN [zeros EXCEPT !.value = 7 + @] ELSE Fail(zeros.at)
ThreeBitRun(bits, prefix) ==
  CASE ~ prefix.ok -> prefix
    [] prefix.ok /\ prefix.value # 0 -> [prefix EXCEPT !.value = 7 - @]
    [] OTHER -> LongRun(bits, decode_level_prefix(bits, prefix.at))
WithinZeros(run, zeros_left) == IF run.ok /\ run.value > zeros_left THEN Fail(run.at) ELSE run
decode_run_before(bits, at, zeros_left) ==
  IF zeros_left <= 6 THEN decode_code_index(RUN_BEFORE_SMALL[zeros_left], bits, at)
  ELSE WithinZeros(ThreeBitRun(bits, read_bits(bits, at, 3)), zeros_left)
RECURSIVE MoreRuns(_, _, _, _)
AddRun(bits, d, n, zeros_left, run) ==
  IF ~ run.ok \/ run.value > zeros_left THEN Fail(d.at)
  ELSE MoreRuns(bits, [d EXCEPT !.at = run.at, !.runs = Append(@, run.value)], n, zeros_left - run.value)
MoreRuns(bits, d, n, zeros_left) ==
  CASE n = 1 -> [d EXCEPT !.runs = Append(@, zeros_left)]
    [] n > 1 /\ zeros_left = 0 -> MoreRuns(bits, [d EXCEPT !.runs = Append(@, 0)], n - 1, 0)
    [] OTHER -> AddRun(bits, d, n - 1, zeros_left, decode_run_before(bits, d.at, zeros_left))
StartRuns(bits, zeros, total_coeff) ==
  IF zeros.ok
  THEN MoreRuns(bits, [ok |-> TRUE, at |-> zeros.at, runs |-> <<>>], total_coeff, zeros.value) ELSE zeros
decode_runs(bits, at, total_coeff, max_num_coeff) ==
  StartRuns(bits, IF total_coeff = max_num_coeff THEN Answer(0, at)
                  ELSE decode_total_zeros(bits, at, total_coeff, max_num_coeff), total_coeff)

\* The coefficient of level i comes after the runs and levels from i on.
Place(runs, i) ==
  LET p[k \in i .. Len(runs)] == runs[k] + 1 + (IF k = Len(runs) THEN 0 ELSE p[k + 1]) IN p[i]
Places(runs) == [i \in 1 .. Len(runs) |-> Place(runs, i)]
Spread(levels, places, max_num_coeff) ==
  [c \in 1 .. max_num_coeff |->
     IF \E i \in 1 .. Len(levels) : places[i] = c
     THEN levels[CHOOSE i \in 1 .. Len(levels) : places[i] = c] ELSE 0]
combine_levels_and_runs(levels, runs, max_num_coeff) ==
  IF ~ runs.ok \/ Place(runs.runs, 1) > max_num_coeff THEN Fail(runs.at)
  ELSE Answer(Spread(levels, Places(runs.runs), max_num_coeff), runs.at)
AfterLevels(bits, levels, total_coeff, max_num_coeff) ==
  IF levels.ok
  THEN combine_levels_and_runs(levels.levels, decode_runs(bits, levels.at, total_coeff, max_num_coeff), max_num_coeff)
  ELSE levels
AfterToken(bits, token, max_num_coeff) ==
  CASE ~ token.ok -> token
    [] token.ok /\ token.value.total_coeff = 0 -> [token EXCEPT !.value = [c \in 1 .. max_num_coeff |-> 0]]
    [] OTHER -> AfterLevels(bits, decode_levels(bits, token.at, token.value),
                            token.value.total_coeff, max_num_coeff)
decode_residual_block(bits, at, nc, max_num_coeff) ==
  AfterToken(bits, decode_coeff_token(bits, at, nc, max_num_coeff), max_num_coeff)

(* The encoder, and what the decoder must make of its bits.                 *)
Binary(value, n) == [i \in 1 .. n |-> (value \div 2 ^ (n - i)) % 2]
CodeBits(code) == Binary(code[1], code[2])
Zeros(n) == [i \in 1 .. n |-> 0]

\* The places of the coefficients that are not zero, from the last one down.
Coded(block) ==
  LET down[n \in 0 .. Len(block)] ==
        IF n = 0 THEN <<>> ELSE (IF block[n] = 0 THEN <<>> ELSE <<n>>) \o down[n - 1]
  IN  down[Len(block)]
\* The ones at the end of the scan that are sent as signs only, at most three.
TrailingOnes(levels) ==
  LET n == CHOOSE n \in 0 .. Len(levels) :
             /\ \A i \in 1 .. n : Size(levels[i]) = 1
             /\ n = Len(levels) \/ Size(levels[n + 1]) # 1
  IN  IF n > 3 THEN 3 ELSE n

TokenBits(nc, token) ==
  IF nc >= 8
  THEN Binary(IF token.total_coeff = 0 THEN 3 ELSE 4 * (token.total_coeff - 1) + token.trailing_ones, 6)
  ELSE CodeBits(TokenTable(nc)[CHOOSE k \in 1 .. Len(TokenTable(nc)) : TokenOf(nc, k) = token])

\* levelCode of 9.2.2.1, and its prefix and suffix.
CodeOfLevel(level, first) == (IF level > 0 THEN 2 * level - 2 ELSE -2 * level - 1) - (IF first THEN 2 ELSE 0)
EscapeBits(rest) ==
  LET p == CHOOSE p \in 15 .. WidestPrefix :
             rest < 2 ^ (p - 2) - 4096 /\ (p = 15 \/ rest >= 2 ^ (p - 3) - 4096)
  IN  Zeros(p) \o <<1>> \o Binary(rest - (2 ^ (p - 3) - 4096), p - 3)
LevelBits(code, suffix_length) ==
  CASE suffix_length = 0 /\ code < 14 -> Zeros(code) \o <<1>>
    [] suffix_length = 0 /\ code \in 14 .. 29 -> Zeros(14) \o <<1>> \o Binary(code - 14, 4)
    [] suffix_length = 0 /\ code > 29 -> EscapeBits(code - 30)
    [] suffix_length > 0 /\ code < 15 * 2 ^ suffix_length ->
         Zeros(code \div 2 ^ suffix_length) \o <<1>> \o Binary(code % 2 ^ suffix_length, suffix_length)
    [] OTHER -> EscapeBits(code - 15 * 2 ^ suffix_length)
\* suffixLength after a level: one after the first, one more beyond its threshold.
Thresholds == <<3, 6, 12, 24, 48>>
LengthAfter(level, suffix_length) ==
  CASE suffix_length = 0 -> IF Size(level) > 3 THEN 2 ELSE 1
    [] suffix_length = 6 -> 6
    [] OTHER -> IF Size(level) > Thresholds[suffix_length] THEN suffix_length + 1 ELSE suffix_length
RECURSIVE LevelsBits(_, _, _, _)
LevelsBits(levels, i, ones, suffix_length) ==
  CASE i > Len(levels) -> <<>>
    [] i <= Len(levels) /\ i <= ones ->
         <<(1 - levels[i]) \div 2>> \o LevelsBits(levels, i + 1, ones, suffix_length)
    [] OTHER -> LevelBits(CodeOfLevel(levels[i], i = ones + 1 /\ ones < 3), suffix_length)
                  \o LevelsBits(levels, i + 1, ones, LengthAfter(levels[i], suffix_length))

RunBits(run, zeros_left) ==
  CASE zeros_left <= 6 -> CodeBits(RUN_BEFORE_SMALL[zeros_left][run + 1])
    [] zeros_left > 6 /\ run < 7 -> Binary(7 - run, 3)
    [] OTHER -> Zeros(run - 4) \o <<1>>
RECURSIVE RunsBits(_, _)
RunsBits(places, zeros_left) ==
  IF Len(places) < 2 \/ zeros_left = 0 THEN <<>>
  ELSE RunBits(places[1] - places[2] - 1, zeros_left)
         \o RunsBits(Tail(places), zeros_left - (places[1] - places[2] - 1))
ZerosBits(zeros, total, max) ==
  IF total = max THEN <<>>
  ELSE CodeBits((IF max = 4 THEN TOTAL_ZEROS_CHROMA_DC_420 ELSE TOTAL_ZEROS_4X4)[total][zeros + 1])
CodedBits(nc, max, places, levels, ones) ==
  TokenBits(nc, [total_coeff |-> Len(levels), trailing_ones |-> ones])
    \o LevelsBits(levels, 1, ones, IF Len(levels) > 10 /\ ones < 3 THEN 1 ELSE 0)
    \o ZerosBits(places[1] - Len(places), Len(levels), max)
    \o RunsBits(places, places[1] - Len(places))
BlockOf(nc, block, places, levels) == CodedBits(nc, Len(block), places, levels, TrailingOnes(levels))
BlockBits(nc, block) ==
  IF Coded(block) = <<>> THEN TokenBits(nc, [total_coeff |-> 0, trailing_ones |-> 0])
  ELSE BlockOf(nc, block, Coded(block), [i \in 1 .. Len(Coded(block)) |-> block[Coded(block)[i]]])

\* Every block is read back, at the end of the data and before whatever follows it,
\* and a block cut short is refused instead of being read from what is not there.
ReadsBack(nc, block, bits, rest) ==
  decode_residual_block(bits \o rest, 0, nc, Len(block)) = Answer(block, Len(bits))
Refused(nc, max, bits) == ~ decode_residual_block(bits, 0, nc, max).ok
BlockReadBack(nc, block, bits) ==
  /\ \A rest \in {<<>>, Zeros(16), [i \in 1 .. 16 |-> 1]} : ReadsBack(nc, block, bits, rest)
  /\ \A n \in {Len(bits) - 1, Len(bits) - 3, Len(bits) \div 2} \cap Nat :
       Refused(nc, Len(block), SubSeq(bits, 1, n))
CoefficientsReadBack(nc, block) == BlockReadBack(nc, block, BlockBits(nc, block))

(* Inputs.                                                                     *)
ChromaBlocks == [1 .. 4 -> -1 .. 1] \cup [1 .. 4 -> {0, 1, -3, 40}]
LevelPatterns ==
  {[i \in 1 .. 16 |-> 1], [i \in 1 .. 16 |-> IF i % 2 = 0 THEN -1 ELSE 2], [i \in 1 .. 16 |-> -2 * i],
   [i \in 1 .. 16 |-> 2 ^ (17 - i)], [i \in 1 .. 16 |-> IF i % 3 = 1 THEN -2063 ELSE i],
   [i \in 1 .. 16 |-> CASE i = 9 -> 70000 [] i < 7 -> 1 [] OTHER -> -8]}
SomePlaces(max) ==
  {a .. b : a \in {1, 4}, b \in 0 .. max} \cup {{a, b} : a \in 1 .. max, b \in {1, 9, max}}
    \cup {{a \in 1 .. max : a % m = r} : m \in 2 .. 5, r \in 0 .. 2}
LumaBlocks(max) ==
  {[c \in 1 .. max |-> IF c \in s THEN levels[c] ELSE 0] : s \in SomePlaces(max), levels \in LevelPatterns}
SomeBlocks ==
  ({ChromaDc} \X ChromaBlocks) \cup ({0, 2, 4, 8} \X (LumaBlocks(15) \cup LumaBlocks(16)))
=============================================================================
