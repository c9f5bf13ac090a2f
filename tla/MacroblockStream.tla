--------------------------- MODULE MacroblockStream ---------------------------
(***************************************************************************)
(* Macroblocks as a conforming encoder codes them, and the reading of them *)
(* by CabacMacroblocks and CavlcMacroblocks.                               *)
(*                                                                         *)
(* A picture of Width x Height macroblocks has one or two slices of a      *)
(* type.  A macroblock is [skip, intra, number, subs, t8, luma, chroma,    *)
(* chroma_coded, qp_delta, seed]; its vectors, references, prediction      *)
(* modes and coefficients follow from the seed.  The contexts of its bins  *)
(* are those of clause 9.3.3.1.1, which names the neighbouring macroblock, *)
(* block or partition and asks what it holds; the decoder keeps grids.     *)
(***************************************************************************)
EXTENDS CavlcMacroblocks

CONSTANTS Width, Height

Chosen(options, k) == options[(k % Len(options)) + 1]
Limited(n, max) == IF n > max THEN max ELSE n
Sized(n) == IF n < 0 THEN -n ELSE n
RECURSIVE Flattened(_)
Flattened(s) == IF s = <<>> THEN <<>> ELSE Head(s) \o Flattened(Tail(s))

(* What a macroblock holds. *)
IsPcm(m) == m.intra /\ m.number = 25
Is16x16(m) == m.intra /\ m.number \in 1 .. 24
LumaBits(m) ==
  CASE m.skip -> {} [] IsPcm(m) -> 0 .. 3
    [] Is16x16(m) -> IF m.number > 12 THEN 0 .. 3 ELSE {} [] OTHER -> m.luma
ChromaBits(m) ==
  CASE m.skip -> 0 [] IsPcm(m) -> 2
    [] Is16x16(m) -> ((m.number - 1) \div 4) % 3 [] OTHER -> m.chroma_coded
Uses8x8(m) == m.t8 /\ ~ Is16x16(m) /\ ~ IsPcm(m) /\ (m.intra \/ LumaBits(m) # {})
HasQpDelta(m) == ~ IsPcm(m) /\ (Is16x16(m) \/ LumaBits(m) # {} \/ ChromaBits(m) # 0)
QpDelta(m) == IF HasQpDelta(m) THEN m.qp_delta ELSE 0
ModeAt(m, i) == ((m.seed + 3 * i) % 9) - 1
Vectors == <<0, 1, -2, 17, 3, -40, 9, -100, 8, 30>>
MvdAt(m, list, i, j, component) == Chosen(Vectors, m.seed + 3 * list + 2 * i + j + 5 * component)
RefAt(m, active, list, i) == (m.seed + list + 2 * i) % active[list]

\* Nonzero coefficients of a block by position: none, one, the last one, or many.
Coefficient(m, b, size, i) ==
  LET kind == (m.seed + b[1] + 2 * b[2] + 3 * b[3]) % 5 IN
  CASE kind = 0 -> IF b[1] = Luma8x8 /\ i = 3 THEN -1 ELSE 0
    [] kind = 1 -> IF i = 0 THEN 1 ELSE 0
    [] kind = 2 -> IF i = size - 1 THEN -1 ELSE IF i = 1 THEN 2 ELSE 0
    [] kind = 3 -> Chosen(<<1, -2, 0, 16, -1, 3, 0, 0, 1>>, i)
    [] OTHER -> IF i = 2 THEN -300 ELSE IF i < 2 THEN -1 ELSE 0
CoefficientsOf(m, b) ==
  [i \in 1 .. maximum_coefficients[b[1] + 1] |-> Coefficient(m, b, maximum_coefficients[b[1] + 1], i - 1)]
CodesCoefficients(m, b) ==
  LET size == maximum_coefficients[b[1] + 1] IN \E i \in 0 .. size - 1 : Coefficient(m, b, size, i) # 0

(* Tables 7-13, 7-14, 7-17 and 7-18. *)
Direct(type, m) == type = "B" /\ (m.skip \/ (~ m.intra /\ m.number = 0))
Quartered(type, m) == ~ m.skip /\ ~ m.intra /\ m.number = (IF type = "P" THEN 3 ELSE 22)
Wide(type, m) == IF type = "P" THEN m.number = 1 ELSE m.number \in {4, 6, 8, 10, 12, 14, 16, 18, 20}
Whole(type, m) == IF type = "P" THEN m.number = 0 ELSE m.number <= 3
NumMbPart(type, m) == IF Quartered(type, m) THEN 4 ELSE IF Whole(type, m) THEN 1 ELSE 2
MbPartIdx(type, m, x, y) ==
  CASE Quartered(type, m) -> 2 * (y \div 2) + (x \div 2)
    [] Whole(type, m) -> 0
    [] OTHER -> IF Wide(type, m) THEN y \div 2 ELSE x \div 2
Lower(type) == IF type = "P" THEN {1, 3} ELSE {4, 6, 8, 10, 11, 12}
Narrow(type) == IF type = "P" THEN {2, 3} ELSE {5, 7, 9, 10, 11, 12}
SubHeight(type, sub) == IF sub \in Lower(type) THEN 1 ELSE 2
SubWidth(type, sub) == IF sub \in Narrow(type) THEN 1 ELSE 2
NumSubMbPart(type, m, i) ==
  IF Quartered(type, m) THEN 4 \div (SubHeight(type, m.subs[i + 1]) * SubWidth(type, m.subs[i + 1])) ELSE 1
SubMbPartIdx(type, m, i, x, y) ==
  IF ~ Quartered(type, m) THEN 0
  ELSE ((y % 2) \div SubHeight(type, m.subs[i + 1])) * (2 \div SubWidth(type, m.subs[i + 1]))
         + (x % 2) \div SubWidth(type, m.subs[i + 1])
SubLists == << {1, 3, 4, 5, 8, 9, 10, 12}, {2, 3, 6, 7, 8, 9, 11, 12} >>
FirstLists == << {1, 3, 4, 5, 8, 9, 12, 13} \cup 16 .. 21, {2, 3, 6, 7, 10, 11, 14, 15} \cup 16 .. 21 >>
SecondLists == << {4, 5, 10, 11, 20, 21} \cup 12 .. 17, {6, 7, 8, 9, 20, 21} \cup 12 .. 15 \cup 18 .. 19 >>
InList(type, m, list, i) ==
  CASE type = "P" -> list = 0
    [] Quartered(type, m) -> m.subs[i + 1] \in SubLists[list + 1]
    [] i = 0 -> m.number \in FirstLists[list + 1]
    [] OTHER -> m.number \in SecondLists[list + 1]
DirectPart(type, m, i) ==
  Direct(type, m) \/ (type = "B" /\ Quartered(type, m) /\ m.subs[i + 1] = 0)
Allows8x8(type, inference, m) ==
  CASE Quartered(type, m) -> \A i \in 1 .. 4 : m.subs[i] \notin Lower(type) \cup Narrow(type)
                                               /\ (DirectPart(type, m, i - 1) => inference)
    [] OTHER -> Direct(type, m) => inference

(* Neighbours: a macroblock of the same slice, as a sequence of at most one. *)
StartOf(pic, a) == IF a >= pic.second THEN pic.second ELSE 0
Neighbour(pic, a, b) == IF b >= StartOf(pic, a) THEN <<pic.mbs[b + 1]>> ELSE <<>>
A(pic, a) == IF a % Width = 0 THEN <<>> ELSE Neighbour(pic, a, a - 1)
B(pic, a) == IF a < Width THEN <<>> ELSE Neighbour(pic, a, a - Width)
Term(condition) == IF condition THEN 1 ELSE 0
\* The macroblock covering cell (x, y) relative to a, and the cell in it.
Covering(pic, a, x, y) ==
  CASE x < 0 -> A(pic, a) [] y < 0 -> B(pic, a) [] OTHER -> <<pic.mbs[a + 1]>>
InCell(v, n) == (v + n) % n

(* Bins. *)
Coded(contexts, bins) == [i \in 1 .. Len(bins) |-> <<contexts[Limited(i, Len(contexts))], bins[i]>>]
Plain(bins) == Coded(<<Bypass>>, bins)
Ones(n) == [i \in 1 .. n |-> 1]
UnaryBins(n) == Ones(n) \o <<0>>
TruncatedBins(n, max) == IF n < max THEN UnaryBins(n) ELSE Ones(max)
FixedBins(v, n) == [i \in 1 .. n |-> (v \div 2 ^ (n - i)) % 2]
RECURSIVE GolombBins(_, _)
GolombBins(v, k) == IF v >= 2 ^ k THEN <<1>> \o GolombBins(v - 2 ^ k, k + 1) ELSE <<0>> \o FixedBins(v, k)

(* Macroblock types: Tables 9-36 to 9-38. *)
IntraBins(n, first, without, with) ==
  CASE n = 0 -> Coded(<<first>>, <<0>>)
    [] n = 25 -> << <<first, 1>>, <<Terminate, 1>> >>
    [] OTHER -> << <<first, 1>>, <<Terminate, 0>> >>
         \o Coded(IF ((n - 1) \div 4) % 3 = 0 THEN without ELSE with,
                  <<Term(n > 12)>> \o << <<0>>, <<1, 0>>, <<1, 1>> >>[(((n - 1) \div 4) % 3) + 1]
                    \o FixedBins((n - 1) % 4, 2))
EmbeddedBins(n, base) ==
  IntraBins(n, base, <<base + 1, base + 2, base + 3>>, <<base + 1, base + 2, base + 2, base + 3>>)
PBins == << <<0, 0, 0>>, <<0, 1, 1>>, <<0, 1, 0>>, <<0, 0, 1>> >>
PSubBins == << <<1>>, <<0, 0>>, <<0, 1, 1>>, <<0, 1, 0>> >>
BBins ==
  << <<0>>, <<1, 0, 0>>, <<1, 0, 1>>, <<1, 1, 0, 0, 0, 0>>, <<1, 1, 0, 0, 0, 1>>, <<1, 1, 0, 0, 1, 0>>,
     <<1, 1, 0, 0, 1, 1>>, <<1, 1, 0, 1, 0, 0>>, <<1, 1, 0, 1, 0, 1>>, <<1, 1, 0, 1, 1, 0>>,
     <<1, 1, 0, 1, 1, 1>>, <<1, 1, 1, 1, 1, 0>>, <<1, 1, 1, 0, 0, 0, 0>>, <<1, 1, 1, 0, 0, 0, 1>>,
     <<1, 1, 1, 0, 0, 1, 0>>, <<1, 1, 1, 0, 0, 1, 1>>, <<1, 1, 1, 0, 1, 0, 0>>, <<1, 1, 1, 0, 1, 0, 1>>,
     <<1, 1, 1, 0, 1, 1, 0>>, <<1, 1, 1, 0, 1, 1, 1>>, <<1, 1, 1, 1, 0, 0, 0>>, <<1, 1, 1, 1, 0, 0, 1>>,
     <<1, 1, 1, 1, 1, 1>> >>
BSubBins ==
  << <<0>>, <<1, 0, 0>>, <<1, 0, 1>>, <<1, 1, 0, 0, 0>>, <<1, 1, 0, 0, 1>>, <<1, 1, 0, 1, 0>>,
     <<1, 1, 0, 1, 1>>, <<1, 1, 1, 0, 0, 0>>, <<1, 1, 1, 0, 0, 1>>, <<1, 1, 1, 0, 1, 0>>,
     <<1, 1, 1, 0, 1, 1>>, <<1, 1, 1, 1, 0>>, <<1, 1, 1, 1, 1>> >>
BContexts(first, bins) == <<first, 30, IF Len(bins) > 1 /\ bins[2] = 1 THEN 31 ELSE 32, 32>>
TypeBins(pic, a, m) ==
  CASE pic.type = "I" ->
         IntraBins(m.number, 3 + Len(SelectSeq(A(pic, a) \o B(pic, a), LAMBDA n : n.number # 0)),
                   <<6, 7, 9, 10>>, <<6, 7, 8, 9, 10>>)
    [] pic.type = "P" ->
         IF m.intra THEN << <<14, 1>> >> \o EmbeddedBins(m.number, 17)
         ELSE Coded(<<14, 15, IF PBins[m.number + 1][2] = 1 THEN 17 ELSE 16>>, PBins[m.number + 1])
    [] OTHER ->
         LET first == 27 + Len(SelectSeq(A(pic, a) \o B(pic, a), LAMBDA n : ~ Direct("B", n)))
             bins == IF m.intra THEN <<1, 1, 1, 1, 0, 1>> ELSE BBins[m.number + 1]
         IN  Coded(BContexts(first, bins), bins) \o (IF m.intra THEN EmbeddedBins(m.number, 32) ELSE <<>>)
SubBins(pic, sub) ==
  IF pic.type = "P" THEN Coded(<<21, 22, 23>>, PSubBins[sub + 1])
  ELSE Coded(<<36, 37, IF Len(BSubBins[sub + 1]) > 1 /\ BSubBins[sub + 1][2] = 1 THEN 38 ELSE 39, 39>>,
             BSubBins[sub + 1])

(* Coded block patterns. *)
LumaTerm(neighbour, i) == Term(neighbour # <<>> /\ i \notin LumaBits(neighbour[1]))
LumaPatternBin(pic, a, m, i) ==
  << <<73 + (IF i % 2 = 1 THEN Term(i - 1 \notin m.luma) ELSE LumaTerm(A(pic, a), i + 1))
         + 2 * (IF i > 1 THEN Term(i - 2 \notin m.luma) ELSE LumaTerm(B(pic, a), i + 2)),
       Term(i \in m.luma)>> >>
ChromaTerm(neighbour, least) == Term(neighbour # <<>> /\ ChromaBits(neighbour[1]) >= least)
ChromaContext(pic, a, least) == ChromaTerm(A(pic, a), least) + 2 * ChromaTerm(B(pic, a), least)
PatternBins(pic, a, m) ==
  LumaPatternBin(pic, a, m, 0) \o LumaPatternBin(pic, a, m, 1)
    \o LumaPatternBin(pic, a, m, 2) \o LumaPatternBin(pic, a, m, 3)
    \o << <<77 + ChromaContext(pic, a, 1), Term(m.chroma_coded > 0)>> >>
    \o (IF m.chroma_coded = 0 THEN <<>>
        ELSE << <<81 + ChromaContext(pic, a, 2), Term(m.chroma_coded = 2)>> >>)

(* References and differences. *)
RefTerm(pic, a, list, x, y) ==
  LET n == Covering(pic, a, x, y)
      cx == InCell(x, 4)
      cy == InCell(y, 4)
      i == MbPartIdx(pic.type, n[1], cx, cy)
  IN  Term(n # <<>> /\ ~ n[1].skip /\ ~ n[1].intra /\ ~ DirectPart(pic.type, n[1], i)
           /\ InList(pic.type, n[1], list, i) /\ RefAt(n[1], pic.active, list, i) > 0)
AbsMvdComp(pic, a, list, component, x, y) ==
  LET n == Covering(pic, a, x, y)
      cx == InCell(x, 4)
      cy == InCell(y, 4)
      i == MbPartIdx(pic.type, n[1], cx, cy)
  IN  IF n = <<>> \/ n[1].skip \/ n[1].intra THEN 0
      ELSE IF DirectPart(pic.type, n[1], i) \/ ~ InList(pic.type, n[1], list, i) THEN 0
      ELSE Sized(MvdAt(n[1], list, i, SubMbPartIdx(pic.type, n[1], i, cx, cy), component))
\* The first cell of a partition, and of one of its parts.
PartX(type, m, i) == IF Quartered(type, m) \/ ~ Wide(type, m) THEN 2 * (i % 2) ELSE 0
PartY(type, m, i) ==
  CASE Quartered(type, m) -> 2 * (i \div 2) [] Wide(type, m) -> 2 * i [] OTHER -> 0
SubX(type, m, i, j) ==
  IF Quartered(type, m) /\ m.subs[i + 1] \in Narrow(type) THEN j % 2 ELSE 0
SubY(type, m, i, j) ==
  IF Quartered(type, m) /\ m.subs[i + 1] \in Lower(type)
  THEN IF m.subs[i + 1] \in Narrow(type) THEN j \div 2 ELSE j ELSE 0
RefBins(pic, a, m, list, i) ==
  IF pic.active[list] = 1 THEN <<>>
  ELSE Coded(<<54 + RefTerm(pic, a, list, PartX(pic.type, m, i) - 1, PartY(pic.type, m, i))
                 + 2 * RefTerm(pic, a, list, PartX(pic.type, m, i), PartY(pic.type, m, i) - 1), 58, 59>>,
             UnaryBins(RefAt(m, pic.active, list, i)))
MvdContext(base, sum) == base + (IF sum < 3 THEN 0 ELSE IF sum > 32 THEN 2 ELSE 1)
MvdBins(base, sum, v) ==
  Coded(<<MvdContext(base, sum), base + 3, base + 4, base + 5, base + 6>>, TruncatedBins(Sized(v), 9))
    \o Plain((IF Sized(v) >= 9 THEN GolombBins(Sized(v) - 9, 3) ELSE <<>>)
               \o (IF v = 0 THEN <<>> ELSE <<Term(v < 0)>>))
MvdComponentBins(pic, a, m, list, i, j, component) ==
  LET x == PartX(pic.type, m, i) + SubX(pic.type, m, i, j)
      y == PartY(pic.type, m, i) + SubY(pic.type, m, i, j)
  IN  MvdBins(<<40, 47>>[component],
              AbsMvdComp(pic, a, list, component, x - 1, y) + AbsMvdComp(pic, a, list, component, x, y - 1),
              MvdAt(m, list, i, j, component))

(* Coefficient blocks: clause 9.3.3.1.1.9 asks whether a neighbour has the       *)
(* block at all, and then for its flag.                                          *)
LumaBlockAt(x, y) == CHOOSE k \in 0 .. 15 : LUMA_BLOCK_COORDINATES[k + 1] = <<x, y>>
FlagAt(m, b, x, y) ==
  CASE IsPcm(m) -> TRUE
    [] b[1] = LumaDc -> Is16x16(m) /\ CodesCoefficients(m, <<LumaDc, 0, 0>>)
    [] b[1] \in {LumaAc, Luma4x4} ->
         LET k == LumaBlockAt(InCell(x, 4), InCell(y, 4)) IN
         /\ k \div 4 \in LumaBits(m)
         /\ Uses8x8(m) \/ CodesCoefficients(m, <<IF Is16x16(m) THEN LumaAc ELSE Luma4x4, 0, k>>)
    [] b[1] = ChromaDc -> ChromaBits(m) > 0 /\ CodesCoefficients(m, <<ChromaDc, b[2], 0>>)
    [] OTHER ->
         ChromaBits(m) = 2 /\ CodesCoefficients(m, <<ChromaAc, b[2], 2 * InCell(y, 2) + InCell(x, 2)>>)
FlagTerm(pic, a, b, x, y) ==
  IF Covering(pic, a, x, y) = <<>> THEN Term(pic.mbs[a + 1].intra)
  ELSE Term(FlagAt(Covering(pic, a, x, y)[1], b, x, y))
BlockX(b) == CASE b[1] \in {LumaAc, Luma4x4} -> LUMA_BLOCK_COORDINATES[b[3] + 1][1]
               [] b[1] = ChromaAc -> b[3] % 2 [] OTHER -> 0
BlockY(b) == CASE b[1] \in {LumaAc, Luma4x4} -> LUMA_BLOCK_COORDINATES[b[3] + 1][2]
               [] b[1] = ChromaAc -> b[3] \div 2 [] OTHER -> 0
FlagBins(pic, a, b, coded) ==
  IF b[1] = Luma8x8 THEN <<>>
  ELSE << <<coded_block_flag_context_base[b[1] + 1] + FlagTerm(pic, a, b, BlockX(b) - 1, BlockY(b))
              + 2 * FlagTerm(pic, a, b, BlockX(b), BlockY(b) - 1), Term(coded)>> >>
SignificantBins(c, coefs, last) ==
  Flattened([i \in 1 .. Limited(last, Len(coefs) - 1) |->
    IF coefs[i] = 0 THEN << <<SignificantContext(c, i - 1), 0>> >>
    ELSE << <<SignificantContext(c, i - 1), 1>>, <<LastContext(c, i - 1), Term(i = last)>> >>])
LevelBins(c, v, equal, greater) ==
  Coded(<<coefficient_level_context_base[c + 1] + (IF greater > 0 THEN 0 ELSE Limited(1 + equal, 4)),
          coefficient_level_context_base[c + 1] + 5 + Limited(greater, IF c = ChromaDc THEN 3 ELSE 4)>>,
        TruncatedBins(Sized(v) - 1, 14))
    \o Plain((IF Sized(v) >= 15 THEN GolombBins(Sized(v) - 15, 0) ELSE <<>>) \o <<Term(v < 0)>>)
LevelsBins(c, coefs) ==
  LET levels == SelectSeq(coefs, LAMBDA v : v # 0)
      After(k) == SubSeq(levels, k + 1, Len(levels))
  IN  Flattened([n \in 1 .. Len(levels) |->
        LET k == Len(levels) + 1 - n IN
        LevelBins(c, levels[k], Len(SelectSeq(After(k), LAMBDA v : Sized(v) = 1)),
                  Len(SelectSeq(After(k), LAMBDA v : Sized(v) > 1)))])
LastOf(coefs) == CHOOSE i \in 1 .. Len(coefs) : coefs[i] # 0 /\ \A j \in i + 1 .. Len(coefs) : coefs[j] = 0
BlockBins(pic, a, b, coefs) ==
  IF \A i \in 1 .. Len(coefs) : coefs[i] = 0 THEN FlagBins(pic, a, b, FALSE)
  ELSE FlagBins(pic, a, b, TRUE) \o SignificantBins(b[1], coefs, LastOf(coefs)) \o LevelsBins(b[1], coefs)

(* CAVLC: a block's coefficients, of an 8x8 block every fourth one, and the     *)
(* total of a block (clause 9.2.1).                                            *)
CavlcCoefficients(m, b) ==
  IF b[1] = Luma4x4 /\ Uses8x8(m)
  THEN [i \in 1 .. 16 |-> CoefficientsOf(m, <<Luma8x8, 0, b[3] \div 4>>)[4 * (i - 1) + (b[3] % 4) + 1]]
  ELSE CoefficientsOf(m, b)
NonZero(coefs) == Cardinality({i \in 1 .. Len(coefs) : coefs[i] # 0})
LumaCategory(m) == IF Is16x16(m) THEN LumaAc ELSE Luma4x4
TotalAt(m, b, x, y) ==
  IF IsPcm(m) THEN 16
  ELSE IF b[1] = ChromaAc
  THEN IF ChromaBits(m) < 2 THEN 0
       ELSE NonZero(CoefficientsOf(m, <<ChromaAc, b[2], 2 * InCell(y, 2) + InCell(x, 2)>>))
  ELSE LET k == LumaBlockAt(InCell(x, 4), InCell(y, 4)) IN
       IF k \div 4 \in LumaBits(m) THEN NonZero(CavlcCoefficients(m, <<LumaCategory(m), 0, k>>)) ELSE 0
TotalsAt(pic, a, b, x, y) ==
  IF Covering(pic, a, x, y) = <<>> THEN <<>> ELSE <<TotalAt(Covering(pic, a, x, y)[1], b, x, y)>>
NcOf(nA, nB) ==
  CASE nA # <<>> /\ nB # <<>> -> (nA[1] + nB[1] + 1) \div 2
    [] nA # <<>> -> nA[1] [] nB # <<>> -> nB[1] [] OTHER -> 0
\* The luma DC block is at its macroblock's first block.
Nc(pic, a, b) ==
  LET at == IF b[1] = LumaDc THEN <<Luma4x4, 0, 0>> ELSE b
  IN  NcOf(TotalsAt(pic, a, at, BlockX(at) - 1, BlockY(at)), TotalsAt(pic, a, at, BlockX(at), BlockY(at) - 1))
BlockDescriptor(pic, a, b) ==
  BlockCode(IF b[1] = ChromaDc THEN ChromaDc420 ELSE TableOf(Nc(pic, a, b)), maximum_coefficients[b[1] + 1])

(* An element of the syntax: what is read of it, its bins and its codes.        *)
Syntax(out, bins, codes) == <<[out |-> out, bins |-> bins, codes |-> codes]>>
RECURSIVE Joined(_, _)
Joined(elements, n) == IF n = 0 THEN <<>> ELSE Joined(elements, n - 1) \o elements[n]
Each(n, Element_(_)) == Joined([i \in 1 .. n |-> Element_(i - 1)], n)

TypeNumber(type, m) ==
  CASE ~ m.intra -> m.number [] type = "I" -> m.number [] type = "P" -> m.number + 5 [] OTHER -> m.number + 23
\* CAVLC may code a quartered P macroblock whose references are all 0 as type 4.
RefsForced(pic, m) ==
  pic.type = "P" /\ Quartered("P", m) /\ ~ pic.cabac /\ \A i \in 0 .. 3 : RefAt(m, pic.active, 0, i) = 0
TypeSyntax(pic, a, m) ==
  LET v == IF RefsForced(pic, m) THEN 4 ELSE TypeNumber(pic.type, m)
  IN  Syntax(<<<<"mb_type", v>>>>, TypeBins(pic, a, m), <<<<Ue, v>>>>)
T8Syntax(pic, a, m, present) ==
  IF present
  THEN Syntax(<<>>, << <<399 + Len(SelectSeq(A(pic, a) \o B(pic, a), LAMBDA n : Uses8x8(n))), Term(m.t8)>> >>,
              << <<Bit, Term(m.t8)>> >>)
  ELSE <<>>
ModeSyntax(m, i) ==
  LET v == ModeAt(m, i) IN
  IF v = -1 THEN Syntax(<<<<"mode", -1>>>>, <<<<68, 1>>>>, <<<<Bit, 1>>>>)
  ELSE Syntax(<<<<"mode", v>>>>, << <<68, 0>>, <<69, v % 2>>, <<69, (v \div 2) % 2>>, <<69, v \div 4>> >>,
              << <<Bit, 0>>, <<ThreeBits, v>> >>)
ChromaModeSyntax(pic, a, m) ==
  Syntax(<<<<"chroma", m.chroma>>>>,
         Coded(<<64 + Len(SelectSeq(A(pic, a) \o B(pic, a), LAMBDA n : n.intra /\ ~ IsPcm(n) /\ n.chroma # 0)),
                 67, 67>>, TruncatedBins(m.chroma, 3)), <<<<Ue, m.chroma>>>>)
RECURSIVE PatternOf(_)
PatternOf(luma) == IF luma = {} THEN 0 ELSE LET i == CHOOSE j \in luma : TRUE IN 2 ^ i + PatternOf(luma \ {i})
PatternSyntax(pic, a, m) ==
  LET pattern == PatternOf(m.luma) + 16 * m.chroma_coded
      table == IF m.intra THEN INTRA_CODED_BLOCK_PATTERNS_420 ELSE INTER_CODED_BLOCK_PATTERNS_420
  IN  Syntax(<<<<"cbp", m.luma, m.chroma_coded>>>>, PatternBins(pic, a, m),
             <<<<Ue, (CHOOSE k \in 1 .. 48 : table[k] = pattern) - 1>>>>)
\* The qp_delta before this macroblock in decoding order, in the same slice.
PreviousDelta(pic, a) == IF a = StartOf(pic, a) THEN 0 ELSE QpDelta(pic.mbs[a])
QpDeltaSyntax(pic, a, m) ==
  IF ~ HasQpDelta(m) THEN <<>>
  ELSE Syntax(<<<<"qp_delta", m.qp_delta>>>>,
              Coded(<<60 + Term(PreviousDelta(pic, a) # 0), 62, 63>>,
                    UnaryBins(IF m.qp_delta > 0 THEN 2 * m.qp_delta - 1 ELSE -2 * m.qp_delta)),
              <<<<Se, m.qp_delta>>>>)
BlockSyntax(pic, a, m, b) ==
  LET coefs == CavlcCoefficients(m, b)
      read == IF pic.cabac /\ NonZero(coefs) = 0 THEN <<>> ELSE coefs
  IN  Syntax(<< <<"block">> \o b \o <<read>> >>, IF pic.cabac THEN BlockBins(pic, a, b, coefs) ELSE <<>>,
             IF pic.cabac THEN <<>> ELSE <<<<BlockDescriptor(pic, a, b), coefs>>>>)
\* The blocks of a macroblock in the order of its syntax.
RegionBlocks(pic, m, region) ==
  CASE region \notin LumaBits(m) -> <<>>
    [] Uses8x8(m) /\ pic.cabac -> << <<Luma8x8, 0, region>> >>
    [] OTHER -> [k \in 1 .. 4 |-> <<LumaCategory(m), 0, 4 * region + k - 1>>]
BlocksOf(pic, m) ==
  (IF Is16x16(m) THEN << <<LumaDc, 0, 0>> >> ELSE <<>>)
    \o Flattened([region \in 1 .. 4 |-> RegionBlocks(pic, m, region - 1)])
    \o (IF ChromaBits(m) = 0 THEN <<>> ELSE << <<ChromaDc, 0, 0>>, <<ChromaDc, 1, 0>> >>)
    \o (IF ChromaBits(m) < 2 THEN <<>> ELSE [k \in 1 .. 8 |-> <<ChromaAc, (k - 1) \div 4, (k - 1) % 4>>])
BlocksSyntax(pic, a, m, blocks) == Each(Len(blocks), LAMBDA i : BlockSyntax(pic, a, m, blocks[i + 1]))
ResidualSyntax(pic, a, m) ==
  IF m.skip \/ IsPcm(m) THEN <<>> ELSE QpDeltaSyntax(pic, a, m) \o BlocksSyntax(pic, a, m, BlocksOf(pic, m))

PcmSyntax(m) == Syntax(<<<<"pcm", m.seed>>>>, <<<<Samples, m.seed>>>>, <<<<Samples, m.seed>>>>)
IntraSyntax(pic, a, m) ==
  CASE IsPcm(m) -> PcmSyntax(m)
    [] Is16x16(m) -> ChromaModeSyntax(pic, a, m)
    [] OTHER ->
         T8Syntax(pic, a, m, pic.t8) \o Each(IF m.t8 THEN 4 ELSE 16, LAMBDA i : ModeSyntax(m, i))
           \o ChromaModeSyntax(pic, a, m) \o PatternSyntax(pic, a, m)

SubTypeSyntax(pic, sub) == Syntax(<<<<"sub", sub>>>>, SubBins(pic, sub), <<<<Ue, sub>>>>)
RefCode(active, ref) == CASE active = 1 -> <<>> [] active = 2 -> <<<<Bit, 1 - ref>>>> [] OTHER -> <<<<Ue, ref>>>>
Motioned(pic, m, list, i) == InList(pic.type, m, list, i) /\ ~ DirectPart(pic.type, m, i)
RefSyntax(pic, a, m, list, i) ==
  IF ~ Motioned(pic, m, list, i) \/ RefsForced(pic, m) THEN <<>>
  ELSE Syntax(<<<<"ref", list, RefAt(m, pic.active, list, i)>>>>, RefBins(pic, a, m, list, i),
              RefCode(pic.active[list], RefAt(m, pic.active, list, i)))
DifferenceSyntax(pic, a, m, list, i, j) ==
  LET x == MvdAt(m, list, i, j, 1)
      y == MvdAt(m, list, i, j, 2)
  IN  Syntax(<<<<"mvd", list, x, y>>>>,
             MvdComponentBins(pic, a, m, list, i, j, 1) \o MvdComponentBins(pic, a, m, list, i, j, 2),
             << <<Se, x>>, <<Se, y>> >>)
DifferencesSyntax(pic, a, m, list, i) ==
  IF ~ Motioned(pic, m, list, i) THEN <<>>
  ELSE Each(NumSubMbPart(pic.type, m, i), LAMBDA j : DifferenceSyntax(pic, a, m, list, i, j))
InterSyntax(pic, a, m) ==
  LET parts == NumMbPart(pic.type, m)
      T8Present == pic.t8 /\ m.luma # {} /\ Allows8x8(pic.type, pic.inference, m)
  IN  (IF Quartered(pic.type, m) THEN Each(4, LAMBDA i : SubTypeSyntax(pic, m.subs[i + 1])) ELSE <<>>)
        \o Each(2 * parts, LAMBDA k : RefSyntax(pic, a, m, k \div parts, k % parts))
        \o Each(2 * parts, LAMBDA k : DifferencesSyntax(pic, a, m, k \div parts, k % parts))
        \o PatternSyntax(pic, a, m) \o T8Syntax(pic, a, m, T8Present)

(* Slices.                                                                      *)
SkipBins(pic, a, m) ==
  << <<(IF pic.type = "P" THEN 11 ELSE 24)
         + Len(SelectSeq(A(pic, a) \o B(pic, a), LAMBDA n : ~ n.skip)), Term(m.skip)>> >>
EndOf(pic, a) == IF a < pic.second THEN pic.second - 1 ELSE Width * Height - 1
\* The macroblocks skipped just before a.
RECURSIVE RunBefore(_, _)
RunBefore(pic, a) ==
  IF a > StartOf(pic, a) /\ pic.mbs[a].skip THEN 1 + RunBefore(pic, a - 1) ELSE 0
SkipSyntax(pic, a, m) ==
  IF pic.type = "I" THEN <<>>
  ELSE Syntax(IF m.skip THEN <<<<"skip">>>> ELSE <<>>, SkipBins(pic, a, m),
              IF ~ m.skip THEN <<<<Ue, RunBefore(pic, a)>>>>
              ELSE IF a = EndOf(pic, a) THEN <<<<Ue, RunBefore(pic, a) + 1>>>> ELSE <<>>)
MacroblockSyntax_(pic, a, m) ==
  SkipSyntax(pic, a, m)
    \o (IF m.skip THEN <<>>
        ELSE TypeSyntax(pic, a, m) \o (IF m.intra THEN IntraSyntax(pic, a, m) ELSE InterSyntax(pic, a, m)))
    \o ResidualSyntax(pic, a, m)
    \o Syntax(<<>>, <<<<Terminate, Term(a = EndOf(pic, a))>>>>, <<>>)
SliceSyntax(pic, first, last) ==
  Joined([i \in 1 .. last - first + 1 |-> MacroblockSyntax_(pic, first + i - 1, pic.mbs[first + i])], last - first + 1)

(* Reading a picture, with what an older picture has left in the grids.         *)
Addresses == 0 .. Width * Height - 1
StaleCells == [c \in (0 .. 4 * Width - 1) \X (0 .. 4 * Height - 1) |->
                 [slice |-> 1, ref |-> 2, direct |-> FALSE, mvd |-> <<70, 70>>]]
StaleCoded(coded) ==
  [e \in ({LumaGrid} \X (0 .. 4 * Width - 1) \X (0 .. 4 * Height - 1))
          \cup ({1, 2} \X (0 .. 2 * Width - 1) \X (0 .. 2 * Height - 1))
          \cup ((3 .. 5) \X (0 .. Width - 1) \X (0 .. Height - 1)) |-> [slice |-> 1, coded |-> coded]]
StaleMacroblocks ==
  [a \in Addresses |-> [slice |-> 1, skipped |-> FALSE, direct |-> FALSE, large |-> TRUE, chroma |-> 1,
                        luma |-> {}, chroma_coded |-> 2, t8 |-> TRUE]]
Stale(cabac) ==
  [done |-> StaleMacroblocks, cells |-> [list \in 0 .. 1 |-> StaleCells],
   coded |-> IF cabac THEN StaleCoded(TRUE) ELSE StaleCoded(16)]

SliceOf(pic, id, start) ==
  [id |-> id, first |-> 2, start |-> start, type |-> pic.type, active |-> pic.active, t8 |-> pic.t8,
   inference |-> pic.inference, width |-> Width, height |-> Height]
AllRead(p) == IF p.at = Len(p.items) + 1 THEN p ELSE Fail(p)
ReadWith(p, pic, slice, elements) ==
  AllRead(IF pic.cabac THEN ReadSlice(p, slice, Flattened([i \in 1 .. Len(elements) |-> elements[i].bins]))
          ELSE ReadCavlcSlice(p, slice, Flattened([i \in 1 .. Len(elements) |-> elements[i].codes])))
\* The macroblocks at which the slices of a picture start.
Starts(pic) == IF pic.second < Width * Height THEN <<0, pic.second>> ELSE <<0>>
SlicesSyntax(pic) == [k \in 1 .. Len(Starts(pic)) |-> SliceSyntax(pic, Starts(pic)[k], EndOf(pic, Starts(pic)[k]))]
RECURSIVE ReadSlices(_, _, _, _)
ReadSlices(p, pic, slices, k) ==
  IF k > Len(slices) THEN p
  ELSE ReadSlices(ReadWith(p, pic, SliceOf(pic, k + 1, Starts(pic)[k]), slices[k]), pic, slices, k + 1)
Outputs(elements) == Flattened([i \in 1 .. Len(elements) |-> elements[i].out])
Same(p, slices) == p.ok /\ p.out = Outputs(Flattened(slices))
ReadBack(pic, slices) == Same(ReadSlices(FreshState(Stale(pic.cabac)), pic, slices, 1), slices)

\* A picture of one or two slices is read as it was coded: every context and every
\* nC is taken from the right neighbours of the same slice, and every element is
\* read where, and only where, the syntax has it.
MacroblocksReadBack(pic) == ReadBack(pic, SlicesSyntax(pic))

(* Pictures: macroblocks of the kinds of a slice type; what else they hold      *)
(* follows from a seed.                                                         *)
Inter(number, subs, t8) == [skip |-> FALSE, intra |-> FALSE, number |-> number, subs |-> subs, t8 |-> t8]
Intra(number, t8) == [skip |-> FALSE, intra |-> TRUE, number |-> number, subs |-> <<>>, t8 |-> t8]
Skip == [skip |-> TRUE, intra |-> FALSE, number |-> 0, subs |-> <<>>, t8 |-> FALSE]
IKinds == <<Intra(0, FALSE), Intra(0, TRUE), Intra(1, FALSE), Intra(7, FALSE), Intra(24, FALSE), Intra(25, FALSE)>>
PKinds ==
  <<Skip, Inter(0, <<>>, FALSE), Inter(1, <<>>, TRUE), Inter(2, <<>>, FALSE), Inter(3, <<0, 1, 2, 3>>, FALSE),
    Inter(3, <<3, 2, 1, 0>>, FALSE), Inter(3, <<0, 0, 0, 0>>, TRUE), Intra(0, TRUE), Intra(10, FALSE),
    Intra(25, FALSE)>>
BKinds ==
  <<Skip, Inter(0, <<>>, TRUE), Inter(22, <<0, 1, 6, 9>>, FALSE), Inter(22, <<4, 2, 11, 0>>, FALSE),
    Inter(22, <<0, 3, 1, 2>>, TRUE), Inter(22, <<8, 5, 10, 12>>, FALSE), Inter(22, <<7, 0, 3, 10>>, FALSE),
    Intra(0, FALSE), Intra(13, FALSE), Intra(25, FALSE)>>
    \o [n \in 1 .. 21 |-> Inter(n, <<>>, n % 2 = 0)]
KindsOf(type) == CASE type = "I" -> IKinds [] type = "P" -> PKinds [] OTHER -> BKinds
Macroblock(type, kind, t8, inference, seed) ==
  [skip |-> kind.skip, intra |-> kind.intra, number |-> kind.number, subs |-> kind.subs,
   t8 |-> kind.t8 /\ t8 /\ (kind.intra \/ (~ kind.skip /\ Allows8x8(type, inference, kind))),
   luma |-> Chosen(<<0 .. 3, {}, {1}, {0, 2, 3}, {2}>>, seed), chroma |-> seed % 4, chroma_coded |-> (seed \div 2) % 3,
   qp_delta |-> Chosen(<<0, 3, -26, 0, 25, -1>>, seed), seed |-> seed]
Picture(type, cabac, kinds, second, active, t8, inference, seed) ==
  [type |-> type, cabac |-> cabac, second |-> second, active |-> [list \in 0 .. 1 |-> active[list + 1]],
   t8 |-> t8, inference |-> inference,
   mbs |-> [i \in 1 .. Width * Height |->
              Macroblock(type, Chosen(KindsOf(type), kinds[i]), t8, inference, seed + 3 * i + kinds[i])]]
\* Kinds next to each other, above and to the left, in one and two slices: every
\* pair, of the many in B slices every third.
PicturesOf(type, cabac) ==
  LET n == Len(KindsOf(type))
      Pairs == {kl \in (0 .. n - 1) \X (0 .. n - 1) : n > 12 => (kl[1] + kl[2]) % 3 = 0}
      Of(k, l) ==
        Picture(type, cabac, <<k, (k + l) \div 2, k + 1, l>>, 2 + ((k + l) % 3),
                <<1 + ((k + 2 * l) % 3), 2 + (l % 3)>>, l % 5 # 4, k % 2 = 0, k + 2 * l)
  IN  {Of(kl[1], kl[2]) : kl \in Pairs}
SomePictures ==
  UNION {PicturesOf(type, cabac) : type \in {"I", "P", "B"}, cabac \in {TRUE, FALSE}}
=============================================================================
