--------------------------- MODULE InterPrediction ---------------------------
(***************************************************************************)
(* Samples of a partition predicted from a reference picture, between its  *)
(* samples (inter_prediction.rs), and what clause 8.4.2.2 says they are.   *)
(* A plane is [width, height, rows]: rows[y][x] from 0.  Reads that do not *)
(* clip have no value outside it: what the code reads is a set of places   *)
(* of its own.  A partition is [x, y, width, height, mv], the vector in    *)
(* quarters of a luma sample.                                              *)
(***************************************************************************)
EXTENDS Integers, Sequences

None == <<>>
Some(v) == <<v>>
Clamp(v, low, high) == IF v < low THEN low ELSE IF v > high THEN high ELSE v
Byte(v) == Clamp(v, 0, 255)
Grid(w, h, Value(_, _)) == [y \in 0 .. h - 1 |-> [x \in 0 .. w - 1 |-> Value(x, y)]]

(* Samples, one at a time.                                                 *)
Inside(plane, x, y) == x \in 0 .. plane.width - 1 /\ y \in 0 .. plane.height - 1
sample_clipped(plane, x, y) ==
  plane.rows[Clamp(y, 0, plane.height - 1)][Clamp(x, 0, plane.width - 1)]
sample(plane, clip, x, y) == IF clip THEN sample_clipped(plane, x, y) ELSE plane.rows[y][x]
rounded_average(a, b) == (a + b + 1) \div 2
SixTap(s) == ((s[1] - 5 * s[2]) + (20 * s[3] + 20 * s[4])) + (s[6] - 5 * s[5])
horizontal_six_tap(plane, clip, x, y) == SixTap([i \in 1 .. 6 |-> sample(plane, clip, (x + i) - 3, y)])
half_horizontal(plane, clip, x, y) == Byte((horizontal_six_tap(plane, clip, x, y) + 16) \div 32)
half_vertical(plane, clip, x, y) ==
  Byte((SixTap([i \in 1 .. 6 |-> sample(plane, clip, x, (y + i) - 3)]) + 16) \div 32)
half_diagonal(plane, clip, x, y) ==
  Byte((SixTap([i \in 1 .. 6 |-> horizontal_six_tap(plane, clip, x, (y + i) - 3)]) + 512) \div 1024)
\* What a place between samples is the mean of: filters, and where they are applied.
H(dy) == <<"horizontal", 0, dy>>
V(dx) == <<"vertical", dx, 0>>
I(dx, dy) == <<"integer", dx, dy>>
D == <<"diagonal", 0, 0>>
LumaParts ==
  << << <<I(0, 0)>>,       <<I(0, 0), V(0)>>, <<V(0)>>,    <<I(0, 1), V(0)>> >>,
     << <<I(0, 0), H(0)>>, <<H(0), V(0)>>,    <<V(0), D>>, <<V(0), H(1)>> >>,
     << <<H(0)>>,          <<H(0), D>>,       <<D>>,       <<D, H(1)>> >>,
     << <<I(1, 0), H(0)>>, <<H(0), V(1)>>,    <<D, V(1)>>, <<V(1), H(1)>> >> >>
PartsAt(fx, fy) == LumaParts[fx + 1][fy + 1]
Mean(values) == IF Len(values) = 1 THEN values[1] ELSE rounded_average(values[1], values[2])
ScalarPart(plane, clip, x, y, kind) ==
  CASE kind = "integer" -> sample(plane, clip, x, y)
    [] kind = "horizontal" -> half_horizontal(plane, clip, x, y)
    [] kind = "vertical" -> half_vertical(plane, clip, x, y)
    [] kind = "diagonal" -> half_diagonal(plane, clip, x, y)
interpolate_luma_inner(plane, clip, x, y, fx, fy) ==
  LET parts == PartsAt(fx, fy)
  IN  Mean([i \in DOMAIN parts |-> ScalarPart(plane, clip, x + parts[i][2], y + parts[i][3], parts[i][1])])
\* With one fraction, the weights add up to eight.
interpolate_chroma_inner(plane, clip, x, y, fx, fy) ==
  LET a == sample(plane, clip, x, y)
      b == sample(plane, clip, x + 1, y)
      c == sample(plane, clip, x, y + 1)
      d == sample(plane, clip, x + 1, y + 1)
  IN  CASE fx = 0 /\ fy = 0 -> a
        [] fx # 0 /\ fy = 0 -> ((8 - fx) * a + fx * b + 4) \div 8
        [] fx = 0 /\ fy # 0 -> ((8 - fy) * a + fy * c + 4) \div 8
        [] OTHER -> ((8 - fx) * (8 - fy) * a + fx * (8 - fy) * b
                     + (8 - fx) * fy * c + fx * fy * d + 32) \div 64

(* Lanes of 16 bits, of bytes when packed.                                 *)
Signed16(v) == ((v + 32768) % 65536) - 32768
six_tap_raw(s) == Signed16(SixTap(s))
rounded_half(raw) == Byte(Signed16(raw + 16) \div 32)
HorizontalRaw(plane, x, y) == six_tap_raw([i \in 1 .. 6 |-> sample(plane, FALSE, (x + i) - 3, y)])
VerticalHalf(plane, x, y) ==
  rounded_half(six_tap_raw([i \in 1 .. 6 |-> sample(plane, FALSE, x, (y + i) - 3)]))
\* Multiplied and added as pairs into 32 bits, packed with saturation twice.
DiagonalHalf(plane, x, y) ==
  LET h == [i \in 0 .. 5 |-> HorizontalRaw(plane, x, (y + i) - 2)]
      sum == ((h[0] - 5 * h[1]) + (20 * h[2] + 20 * h[3])) + (h[5] - 5 * h[4])
  IN  Byte(Clamp((sum + 512) \div 1024, -32768, 32767))
AxisLane(plane, x, y, fx, fy) ==
  LET half == IF fy = 0 THEN rounded_half(HorizontalRaw(plane, x, y)) ELSE VerticalHalf(plane, x, y)
      fraction == IF fy = 0 THEN fx ELSE fy
      integer == CASE fraction = 1 -> sample(plane, FALSE, x, y)
                   [] fraction # 1 /\ fy = 0 -> sample(plane, FALSE, x + 1, y)
                   [] OTHER -> sample(plane, FALSE, x, y + 1)
  IN  IF fraction = 2 THEN half ELSE rounded_average(integer, half)
LanePart(plane, x, y, kind) ==
  CASE kind = "horizontal" -> rounded_half(HorizontalRaw(plane, x, y))
    [] kind = "vertical" -> VerticalHalf(plane, x, y)
    [] kind = "diagonal" -> DiagonalHalf(plane, x, y)
TwoDimensionalLane(plane, x, y, fx, fy) ==
  LET parts == PartsAt(fx, fy)
  IN  Mean([i \in DOMAIN parts |-> LanePart(plane, x + parts[i][2], y + parts[i][3], parts[i][1])])
ChromaLane(plane, x, y, fx, fy) ==
  LET a == sample(plane, FALSE, x, y)
      b == sample(plane, FALSE, x + 1, y)
      c == sample(plane, FALSE, x, y + 1)
      d == sample(plane, FALSE, x + 1, y + 1)
      weighted == CASE fx = 0 -> (8 - fx) * (8 - fy) * a + (8 - fx) * fy * c
                    [] fx # 0 /\ fy = 0 -> (8 - fx) * (8 - fy) * a + fx * (8 - fy) * b
                    [] OTHER -> ((8 - fx) * (8 - fy) * a + fx * (8 - fy) * b)
                                + ((8 - fx) * fy * c + fx * fy * d)
  IN  Byte(((weighted + 32) % 65536) \div 64)

(* Partitions.  A build with lanes takes eight samples at a time, or with   *)
(* AVX2 sixteen; every lane does the same.                                 *)
Builds == {"avx2", "sse2", "scalar"}
predict_luma_axis_avx2(plane, x, y, fx, fy) == AxisLane(plane, x, y, fx, fy)
predict_luma_axis_sse2(plane, x, y, fx, fy) == AxisLane(plane, x, y, fx, fy)
copy_fixed_rows(plane, x, y) == plane.rows[y][x]
predict_luma(build, clip, p, plane, rx, ry, fx, fy) ==
  LET one_axis == (fx = 0) # (fy = 0)
      One(x, y) ==
        CASE ~ clip /\ fx = 0 /\ fy = 0 -> copy_fixed_rows(plane, rx + x, ry + y)
          [] ~ clip /\ p.width = 16 /\ one_axis /\ build = "avx2" ->
               predict_luma_axis_avx2(plane, rx + x, ry + y, fx, fy)
          [] ~ clip /\ <<p.width, build>> \in {<<8, "avx2">>, <<8, "sse2">>, <<16, "sse2">>} /\ one_axis ->
               predict_luma_axis_sse2(plane, rx + x, ry + y, fx, fy)
          [] ~ clip /\ p.width \in {8, 16} /\ fx # 0 /\ fy # 0 /\ build # "scalar" ->
               TwoDimensionalLane(plane, rx + x, ry + y, fx, fy)
          [] OTHER -> interpolate_luma_inner(plane, clip, rx + x, ry + y, fx, fy)
  IN  Grid(p.width, p.height, One)
\* Eight luma samples are four of each chroma plane, taken as a pair.
predict_chroma_pair_sse2(plane, x, y, fx, fy) == ChromaLane(plane, x, y, fx, fy)
predict_chroma_bilinear_avx2(plane, x, y, fx, fy) == ChromaLane(plane, x, y, fx, fy)
predict_chroma_bilinear_sse2(plane, x, y, fx, fy) == ChromaLane(plane, x, y, fx, fy)
predict_chroma(build, clip, p, plane, rx, ry, fx, fy) ==
  LET lanes == ~ clip /\ (fx # 0 \/ fy # 0) /\ build # "scalar"
      One(x, y) ==
        CASE ~ clip /\ fx = 0 /\ fy = 0 -> copy_fixed_rows(plane, rx + x, ry + y)
          [] lanes /\ p.width = 8 -> predict_chroma_pair_sse2(plane, rx + x, ry + y, fx, fy)
          [] lanes /\ p.width = 16 /\ build = "avx2" -> predict_chroma_bilinear_avx2(plane, rx + x, ry + y, fx, fy)
          [] lanes /\ p.width = 16 /\ build = "sse2" -> predict_chroma_bilinear_sse2(plane, rx + x, ry + y, fx, fy)
          [] OTHER -> interpolate_chroma_inner(plane, clip, rx + x, ry + y, fx, fy)
  IN  Grid(p.width \div 2, p.height \div 2, One)
validate_partition(p) ==
  /\ p.width \in 4 .. 16 /\ p.height \in 4 .. 16
  /\ \A v \in {p.x, p.y, p.width, p.height} : v % 4 = 0
  /\ p.x + p.width <= 16 /\ p.y + p.height <= 16
\* margins: left, right, top and bottom.
interpolation_window_is_inside(x, y, w, h, plane, margins) ==
  /\ x >= margins[1] /\ x + (w - 1) + margins[2] < plane.width
  /\ y >= margins[3] /\ y + (h - 1) + margins[4] < plane.height
LumaMargins(fx, fy) ==
  << IF fx = 0 THEN 0 ELSE 2, IF fx = 0 THEN 0 ELSE 3, IF fy = 0 THEN 0 ELSE 2, IF fy = 0 THEN 0 ELSE 3 >>
ChromaMargins(fx, fy) == << 0, IF fx # 0 THEN 1 ELSE 0, 0, IF fy # 0 THEN 1 ELSE 0 >>
CurrentX(mb, p) == mb[1] * 16 + p.x
CurrentY(mb, p) == mb[2] * 16 + p.y
LumaOrigin(mb, p) == << CurrentX(mb, p) + (p.mv[1] \div 4), CurrentY(mb, p) + (p.mv[2] \div 4) >>
ChromaOrigin(mb, p) ==
  << (CurrentX(mb, p) \div 2) + (p.mv[1] \div 8), (CurrentY(mb, p) \div 2) + (p.mv[2] \div 8) >>
LumaIsInterior(picture, mb, p) ==
  interpolation_window_is_inside(LumaOrigin(mb, p)[1], LumaOrigin(mb, p)[2], p.width, p.height,
    picture.luma, LumaMargins(p.mv[1] % 4, p.mv[2] % 4))
ChromaIsInterior(picture, mb, p) ==
  interpolation_window_is_inside(ChromaOrigin(mb, p)[1], ChromaOrigin(mb, p)[2], p.width \div 2, p.height \div 2,
    picture.cb, ChromaMargins(p.mv[1] % 8, p.mv[2] % 8))

(* What is read without clipping, which the windows above are to contain: *)
(* places from a sample's own on, whether its value needs them or not.     *)
PartReads(kind) ==
  CASE kind = "integer" -> {<<0, 0>>}
    [] kind = "horizontal" -> (-2 .. 3) \X {0}
    [] kind = "vertical" -> {0} \X (-2 .. 3)
    [] kind = "diagonal" -> (-2 .. 3) \X (-2 .. 3)
LumaReads(fx, fy) ==
  UNION {{<<r[1] + part[2], r[2] + part[3]>> : r \in PartReads(part[1])} :
           part \in {<<"integer", 0, 0>>} \cup {PartsAt(fx, fy)[i] : i \in DOMAIN PartsAt(fx, fy)}}
\* One by one, the next column and the next row are read for any fraction.
ChromaReadsOneByOne(fx, fy) ==
  {<<0, 0>>} \cup (IF fx = 0 /\ fy = 0 THEN {} ELSE {<<1, 0>>, <<0, 1>>})
             \cup (IF fx = 0 \/ fy = 0 THEN {} ELSE {<<1, 1>>})
ChromaReadsInLanes(fx, fy) == (0 .. IF fx = 0 THEN 0 ELSE 1) \X (0 .. IF fy = 0 THEN 0 ELSE 1)
ChromaOneByOne(build, p) == build = "scalar" \/ p.width = 4
ChromaReads(build, p, fx, fy) ==
  IF ChromaOneByOne(build, p) THEN ChromaReadsOneByOne(fx, fy) ELSE ChromaReadsInLanes(fx, fy)
\* Every sample of a block reads inside the plane when its corners do.
AllInside(plane, origin, w, h, reads) ==
  \A r \in reads : /\ Inside(plane, origin[1] + r[1], origin[2] + r[2])
                   /\ Inside(plane, origin[1] + w - 1 + r[1], origin[2] + h - 1 + r[2])
LumaFootprintInside(picture, mb, p) ==
  LumaIsInterior(picture, mb, p) =>
    AllInside(picture.luma, LumaOrigin(mb, p), p.width, p.height, LumaReads(p.mv[1] % 4, p.mv[2] % 4))
ChromaFootprintInside(build, picture, mb, p) ==
  ChromaIsInterior(picture, mb, p) =>
    AllInside(picture.cb, ChromaOrigin(mb, p), p.width \div 2, p.height \div 2,
              ChromaReads(build, p, p.mv[1] % 8, p.mv[2] % 8))
FootprintInside(build, picture, mb, p) ==
  LumaFootprintInside(picture, mb, p) /\ ChromaFootprintInside(build, picture, mb, p)

predict_inter_420(build, picture, mb, p) ==
  LET luma == LumaOrigin(mb, p)
      chroma == ChromaOrigin(mb, p)
      Chroma(plane) == predict_chroma(build, ~ ChromaIsInterior(picture, mb, p), p, plane, chroma[1], chroma[2],
                                      p.mv[1] % 8, p.mv[2] % 8)
  IN  IF \/ ~ validate_partition(p)
         \/ CurrentX(mb, p) + p.width > picture.luma.width
         \/ CurrentY(mb, p) + p.height > picture.luma.height
      THEN None
      ELSE Some([luma |-> predict_luma(build, ~ LumaIsInterior(picture, mb, p), p, picture.luma, luma[1], luma[2],
                                       p.mv[1] % 4, p.mv[2] % 4),
                 cb |-> Chroma(picture.cb), cr |-> Chroma(picture.cr)])
\* A whole macroblock that moves by whole samples, in chroma too.
CopiedMacroblock(picture, luma, chroma) ==
  LET Luma(x, y) == copy_fixed_rows(picture.luma, luma[1] + x, luma[2] + y)
      Cb(x, y) == copy_fixed_rows(picture.cb, chroma[1] + x, chroma[2] + y)
      Cr(x, y) == copy_fixed_rows(picture.cr, chroma[1] + x, chroma[2] + y)
  IN  [luma |-> Grid(16, 16, Luma), cb |-> Grid(8, 8, Cb), cr |-> Grid(8, 8, Cr)]
copy_zero_motion(picture, mb) ==
  CopiedMacroblock(picture, <<mb[1] * 16, mb[2] * 16>>, <<(mb[1] * 16) \div 2, (mb[2] * 16) \div 2>>)
Whole(mv) == [x |-> 0, y |-> 0, width |-> 16, height |-> 16, mv |-> mv]
\* None when it does not apply, Some(None) when it is refused.
try_copy_integer_macroblock(picture, mb, mv) ==
  LET whole == Whole(mv) IN
  CASE mv[1] % 8 # 0 \/ mv[2] % 8 # 0 -> None
    [] \/ mb[1] * 16 + 16 > picture.luma.width
       \/ mb[2] * 16 + 16 > picture.luma.height -> Some(None)
    [] mv = <<0, 0>> -> Some(Some(copy_zero_motion(picture, mb)))
    [] ~ (LumaIsInterior(picture, mb, whole) /\ ChromaIsInterior(picture, mb, whole)) -> None
    [] OTHER -> Some(Some(CopiedMacroblock(picture, LumaOrigin(mb, whole), ChromaOrigin(mb, whole))))

(* What the standard says.  A place of the picture is in quarters of a luma *)
(* sample, or eighths of a chroma sample; the reference goes on beyond its *)
(* edges.  The letters are those of its figures.                           *)
At(plane, x, y) == plane.rows[Clamp(y, 0, plane.height - 1)][Clamp(x, 0, plane.width - 1)]
\* The two samples that a place between samples is the mean of.
Pairs ==
  << << <<"G", "G">>, <<"G", "h">>, <<"h", "h">>, <<"M", "h">> >>,
     << <<"G", "b">>, <<"b", "h">>, <<"h", "j">>, <<"h", "s">> >>,
     << <<"b", "b">>, <<"b", "j">>, <<"j", "j">>, <<"j", "s">> >>,
     << <<"H", "b">>, <<"b", "m">>, <<"j", "m">>, <<"m", "s">> >> >>
LumaAsDefined(plane, px, py) ==
  LET x == px \div 4
      y == py \div 4
      Across(dx, dy) == SixTap([i \in 1 .. 6 |-> At(plane, ((x + dx) + i) - 3, y + dy)])
      Down(dx, dy) == SixTap([i \in 1 .. 6 |-> At(plane, x + dx, ((y + dy) + i) - 3)])
      Half(v) == Byte((v + 16) \div 32)
      pair == Pairs[1 + (px % 4)][1 + (py % 4)]
      values == [i \in 1 .. 2 |->
        CASE pair[i] = "G" -> At(plane, x, y)
          [] pair[i] = "H" -> At(plane, x + 1, y)
          [] pair[i] = "M" -> At(plane, x, y + 1)
          [] pair[i] = "b" -> Half(Across(0, 0))
          [] pair[i] = "s" -> Half(Across(0, 1))
          [] pair[i] = "h" -> Half(Down(0, 0))
          [] pair[i] = "m" -> Half(Down(1, 0))
          [] pair[i] = "j" -> Byte((SixTap([k \in 1 .. 6 |-> Down(k - 3, 0)]) + 512) \div 1024)]
  IN  (values[1] + values[2] + 1) \div 2
ChromaAsDefined(plane, px, py) ==
  LET x == px \div 8
      y == py \div 8
      fx == px % 8
      fy == py % 8
  IN  ((8 - fx) * (8 - fy) * At(plane, x, y) + fx * (8 - fy) * At(plane, x + 1, y)
       + (8 - fx) * fy * At(plane, x, y + 1) + fx * fy * At(plane, x + 1, y + 1) + 32) \div 64
AsPredicted(picture, mb, p, out) ==
  LET Luma(x, y) == LumaAsDefined(picture.luma, 4 * (CurrentX(mb, p) + x) + p.mv[1], 4 * (CurrentY(mb, p) + y) + p.mv[2])
      Cb(x, y) == ChromaAsDefined(picture.cb, 4 * CurrentX(mb, p) + 8 * x + p.mv[1], 4 * CurrentY(mb, p) + 8 * y + p.mv[2])
      Cr(x, y) == ChromaAsDefined(picture.cr, 4 * CurrentX(mb, p) + 8 * x + p.mv[1], 4 * CurrentY(mb, p) + 8 * y + p.mv[2])
  IN  out = [luma |-> Grid(p.width, p.height, Luma), cb |-> Grid(p.width \div 2, p.height \div 2, Cb),
             cr |-> Grid(p.width \div 2, p.height \div 2, Cr)]

\* Pictures of four macroblocks: unrelated samples, and steps that drive every filter
\* beyond its range.
Noise(x, y, k) == ((37 * x + 61 * y) * (x + 3 * y + k) + 11 * k) % 256
Steps(x, y, k) == IF ((x + k) % 4 < 2) # (y % 4 < 2) THEN 255 ELSE 0
Stripes(x, y, k) == IF (x + 2 * y + k) % 7 < 3 THEN 250 ELSE 4
PlaneOf(w, h, Value(_, _, _), k) ==
  [width |-> w, height |-> h, rows |-> Grid(w, h, LAMBDA x, y : Value(x, y, k))]
PictureOf(Value(_, _, _)) ==
  [luma |-> PlaneOf(32, 32, Value, 1), cb |-> PlaneOf(16, 16, Value, 2), cr |-> PlaneOf(16, 16, Value, 3)]
Pictures == <<PictureOf(Noise), PictureOf(Steps), PictureOf(Stripes)>>
Partition(x, y, w, h, mv) == [x |-> x, y |-> y, width |-> w, height |-> h, mv |-> mv]
Case(build, k, mb, p) == [build |-> build, picture |-> 1 + (k % 3), mb |-> mb, p |-> p]
\* Every fraction, for every width and build.
Fractions ==
  {Case(b, mv[1] + 2 * mv[2], <<0, 1>>, Partition(s[1], s[2], s[3], s[4], mv)) : b \in Builds,
     s \in {<<8, 4, 4, 4>>, <<8, 0, 8, 4>>, <<0, 0, 16, 8>>}, mv \in (8 .. 15) \X (-24 .. -17)}
\* Windows that leave the picture on every side by every number of samples.
Edges ==
  {Case("scalar", mv[1], <<1, 0>>, Partition(4, 4, 4, 4, mv)) :
     mv \in ((-104 .. 60) \X {-7, 3, 80}) \cup ({-5, 6, 41} \X (-40 .. 104))}
\* The other shapes, on and off the picture.
Shapes ==
  {Case(b, mv[1] + mv[2], <<0, 1>>, Partition(s[1], s[2], s[3], s[4], mv)) : b \in Builds,
     s \in {<<0, 0, 16, 16>>, <<0, 8, 16, 8>>, <<8, 0, 8, 16>>, <<4, 12, 4, 4>>},
     mv \in {<<18, -17>>, <<21, -24>>, <<24, -30>>, <<63, -60>>, <<-9, 5>>}}
Refused ==
  {Case("scalar", 0, m, Partition(s[1], s[2], s[3], s[4], <<0, 0>>)) : m \in {<<0, 0>>, <<2, 0>>, <<1, 2>>},
     s \in {<<0, 0, 16, 16>>, <<12, 8, 4, 4>>, <<2, 0, 4, 4>>, <<12, 0, 8, 4>>, <<0, 0, 20, 4>>, <<0, 4, 4, 16>>}}
Copies ==
  {Case("copy", mv[1], m, Whole(<<4 * mv[1], 8 * mv[2]>>)) : m \in {<<0, 0>>, <<1, 1>>, <<0, 2>>},
     mv \in ((-9 .. 9) \cup {-18, 16, 18}) \X {-8, -3, 0, 2, 8}}
SomeInputs == Fractions \cup Edges \cup Shapes \cup Refused \cup Copies

InPicture(mb, p) == mb[1] \in 0 .. 1 /\ mb[2] \in 0 .. 1 /\ validate_partition(p)
\* The block ends at the plane's edge in the direction it has no fraction in.
TouchesEdge(picture, mb, p) ==
  \/ /\ p.mv[1] % 8 # 0 /\ p.mv[2] % 8 = 0
     /\ ChromaOrigin(mb, p)[2] + p.height \div 2 = picture.cb.height
  \/ /\ p.mv[1] % 8 = 0 /\ p.mv[2] % 8 # 0
     /\ ChromaOrigin(mb, p)[1] + p.width \div 2 = picture.cb.width
\* The only reads outside the plane are those of chroma samples, one by one, of a block
\* with a fraction in one direction that touches the edge in the other: what those
\* samples become is left open.
OutsideOnlyThere(picture, input) ==
  /\ LumaFootprintInside(picture, input.mb, input.p)
  /\ ChromaOneByOne(input.build, input.p) /\ TouchesEdge(picture, input.mb, input.p)
\* A predicted partition reads inside the planes and has the samples that are defined,
\* on and beyond the picture, in every build, and one outside the picture is refused.
PredictedAsDefined(picture, input) ==
  CASE ~ InPicture(input.mb, input.p) ->
         predict_inter_420(input.build, picture, input.mb, input.p) = None
    [] InPicture(input.mb, input.p) /\ FootprintInside(input.build, picture, input.mb, input.p) ->
         LET out == predict_inter_420(input.build, picture, input.mb, input.p)
         IN  out # None /\ AsPredicted(picture, input.mb, input.p, out[1])
    [] OTHER -> OutsideOnlyThere(picture, input)
\* A macroblock that moves by whole samples of chroma and stays inside is copied, which
\* is its prediction.
CopiedAsDefined(picture, input, out) ==
  LET whole == \A i \in 1 .. 2 : input.p.mv[i] % 8 = 0
      stays == \A i \in 1 .. 2 : (16 * input.mb[i]) + (input.p.mv[i] \div 4) \in 0 .. 16
  IN  CASE ~ whole -> out = None
        [] whole /\ ~ InPicture(input.mb, input.p) -> out = Some(None)
        [] OTHER -> IF stays THEN out # None /\ out[1] # None /\ AsPredicted(picture, input.mb, input.p, out[1][1])
                    ELSE out = None
InterPredictionAsDefined(input) ==
  LET picture == Pictures[input.picture] IN
  IF input.build = "copy"
  THEN CopiedAsDefined(picture, input, try_copy_integer_macroblock(picture, input.mb, input.p.mv))
  ELSE PredictedAsDefined(picture, input)
\* What the code reads without clipping lies in the plane.
FootprintValidated(input) ==
  input.build # "copy" /\ InPicture(input.mb, input.p) =>
    FootprintInside(input.build, Pictures[input.picture], input.mb, input.p)
=============================================================================
