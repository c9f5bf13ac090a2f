------------------------------ MODULE NalFraming ------------------------------
(***************************************************************************)
(* How decv-h264 finds the payloads of NAL units: Annex B start codes,     *)
(* length prefixes, the avcC record, the NAL header byte and emulation     *)
(* prevention; and a writer that frames payloads in each of these ways.    *)
(* Bytes are the numbers 0 .. 255, payloads sequences of them.             *)
(***************************************************************************)
EXTENDS Integers, Sequences, FiniteSets
LOCAL INSTANCE SequencesExt
LOCAL INSTANCE FiniteSetsExt
LOCAL INSTANCE TLC

Ok(units) == [ok |-> TRUE, units |-> units]
Bad == [ok |-> FALSE, units |-> <<>>]

Sps == 7
Pps == 8

(***************************************************************************)
(* The parser.                                                             *)
(***************************************************************************)
\* A header byte with its top bit set is refused.
NalHeader(byte) == [ref_idc |-> (byte \div 32) % 4, type |-> byte % 32]
ParseHeader(unit) == unit[1] < 128

\* First bytes of the start codes 00 00 01, which never overlap.
find_start_codes(data) ==
  SelectSeq([i \in 1 .. Len(data) |-> i],
            LAMBDA i : i + 2 <= Len(data) /\ SubSeq(data, i, i + 2) = <<0, 0, 1>>)

KeepTrailingZeros(data) == data
trim_trailing_zero_bytes(data) ==
  SubSeq(data, 1, Max({0} \cup {i \in DOMAIN data : data[i] # 0}))

\* Only zero bytes may precede the first start code; no unit may be empty.
AnnexBUnits(data) ==
  LET starts == find_start_codes(data)
      End(k) == IF k = Len(starts) THEN Len(data) ELSE starts[k + 1] - 1
      units == [k \in DOMAIN starts |->
                  trim_trailing_zero_bytes(SubSeq(data, starts[k] + 3, End(k)))]
  IN  IF data = <<>> THEN Ok(<<>>)
      ELSE IF \/ starts = <<>>
              \/ \E i \in 1 .. starts[1] - 1 : data[i] # 0
              \/ \E k \in DOMAIN units : units[k] = <<>>
      THEN Bad ELSE Ok(units)

BigEndian(bytes) == FoldLeft(LAMBDA v, b : v * 256 + b, 0, bytes)

\* Fields of a length and its bytes, one after another from offset: the units
\* and where they end.  Count is -1 to read to the end of the data.
RECURSIVE Prefixed(_, _, _, _)
Prefixed(data, size, offset, count) ==
  LET length == BigEndian(SubSeq(data, offset + 1, offset + size))
      end == offset + size + length
      rest == Prefixed(data, size, end, count - 1)
  IN  IF count = 0 \/ (count < 0 /\ offset = Len(data)) THEN Ok(<<>>) @@ [end |-> offset]
      ELSE IF offset + size > Len(data) \/ length = 0 \/ end > Len(data) THEN Bad @@ [end |-> offset]
      ELSE [rest EXCEPT !.units = <<SubSeq(data, offset + size + 1, end)>> \o @]

LengthPrefixedUnits(data, length_size) ==
  LET read == Prefixed(data, length_size, 0, -1) IN [ok |-> read.ok, units |-> read.units]

OfType(units, type) == \A k \in DOMAIN units : ParseHeader(units[k]) /\ NalHeader(units[k][1]).type = type

\* The parameter sets of an AVCDecoderConfigurationRecord: at least one SPS,
\* then at least one PPS.  What a High profile record appends is not read.
parse_avcc(data) ==
  LET sequence == Prefixed(data, 2, 6, data[6] % 32)
      picture == Prefixed(data, 2, sequence.end + 1, data[sequence.end + 1])
  IN  IF \/ Len(data) < 7 \/ data[1] # 1 \/ data[5] < 252 \/ data[6] < 224
      THEN Bad @@ [length_size |-> 0]
      ELSE IF \/ data[6] % 32 = 0 \/ ~ sequence.ok \/ ~ OfType(sequence.units, Sps)
              \/ sequence.end = Len(data)
      THEN Bad @@ [length_size |-> 0]
      ELSE IF data[sequence.end + 1] = 0 \/ ~ picture.ok \/ ~ OfType(picture.units, Pps)
      THEN Bad @@ [length_size |-> 0]
      ELSE Ok(sequence.units \o picture.units) @@ [length_size |-> (data[5] % 4) + 1]

\* 00 00 03 becomes 00 00 before a byte of at most 3; 00 00 followed by 00, 01
\* or 02 cannot stand in a unit.
decode_rbsp(ebsp) ==
  LET Step(s, i) ==
        IF s.zeros < 2
        THEN [s EXCEPT !.bytes = Append(@, ebsp[i]),
                       !.zeros = IF ebsp[i] = 0 THEN s.zeros + 1 ELSE 0]
        ELSE IF ebsp[i] = 3
        THEN [s EXCEPT !.zeros = 0, !.ok = @ /\ i < Len(ebsp) /\ ebsp[i + 1] <= 3]
        ELSE [bytes |-> Append(s.bytes, ebsp[i]), zeros |-> 0, ok |-> s.ok /\ ebsp[i] > 3]
  IN  FoldLeft(Step, [bytes |-> <<>>, zeros |-> 0, ok |-> TRUE], [i \in DOMAIN ebsp |-> i])

\* [ok, units]: the payloads with their headers, as the decoder takes them.
Payloads(read) ==
  LET rbsp(k) == decode_rbsp(Tail(read.units[k]))
  IN  IF read.ok /\ \A k \in DOMAIN read.units : ParseHeader(read.units[k]) /\ rbsp(k).ok
      THEN Ok([k \in DOMAIN read.units |->
                 [header |-> NalHeader(read.units[k][1]), rbsp |-> rbsp(k).bytes]])
      ELSE Bad

(***************************************************************************)
(* The writer.  A unit is [header, rbsp]; an RBSP ends in the byte of its  *)
(* stop bit, so that it is neither empty nor ends in zero.                 *)
(***************************************************************************)
Ebsp(rbsp) ==
  LET Step(s, byte) ==
        LET escaped == s.zeros = 2 /\ byte <= 3
        IN  [bytes |-> s.bytes \o (IF escaped THEN <<3>> ELSE <<>>) \o <<byte>>,
             zeros |-> IF byte # 0 THEN 0 ELSE IF escaped THEN 1 ELSE s.zeros + 1]
  IN  FoldLeft(Step, [bytes |-> <<>>, zeros |-> 0], rbsp).bytes

Unit(unit) == <<unit.header.ref_idc * 32 + unit.header.type>> \o Ebsp(unit.rbsp)
Zeros(n) == [i \in 1 .. n |-> 0]
BigEndianBytes(value, size) == [i \in 1 .. size |-> (value \div 256 ^ (size - i)) % 256]
Prefix(bytes, size) == BigEndianBytes(Len(bytes), size) \o bytes

\* form is [kind, size]: with "annexb" size zeros pad every start code.
Framed(units, form) ==
  FlattenSeq([k \in DOMAIN units |->
    IF form.kind = "annexb" THEN Zeros(form.size) \o <<0, 0, 1>> \o Unit(units[k])
    ELSE Prefix(Unit(units[k]), form.size)])
Trailing(units, form) == IF form.kind = "annexb" /\ units # <<>> THEN Zeros(form.size) ELSE <<>>
Read(data, form) == Payloads(IF form.kind = "annexb" THEN AnnexBUnits(data)
                             ELSE LengthPrefixedUnits(data, form.size))

Record(units, size) ==
  LET Sets(type) == SelectSeq(units, LAMBDA u : u.header.type = type)
      Coded(sets) == FlattenSeq([k \in DOMAIN sets |-> Prefix(Unit(sets[k]), 2)])
  IN  <<1, 100, 0, 40, 252 + size - 1, 224 + Len(Sets(Sps))>> \o Coded(Sets(Sps))
        \o <<Len(Sets(Pps))>> \o Coded(Sets(Pps)) \o <<252, 248, 248, 0>>

\* The units that were framed are the units found, whatever zeros, escapes and
\* start code look-alikes their payloads hold; and a record gives its sets and
\* the size of the length fields (annex_b.rs, avcc.rs, rbsp.rs).
FramingReadBack(units, form) ==
  /\ Read(Framed(units, form) \o Trailing(units, form), form) = Ok(units)
  /\ LET sets == SelectSeq(units, LAMBDA u : u.header.type = Sps)
                   \o SelectSeq(units, LAMBDA u : u.header.type = Pps)
         record == parse_avcc(Record(units, form.size))
     IN  form.size > 0 =>
           IF {Sps, Pps} \subseteq {u.header.type : u \in Range(units)}
           THEN Payloads(record) = Ok(sets) /\ record.length_size = form.size
           ELSE ~ record.ok

\* Data cut in a length field or a unit, or framed units with a unit of no bytes,
\* are refused rather than read as something else.
CutRefused(units, form) ==
  LET data == Framed(units, form)
      ends == {0} \cup {Len(Framed(SubSeq(units, 1, k), form)) : k \in DOMAIN units}
  IN  form.kind = "length" =>
        /\ \A n \in 0 .. Len(data) : n \notin ends => ~ Read(SubSeq(data, 1, n), form).ok
        /\ ~ Read(data \o Zeros(form.size), form).ok
=============================================================================
