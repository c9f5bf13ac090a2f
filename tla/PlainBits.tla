------------------------------ MODULE PlainBits ------------------------------
(***************************************************************************)
(* Reading a bit string at a position, as the syntax of H.264 and VP9      *)
(* describes it: what BitReader promises whatever its cache holds.  bits   *)
(* is a sequence of 0 and 1; an answer is [ok, value, at], and a refused   *)
(* read moves nothing.  WordBits is the widest value.                      *)
(***************************************************************************)
EXTENDS Integers, Sequences

CONSTANT WordBits

Value(bits) ==
  LET v[k \in 0 .. Len(bits)] == IF k = 0 THEN 0 ELSE 2 * v[k - 1] + bits[k]
  IN  v[Len(bits)]
Answer(value, at) == [ok |-> TRUE, value |-> value, at |-> at]
Short(at) == [ok |-> FALSE, value |-> 0, at |-> at]

read_bits(bits, at, count) ==
  IF count <= WordBits /\ at + count <= Len(bits)
  THEN Answer(Value(SubSeq(bits, at + 1, at + count)), at + count) ELSE Short(at)

\* Zeros before the next one; the rest of the string when there is none.
LeadingZeros(bits, at) ==
  CHOOSE n \in 0 .. Len(bits) - at :
    /\ \A i \in 1 .. n : bits[at + i] = 0
    /\ at + n = Len(bits) \/ bits[at + n + 1] = 1

\* ue(v): n zeros, a one and n bits of the value plus one.
Suffixed(bits, at, n, suffix) ==
  IF suffix.ok /\ at + n < Len(bits) /\ 2 ^ n - 1 + suffix.value < 2 ^ WordBits
  THEN Answer(2 ^ n - 1 + suffix.value, suffix.at) ELSE Short(at)
Prefixed(bits, at, n) == Suffixed(bits, at, n, read_bits(bits, at + n + 1, n))
read_ue(bits, at) == Prefixed(bits, at, LeadingZeros(bits, at))

\* se(v): 0, 1, -1, 2, -2 and so on.
Signed(code) == IF code % 2 = 0 THEN -(code \div 2) ELSE (code + 1) \div 2
SignedAnswer(code, at) ==
  IF code.ok /\ Signed(code.value) < 2 ^ (WordBits - 1)
  THEN [code EXCEPT !.value = Signed(@)] ELSE Short(at)
read_se(bits, at) == SignedAnswer(read_ue(bits, at), at)
=============================================================================
