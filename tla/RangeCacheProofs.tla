-------------------------- MODULE RangeCacheProofs --------------------------
(***************************************************************************)
(* Proofs about the block cache, for every set of threads, source length,  *)
(* block size, capacity and set of calls.  RInv is inductive.              *)
(***************************************************************************)
EXTENDS RangeCache, TLAPS, FiniteSetTheorems, SequenceTheorems,
        WellFoundedInduction

----------
(* The inductive invariant *)

\* The entries of its span a thread still has to complete or fail.
Todo(t) ==
  IF pc[t] \in {"reserve", "fetch", "complete", "remove", "fail"}
  THEN done[t] + 1 .. Len(span[t]) ELSE {}

BlockSource(b) == SourceBytes(b * BlockSize, BlockEnd(b))

\* What each program counter says about the thread's own variables.
ThreadControl(t) ==
  /\ done[t] <= Len(span[t])
  /\ pc[t] # "idle" =>
       /\ Clipped(request[t]) > 0
       /\ last[t] = LastBlock(request[t])
       /\ cursor[t] <= last[t]
       /\ request[t].kind = "read" =>
            /\ Len(buffer[t]) < Requested(request[t])
            /\ cursor[t] = Position(t) \div BlockSize
  /\ pc[t] = "reserve" =>
       /\ locked = {t}
       /\ done[t] = 0
       /\ span[t] = << >> => cursor[t] \notin DOMAIN blocks
       /\ Through(t) <= last[t]
  /\ pc[t] \in {"fetch", "complete", "remove", "fail"} =>
       /\ done[t] < Len(span[t])
       /\ Through(t) <= last[t]
  /\ pc[t] \in {"fetch", "remove"} => done[t] = 0
  /\ pc[t] = "trim" =>
       /\ done[t] = Len(span[t])
       /\ span[t] # << >>
       /\ Through(t) <= last[t]

Control == \A t \in Threads : ThreadControl(t)

\* Entries to be settled are not settled yet and belong to one thread each.
Identity ==
  /\ \A t \in Threads : \A i \in Todo(t) : span[t][i] \notin Settled
  /\ \A t, u \in Threads : \A i \in Todo(t), j \in Todo(u) :
       span[t][i] = span[u][j] => t = u /\ i = j

\* The entry of a cached or awaited block holds, or will hold, its own bytes.
Matching ==
  /\ \A b \in DOMAIN blocks :
       /\ blocks[b].entry \in DOMAIN ready
            => ready[blocks[b].entry] = BlockSource(b)
       /\ \A u \in Threads : \A i \in Todo(u) :
            span[u][i] = blocks[b].entry => b = cursor[u] + i - 1
  /\ \A t \in Threads : pc[t] = "wait" =>
       /\ waiting[t] \in EntryIds
       /\ waiting[t] \in DOMAIN ready
            => ready[waiting[t]] = BlockSource(cursor[t])
       /\ \A u \in Threads : \A i \in Todo(u) :
            span[u][i] = waiting[t] => cursor[t] = cursor[u] + i - 1
  /\ \A t \in Threads : pc[t] \in {"complete", "trim"} /\ done[t] >= 1 =>
       /\ span[t][1] \in DOMAIN ready
       /\ ready[span[t][1]] = BlockSource(cursor[t])

\* Entries are out of the cache before they are failed.
Removed ==
  /\ FailuresAreNotCached
  /\ \A t \in Threads : pc[t] = "fail" =>
       \A i \in Todo(t) : \A b \in DOMAIN blocks : blocks[b].entry # span[t][i]

RInv ==
  TypeOK /\ Control /\ Identity /\ Matching /\ Removed /\ InFlightIsShared
    /\ ReadsAreExact

----------
(* Arithmetic *)

LEMMA DivMod ==
  ASSUME NEW n \in Nat, NEW d \in Nat \ {0}
  PROVE  /\ n \div d \in Nat
         /\ n % d \in 0 .. d - 1
         /\ n = (n \div d) * d + (n % d)
  BY SMTT(30)

LEMMA TimesMonotone ==
  ASSUME NEW a \in Int, NEW b \in Int, NEW d \in Nat, a <= b
  PROVE  a * d <= b * d
  BY SMTT(30)

LEMMA DivMonotone ==
  ASSUME NEW a \in Nat, NEW b \in Nat, NEW d \in Nat \ {0}, a <= b
  PROVE  a \div d <= b \div d
<1>1. SUFFICES ASSUME b \div d + 1 <= a \div d PROVE FALSE
  BY DivMod
<1>2. (b \div d + 1) * d <= (a \div d) * d
  BY <1>1, DivMod, TimesMonotone
<1> QED BY <1>2, DivMod

\* The block of a position, and the position inside it.
LEMMA BlockOfPosition ==
  ASSUME NEW n \in Nat
  PROVE  /\ n \div BlockSize \in Nat
         /\ (n \div BlockSize) * BlockSize \in Nat
         /\ (n \div BlockSize) * BlockSize <= n
         /\ n < (n \div BlockSize) * BlockSize + BlockSize
         /\ n % BlockSize = n - (n \div BlockSize) * BlockSize
         /\ n % BlockSize \in Nat
<1>1. /\ n \div BlockSize \in Nat
      /\ n % BlockSize \in 0 .. BlockSize - 1
      /\ n = (n \div BlockSize) * BlockSize + (n % BlockSize)
  BY DivMod, ConfigAssumption
<1> QED BY <1>1, ConfigAssumption

\* A request that is not empty once clipped lies inside the source.
LEMMA RequestFacts ==
  ASSUME NEW req \in Request, Clipped(req) > 0
  PROVE  /\ Requested(req) \in Nat \ {0}
         /\ Requested(req) <= Clipped(req)
         /\ req.offset + Clipped(req) <= Length
         /\ req.kind = "read" => Requested(req) = Clipped(req)
         /\ LastBlock(req) \in Nat
         /\ LastBlock(req) * BlockSize < Length
         /\ req.offset \div BlockSize \in Nat
         /\ req.offset \div BlockSize <= LastBlock(req)
<1> DEFINE first == req.offset \div BlockSize
<1>0. req.offset \in Nat /\ req.length \in Nat
  BY DEF Request
<1>1. /\ Clipped(req) \in Nat \ {0}
      /\ req.offset + Clipped(req) <= Length
  BY <1>0, ConfigAssumption DEF Clipped, Least
<1>2. /\ first \in Nat
      /\ (first + 1) * BlockSize > req.offset
  <2>1. first \in Nat /\ req.offset < first * BlockSize + BlockSize
    BY <1>0, BlockOfPosition
  <2> QED BY <2>1, ConfigAssumption
<1>3. WindowEnd(req) \in Nat /\ WindowEnd(req) > req.offset
  <2>1. (first + 1) * BlockSize <= (first + MaxBlocks) * BlockSize
    BY <1>2, TimesMonotone, ConfigAssumption
  <2>2. (first + MaxBlocks) * BlockSize \in Nat
    BY <1>2, ConfigAssumption
  <2> QED BY <1>0, <1>2, <2>1, <2>2, ConfigAssumption DEF WindowEnd
<1>4. /\ Requested(req) \in Nat \ {0}
      /\ Requested(req) <= Clipped(req)
      /\ req.kind = "read" => Requested(req) = Clipped(req)
  BY <1>0, <1>1, <1>3, ConfigAssumption DEF Requested, Least
<1>5. req.offset + Requested(req) - 1 \in Nat
  BY <1>0, <1>4
<1>6. /\ LastBlock(req) \in Nat
      /\ LastBlock(req) * BlockSize <= req.offset + Requested(req) - 1
  <2>1. LastBlock(req) = (req.offset + Requested(req) - 1) \div BlockSize
    BY DEF LastBlock
  <2> QED BY <1>5, <2>1, BlockOfPosition
<1>7. first <= LastBlock(req)
  <2>1. req.offset <= req.offset + Requested(req) - 1
    BY <1>0, <1>4
  <2> QED BY <1>0, <1>5, <2>1, DivMonotone, ConfigAssumption DEF LastBlock
<1>8. LastBlock(req) * BlockSize < Length
  <2>1. LastBlock(req) * BlockSize \in Nat
    BY <1>6, ConfigAssumption
  <2> QED BY <1>0, <1>1, <1>4, <1>6, <2>1, ConfigAssumption
<1> QED BY <1>1, <1>2, <1>4, <1>6, <1>7, <1>8

\* Ranges of the source are sequences that can be sliced and concatenated.
LEMMA SourceBytesFacts ==
  ASSUME NEW lo \in Nat, NEW hi \in Nat, lo <= hi
  PROVE  /\ SourceBytes(lo, hi) \in Seq(Nat)
         /\ Len(SourceBytes(lo, hi)) = hi - lo
         /\ \A i \in 1 .. hi - lo : SourceBytes(lo, hi)[i] = lo + i - 1
<1> DEFINE n == hi - lo
<1>1. n \in Nat /\ \A i \in 1 .. n : lo + i - 1 \in Nat
  OBVIOUS
<1>2. SourceBytes(lo, hi) = [i \in 1 .. n |-> lo + i - 1]
  BY DEF SourceBytes
<1> HIDE DEF n
<1>3. /\ SourceBytes(lo, hi) \in Seq(Nat)
      /\ Len(SourceBytes(lo, hi)) = n
      /\ \A i \in 1 .. n : SourceBytes(lo, hi)[i] = lo + i - 1
  BY <1>1, <1>2
<1> QED BY <1>3 DEF n

LEMMA SourceSlice ==
  ASSUME NEW lo \in Nat, NEW hi \in Nat, NEW a \in Nat, NEW z \in Nat,
         lo <= a, a <= z, z <= hi
  PROVE  SubSeq(SourceBytes(lo, hi), a - lo + 1, z - lo) = SourceBytes(a, z)
<1> DEFINE s == SourceBytes(lo, hi)
           r == SubSeq(s, a - lo + 1, z - lo)
<1>1. \A i \in 1 .. hi - lo : s[i] = lo + i - 1
  BY SourceBytesFacts
<1>2. \A i \in a - lo + 1 .. z - lo : s[i] \in Nat
  BY <1>1
<1> HIDE DEF s
<1>3. /\ r \in Seq(Nat)
      /\ Len(r) = IF a - lo + 1 <= z - lo THEN (z - lo) - (a - lo + 1) + 1 ELSE 0
      /\ \A i \in 1 .. (z - lo) - (a - lo + 1) + 1 : r[i] = s[(a - lo + 1) + i - 1]
  <2>1. a - lo + 1 \in Int /\ z - lo \in Int
    OBVIOUS
  <2> QED BY <1>2, <2>1, SubSeqProperties
<1>4. Len(r) = z - a /\ \A i \in 1 .. z - a : r[i] = a + i - 1
  <2> HIDE DEF r
  <2> QED BY <1>1, <1>3
<1>5. SourceBytes(a, z) \in Seq(Nat) /\ Len(SourceBytes(a, z)) = z - a
      /\ \A i \in 1 .. z - a : SourceBytes(a, z)[i] = a + i - 1
  BY SourceBytesFacts
<1> HIDE DEF r
<1>6. r = SourceBytes(a, z)
  BY <1>3, <1>4, <1>5, SeqEqual
<1> QED BY <1>6 DEF r, s

LEMMA SourceConcat ==
  ASSUME NEW a \in Nat, NEW b \in Nat, NEW c \in Nat, a <= b, b <= c
  PROVE  SourceBytes(a, b) \o SourceBytes(b, c) = SourceBytes(a, c)
<1> DEFINE s == SourceBytes(a, b)
           r == SourceBytes(b, c)
           w == SourceBytes(a, c)
<1>1. s \in Seq(Nat) /\ Len(s) = b - a /\ \A i \in 1 .. b - a : s[i] = a + i - 1
  BY SourceBytesFacts
<1>2. r \in Seq(Nat) /\ Len(r) = c - b /\ \A i \in 1 .. c - b : r[i] = b + i - 1
  BY SourceBytesFacts
<1>3. w \in Seq(Nat) /\ Len(w) = c - a /\ \A i \in 1 .. c - a : w[i] = a + i - 1
  <2>1. a <= c
    OBVIOUS
  <2> QED BY <2>1, SourceBytesFacts
<1> HIDE DEF s, r, w
<1> DEFINE x == s \o r
<1>4. /\ x \in Seq(Nat)
      /\ Len(x) = Len(s) + Len(r)
      /\ \A i \in 1 .. Len(s) + Len(r) :
           x[i] = IF i <= Len(s) THEN s[i] ELSE r[i - Len(s)]
  BY <1>1, <1>2, ConcatProperties
<1> HIDE DEF x
<1>5. Len(x) = Len(w)
  BY <1>1, <1>2, <1>3, <1>4
<1>6. ASSUME NEW i \in 1 .. Len(x) PROVE x[i] = w[i]
  <2>1. w[i] = a + i - 1
    BY <1>3, <1>5
  <2>2. CASE i <= b - a
    BY <1>1, <1>2, <1>4, <2>1, <2>2
  <2>3. CASE b - a < i
    <3>1. i - (b - a) \in 1 .. c - b
      BY <1>1, <1>2, <1>4, <2>3
    <3>2. x[i] = r[i - (b - a)]
      BY <1>1, <1>2, <1>4, <2>3
    <3> QED BY <1>2, <2>1, <3>1, <3>2
  <2> QED BY <2>2, <2>3
<1>7. x = w
  BY <1>3, <1>4, <1>5, <1>6, SeqEqual
<1> QED BY <1>7 DEF s, r, w, x

\* The bytes of a block that begins inside the source.
LEMMA BlockSourceFacts ==
  ASSUME NEW b \in Nat, b * BlockSize < Length
  PROVE  /\ b * BlockSize \in Nat
         /\ BlockEnd(b) \in Nat
         /\ BlockEnd(b) > b * BlockSize
         /\ BlockEnd(b) <= Length
         /\ BlockSource(b) \in Seq(Nat)
         /\ Len(BlockSource(b)) = BlockEnd(b) - b * BlockSize
<1>1. b * BlockSize \in Nat /\ (b + 1) * BlockSize = b * BlockSize + BlockSize
  BY ConfigAssumption
<1>2. BlockEnd(b) \in Nat /\ BlockEnd(b) > b * BlockSize /\ BlockEnd(b) <= Length
  BY <1>1, ConfigAssumption DEF BlockEnd, Least
<1> DEFINE lo == b * BlockSize
<1>3. lo \in Nat /\ BlockEnd(b) \in Nat /\ lo <= BlockEnd(b)
  BY <1>1, <1>2
<1>4. BlockSource(b) = SourceBytes(lo, BlockEnd(b))
  BY DEF BlockSource
<1> HIDE DEF lo
<1>5. BlockSource(b) \in Seq(Nat) /\ Len(BlockSource(b)) = BlockEnd(b) - lo
  BY <1>3, <1>4, SourceBytesFacts
<1> QED BY <1>1, <1>2, <1>5 DEF lo

\* The slice of a response that a block of the span is completed with.
LEMMA BlockBytesFacts ==
  ASSUME TypeOK, Control, NEW t \in Threads, pc[t] = "complete"
  PROVE  /\ BlockBytes(t, done[t] + 1) = BlockSource(cursor[t] + done[t])
         /\ BlockSource(cursor[t] + done[t]) \in Seq(Nat)
<1> DEFINE b == cursor[t] + done[t]
           z == Through(t)
           start == cursor[t] * BlockSize
<1>1. /\ cursor[t] \in Nat /\ b \in Nat /\ z \in Nat
      /\ cursor[t] <= b /\ b <= z /\ z <= last[t]
  <2>1. cursor[t] \in Nat /\ done[t] \in Nat /\ Len(span[t]) \in Nat
    BY DEF TypeOK
  <2>2. done[t] < Len(span[t]) /\ Through(t) <= last[t]
    BY DEF Control, ThreadControl
  <2> QED BY <2>1, <2>2 DEF Through
<1>2. last[t] \in Nat /\ last[t] * BlockSize < Length
  <2>1. last[t] = LastBlock(request[t]) /\ Clipped(request[t]) > 0
    BY DEF Control, ThreadControl
  <2>2. request[t] \in Request
    BY DEF TypeOK
  <2> QED BY <2>1, <2>2, RequestFacts
<1> HIDE DEF b, z
<1>3. /\ start \in Nat /\ b * BlockSize \in Nat /\ z * BlockSize \in Nat
      /\ start <= b * BlockSize /\ b * BlockSize <= z * BlockSize
      /\ z * BlockSize <= last[t] * BlockSize /\ last[t] * BlockSize \in Nat
  BY <1>1, <1>2, TimesMonotone, ConfigAssumption
<1>4. b * BlockSize < Length /\ z * BlockSize < Length
  BY <1>2, <1>3, ConfigAssumption
<1>5. /\ BlockEnd(b) \in Nat /\ BlockEnd(z) \in Nat
      /\ b * BlockSize < BlockEnd(b) /\ BlockEnd(b) <= BlockEnd(z)
  <2>1. BlockEnd(b) \in Nat /\ BlockEnd(z) \in Nat /\ b * BlockSize < BlockEnd(b)
    BY <1>1, <1>4, BlockSourceFacts
  <2>2. (b + 1) * BlockSize <= (z + 1) * BlockSize
    BY <1>1, TimesMonotone, ConfigAssumption
  <2>3. (b + 1) * BlockSize \in Nat /\ (z + 1) * BlockSize \in Nat
    BY <1>1, ConfigAssumption
  <2> QED BY <2>1, <2>2, <2>3, ConfigAssumption DEF BlockEnd, Least
<1>6. BlockSource(b) \in Seq(Nat)
  BY <1>1, <1>4, BlockSourceFacts
<1>7. SubSeq(SourceBytes(start, BlockEnd(z)), b * BlockSize - start + 1,
             BlockEnd(b) - start) = SourceBytes(b * BlockSize, BlockEnd(b))
  <2> DEFINE a == b * BlockSize
             e == BlockEnd(b)
             hi == BlockEnd(z)
  <2>1. /\ start \in Nat /\ hi \in Nat /\ a \in Nat /\ e \in Nat
        /\ start <= a /\ a <= e /\ e <= hi
    BY <1>3, <1>5
  <2> HIDE DEF start, a, e, hi
  <2>2. SubSeq(SourceBytes(start, hi), a - start + 1, e - start)
          = SourceBytes(a, e)
    BY <2>1, SourceSlice
  <2> QED BY <2>2 DEF a, e, hi
<1>8. cursor[t] + (done[t] + 1) - 1 = b
  BY DEF TypeOK, b
<1>9. BlockBytes(t, done[t] + 1) = BlockSource(b)
  BY <1>7, <1>8 DEF BlockBytes, BlockSource, start, z
<1> QED BY <1>6, <1>9 DEF b

\* A read copies at least one byte, and only bytes it still needs.
LEMMA DeliverReadFacts ==
  ASSUME TypeOK, Control, ReadsAreExact, NEW t \in Threads,
         pc[t] # "idle", request[t].kind = "read",
         NEW bytes, bytes = BlockSource(cursor[t])
  PROVE  /\ Count(t, bytes) \in Nat \ {0}
         /\ Position(t) \in Nat
         /\ Len(buffer[t]) \in Nat
         /\ Len(buffer[t]) + Count(t, bytes) <= Requested(request[t])
         /\ Requested(request[t]) = Clipped(request[t])
         /\ Copied(t, bytes) \in Seq(Nat)
         /\ Len(Copied(t, bytes)) = Len(buffer[t]) + Count(t, bytes)
         /\ Copied(t, bytes) = SourceBytes(request[t].offset,
                                 request[t].offset + Len(Copied(t, bytes)))
<1> DEFINE o == request[t].offset
           n == Len(buffer[t])
           p == o + n
           c == cursor[t]
           k == Count(t, bytes)
           w == p % BlockSize
<1>1. o \in Nat /\ n \in Nat /\ p \in Nat /\ c \in Nat /\ Position(t) = p
  BY DEF TypeOK, Request, Position
<1>2. /\ Requested(request[t]) = Clipped(request[t])
      /\ Requested(request[t]) \in Nat
      /\ n < Requested(request[t])
      /\ o + Requested(request[t]) <= Length
      /\ c = p \div BlockSize
  <2>1. Clipped(request[t]) > 0 /\ n < Requested(request[t]) /\ c = p \div BlockSize
    BY <1>1 DEF Control, ThreadControl
  <2>2. request[t] \in Request
    BY DEF TypeOK
  <2> QED BY <2>1, <2>2, RequestFacts
<1> HIDE DEF o, n, p, c, w
<1>3. /\ c * BlockSize \in Nat /\ c * BlockSize <= p
      /\ p < c * BlockSize + BlockSize
      /\ w = p - c * BlockSize /\ w \in Nat
  BY <1>1, <1>2, BlockOfPosition DEF w
<1>4. p < Length
  BY <1>1, <1>2, ConfigAssumption DEF p
<1>5. /\ BlockEnd(c) \in Nat /\ p < BlockEnd(c)
      /\ Len(bytes) = BlockEnd(c) - c * BlockSize
  <2>1. c * BlockSize < Length
    BY <1>1, <1>3, <1>4, ConfigAssumption
  <2>2. BlockEnd(c) \in Nat /\ Len(bytes) = BlockEnd(c) - c * BlockSize
    BY <1>1, <2>1, BlockSourceFacts DEF c
  <2>3. (c + 1) * BlockSize = c * BlockSize + BlockSize
    BY <1>1, ConfigAssumption
  <2> QED BY <1>1, <1>3, <1>4, <2>2, <2>3, ConfigAssumption DEF BlockEnd, Least
<1>6. k = Least(BlockEnd(c) - p, Requested(request[t]) - n)
  <2>1. Len(bytes) - w = BlockEnd(c) - p
    BY <1>1, <1>3, <1>5
  <2> QED BY <1>1, <2>1 DEF Count, n, w
<1>7. k \in Nat \ {0} /\ n + k <= Requested(request[t]) /\ p + k <= BlockEnd(c)
  BY <1>1, <1>2, <1>5, <1>6 DEF Least
<1> HIDE DEF k
<1>8. SubSeq(bytes, w + 1, w + k) = SourceBytes(p, p + k)
  <2> DEFINE lo == c * BlockSize
             hi == BlockEnd(c)
             z == p + k
  <2>1. /\ lo \in Nat /\ hi \in Nat /\ p \in Nat /\ z \in Nat
        /\ lo <= p /\ p <= z /\ z <= hi
    BY <1>1, <1>3, <1>5, <1>7
  <2>2. w + 1 = p - lo + 1 /\ w + k = z - lo
    BY <1>1, <1>3, <1>7
  <2>3. bytes = SourceBytes(lo, hi)
    BY DEF BlockSource, c
  <2> HIDE DEF lo, hi, z
  <2>4. SubSeq(SourceBytes(lo, hi), p - lo + 1, z - lo) = SourceBytes(p, z)
    BY ONLY <2>1, SourceSlice
  <2>5. SubSeq(bytes, w + 1, w + k) = SourceBytes(p, z)
    BY <2>2, <2>3, <2>4
  <2> QED BY <2>5 DEF z
<1>9. buffer[t] = SourceBytes(o, p)
  BY DEF ReadsAreExact, o, n, p
<1>10. Copied(t, bytes) = SourceBytes(o, p) \o SourceBytes(p, p + k)
  BY <1>1, <1>8, <1>9 DEF Copied, k, w
<1>11. Copied(t, bytes) = SourceBytes(o, p + k)
  <2> DEFINE z == p + k
  <2>1. o <= p /\ p <= z /\ z \in Nat
    BY <1>1, <1>7 DEF p
  <2> HIDE DEF z
  <2>2. SourceBytes(o, p) \o SourceBytes(p, z) = SourceBytes(o, z)
    BY <1>1, <2>1, SourceConcat
  <2> QED BY <1>10, <2>2 DEF z
<1>12. p + k = o + (n + k) /\ p + k \in Nat /\ o <= p + k /\ n + k \in Nat
  BY <1>1, <1>7 DEF p
<1>13. Copied(t, bytes) \in Seq(Nat) /\ Len(Copied(t, bytes)) = n + k
  <2> DEFINE z == p + k
  <2>1. z \in Nat /\ o <= z /\ z - o = n + k
    BY <1>1, <1>7, <1>12
  <2> HIDE DEF z
  <2>2. SourceBytes(o, z) \in Seq(Nat) /\ Len(SourceBytes(o, z)) = z - o
    BY <1>1, <2>1, SourceBytesFacts
  <2> QED BY <1>11, <2>1, <2>2 DEF z
<1> QED BY <1>1, <1>2, <1>7, <1>11, <1>12, <1>13 DEF o, n, k

----------
(* Type correctness *)

\* Evicting and removing keep the cache a finite function.
LEMMA WithoutBlocksType ==
  ASSUME TypeOK, NEW S, blocks' = WithoutBlocks(S), next_recency' = next_recency
  PROVE  /\ IsFiniteSet(DOMAIN blocks')
         /\ DOMAIN blocks' = DOMAIN blocks \ S
         /\ \A b \in DOMAIN blocks' : blocks'[b] = blocks[b]
         /\ blocks' \in [DOMAIN blocks' -> [entry : EntryIds', last_used : EntryIds']]
<1>1. DOMAIN blocks' = DOMAIN blocks \ S
  BY DEF WithoutBlocks
<1>2. IsFiniteSet(DOMAIN blocks')
  <2>1. IsFiniteSet(DOMAIN blocks)
    BY DEF TypeOK
  <2> QED BY ONLY <1>1, <2>1, FS_Difference
<1>3. \A b \in DOMAIN blocks' : blocks'[b] = blocks[b]
  BY DEF WithoutBlocks
<1> QED BY <1>1, <1>2, <1>3 DEF TypeOK, EntryIds, WithoutBlocks

\* Taking a recency keeps the types of what refers to entries.
LEMMA RecencyType ==
  ASSUME TypeOK, next_recency' = next_recency + 1
  PROVE  /\ next_recency' \in Nat
         /\ EntryIds \subseteq EntryIds'
         /\ next_recency \in EntryIds'
         /\ span \in [Threads -> Seq(EntryIds')]
         /\ \A b \in DOMAIN blocks :
              blocks[b] \in [entry : EntryIds', last_used : EntryIds']
<1>1. /\ next_recency' \in Nat
      /\ EntryIds \subseteq EntryIds'
      /\ next_recency \in EntryIds'
  BY DEF TypeOK, EntryIds
<1>2. \A t \in Threads : span[t] \in Seq(EntryIds')
  BY <1>1, SeqMonotonic DEF TypeOK
<1>3. span \in [Threads -> Seq(EntryIds')]
  BY <1>2 DEF TypeOK
<1>4. \A b \in DOMAIN blocks :
        blocks[b] \in [entry : EntryIds', last_used : EntryIds']
  BY <1>1 DEF TypeOK
<1> QED BY <1>1, <1>3, <1>4

\* Delivering bytes keeps the types, and moves the cursor inside the request.
LEMMA DeliverType ==
  ASSUME TypeOK, Control, ReadsAreExact, NEW t \in Threads, pc[t] # "idle",
         NEW bytes, bytes = BlockSource(cursor[t]),
         NEW through \in Nat, Deliver(t, bytes, through)
  PROVE  /\ pc' \in [Threads -> PC]
         /\ cursor' \in [Threads -> Nat]
         /\ buffer' \in [Threads -> Seq(Nat)]
         /\ result' \in [Threads -> {"none", "ok", "error"}]
<1>1. CASE DeliverRead(t, bytes)
  <2>1. request[t].kind = "read"
    BY <1>1 DEF DeliverRead
  <2>2. Copied(t, bytes) \in Seq(Nat) /\ Position(t) + Count(t, bytes) \in Nat
    BY <2>1, DeliverReadFacts
  <2>3. (Position(t) + Count(t, bytes)) \div BlockSize \in Nat
    BY <2>2, BlockOfPosition
  <2>4. cursor' \in [Threads -> Nat] /\ buffer' \in [Threads -> Seq(Nat)]
    BY <1>1, <2>2, <2>3 DEF DeliverRead, TypeOK
  <2>5. /\ pc' \in [Threads -> PC]
        /\ result' \in [Threads -> {"none", "ok", "error"}]
    BY <1>1 DEF DeliverRead, TypeOK, PC
  <2> QED BY <2>4, <2>5
<1>2. CASE DeliverPrefetch(t, through)
  <2>1. buffer' \in [Threads -> Seq(Nat)]
    BY <1>2 DEF DeliverPrefetch, TypeOK
  <2>2. CASE through < last[t]
    <3>1. /\ cursor' = [cursor EXCEPT ![t] = through + 1]
          /\ pc' = [pc EXCEPT ![t] = "lookup"]
          /\ result' = result
      BY <1>2, <2>2 DEF DeliverPrefetch
    <3> QED BY <2>1, <3>1 DEF TypeOK, PC
  <2>3. CASE ~ (through < last[t])
    <3>1. /\ cursor' = cursor
          /\ pc' = [pc EXCEPT ![t] = "idle"]
          /\ result' = [result EXCEPT ![t] = "ok"]
      BY <1>2, <2>3 DEF DeliverPrefetch
    <3> QED BY <2>1, <3>1 DEF TypeOK, PC
  <2> QED BY <2>2, <2>3
<1> QED BY <1>1, <1>2 DEF Deliver

LEMMA TypeStep ==
  ASSUME RInv, [Next]_vars
  PROVE  TypeOK'
<1> USE DEF RInv
<1>1. CASE UNCHANGED vars
  BY <1>1 DEF vars, TypeOK, EntryIds
<1>2. CASE Clear
  <2>1. /\ IsFiniteSet(DOMAIN blocks')
        /\ DOMAIN blocks' \subseteq Nat
        /\ blocks' \in [DOMAIN blocks' -> [entry : EntryIds', last_used : EntryIds']]
    BY <1>2, WithoutBlocksType DEF Clear, TypeOK
  <2>2. discarded' \subseteq EntryIds /\ clears' \in Nat
    BY <1>2 DEF Clear, TypeOK
  <2> QED BY <1>2, <2>1, <2>2
         DEF Clear, TypeOK, EntryIds, entryVars, callVars
<1>3. ASSUME NEW t \in Threads, Call(t) PROVE TypeOK'
  <2>1. PICK req \in Requests :
          CallNothing(t, req) \/ Begin(t, req)
    BY <1>3 DEF Call
  <2>2. req \in Request
    BY ConfigAssumption
  <2>3. << >> \in Seq(Nat)
    OBVIOUS
  <2>4. CASE CallNothing(t, req)
    <3>1. /\ calls' \in [Threads -> Nat]
          /\ request' \in [Threads -> Request]
          /\ buffer' \in [Threads -> Seq(Nat)]
      <4>1. Starts(t, req)
        BY <2>4 DEF CallNothing
      <4> QED BY <2>2, <2>3, <4>1 DEF Starts, TypeOK
    <3>2. result' \in [Threads -> {"none", "ok", "error"}]
      BY <2>4 DEF CallNothing, TypeOK
    <3> QED BY <2>4, <3>1, <3>2 DEF CallNothing, Starts,
              TypeOK, EntryIds, cacheVars, entryVars, boundVars
  <2>5. CASE Begin(t, req)
    <3>1. Clipped(req) > 0
      BY <2>5 DEF Begin
    <3>2. req.offset \div BlockSize \in Nat /\ LastBlock(req) \in Nat
      BY <2>2, <3>1, RequestFacts
    <3>3. Starts(t, req)
      BY <2>5 DEF Begin
    <3>4. /\ calls' \in [Threads -> Nat]
          /\ request' \in [Threads -> Request]
          /\ buffer' \in [Threads -> Seq(Nat)]
      BY <2>2, <2>3, <3>3 DEF Starts, TypeOK
    <3>5. /\ pc' \in [Threads -> PC]
          /\ result' \in [Threads -> {"none", "ok", "error"}]
      BY <2>5 DEF Begin, TypeOK, PC
    <3>6. cursor' \in [Threads -> Nat] /\ last' \in [Threads -> Nat]
      BY <2>5, <3>2 DEF Begin, TypeOK
    <3> QED BY <3>3, <3>4, <3>5, <3>6 DEF Starts, TypeOK,
              EntryIds, cacheVars, entryVars, boundVars
  <2> QED BY <2>1, <2>4, <2>5
<1>4. ASSUME NEW t \in Threads, Step(t) PROVE TypeOK'
  <2> USE DEF cacheVars, entryVars, boundVars, callVars
  <2>1. CASE LookupHit(t)
    <3> DEFINE c == cursor[t]
    <3>1. /\ next_recency' = next_recency + 1
          /\ c \in DOMAIN blocks
          /\ blocks' = [blocks EXCEPT ![c] = [@ EXCEPT !.last_used = next_recency]]
      BY <2>1 DEF LookupHit
    <3>2. /\ DOMAIN blocks' = DOMAIN blocks
          /\ blocks' \in [DOMAIN blocks' -> [entry : EntryIds', last_used : EntryIds']]
      BY <3>1, RecencyType
    <3>3. waiting' \in [Threads -> Nat]
      <4>1. blocks[c].entry \in Nat
        BY <3>1 DEF TypeOK, EntryIds
      <4> QED BY <2>1, <4>1 DEF LookupHit, TypeOK
    <3>4. /\ next_recency' \in Nat /\ EntryIds \subseteq EntryIds'
          /\ span \in [Threads -> Seq(EntryIds')]
      BY <3>1, RecencyType
    <3> QED BY <2>1, <3>2, <3>3, <3>4 DEF LookupHit, TypeOK, PC
  <2>3. CASE LookupMiss(t)
    <3>1. UNCHANGED <<cacheVars, entryVars, boundVars, callVars, cursor, waiting,
                      buffer, result>>
      BY <2>3 DEF LookupMiss
    <3>2. EntryIds' = EntryIds
      BY <3>1 DEF EntryIds
    <3>3. /\ locked' \in SUBSET Threads
          /\ pc' \in [Threads -> PC]
          /\ done' \in [Threads -> Nat]
      BY <2>3 DEF LookupMiss, TypeOK, PC
    <3>4. span' \in [Threads -> Seq(EntryIds')]
      BY <2>3, <3>2 DEF LookupMiss, TypeOK
    <3> QED BY <3>1, <3>2, <3>3, <3>4 DEF TypeOK
  <2>4. CASE EvictForInsert(t)
    <3>1. PICK b : blocks' = WithoutBlocks({b})
      BY <2>4 DEF EvictForInsert
    <3>2. /\ IsFiniteSet(DOMAIN blocks') /\ DOMAIN blocks' \subseteq Nat
          /\ blocks' \in [DOMAIN blocks' -> [entry : EntryIds', last_used : EntryIds']]
      BY <2>4, <3>1, WithoutBlocksType DEF EvictForInsert, TypeOK
    <3>3. UNCHANGED <<next_recency, locked, entryVars, boundVars, callVars, pc,
                      cursor, span, done, waiting, buffer, result>>
      BY <2>4 DEF EvictForInsert
    <3>4. EntryIds' = EntryIds
      BY <3>3 DEF EntryIds
    <3>5. /\ next_recency' \in Nat
          /\ DOMAIN ready' \subseteq EntryIds' /\ ready' \in [DOMAIN ready' -> Seq(Nat)]
          /\ failed' \subseteq EntryIds' /\ discarded' \subseteq EntryIds'
          /\ clears' \in Nat
      BY <3>3, <3>4 DEF TypeOK
    <3>6. /\ locked' \in SUBSET Threads
          /\ calls' \in [Threads -> Nat]
          /\ pc' \in [Threads -> PC]
          /\ request' \in [Threads -> Request]
          /\ cursor' \in [Threads -> Nat] /\ last' \in [Threads -> Nat]
          /\ result' \in [Threads -> {"none", "ok", "error"}]
      BY <3>3 DEF TypeOK
    <3>7. /\ span' \in [Threads -> Seq(EntryIds')]
          /\ done' \in [Threads -> Nat] /\ waiting' \in [Threads -> Nat]
          /\ buffer' \in [Threads -> Seq(Nat)]
      BY <3>3, <3>4 DEF TypeOK
    <3> QED BY <3>2, <3>5, <3>6, <3>7 DEF TypeOK
  <2>5. CASE Insert(t)
    <3> DEFINE n == Through(t) + 1
    <3>1. n \in Nat
      BY DEF TypeOK, Through
    <3>2. IsFiniteSet(DOMAIN blocks') /\ DOMAIN blocks' \subseteq Nat
      <4>1. DOMAIN blocks' = DOMAIN blocks \cup {n}
        BY <2>5 DEF Insert
      <4>2. IsFiniteSet(DOMAIN blocks) /\ DOMAIN blocks \subseteq Nat
        BY DEF TypeOK
      <4>3. IsFiniteSet(DOMAIN blocks')
        BY ONLY <4>1, <4>2, FS_AddElement
      <4> QED BY <3>1, <4>1, <4>2, <4>3
    <3>3. /\ next_recency' \in Nat /\ EntryIds \subseteq EntryIds'
          /\ next_recency \in EntryIds'
          /\ span \in [Threads -> Seq(EntryIds')]
          /\ \A b \in DOMAIN blocks :
               blocks[b] \in [entry : EntryIds', last_used : EntryIds']
      BY <2>5, RecencyType DEF Insert
    <3>4. blocks' \in [DOMAIN blocks' -> [entry : EntryIds', last_used : EntryIds']]
      <4>1. [entry |-> next_recency, last_used |-> next_recency]
              \in [entry : EntryIds', last_used : EntryIds']
        BY <3>3
      <4> QED BY <2>5, <3>3, <4>1 DEF Insert
    <3>5. span' \in [Threads -> Seq(EntryIds')]
      <4>1. Append(span[t], next_recency) \in Seq(EntryIds')
        BY <3>3, AppendProperties
      <4> QED BY <2>5, <3>3, <4>1 DEF Insert, TypeOK
    <3> QED BY <2>5, <3>2, <3>3, <3>4, <3>5 DEF Insert, TypeOK
  <2>6. CASE EndReserve(t)
    BY <1>4, <2>6 DEF EndReserve, TypeOK, EntryIds, PC
  <2>7. CASE WaitReady(t)
    <3>1. pc[t] # "idle" /\ ready[waiting[t]] = BlockSource(cursor[t])
      BY <2>7 DEF WaitReady, Matching
    <3>2. cursor[t] \in Nat
      BY DEF TypeOK
    <3>3. /\ pc' \in [Threads -> PC]
          /\ cursor' \in [Threads -> Nat]
          /\ buffer' \in [Threads -> Seq(Nat)]
          /\ result' \in [Threads -> {"none", "ok", "error"}]
      BY <2>7, <3>1, <3>2, DeliverType DEF WaitReady
    <3> QED BY <2>7, <3>3 DEF WaitReady, TypeOK, EntryIds
  <2>8. CASE WaitFailed(t)
    BY <1>4, <2>8 DEF WaitFailed, Fails, TypeOK, EntryIds, PC
  <2>10. CASE FetchOk(t)
    BY <1>4, <2>10 DEF FetchOk, TypeOK, EntryIds, PC
  <2>11. CASE FetchError(t)
    BY <1>4, <2>11 DEF FetchError, TypeOK, EntryIds, PC
  <2>12. CASE CompleteEntry(t)
    <3> DEFINE i == done[t] + 1
    <3>1. pc[t] = "complete" /\ i \in 1 .. Len(span[t]) /\ i \in Nat
      BY <2>12 DEF CompleteEntry, Control, ThreadControl, TypeOK
    <3>2. span[t][i] \in EntryIds
      BY <3>1 DEF TypeOK
    <3>3. BlockBytes(t, i) \in Seq(Nat)
      BY <3>1, BlockBytesFacts
    <3>4. ready' = [e \in DOMAIN ready \cup {span[t][i]} |->
                      IF e = span[t][i] THEN BlockBytes(t, i) ELSE ready[e]]
      BY <2>12 DEF CompleteEntry
    <3> HIDE DEF i
    <3>5. DOMAIN ready' \subseteq EntryIds /\ ready' \in [DOMAIN ready' -> Seq(Nat)]
      BY <3>2, <3>3, <3>4 DEF TypeOK
    <3>6. done' \in [Threads -> Nat] /\ pc' \in [Threads -> PC]
      BY <2>12, <3>1 DEF CompleteEntry, TypeOK, PC, i
    <3> QED BY <2>12, <3>5, <3>6 DEF CompleteEntry, TypeOK, EntryIds
  <2>13. CASE TrimEvict(t)
    <3>1. PICK b : blocks' = WithoutBlocks({b})
      BY <2>13 DEF TrimEvict
    <3>2. /\ IsFiniteSet(DOMAIN blocks') /\ DOMAIN blocks' \subseteq Nat
          /\ blocks' \in [DOMAIN blocks' -> [entry : EntryIds', last_used : EntryIds']]
      BY <2>13, <3>1, WithoutBlocksType DEF TrimEvict, TypeOK
    <3> QED BY <1>4, <2>13, <3>2 DEF TrimEvict, TypeOK, EntryIds
  <2>14. CASE TrimDone(t)
    <3>1. /\ pc[t] # "idle" /\ done[t] >= 1
          /\ ready[span[t][1]] = BlockSource(cursor[t])
      <4>1. pc[t] = "trim" /\ done[t] = Len(span[t]) /\ span[t] # << >>
        BY <2>14 DEF TrimDone, Control, ThreadControl
      <4>2. done[t] >= 1
        BY <4>1 DEF TypeOK
      <4> QED BY <4>1, <4>2 DEF Matching
    <3>2. Through(t) \in Nat
      BY <2>14 DEF TrimDone, Control, ThreadControl, TypeOK, Through
    <3>3. /\ pc' \in [Threads -> PC]
          /\ cursor' \in [Threads -> Nat]
          /\ buffer' \in [Threads -> Seq(Nat)]
          /\ result' \in [Threads -> {"none", "ok", "error"}]
      BY <2>14, <3>1, <3>2, DeliverType DEF TrimDone
    <3> QED BY <2>14, <3>3 DEF TrimDone, TypeOK, EntryIds
  <2>15. CASE RemoveFailed(t)
    <3>1. PICK S : blocks' = WithoutBlocks(S)
      BY <2>15 DEF RemoveFailed
    <3>2. /\ IsFiniteSet(DOMAIN blocks') /\ DOMAIN blocks' \subseteq Nat
          /\ blocks' \in [DOMAIN blocks' -> [entry : EntryIds', last_used : EntryIds']]
      BY <2>15, <3>1, WithoutBlocksType DEF RemoveFailed, TypeOK
    <3> QED BY <2>15, <3>2 DEF RemoveFailed, TypeOK, EntryIds, PC
  <2>16. CASE FailEntry(t)
    <3>1. failed' \subseteq EntryIds /\ done' \in [Threads -> Nat]
      <4>1. span[t][done[t] + 1] \in EntryIds
        BY <2>16 DEF FailEntry, Control, ThreadControl, TypeOK
      <4> QED BY <2>16, <4>1 DEF FailEntry, TypeOK
    <3>2. pc' \in [Threads -> PC] /\ result' \in [Threads -> {"none", "ok", "error"}]
      BY <2>16 DEF FailEntry, Fails, TypeOK, PC
    <3>3. buffer' = buffer /\ cursor' = cursor
      BY <2>16 DEF FailEntry, Fails
    <3>4. UNCHANGED <<cacheVars, locked, ready, boundVars, callVars, span, waiting>>
      BY <2>16 DEF FailEntry
    <3> QED BY <3>1, <3>2, <3>3, <3>4 DEF TypeOK, EntryIds
  <2> QED BY <1>4, <2>1, <2>3, <2>4, <2>5, <2>6, <2>7, <2>8, <2>10, <2>11,
             <2>12, <2>13, <2>14, <2>15, <2>16 DEF Step
<1> QED BY <1>1, <1>2, <1>3, <1>4 DEF Next

----------
(* Control *)

\* A thread that does not move keeps its control facts, provided nobody else
\* touches the mutex it holds.
LEMMA BystanderControl ==
  ASSUME NEW u, ThreadControl(u),
         pc'[u] = pc[u], request'[u] = request[u], cursor'[u] = cursor[u],
         last'[u] = last[u], span'[u] = span[u], done'[u] = done[u],
         buffer'[u] = buffer[u],
         pc[u] = "reserve" => locked' = locked /\ DOMAIN blocks' \subseteq DOMAIN blocks
  PROVE  ThreadControl(u)'
BY DEF ThreadControl, Position, Through

\* A position short of the end of what was asked for lies at or before its last
\* byte.
LEMMA WithinAsked ==
  ASSUME NEW start \in Nat, NEW had \in Nat, NEW more \in Nat, NEW asked \in Nat,
         had + more < asked
  PROVE  /\ (start + had) + more <= start + asked - 1
         /\ (start + had) + more \in Nat
         /\ start + asked - 1 \in Nat
OBVIOUS

\* Where delivering the bytes of the current block leaves the thread.
LEMMA DeliverControl ==
  ASSUME TypeOK, Control, ReadsAreExact, NEW t \in Threads, pc[t] # "idle",
         NEW bytes, bytes = BlockSource(cursor[t]),
         NEW through \in Nat, through <= last[t], Deliver(t, bytes, through),
         UNCHANGED <<request, last, span, done>>
  PROVE  ThreadControl(t)' /\ pc'[t] \in {"idle", "lookup"}
<1>1. done[t] <= Len(span[t]) /\ done'[t] = done[t] /\ span'[t] = span[t]
  BY DEF Control, ThreadControl
<1>2. CASE DeliverRead(t, bytes)
  <2> DEFINE n == Len(buffer[t])
             k == Count(t, bytes)
             p == Position(t) + k
             r == Requested(request[t])
  <2>1. /\ request[t].kind = "read"
        /\ buffer'[t] = Copied(t, bytes)
        /\ cursor'[t] = p \div BlockSize
        /\ n + k < r => pc'[t] = "lookup"
        /\ ~ (n + k < r) => pc'[t] = "idle"
    BY <1>2 DEF DeliverRead, TypeOK
  <2>2. /\ k \in Nat \ {0} /\ Position(t) \in Nat /\ n \in Nat
        /\ n + k <= r /\ r \in Nat
        /\ Len(Copied(t, bytes)) = n + k
        /\ Position(t) = request[t].offset + n
        /\ request[t].offset \in Nat
    <3>1. request[t] \in Request /\ Clipped(request[t]) > 0
      BY DEF TypeOK, Control, ThreadControl
    <3>2. r \in Nat
      BY <3>1, RequestFacts
    <3>3. request[t].offset \in Nat
      BY <3>1 DEF Request
    <3> QED BY <2>1, <3>2, <3>3, DeliverReadFacts DEF Position
  <2> HIDE DEF n, k, r
  <2>3. CASE n + k < r
    <3>1. p <= request[t].offset + r - 1 /\ p \in Nat
          /\ request[t].offset + r - 1 \in Nat
      <4> DEFINE start == request[t].offset
      <4>1. start \in Nat /\ n \in Nat /\ k \in Nat /\ r \in Nat
        BY <2>2
      <4>2. p = (start + n) + k
        BY <2>2
      <4> HIDE DEF p, start
      <4>3. p <= start + r - 1 /\ p \in Nat /\ start + r - 1 \in Nat
        BY <2>3, <4>1, <4>2, WithinAsked
      <4> QED BY <4>3 DEF start
    <3>2. p \div BlockSize <= LastBlock(request[t])
      <4> DEFINE e == request[t].offset + r - 1
      <4>1. LastBlock(request[t]) = e \div BlockSize
        BY DEF LastBlock, r
      <4> HIDE DEF p, e
      <4> QED BY <3>1, <4>1, DivMonotone, ConfigAssumption DEF e
    <3>3. Len(buffer'[t]) = n + k
      BY <2>1, <2>2
    <3>4. Position(t)' = p
      BY <2>2, <3>3 DEF Position, n
    <3>5. pc'[t] = "lookup"
      BY <2>1, <2>3
    <3>6. cursor'[t] = Position(t)' \div BlockSize
      BY <2>1, <3>4
    <3>7. Clipped(request[t]) > 0 /\ last[t] = LastBlock(request[t])
      BY DEF Control, ThreadControl
    <3>8. cursor'[t] <= last'[t]
      BY <2>1, <3>2, <3>7
    <3>9. Len(buffer'[t]) < Requested(request'[t])
      BY <2>3, <3>3 DEF r
    <3> HIDE DEF p
    <3> QED BY <1>1, <3>5, <3>6, <3>7, <3>8, <3>9 DEF ThreadControl
  <2>4. CASE ~ (n + k < r)
    <3>1. pc'[t] = "idle"
      BY <2>1, <2>4
    <3> QED BY <1>1, <3>1 DEF ThreadControl
  <2> QED BY <2>3, <2>4
<1>3. CASE DeliverPrefetch(t, through)
  <2>1. request[t].kind = "prefetch" /\ buffer' = buffer
    BY <1>3 DEF DeliverPrefetch
  <2>2. CASE through < last[t]
    <3>1. cursor'[t] = through + 1 /\ pc'[t] = "lookup"
      BY <1>3, <2>2 DEF DeliverPrefetch, TypeOK
    <3>2. cursor'[t] <= last[t]
      BY <2>2, <3>1 DEF TypeOK
    <3>3. Clipped(request[t]) > 0 /\ last[t] = LastBlock(request[t])
      BY DEF Control, ThreadControl
    <3> QED BY <1>1, <2>1, <3>1, <3>2, <3>3 DEF ThreadControl
  <2>3. CASE ~ (through < last[t])
    <3>1. pc'[t] = "idle"
      BY <1>3, <2>3 DEF DeliverPrefetch, TypeOK
    <3> QED BY <1>1, <3>1 DEF ThreadControl
  <2> QED BY <2>2, <2>3
<1> QED BY <1>2, <1>3 DEF Deliver

LEMMA ControlStep ==
  ASSUME RInv, [Next]_vars
  PROVE  Control'
<1> USE DEF RInv
<1> SUFFICES ASSUME NEW u \in Threads PROVE ThreadControl(u)'
  BY DEF Control
<1>0. ThreadControl(u)
  BY DEF Control
<1>1. CASE UNCHANGED vars
  BY <1>0, <1>1, BystanderControl DEF vars
<1>2. CASE Clear
  <2>1. pc[u] # "reserve"
    BY <1>0, <1>2 DEF Clear, ThreadControl
  <2> QED BY <1>0, <1>2, <2>1, BystanderControl DEF Clear, callVars
<1>3. ASSUME NEW t \in Threads, Call(t) PROVE ThreadControl(u)'
  <2>1. PICK req \in Requests :
          CallNothing(t, req) \/ Begin(t, req)
    BY <1>3 DEF Call
  <2>2. Starts(t, req)
    BY <2>1 DEF CallNothing, Begin
  <2>3. CASE u # t
    <3>1. /\ pc'[u] = pc[u] /\ cursor'[u] = cursor[u] /\ last'[u] = last[u]
          /\ request'[u] = request[u] /\ buffer'[u] = buffer[u]
          /\ span' = span /\ done' = done /\ locked' = locked /\ blocks' = blocks
      BY <2>1, <2>2, <2>3 DEF CallNothing, Begin, Starts,
         TypeOK, cacheVars
    <3> QED BY <1>0, <3>1, BystanderControl
  <2>4. CASE u = t
    <3>1. done'[t] <= Len(span'[t])
      BY <1>0, <2>2, <2>4 DEF Starts, ThreadControl
    <3>2. CASE CallNothing(t, req)
      <4>1. pc'[t] = "idle"
        BY <2>2, <3>2 DEF CallNothing, Starts
      <4> QED BY <2>4, <3>1, <4>1 DEF ThreadControl
    <3>3. CASE Begin(t, req)
      <4>1. /\ pc'[t] = "lookup" /\ request'[t] = req /\ buffer'[t] = << >>
            /\ cursor'[t] = req.offset \div BlockSize
            /\ last'[t] = LastBlock(req) /\ Clipped(req) > 0
        BY <2>2, <3>3 DEF Begin, Starts, TypeOK
      <4>2. req \in Request /\ req.offset \in Nat
        BY ConfigAssumption DEF Request
      <4>3. Requested(req) \in Nat \ {0} /\ req.offset \div BlockSize <= LastBlock(req)
        BY <4>1, <4>2, RequestFacts
      <4>4. Position(t)' = req.offset
        BY <4>1, <4>2 DEF Position
      <4>5. Len(buffer'[t]) < Requested(request'[t])
        BY <4>1, <4>3
      <4> QED BY <2>4, <3>1, <4>1, <4>3, <4>4, <4>5 DEF ThreadControl
    <3> QED BY <2>1, <3>2, <3>3
  <2> QED BY <2>3, <2>4
<1>4. ASSUME NEW t \in Threads, Step(t), u # t PROVE ThreadControl(u)'
  <2>1. /\ pc'[u] = pc[u] /\ cursor'[u] = cursor[u] /\ span'[u] = span[u]
        /\ done'[u] = done[u] /\ buffer'[u] = buffer[u]
        /\ request' = request /\ last' = last
    BY <1>4 DEF Step, LookupHit, LookupMiss, EvictForInsert,
       Insert, EndReserve, WaitReady, WaitFailed, FetchOk,
       FetchError, CompleteEntry, TrimEvict, TrimDone, RemoveFailed, FailEntry,
       Deliver, DeliverRead, DeliverPrefetch, Fails, TypeOK, callVars
  <2>2. ASSUME pc[u] = "reserve" PROVE locked' = locked /\ blocks' = blocks
    <3>1. locked = {u}
      BY <1>0, <2>2 DEF ThreadControl
    <3>2. pc[t] # "reserve"
      BY <1>4, <3>1 DEF Control, ThreadControl
    <3> QED BY <1>4, <3>1, <3>2 DEF Step, LookupHit, LookupMiss,
          EvictForInsert, Insert, Reserving, EndReserve, WaitReady, WaitFailed,
          FetchOk, FetchError, CompleteEntry, TrimEvict,
          TrimDone, RemoveFailed, FailEntry, cacheVars
  <2> QED BY <1>0, <2>1, <2>2, BystanderControl
<1>5. ASSUME Step(u) PROVE ThreadControl(u)'
  <2> USE DEF cacheVars, entryVars, boundVars, callVars
  <2>1. CASE LookupHit(u)
    BY <1>0, <2>1 DEF LookupHit, ThreadControl, Position, TypeOK
  <2>3. CASE LookupMiss(u)
    <3>1. /\ span'[u] = << >> /\ done'[u] = 0 /\ pc'[u] = "reserve"
          /\ locked' = {u} /\ blocks' = blocks /\ cursor[u] \notin DOMAIN blocks
          /\ UNCHANGED <<cursor, last, request, buffer>>
          /\ pc[u] = "lookup"
      BY <2>3 DEF LookupMiss, TypeOK
    <3>2. Through(u)' = cursor[u] - 1
      BY <3>1 DEF Through, TypeOK
    <3>3. Through(u)' <= last[u]
      BY <1>0, <3>1, <3>2 DEF ThreadControl, TypeOK
    <3> QED BY <1>0, <3>1, <3>3 DEF ThreadControl, Position
  <2>4. CASE EvictForInsert(u)
    <3>1. DOMAIN blocks' \subseteq DOMAIN blocks
      BY <2>4 DEF EvictForInsert, WithoutBlocks
    <3> QED BY <1>0, <2>4, <3>1, BystanderControl DEF EvictForInsert
  <2>5. CASE Insert(u)
    <3>1. /\ span'[u] = Append(span[u], next_recency)
          /\ pc[u] = "reserve" /\ Through(u) + 1 <= last[u]
          /\ UNCHANGED <<cursor, last, request, buffer, pc, done, locked>>
      BY <2>5 DEF Insert, Reserving, TypeOK
    <3>2. Len(span'[u]) = Len(span[u]) + 1 /\ span'[u] # << >> /\ Len(span[u]) \in Nat
      <4>1. span[u] \in Seq(EntryIds') /\ next_recency \in EntryIds'
        BY <2>5, RecencyType DEF Insert
      <4> QED BY <3>1, <4>1, AppendProperties
    <3>3. Through(u)' = Through(u) + 1
      BY <3>1, <3>2 DEF Through, TypeOK
    <3> QED BY <1>0, <3>1, <3>2, <3>3 DEF ThreadControl, Position
  <2>6. CASE EndReserve(u)
    <3>1. /\ pc[u] = "reserve" /\ pc'[u] = "fetch"
          /\ UNCHANGED <<cursor, last, request, buffer, done, span, blocks>>
      BY <2>6 DEF EndReserve, TypeOK
    <3>2. done[u] = 0 /\ Through(u) <= last[u]
      BY <1>0, <3>1 DEF ThreadControl
    <3>3. span[u] # << >>
      <4>1. SUFFICES ASSUME span[u] = << >> PROVE FALSE
        OBVIOUS
      <4>2. cursor[u] \notin DOMAIN blocks /\ cursor[u] <= last[u]
        BY <1>0, <3>1, <4>1 DEF ThreadControl
      <4>3. Through(u) + 1 = cursor[u] /\ Len(span[u]) = 0
        BY <4>1 DEF Through, TypeOK
      <4>4. cursor[u] \in Nat /\ last[u] \in Nat
        BY DEF TypeOK
      <4> QED BY <2>6, <4>2, <4>3, <4>4, ConfigAssumption DEF EndReserve
    <3>4. done[u] < Len(span[u])
      BY <3>2, <3>3 DEF TypeOK
    <3>5. Through(u)' = Through(u)
      BY <3>1 DEF Through
    <3> QED BY <1>0, <3>1, <3>2, <3>4, <3>5 DEF ThreadControl, Position
  <2>7. CASE WaitReady(u)
    <3>1. /\ pc[u] # "idle" /\ ready[waiting[u]] = BlockSource(cursor[u])
          /\ cursor[u] \in Nat /\ cursor[u] <= last[u]
      BY <1>0, <2>7 DEF WaitReady, Matching, TypeOK, ThreadControl
    <3> QED BY <2>7, <3>1, DeliverControl DEF WaitReady
  <2>8. CASE WaitFailed(u)
    BY <1>0, <2>8 DEF WaitFailed, Fails, ThreadControl, TypeOK
  <2>10. CASE FetchOk(u)
    BY <1>0, <2>10 DEF FetchOk, ThreadControl, TypeOK, Through, Position
  <2>11. CASE FetchError(u)
    BY <1>0, <2>11 DEF FetchError, ThreadControl, TypeOK, Through, Position
  <2>12. CASE CompleteEntry(u)
    <3>1. /\ pc[u] = "complete" /\ done'[u] = done[u] + 1
          /\ pc'[u] = IF done[u] + 1 = Len(span[u]) THEN "trim" ELSE "complete"
          /\ UNCHANGED <<cursor, last, request, buffer, span, blocks>>
      BY <2>12 DEF CompleteEntry, TypeOK
    <3>2. /\ done[u] \in Nat /\ Len(span[u]) \in Nat /\ done[u] < Len(span[u])
          /\ Through(u) <= last[u]
      BY <1>0, <3>1 DEF ThreadControl, TypeOK
    <3>3. Through(u)' = Through(u) /\ Position(u)' = Position(u)
      BY <3>1 DEF Through, Position
    <3>4. CASE done[u] + 1 = Len(span[u])
      <4>1. pc'[u] = "trim" /\ span[u] # << >>
        BY <3>1, <3>2, <3>4
      <4> QED BY <1>0, <3>1, <3>2, <3>3, <3>4, <4>1 DEF ThreadControl
    <3>5. CASE done[u] + 1 # Len(span[u])
      <4>1. pc'[u] = "complete" /\ done[u] + 1 < Len(span[u])
        BY <3>1, <3>2, <3>5
      <4> QED BY <1>0, <3>1, <3>2, <3>3, <4>1 DEF ThreadControl
    <3> QED BY <3>4, <3>5
  <2>13. CASE TrimEvict(u)
    BY <1>0, <2>13, BystanderControl DEF TrimEvict
  <2>14. CASE TrimDone(u)
    <3>1. /\ pc[u] = "trim" /\ done[u] = Len(span[u]) /\ span[u] # << >>
          /\ Through(u) <= last[u]
      BY <1>0, <2>14 DEF TrimDone, ThreadControl
    <3>2. done[u] >= 1 /\ Through(u) \in Nat
      BY <3>1 DEF TypeOK, Through
    <3>3. ready[span[u][1]] = BlockSource(cursor[u])
      BY <3>1, <3>2 DEF Matching
    <3> QED BY <2>14, <3>1, <3>2, <3>3, DeliverControl DEF TrimDone
  <2>15. CASE RemoveFailed(u)
    BY <1>0, <2>15 DEF RemoveFailed, ThreadControl, TypeOK, Through, Position
  <2>16. CASE FailEntry(u)
    <3>1. /\ pc[u] = "fail" /\ done'[u] = done[u] + 1
          /\ UNCHANGED <<cursor, last, request, buffer, span, blocks>>
      BY <2>16 DEF FailEntry, Fails, TypeOK
    <3>2. /\ done[u] \in Nat /\ Len(span[u]) \in Nat /\ done[u] < Len(span[u])
          /\ Through(u) <= last[u]
      BY <1>0, <3>1 DEF ThreadControl, TypeOK
    <3>3. Through(u)' = Through(u) /\ Position(u)' = Position(u)
      BY <3>1 DEF Through, Position
    <3>4. CASE done[u] + 1 = Len(span[u])
      <4>1. pc'[u] = "idle"
        BY <2>16, <3>4 DEF FailEntry, Fails, TypeOK
      <4> QED BY <1>0, <3>1, <3>2, <3>4, <4>1 DEF ThreadControl
    <3>5. CASE done[u] + 1 # Len(span[u])
      <4>1. pc'[u] = "fail" /\ done[u] + 1 < Len(span[u])
        BY <2>16, <3>1, <3>2, <3>5 DEF FailEntry
      <4> QED BY <1>0, <3>1, <3>2, <3>3, <4>1 DEF ThreadControl
    <3> QED BY <3>4, <3>5
  <2> QED BY <1>5, <2>1, <2>3, <2>4, <2>5, <2>6, <2>7, <2>8, <2>10, <2>11,
             <2>12, <2>13, <2>14, <2>15, <2>16 DEF Step
<1> QED BY <1>1, <1>2, <1>3, <1>4, <1>5 DEF Next

----------
(* What one step does to entries, blocks and waiting threads *)

\* An entry to be settled after a step was to be settled before it, or has just
\* been inserted with a recency nobody had.
LEMMA TodoStep ==
  ASSUME RInv, [Next]_vars, NEW u \in Threads, NEW i \in Todo(u)'
  PROVE  /\ cursor'[u] = cursor[u]
         /\ \/ i \in Todo(u) /\ span'[u][i] = span[u][i]
            \/ /\ Insert(u)
               /\ i = Len(span[u]) + 1
               /\ span'[u][i] = next_recency
<1> USE DEF RInv
<1>1. CASE UNCHANGED vars
  BY <1>1 DEF vars, Todo
<1>2. CASE Clear
  BY <1>2 DEF Clear, Todo, callVars
<1>3. ASSUME NEW t \in Threads, Call(t)
      PROVE  cursor'[u] = cursor[u] /\ i \in Todo(u) /\ span'[u][i] = span[u][i]
  <2>1. PICK req \in Requests :
          CallNothing(t, req) \/ Begin(t, req)
    BY <1>3 DEF Call
  <2>2. CASE u = t
    BY <2>1, <2>2 DEF CallNothing, Begin, Starts, Todo, TypeOK
  <2>3. CASE u # t
    BY <2>1, <2>3 DEF CallNothing, Begin, Starts, Todo, TypeOK
  <2> QED BY <2>2, <2>3
<1>4. ASSUME NEW t \in Threads, Step(t), u # t
      PROVE  cursor'[u] = cursor[u] /\ i \in Todo(u) /\ span'[u][i] = span[u][i]
  <2>1. /\ pc'[u] = pc[u] /\ cursor'[u] = cursor[u] /\ span'[u] = span[u]
        /\ done'[u] = done[u]
    BY <1>4 DEF Step, LookupHit, LookupMiss, EvictForInsert,
       Insert, EndReserve, WaitReady, WaitFailed, FetchOk,
       FetchError, CompleteEntry, TrimEvict, TrimDone, RemoveFailed, FailEntry,
       Deliver, DeliverRead, DeliverPrefetch, Fails, TypeOK, callVars
  <2> QED BY <2>1 DEF Todo
<1>5. ASSUME Step(u)
      PROVE  /\ cursor'[u] = cursor[u]
             /\ \/ i \in Todo(u) /\ span'[u][i] = span[u][i]
                \/ /\ Insert(u)
                   /\ i = Len(span[u]) + 1
                   /\ span'[u][i] = next_recency
  <2>1. CASE LookupHit(u) \/ WaitFailed(u)
    BY <2>1 DEF LookupHit, WaitFailed, Fails,
       Todo, TypeOK
  <2>2. CASE LookupMiss(u)
    <3>1. Todo(u)' = 1 .. 0
      BY <2>2 DEF LookupMiss, Todo, TypeOK
    <3> QED BY <3>1
  <2>3. CASE EvictForInsert(u) \/ EndReserve(u) \/ FetchOk(u) \/ FetchError(u)
             \/ TrimEvict(u) \/ RemoveFailed(u)
    BY <2>3 DEF EvictForInsert, EndReserve, FetchOk, FetchError, TrimEvict,
       RemoveFailed, Reserving, Todo, TypeOK
  <2>4. CASE Insert(u)
    <3>1. /\ span'[u] = Append(span[u], next_recency)
          /\ pc[u] = "reserve" /\ UNCHANGED <<cursor, pc, done>>
      BY <2>4 DEF Insert, Reserving, TypeOK
    <3>2. span[u] \in Seq(EntryIds') /\ next_recency \in EntryIds'
      BY <2>4, RecencyType DEF Insert
    <3>3. /\ Len(span'[u]) = Len(span[u]) + 1
          /\ \A j \in 1 .. Len(span[u]) : span'[u][j] = span[u][j]
          /\ span'[u][Len(span[u]) + 1] = next_recency
      BY <3>1, <3>2, AppendProperties
    <3>4. i \in done[u] + 1 .. Len(span[u]) + 1 /\ done[u] \in Nat /\ Len(span[u]) \in Nat
      BY <3>1, <3>3 DEF Todo, TypeOK
    <3>5. Todo(u) = done[u] + 1 .. Len(span[u])
      BY <3>1 DEF Todo
    <3> QED BY <2>4, <3>1, <3>3, <3>4, <3>5
  <2>5. CASE WaitReady(u) \/ TrimDone(u)
    <3>1. pc'[u] \in {"idle", "lookup"}
      BY <2>5 DEF WaitReady, TrimDone, Deliver, DeliverRead, DeliverPrefetch, TypeOK
    <3> QED BY <3>1 DEF Todo
  <2>6. CASE CompleteEntry(u)
    BY <2>6 DEF CompleteEntry, Todo, TypeOK
  <2>7. CASE FailEntry(u)
    <3>1. pc[u] = "fail" /\ done'[u] = done[u] + 1 /\ span' = span
      BY <2>7 DEF FailEntry, TypeOK
    <3>2. cursor' = cursor
      BY <2>7 DEF FailEntry, Fails
    <3> QED BY <3>1, <3>2 DEF Todo, TypeOK
  <2> QED BY <1>5, <2>1, <2>2, <2>3, <2>4, <2>5, <2>6, <2>7 DEF Step
<1> QED BY <1>1, <1>2, <1>3, <1>4, <1>5 DEF Next

\* A step settles at most the next entry of one thread, with the bytes of its
\* block when it completes it; settled entries stay as they are.
LEMMA SettledStep ==
  ASSUME RInv, [Next]_vars
  PROVE  /\ \A e \in DOMAIN ready : e \in DOMAIN ready' /\ ready'[e] = ready[e]
         /\ \A e \in DOMAIN ready' \ DOMAIN ready :
              \E t \in Threads :
                /\ done[t] + 1 \in Todo(t) /\ done[t] + 1 \notin Todo(t)'
                /\ e = span[t][done[t] + 1]
                /\ ready'[e] = BlockSource(cursor[t] + done[t])
         /\ failed \subseteq failed'
         /\ \A e \in failed' \ failed :
              \E t \in Threads :
                /\ pc[t] = "fail"
                /\ done[t] + 1 \in Todo(t) /\ done[t] + 1 \notin Todo(t)'
                /\ e = span[t][done[t] + 1]
<1> USE DEF RInv
<1>1. CASE UNCHANGED <<ready, failed>>
  BY <1>1
<1>2. ASSUME NEW t \in Threads, CompleteEntry(t)
      PROVE  /\ failed' = failed
             /\ \A e \in DOMAIN ready : e \in DOMAIN ready' /\ ready'[e] = ready[e]
             /\ done[t] + 1 \in Todo(t) /\ done[t] + 1 \notin Todo(t)'
             /\ DOMAIN ready' = DOMAIN ready \cup {span[t][done[t] + 1]}
             /\ ready'[span[t][done[t] + 1]] = BlockSource(cursor[t] + done[t])
  <2> DEFINE i == done[t] + 1
  <2>1. /\ pc[t] = "complete" /\ done'[t] = i /\ span' = span /\ failed' = failed
        /\ ready' = [e \in DOMAIN ready \cup {span[t][i]} |->
                       IF e = span[t][i] THEN BlockBytes(t, i) ELSE ready[e]]
    BY <1>2 DEF CompleteEntry, TypeOK
  <2>2. /\ i \in Todo(t) /\ i \notin Todo(t)'
    BY <2>1 DEF Todo, Control, ThreadControl, TypeOK
  <2>3. span[t][i] \notin DOMAIN ready
    BY <2>2 DEF Identity, Settled
  <2>4. BlockBytes(t, i) = BlockSource(cursor[t] + done[t])
    BY <2>1, BlockBytesFacts
  <2> HIDE DEF i
  <2>5. /\ \A e \in DOMAIN ready : e \in DOMAIN ready' /\ ready'[e] = ready[e]
        /\ DOMAIN ready' = DOMAIN ready \cup {span[t][i]}
        /\ ready'[span[t][i]] = BlockSource(cursor[t] + done[t])
    BY <2>1, <2>3, <2>4
  <2> QED BY <2>1, <2>2, <2>5 DEF i
<1>3. ASSUME NEW t \in Threads, FailEntry(t)
      PROVE  /\ ready' = ready /\ pc[t] = "fail"
             /\ done[t] + 1 \in Todo(t) /\ done[t] + 1 \notin Todo(t)'
             /\ failed' = failed \cup {span[t][done[t] + 1]}
  BY <1>3 DEF FailEntry, Fails, Todo, Control, ThreadControl, TypeOK
<1>4. \/ UNCHANGED <<ready, failed>>
      \/ \E t \in Threads : CompleteEntry(t) \/ FailEntry(t)
  <2>1. CASE UNCHANGED vars \/ Clear
    BY <2>1 DEF vars, Clear, entryVars
  <2>2. ASSUME NEW t \in Threads, Call(t) PROVE UNCHANGED <<ready, failed>>
    BY <2>2 DEF Call, CallNothing, Begin, Starts, entryVars
  <2>3. ASSUME NEW t \in Threads, Step(t), ~ CompleteEntry(t), ~ FailEntry(t)
        PROVE  UNCHANGED <<ready, failed>>
    BY <2>3 DEF Step, LookupHit, LookupMiss, EvictForInsert,
       Insert, EndReserve, WaitReady, WaitFailed, FetchOk,
       FetchError, TrimEvict, TrimDone, RemoveFailed, entryVars
  <2> QED BY <2>1, <2>2, <2>3 DEF Next
<1>5. CASE \E t \in Threads : CompleteEntry(t)
  <2>1. PICK t \in Threads : CompleteEntry(t)
    BY <1>5
  <2> DEFINE e0 == span[t][done[t] + 1]
  <2>2. /\ failed' = failed
        /\ \A e \in DOMAIN ready : e \in DOMAIN ready' /\ ready'[e] = ready[e]
        /\ done[t] + 1 \in Todo(t) /\ done[t] + 1 \notin Todo(t)'
        /\ DOMAIN ready' = DOMAIN ready \cup {e0}
        /\ ready'[e0] = BlockSource(cursor[t] + done[t])
    BY <1>2, <2>1
  <2>3. ASSUME NEW e \in DOMAIN ready' \ DOMAIN ready
        PROVE  /\ done[t] + 1 \in Todo(t) /\ done[t] + 1 \notin Todo(t)'
               /\ e = span[t][done[t] + 1]
               /\ ready'[e] = BlockSource(cursor[t] + done[t])
    <3>1. e = e0
      BY <2>2
    <3> HIDE DEF e0
    <3>2. ready'[e] = BlockSource(cursor[t] + done[t])
      BY <2>2, <3>1
    <3> QED BY <2>2, <3>1, <3>2 DEF e0
  <2> QED BY <2>2, <2>3
<1>6. CASE \E t \in Threads : FailEntry(t)
  <2>1. PICK t \in Threads : FailEntry(t)
    BY <1>6
  <2> QED BY <1>3, <2>1
<1> QED BY <1>1, <1>4, <1>5, <1>6

\* A block cached after a step was cached before it with the same entry, or has
\* just been inserted.
LEMMA BlocksStep ==
  ASSUME RInv, [Next]_vars, NEW b \in DOMAIN blocks'
  PROVE  \/ b \in DOMAIN blocks /\ blocks'[b].entry = blocks[b].entry
         \/ \E t \in Threads :
              /\ Insert(t)
              /\ b = Through(t) + 1
              /\ blocks'[b].entry = next_recency
<1> USE DEF RInv
<1>1. CASE UNCHANGED blocks
  BY <1>1
<1>2. ASSUME NEW S, blocks' = WithoutBlocks(S)
      PROVE  b \in DOMAIN blocks /\ blocks'[b].entry = blocks[b].entry
  BY <1>2 DEF WithoutBlocks
<1>3. ASSUME NEW t \in Threads, LookupHit(t)
      PROVE  b \in DOMAIN blocks /\ blocks'[b].entry = blocks[b].entry
  BY <1>3 DEF LookupHit, TypeOK
<1>4. ASSUME NEW t \in Threads, Insert(t)
      PROVE  \/ b \in DOMAIN blocks /\ blocks'[b].entry = blocks[b].entry
             \/ b = Through(t) + 1 /\ blocks'[b].entry = next_recency
  BY <1>4 DEF Insert, Reserving
<1>5. \/ UNCHANGED blocks
      \/ \E S : blocks' = WithoutBlocks(S)
      \/ \E t \in Threads : LookupHit(t) \/ Insert(t)
  BY DEF Next, vars, Clear, Call, CallNothing, Begin, Starts,
     Step, LookupMiss, EvictForInsert,
     EndReserve, WaitReady, WaitFailed, FetchOk, FetchError,
     CompleteEntry, TrimEvict, TrimDone, RemoveFailed, FailEntry, cacheVars
<1> QED BY <1>1, <1>2, <1>3, <1>4, <1>5

\* A thread that waits after a step waited before it, or has just found its
\* block in the cache.
LEMMA WaitingStep ==
  ASSUME RInv, [Next]_vars, NEW t \in Threads, pc'[t] = "wait"
  PROVE  /\ cursor'[t] = cursor[t]
         /\ \/ pc[t] = "wait" /\ waiting'[t] = waiting[t]
            \/ /\ cursor[t] \in DOMAIN blocks
               /\ waiting'[t] = blocks[cursor[t]].entry
<1> USE DEF RInv
<1>1. CASE UNCHANGED vars
  BY <1>1 DEF vars
<1>2. CASE Clear
  BY <1>2 DEF Clear
<1>3. ASSUME NEW u \in Threads, Call(u)
      PROVE  cursor'[t] = cursor[t] /\ pc[t] = "wait" /\ waiting'[t] = waiting[t]
  <2>1. PICK req \in Requests :
          CallNothing(u, req) \/ Begin(u, req)
    BY <1>3 DEF Call
  <2> QED BY <2>1 DEF CallNothing, Begin, Starts, TypeOK
<1>4. ASSUME NEW u \in Threads, Step(u), t # u
      PROVE  cursor'[t] = cursor[t] /\ pc[t] = "wait" /\ waiting'[t] = waiting[t]
  BY <1>4 DEF Step, LookupHit, LookupMiss, EvictForInsert,
     Insert, EndReserve, WaitReady, WaitFailed, FetchOk,
     FetchError, CompleteEntry, TrimEvict, TrimDone, RemoveFailed, FailEntry,
     Deliver, DeliverRead, DeliverPrefetch, Fails, TypeOK
<1>5. ASSUME Step(t)
      PROVE  /\ cursor'[t] = cursor[t]
             /\ cursor[t] \in DOMAIN blocks
             /\ waiting'[t] = blocks[cursor[t]].entry
  <2>1. CASE LookupHit(t)
    BY <2>1 DEF LookupHit, TypeOK
  <2>2. CASE ~ LookupHit(t)
    BY <1>5, <2>2 DEF Step, LookupMiss, EvictForInsert,
       Insert, Reserving, EndReserve, WaitReady, WaitFailed, FetchOk, FetchError, CompleteEntry, TrimEvict, TrimDone, RemoveFailed,
       FailEntry, Deliver, DeliverRead, DeliverPrefetch, Fails, TypeOK
  <2> QED BY <2>1, <2>2
<1> QED BY <1>1, <1>2, <1>3, <1>4, <1>5 DEF Next

\* A block that leaves the cache was cleared, evicted or trimmed once settled,
\* or removed by the thread whose fetch of it failed.
LEMMA BlocksKept ==
  ASSUME RInv, [Next]_vars, NEW b \in DOMAIN blocks
  PROVE  \/ b \in DOMAIN blocks' /\ blocks'[b].entry = blocks[b].entry
         \/ blocks[b].entry \in discarded'
         \/ blocks[b].entry \in Settled
         \/ \E u \in Threads :
              /\ pc'[u] = "fail"
              /\ \E j \in Todo(u) : blocks[b].entry = span[u][j]
<1> USE DEF RInv
<1>1. CASE UNCHANGED blocks
  BY <1>1
<1>2. CASE Clear
  BY <1>2 DEF Clear
<1>3. ASSUME NEW u \in Threads, EvictForInsert(u) \/ TrimEvict(u)
      PROVE  \/ b \in DOMAIN blocks' /\ blocks'[b].entry = blocks[b].entry
             \/ blocks[b].entry \in Settled
  <2>1. PICK c : OldestSettled(c) /\ blocks' = WithoutBlocks({c})
    BY <1>3 DEF EvictForInsert, TrimEvict
  <2> QED BY <2>1 DEF OldestSettled, WithoutBlocks
<1>4. ASSUME NEW u \in Threads, LookupHit(u)
      PROVE  b \in DOMAIN blocks' /\ blocks'[b].entry = blocks[b].entry
  BY <1>4 DEF LookupHit, TypeOK
<1>5. ASSUME NEW u \in Threads, Insert(u)
      PROVE  b \in DOMAIN blocks' /\ blocks'[b].entry = blocks[b].entry
  BY <1>5 DEF Insert, Reserving
<1>6. ASSUME NEW u \in Threads, RemoveFailed(u)
      PROVE  \/ b \in DOMAIN blocks' /\ blocks'[b].entry = blocks[b].entry
             \/ pc'[u] = "fail" /\ \E j \in Todo(u) : blocks[b].entry = span[u][j]
  <2> DEFINE S == {c \in (cursor[u] .. Through(u)) \cap DOMAIN blocks :
                     blocks[c].entry = span[u][c - cursor[u] + 1]}
  <2>1. pc[u] = "remove" /\ pc'[u] = "fail" /\ blocks' = WithoutBlocks(S)
    BY <1>6 DEF RemoveFailed, TypeOK
  <2>2. CASE b \in S
    <3>1. Todo(u) = 1 .. Len(span[u])
      BY <2>1 DEF Todo, Control, ThreadControl
    <3>2. b - cursor[u] + 1 \in Todo(u)
      BY <2>2, <3>1 DEF TypeOK, Through
    <3> QED BY <2>1, <2>2, <3>2
  <2>3. CASE b \notin S
    <3> HIDE DEF S
    <3> QED BY <2>1, <2>3 DEF WithoutBlocks
  <2> QED BY <2>2, <2>3
<1>7. \/ UNCHANGED blocks
      \/ Clear
      \/ \E u \in Threads : EvictForInsert(u) \/ TrimEvict(u) \/ LookupHit(u)
                              \/ Insert(u) \/ RemoveFailed(u)
  BY DEF Next, vars, Call, CallNothing, Begin, Starts,
     Step, LookupMiss, EndReserve, WaitReady, WaitFailed,
     FetchOk, FetchError, CompleteEntry, TrimDone, FailEntry,
     cacheVars
<1> QED BY <1>1, <1>2, <1>3, <1>4, <1>5, <1>6, <1>7

\* How a thread comes to hold reserved entries, to fail them, or to deliver.
LEMMA PhaseStep ==
  ASSUME RInv, [Next]_vars, NEW t \in Threads
  PROVE  /\ pc'[t] = "fail" => pc[t] = "fail" \/ RemoveFailed(t)
         /\ pc'[t] \in {"reserve", "fetch", "complete"} =>
              pc[t] \in {"reserve", "fetch", "complete"} \/ Todo(t)' = {}
         /\ pc'[t] \in {"complete", "trim"} =>
              \/ done'[t] = 0
              \/ CompleteEntry(t)
              \/ /\ pc[t] \in {"complete", "trim"}
                 /\ done'[t] = done[t] /\ span'[t] = span[t] /\ cursor'[t] = cursor[t]
         /\ Insert(t) => pc'[t] = "reserve" /\ locked = {t}
<1> USE DEF RInv
<1>1. CASE UNCHANGED vars \/ Clear
  BY <1>1 DEF vars, Clear, Todo, Insert, Reserving, Control, ThreadControl, TypeOK
<1>2. ASSUME NEW u \in Threads, Call(u)
      PROVE  /\ pc'[t] \in {"idle", "lookup"} \/ pc'[t] = pc[t]
             /\ UNCHANGED <<done, span, next_recency>>
             /\ u # t => cursor'[t] = cursor[t]
             /\ u = t => pc'[t] \in {"idle", "lookup"}
  <2>1. PICK req \in Requests :
          CallNothing(u, req) \/ Begin(u, req)
    BY <1>2 DEF Call
  <2> QED BY <2>1 DEF CallNothing, Begin, Starts, TypeOK, cacheVars
<1>3. ASSUME NEW u \in Threads, Step(u), u # t
      PROVE  /\ pc'[t] = pc[t] /\ done'[t] = done[t] /\ span'[t] = span[t]
             /\ cursor'[t] = cursor[t]
  BY <1>3 DEF Step, LookupHit, LookupMiss, EvictForInsert,
     Insert, EndReserve, WaitReady, WaitFailed, FetchOk,
     FetchError, CompleteEntry, TrimEvict, TrimDone, RemoveFailed, FailEntry,
     Deliver, DeliverRead, DeliverPrefetch, Fails, TypeOK
<1>4. Insert(t) => pc'[t] = "reserve" /\ locked = {t}
  BY DEF Insert, Reserving, Control, ThreadControl, TypeOK
<1>5. ASSUME Step(t)
      PROVE  /\ pc'[t] = "fail" => pc[t] = "fail" \/ RemoveFailed(t)
             /\ pc'[t] \in {"reserve", "fetch", "complete"} =>
                  pc[t] \in {"reserve", "fetch", "complete"} \/ Todo(t)' = {}
             /\ pc'[t] \in {"complete", "trim"} =>
                  \/ done'[t] = 0
                  \/ CompleteEntry(t)
                  \/ /\ pc[t] \in {"complete", "trim"}
                     /\ done'[t] = done[t] /\ span'[t] = span[t]
                     /\ cursor'[t] = cursor[t]
  <2>1. CASE LookupHit(t) \/ WaitFailed(t)
    BY <2>1 DEF LookupHit, WaitFailed, Fails, TypeOK
  <2>2. CASE LookupMiss(t)
    BY <2>2 DEF LookupMiss, Todo, TypeOK
  <2>3. CASE EvictForInsert(t) \/ Insert(t) \/ EndReserve(t) \/ FetchError(t)
    BY <2>3 DEF EvictForInsert, Insert, Reserving, EndReserve, FetchError, TypeOK
  <2>4. CASE FetchOk(t) \/ TrimEvict(t) \/ CompleteEntry(t)
    BY <2>4 DEF FetchOk, TrimEvict, CompleteEntry, Control, ThreadControl, TypeOK
  <2>5. CASE WaitReady(t) \/ TrimDone(t)
    BY <2>5 DEF WaitReady, TrimDone, Deliver, DeliverRead, DeliverPrefetch, TypeOK
  <2>6. CASE RemoveFailed(t)
    BY <2>6 DEF RemoveFailed, TypeOK
  <2>7. CASE FailEntry(t)
    BY <2>7 DEF FailEntry, Fails, TypeOK
  <2> QED BY <1>5, <2>1, <2>2, <2>3, <2>4, <2>5, <2>6, <2>7 DEF Step
<1>6. ASSUME NEW u \in Threads, Call(u)
      PROVE  /\ pc'[t] \in {"reserve", "fetch", "complete", "trim", "fail"}
                  => pc'[t] = pc[t] /\ u # t
             /\ done' = done /\ span' = span
             /\ u # t => cursor'[t] = cursor[t]
  BY <1>2, <1>6
<1> QED BY <1>1, <1>3, <1>4, <1>5, <1>6 DEF Next

----------
(* Identity, matching, removal, sharing and exactness are preserved *)

LEMMA IdentityStep ==
  ASSUME RInv, [Next]_vars
  PROVE  Identity'
<1> USE DEF RInv
<1>1. \A e : e \in Settled' => e \in Settled \/ \E t \in Threads :
         /\ done[t] + 1 \in Todo(t) /\ done[t] + 1 \notin Todo(t)'
         /\ e = span[t][done[t] + 1]
  BY SettledStep DEF Settled
<1>2. /\ Settled \subseteq EntryIds /\ next_recency \notin EntryIds
      /\ \A t \in Threads : \A i \in Todo(t) : span[t][i] \in EntryIds
  BY DEF TypeOK, Settled, EntryIds, Todo
<1>3. ASSUME NEW t \in Threads, NEW i \in Todo(t)'
      PROVE  span'[t][i] \notin Settled'
  <2>1. CASE i \in Todo(t) /\ span'[t][i] = span[t][i]
    BY <1>1, <1>3, <2>1 DEF Identity
  <2>2. CASE span'[t][i] = next_recency
    BY <1>1, <1>2, <2>2
  <2> QED BY <1>3, <2>1, <2>2, TodoStep
<1>4. ASSUME NEW t \in Threads, NEW u \in Threads, NEW i \in Todo(t)',
             NEW j \in Todo(u)', span'[t][i] = span'[u][j]
      PROVE  t = u /\ i = j
  <2>1. CASE i \in Todo(t) /\ span'[t][i] = span[t][i]
               /\ j \in Todo(u) /\ span'[u][j] = span[u][j]
    <3>1. \A v, w \in Threads : \A k \in Todo(v), l \in Todo(w) :
            span[v][k] = span[w][l] => v = w /\ k = l
      BY DEF Identity
    <3>2. i \in Todo(t) /\ j \in Todo(u) /\ span[t][i] = span[u][j]
      BY <1>4, <2>1
    <3> QED BY ONLY <3>1, <3>2, t \in Threads, u \in Threads
  <2>2. CASE Insert(t) /\ i = Len(span[t]) + 1 /\ span'[t][i] = next_recency
    <3>1. ~ (j \in Todo(u) /\ span'[u][j] = span[u][j])
      BY <1>2, <1>4, <2>2
    <3>2. Insert(u) /\ j = Len(span[u]) + 1
      BY <3>1, TodoStep
    <3> QED BY <2>2, <3>2, PhaseStep
  <2>3. CASE Insert(u) /\ j = Len(span[u]) + 1 /\ span'[u][j] = next_recency
    <3>1. ~ (i \in Todo(t) /\ span'[t][i] = span[t][i])
      BY <1>2, <1>4, <2>3
    <3>2. Insert(t) /\ i = Len(span[t]) + 1
      BY <3>1, TodoStep
    <3> QED BY <2>3, <3>2, PhaseStep
  <2> QED BY <2>1, <2>2, <2>3, TodoStep
<1> QED BY <1>3, <1>4 DEF Identity

\* Entries of the cache, of a span and settled ones were named before the next.
LEMMA EntriesKnown ==
  ASSUME TypeOK
  PROVE  /\ \A b \in DOMAIN blocks : blocks[b].entry \in EntryIds
         /\ \A t \in Threads : \A i \in Todo(t) : span[t][i] \in EntryIds
         /\ DOMAIN ready \subseteq EntryIds /\ failed \subseteq EntryIds
         /\ next_recency \notin EntryIds
<1>1. \A b \in DOMAIN blocks : blocks[b].entry \in EntryIds
  BY DEF TypeOK
<1>2. ASSUME NEW t \in Threads, NEW i \in Todo(t) PROVE span[t][i] \in EntryIds
  <2>1. span[t] \in Seq(EntryIds) /\ done[t] \in Nat
    BY DEF TypeOK
  <2>2. i \in 1 .. Len(span[t])
    BY <2>1, LenProperties DEF Todo
  <2> QED BY <2>1, <2>2, ElementOfSeq
<1>3. DOMAIN ready \subseteq EntryIds /\ failed \subseteq EntryIds
  BY DEF TypeOK
<1>4. next_recency \notin EntryIds
  BY DEF TypeOK, EntryIds
<1> QED BY <1>1, <1>2, <1>3, <1>4

LEMMA MatchingStep ==
  ASSUME RInv, [Next]_vars
  PROVE  Matching'
<1> USE DEF RInv
<1>0. \A b \in DOMAIN blocks :
        \A u \in Threads : \A i \in Todo(u) :
          span[u][i] = blocks[b].entry => b = cursor[u] + i - 1
  BY DEF Matching
<1>1. /\ \A b \in DOMAIN blocks : blocks[b].entry \in EntryIds
      /\ \A t \in Threads : \A i \in Todo(t) : span[t][i] \in EntryIds
      /\ DOMAIN ready \subseteq EntryIds /\ next_recency \notin EntryIds
      /\ next_recency \notin DOMAIN ready'
  BY EntriesKnown, SettledStep
<1>2. ASSUME NEW b \in DOMAIN blocks, NEW e, e = blocks[b].entry
      PROVE  /\ e \in DOMAIN ready' => ready'[e] = BlockSource(b)
             /\ \A u \in Threads : \A i \in Todo(u)' :
                  span'[u][i] = e => b = cursor'[u] + i - 1
  <2>1. ASSUME e \in DOMAIN ready' PROVE ready'[e] = BlockSource(b)
    <3>1. CASE e \in DOMAIN ready
      BY <1>2, <3>1, SettledStep DEF Matching
    <3>2. CASE e \notin DOMAIN ready
      <4>1. PICK t \in Threads :
              /\ done[t] + 1 \in Todo(t)
              /\ e = span[t][done[t] + 1]
              /\ ready'[e] = BlockSource(cursor[t] + done[t])
        BY <2>1, <3>2, SettledStep
      <4> DEFINE j == done[t] + 1
      <4>2. j \in Todo(t) /\ span[t][j] = blocks[b].entry
        BY <1>2, <4>1
      <4> HIDE DEF j
      <4>3. b = cursor[t] + j - 1
        BY <1>0, <4>2
      <4>4. b = cursor[t] + done[t]
        BY <4>3 DEF TypeOK, j
      <4> QED BY <4>1, <4>4
    <3> QED BY <3>1, <3>2
  <2>2. ASSUME NEW u \in Threads, NEW i \in Todo(u)', span'[u][i] = e
        PROVE  b = cursor'[u] + i - 1
    <3>1. cursor'[u] = cursor[u] /\ i \in Todo(u) /\ span'[u][i] = span[u][i]
      BY <1>1, <1>2, <2>2, TodoStep
    <3> QED BY <1>0, <1>2, <2>2, <3>1
  <2> QED BY <2>1, <2>2
<1>3. ASSUME NEW b \in DOMAIN blocks'
      PROVE  /\ blocks'[b].entry \in DOMAIN ready'
                  => ready'[blocks'[b].entry] = BlockSource(b)
             /\ \A u \in Threads : \A i \in Todo(u)' :
                  span'[u][i] = blocks'[b].entry => b = cursor'[u] + i - 1
  <2>1. CASE b \in DOMAIN blocks /\ blocks'[b].entry = blocks[b].entry
    BY <1>2, <2>1
  <2>2. ASSUME NEW t \in Threads, Insert(t), b = Through(t) + 1,
               blocks'[b].entry = next_recency
        PROVE  /\ blocks'[b].entry \notin DOMAIN ready'
               /\ \A u \in Threads : \A i \in Todo(u)' :
                    span'[u][i] = blocks'[b].entry => b = cursor'[u] + i - 1
    <3>1. ASSUME NEW u \in Threads, NEW i \in Todo(u)', span'[u][i] = next_recency
          PROVE  b = cursor'[u] + i - 1
      <4>1. cursor'[u] = cursor[u] /\ Insert(u) /\ i = Len(span[u]) + 1
        BY <1>1, <3>1, TodoStep
      <4>2. u = t
        BY <2>2, <4>1, PhaseStep
      <4> QED BY <2>2, <4>1, <4>2 DEF Through, TypeOK
    <3> QED BY <1>1, <2>2, <3>1
  <2> QED BY <2>1, <2>2, BlocksStep
<1>4. ASSUME NEW t \in Threads, pc'[t] = "wait"
      PROVE  /\ waiting'[t] \in EntryIds'
             /\ waiting'[t] \in DOMAIN ready'
                  => ready'[waiting'[t]] = BlockSource(cursor'[t])
             /\ \A u \in Threads : \A i \in Todo(u)' :
                  span'[u][i] = waiting'[t] => cursor'[t] = cursor'[u] + i - 1
  <2>0. cursor'[t] = cursor[t]
    BY <1>4, WaitingStep
  <2>1. EntryIds \subseteq EntryIds'
    <3>1. next_recency' \in {next_recency, next_recency + 1}
      BY DEF Next, vars, Clear, Call, CallNothing, Begin,
         Starts, Step, LookupHit, LookupMiss, EvictForInsert,
         Insert, EndReserve, WaitReady, WaitFailed, FetchOk,
         FetchError, CompleteEntry, TrimEvict, TrimDone, RemoveFailed,
         FailEntry, cacheVars
    <3> QED BY <3>1 DEF EntryIds, TypeOK
  <2>2. CASE pc[t] = "wait" /\ waiting'[t] = waiting[t]
    <3> DEFINE e == waiting[t]
    <3>1. /\ e \in EntryIds
          /\ e \in DOMAIN ready => ready[e] = BlockSource(cursor[t])
          /\ \A u \in Threads : \A i \in Todo(u) :
               span[u][i] = e => cursor[t] = cursor[u] + i - 1
      BY <2>2 DEF Matching
    <3> HIDE DEF e
    <3>2. ASSUME e \in DOMAIN ready' PROVE ready'[e] = BlockSource(cursor[t])
      <4>1. CASE e \in DOMAIN ready
        BY <3>1, <4>1, SettledStep
      <4>2. CASE e \notin DOMAIN ready
        <5>1. PICK u \in Threads :
                /\ done[u] + 1 \in Todo(u)
                /\ e = span[u][done[u] + 1]
                /\ ready'[e] = BlockSource(cursor[u] + done[u])
          BY <3>2, <4>2, SettledStep
        <5>2. cursor[t] = cursor[u] + (done[u] + 1) - 1
          BY <3>1, <5>1
        <5>3. cursor[t] = cursor[u] + done[u]
          BY <5>2 DEF TypeOK
        <5> QED BY <5>1, <5>3
      <4> QED BY <4>1, <4>2
    <3>3. ASSUME NEW u \in Threads, NEW i \in Todo(u)', span'[u][i] = e
          PROVE  cursor[t] = cursor'[u] + i - 1
      <4>1. cursor'[u] = cursor[u] /\ i \in Todo(u) /\ span'[u][i] = span[u][i]
        BY <1>1, <3>1, <3>3, TodoStep
      <4> QED BY <3>1, <3>3, <4>1
    <3> QED BY <2>0, <2>1, <2>2, <3>1, <3>2, <3>3 DEF e
  <2>3. CASE cursor[t] \in DOMAIN blocks /\ waiting'[t] = blocks[cursor[t]].entry
    BY <1>1, <1>2, <2>0, <2>1, <2>3
  <2> QED BY <1>4, <2>2, <2>3, WaitingStep
<1>5. ASSUME NEW t \in Threads, pc'[t] \in {"complete", "trim"}, done'[t] >= 1
      PROVE  /\ span'[t][1] \in DOMAIN ready'
             /\ ready'[span'[t][1]] = BlockSource(cursor'[t])
  <2>1. CASE CompleteEntry(t)
    <3>1. /\ span' = span /\ cursor' = cursor /\ pc[t] = "complete"
          /\ done[t] \in Nat
      BY <2>1 DEF CompleteEntry, TypeOK
    <3>2. CASE done[t] = 0
      <4>1. BlockBytes(t, done[t] + 1) = BlockSource(cursor[t] + done[t])
        BY <3>1, BlockBytesFacts
      <4>2. cursor[t] + done[t] = cursor[t] /\ done[t] + 1 = 1
        BY <3>2 DEF TypeOK
      <4>3. BlockBytes(t, 1) = BlockSource(cursor[t])
        BY <4>1, <4>2
      <4>4. ready' = [e \in DOMAIN ready \cup {span[t][1]} |->
                        IF e = span[t][1] THEN BlockBytes(t, 1) ELSE ready[e]]
        BY <2>1, <4>2 DEF CompleteEntry
      <4> QED BY <3>1, <4>3, <4>4
    <3>3. CASE done[t] >= 1
      <4>1. span[t][1] \in DOMAIN ready /\ ready[span[t][1]] = BlockSource(cursor[t])
        BY <3>1, <3>3 DEF Matching
      <4> QED BY <3>1, <4>1, SettledStep
    <3> QED BY <3>1, <3>2, <3>3
  <2>2. CASE /\ pc[t] \in {"complete", "trim"}
             /\ done'[t] = done[t] /\ span'[t] = span[t] /\ cursor'[t] = cursor[t]
    <3>1. span[t][1] \in DOMAIN ready /\ ready[span[t][1]] = BlockSource(cursor[t])
      BY <1>5, <2>2 DEF Matching
    <3> QED BY <2>2, <3>1, SettledStep
  <2>3. done'[t] # 0
    BY <1>5
  <2> QED BY <1>5, <2>1, <2>2, <2>3, PhaseStep
<1>6. \A b : BlockSource(b)' = BlockSource(b)
  BY DEF BlockSource, SourceBytes, BlockEnd, Least
<1> QED BY <1>3, <1>4, <1>5, <1>6 DEF Matching

LEMMA RemovedStep ==
  ASSUME RInv, [Next]_vars
  PROVE  Removed'
<1> USE DEF RInv
<1>1. /\ \A b \in DOMAIN blocks : blocks[b].entry \in EntryIds
      /\ \A t \in Threads : \A i \in Todo(t) : span[t][i] \in EntryIds
      /\ failed \subseteq EntryIds /\ next_recency \notin EntryIds
      /\ next_recency \notin failed'
  BY EntriesKnown, SettledStep
<1>2. /\ \A b \in DOMAIN blocks : blocks[b].entry \notin failed
      /\ \A t \in Threads : pc[t] = "fail" =>
           \A i \in Todo(t) : \A b \in DOMAIN blocks : blocks[b].entry # span[t][i]
  BY DEF Removed, FailuresAreNotCached
<1>3. ASSUME NEW b \in DOMAIN blocks' PROVE blocks'[b].entry \notin failed'
  <2>1. CASE b \in DOMAIN blocks /\ blocks'[b].entry = blocks[b].entry
    BY <1>2, <2>1, SettledStep
  <2>2. CASE blocks'[b].entry = next_recency
    BY <1>1, <2>2
  <2> QED BY <2>1, <2>2, BlocksStep
<1>4. ASSUME NEW t \in Threads, pc'[t] = "fail", NEW i \in Todo(t)',
             NEW b \in DOMAIN blocks'
      PROVE  blocks'[b].entry # span'[t][i]
  <2>1. i \in Todo(t) /\ span'[t][i] = span[t][i]
    BY <1>4, TodoStep, PhaseStep
  <2>2. CASE blocks'[b].entry = next_recency
    BY <1>1, <2>1, <2>2
  <2>3. CASE b \in DOMAIN blocks /\ blocks'[b].entry = blocks[b].entry
    <3>1. CASE pc[t] = "fail"
      BY <1>2, <2>1, <2>3, <3>1
    <3>2. CASE RemoveFailed(t)
      <4>1. SUFFICES ASSUME blocks[b].entry = span[t][i] PROVE FALSE
        BY <2>1, <2>3
      <4>2. b = cursor[t] + i - 1
        BY <2>1, <2>3, <4>1 DEF Matching
      <4>3. i \in Nat /\ i = b - cursor[t] + 1 /\ b \in cursor[t] .. Through(t)
        <5>1. cursor[t] \in Nat /\ Len(span[t]) \in Nat /\ done[t] \in Nat
          BY DEF TypeOK
        <5>2. i \in done[t] + 1 .. Len(span[t])
          BY <2>1 DEF Todo
        <5> QED BY <4>2, <5>1, <5>2 DEF Through
      <4> DEFINE S == {c \in (cursor[t] .. Through(t)) \cap DOMAIN blocks :
                         blocks[c].entry = span[t][c - cursor[t] + 1]}
      <4>4. b \in S
        BY <2>3, <4>1, <4>3
      <4>5. blocks' = WithoutBlocks(S)
        BY <3>2 DEF RemoveFailed
      <4> HIDE DEF S
      <4> QED BY <4>4, <4>5 DEF WithoutBlocks
    <3> QED BY <1>4, <3>1, <3>2, PhaseStep
  <2> QED BY <2>2, <2>3, BlocksStep
<1> QED BY <1>3, <1>4 DEF Removed, FailuresAreNotCached

LEMMA SharingStep ==
  ASSUME RInv, [Next]_vars
  PROVE  InFlightIsShared'
<1> USE DEF RInv
<1> SUFFICES ASSUME NEW t \in Threads,
                    pc'[t] \in {"reserve", "fetch", "complete"},
                    NEW i \in done'[t] + 1 .. Len(span'[t])
             PROVE  \/ span'[t][i] \in discarded'
                    \/ /\ cursor'[t] + i - 1 \in DOMAIN blocks'
                       /\ blocks'[cursor'[t] + i - 1].entry = span'[t][i]
  BY DEF InFlightIsShared
<1> DEFINE b == cursor[t] + i - 1
<1>1. i \in Todo(t)' /\ cursor'[t] = cursor[t]
  <2>1. i \in Todo(t)'
    BY DEF Todo
  <2> QED BY <2>1, TodoStep
<1>2. CASE i \in Todo(t) /\ span'[t][i] = span[t][i]
  <2>1. pc[t] \in {"reserve", "fetch", "complete"}
    BY <1>1, PhaseStep
  <2>2. Todo(t) = done[t] + 1 .. Len(span[t])
    BY <2>1 DEF Todo
  <2>3. \/ span[t][i] \in discarded
        \/ b \in DOMAIN blocks /\ blocks[b].entry = span[t][i]
    BY <1>2, <2>1, <2>2 DEF InFlightIsShared
  <2>4. discarded \subseteq discarded'
    BY DEF Next, vars, Clear, Call, CallNothing, Begin,
       Starts, Step, LookupHit, LookupMiss, EvictForInsert,
       Insert, EndReserve, WaitReady, WaitFailed, FetchOk,
       FetchError, CompleteEntry, TrimEvict, TrimDone, RemoveFailed,
       FailEntry, boundVars
  <2>5. CASE b \in DOMAIN blocks /\ blocks[b].entry = span[t][i]
    <3>1. span[t][i] \notin Settled
      BY <1>2 DEF Identity
    <3>2. ASSUME NEW u \in Threads, pc'[u] = "fail", NEW j \in Todo(u),
                 span[t][i] = span[u][j]
          PROVE  FALSE
      <4>1. \A v, w \in Threads : \A k \in Todo(v), l \in Todo(w) :
              span[v][k] = span[w][l] => v = w /\ k = l
        BY DEF Identity
      <4>2. t = u
        BY ONLY <1>2, <3>2, <4>1, t \in Threads
      <4> QED BY <3>2, <4>2
    <3> HIDE DEF b
    <3>3. \/ b \in DOMAIN blocks' /\ blocks'[b].entry = span[t][i]
          \/ span[t][i] \in discarded'
      BY <2>5, <3>1, <3>2, BlocksKept
    <3> QED BY <1>1, <1>2, <3>3 DEF b
  <2> QED BY <1>1, <1>2, <2>3, <2>4, <2>5
<1>3. CASE Insert(t) /\ i = Len(span[t]) + 1 /\ span'[t][i] = next_recency
  <2>1. b = Through(t) + 1
    BY <1>3 DEF Through, TypeOK
  <2> HIDE DEF b
  <2>2. b \in DOMAIN blocks' /\ blocks'[b].entry = next_recency
    BY <1>3, <2>1 DEF Insert
  <2> QED BY <1>1, <1>3, <2>2 DEF b
<1> QED BY <1>1, <1>2, <1>3, TodoStep

LEMMA ExactStep ==
  ASSUME RInv, [Next]_vars
  PROVE  ReadsAreExact'
<1> USE DEF RInv
<1> DEFINE Exact(t) ==
             request[t].kind = "read" =>
               /\ buffer[t] = SourceBytes(request[t].offset,
                                          request[t].offset + Len(buffer[t]))
               /\ result[t] = "ok" => Len(buffer[t]) = Clipped(request[t])
<1> SUFFICES ASSUME NEW t \in Threads PROVE Exact(t)'
  BY DEF ReadsAreExact
<1>0. Exact(t)
  BY DEF ReadsAreExact
<1>1. ASSUME request'[t] = request[t], buffer'[t] = buffer[t],
             result'[t] = "ok" => result[t] = "ok"
      PROVE  Exact(t)'
  BY <1>0, <1>1 DEF SourceBytes, Clipped, Least
<1>2. ASSUME Call(t) PROVE Exact(t)'
  <2>1. PICK req \in Requests :
          CallNothing(t, req) \/ Begin(t, req)
    BY <1>2 DEF Call
  <2>2. request'[t] = req /\ buffer'[t] = << >>
    BY <2>1 DEF CallNothing, Begin, Starts, TypeOK
  <2>3. result'[t] = "ok" => Clipped(req) = 0
    BY <2>1 DEF CallNothing, Begin, Starts, TypeOK
  <2>4. req.offset \in Nat
    BY ConfigAssumption DEF Request
  <2>5. SourceBytes(req.offset, req.offset + 0) = << >>
    <3> DEFINE o == req.offset
    <3>1. o \in Nat /\ o + 0 = o /\ o <= o /\ o - o = 0
      BY <2>4
    <3> HIDE DEF o
    <3>2. SourceBytes(o, o) \in Seq(Nat) /\ Len(SourceBytes(o, o)) = 0
      BY ONLY <3>1, SourceBytesFacts
    <3>3. SourceBytes(o, o) = << >>
      BY ONLY <3>2
    <3> QED BY <3>1, <3>3 DEF o
  <2> QED BY <2>2, <2>3, <2>5 DEF SourceBytes, Clipped, Least
<1>3. ASSUME NEW bytes, NEW through, bytes = BlockSource(cursor[t]),
             pc[t] # "idle", Deliver(t, bytes, through), request' = request
      PROVE  Exact(t)'
  <2>1. CASE DeliverRead(t, bytes)
    <3> DEFINE o == request[t].offset
               c == Copied(t, bytes)
    <3>1. request[t].kind = "read"
      BY <2>1 DEF DeliverRead
    <3>2. /\ Len(buffer[t]) \in Nat /\ Count(t, bytes) \in Nat \ {0}
          /\ Len(buffer[t]) + Count(t, bytes) <= Requested(request[t])
          /\ Requested(request[t]) = Clipped(request[t])
          /\ Len(c) = Len(buffer[t]) + Count(t, bytes)
          /\ c = SourceBytes(o, o + Len(c))
      BY <1>3, <3>1, DeliverReadFacts
    <3>3. buffer'[t] = c
      BY <2>1 DEF DeliverRead, TypeOK
    <3>4. ASSUME result'[t] = "ok" PROVE Len(c) = Clipped(request[t])
      <4>1. CASE Len(buffer[t]) + Count(t, bytes) < Requested(request[t])
        <5>1. result[t] = "ok"
          BY <2>1, <3>4, <4>1 DEF DeliverRead
        <5>2. Len(buffer[t]) = Clipped(request[t])
          BY <1>0, <3>1, <5>1
        <5> QED BY <3>2, <4>1, <5>2
      <4>2. CASE ~ (Len(buffer[t]) + Count(t, bytes) < Requested(request[t]))
        <5>1. Clipped(request[t]) \in Int
          BY ConfigAssumption DEF Clipped, Least, TypeOK, Request
        <5> QED BY <3>2, <4>2, <5>1
      <4> QED BY <4>1, <4>2
    <3> HIDE DEF c
    <3> QED BY <1>3, <3>2, <3>3, <3>4 DEF SourceBytes, Clipped, Least
  <2>2. CASE DeliverPrefetch(t, through)
    BY <1>3, <2>2 DEF DeliverPrefetch
  <2> QED BY <1>3, <2>1, <2>2 DEF Deliver
<1>4. CASE WaitReady(t)
  <2>1. ready[waiting[t]] = BlockSource(cursor[t])
    BY <1>4 DEF WaitReady, Matching
  <2> QED BY <1>3, <1>4, <2>1 DEF WaitReady, callVars
<1>5. CASE TrimDone(t)
  <2>1. pc[t] = "trim" /\ done[t] >= 1
    BY <1>5 DEF TrimDone, Control, ThreadControl, TypeOK
  <2>2. ready[span[t][1]] = BlockSource(cursor[t])
    BY <2>1 DEF Matching
  <2> QED BY <1>3, <1>5, <2>1, <2>2 DEF TrimDone, callVars
<1>6. ASSUME NEW u \in Threads, Call(u), u # t PROVE Exact(t)'
  <2>1. PICK req \in Requests :
          CallNothing(u, req) \/ Begin(u, req)
    BY <1>6 DEF Call
  <2>2. /\ request'[t] = request[t] /\ buffer'[t] = buffer[t]
        /\ result'[t] = result[t]
    BY <1>6, <2>1 DEF CallNothing, Begin, Starts, TypeOK
  <2> QED BY <1>1, <2>2
<1>7. ASSUME NEW u \in Threads, Step(u), u # t PROVE Exact(t)'
  <2>1. /\ request'[t] = request[t] /\ buffer'[t] = buffer[t]
        /\ result'[t] = result[t]
    BY <1>7 DEF Step, LookupHit, LookupMiss, EvictForInsert,
       Insert, EndReserve, WaitReady, WaitFailed, FetchOk,
       FetchError, CompleteEntry, TrimEvict, TrimDone, RemoveFailed, FailEntry,
       Deliver, DeliverRead, DeliverPrefetch, Fails, TypeOK, callVars
  <2> QED BY <1>1, <2>1
<1>8. ASSUME Step(t), ~ WaitReady(t), ~ TrimDone(t) PROVE Exact(t)'
  <2>1. /\ request'[t] = request[t] /\ buffer'[t] = buffer[t]
        /\ result'[t] = "ok" => result[t] = "ok"
    <3>1. CASE FailEntry(t)
      BY <3>1 DEF FailEntry, Fails, TypeOK, callVars
    <3>2. CASE ~ FailEntry(t)
      BY <1>8, <3>2 DEF Step, LookupHit, LookupMiss,
         EvictForInsert, Insert, EndReserve, WaitFailed, FetchOk,
         FetchError, CompleteEntry, TrimEvict, RemoveFailed, Fails, TypeOK,
         callVars
    <3> QED BY <3>1, <3>2
  <2> QED BY <1>1, <2>1
<1>9. CASE UNCHANGED vars \/ Clear
  <2>1. request' = request /\ buffer' = buffer /\ result' = result
    BY <1>9 DEF vars, Clear, callVars
  <2> QED BY <1>1, <2>1
<1> QED BY <1>2, <1>4, <1>5, <1>6, <1>7, <1>8, <1>9 DEF Next

----------
(* The theorems *)

LEMMA RInvInit == Init => RInv
<1> SUFFICES ASSUME Init PROVE RInv
  OBVIOUS
<1> USE DEF Init
<1>1. TypeOK
  <2>1. IsFiniteSet(DOMAIN blocks)
    BY FS_EmptySet
  <2>2. /\ [kind |-> "read", offset |-> 0, length |-> 0] \in Request
        /\ DOMAIN blocks = {} /\ DOMAIN ready = {}
    BY DEF Request
  <2>3. blocks \in [DOMAIN blocks -> [entry : EntryIds, last_used : EntryIds]]
    BY <2>2
  <2>4. ready \in [DOMAIN ready -> Seq(Nat)]
    BY <2>2
  <2> QED BY <2>1, <2>2, <2>3, <2>4 DEF TypeOK, PC, EntryIds
<1>2. Control
  BY DEF Control, ThreadControl
<1>3. \A t \in Threads : Todo(t) = {}
  BY DEF Todo
<1>4. DOMAIN blocks = {}
  OBVIOUS
<1>5. Identity /\ Matching /\ Removed /\ InFlightIsShared
  BY <1>3, <1>4 DEF Identity, Matching, Removed, FailuresAreNotCached,
     InFlightIsShared
<1>6. ReadsAreExact
  <2>1. SourceBytes(0, 0 + 0) = << >>
    BY SourceBytesFacts
  <2> QED BY <2>1 DEF ReadsAreExact
<1> QED BY <1>1, <1>2, <1>5, <1>6 DEF RInv

LEMMA RInvStep == RInv /\ [Next]_vars => RInv'
BY TypeStep, ControlStep, IdentityStep, MatchingStep, RemovedStep, SharingStep,
   ExactStep DEF RInv

THEOREM Invariance == Spec => []RInv
<1>1. Init => RInv
  BY RInvInit
<1>2. RInv /\ [Next]_vars => RInv'
  BY RInvStep
<1> QED BY <1>1, <1>2, PTL DEF Spec

\* Type correctness: the cache, its entries and the variables of every thread
\* keep their types, for every number of threads and every configuration.
THEOREM TypeCorrect == Spec => []TypeOK
<1>1. RInv => TypeOK
  BY DEF RInv
<1> QED BY <1>1, Invariance, PTL

\* However the threads interleave, read_at only ever copies the bytes of the
\* source at the offset asked for, and all of them when it returns ok.
THEOREM ReadsExact == Spec => []ReadsAreExact
<1>1. RInv => ReadsAreExact
  BY DEF RInv
<1> QED BY <1>1, Invariance, PTL

\* A block being fetched stays where the next reader finds it, unless clear
\* discards it: concurrent reads of a missing block share one fetch.
THEOREM SingleFlight == Spec => []InFlightIsShared
<1>1. RInv => InFlightIsShared
  BY DEF RInv
<1> QED BY <1>1, Invariance, PTL

\* No failed entry is ever found in the cache, so a failed fetch is retried.
THEOREM FailuresForgotten == Spec => []FailuresAreNotCached
<1>1. RInv => FailuresAreNotCached
  BY DEF RInv, Removed
<1> QED BY <1>1, Invariance, PTL

----------
(* Every awaited entry is being fetched *)

\* What is still to be settled stays so until its owner settles it.
LEMMA TodoKept ==
  ASSUME RInv, [Next]_vars, NEW u \in Threads, NEW i \in Todo(u)
  PROVE  \/ i \in Todo(u)' /\ span'[u][i] = span[u][i]
         \/ span[u][i] \in Settled'
<1> USE DEF RInv
<1>1. CASE UNCHANGED vars
  BY <1>1 DEF vars, Todo
<1>2. CASE Clear
  BY <1>2 DEF Clear, Todo, callVars
<1>3. ASSUME NEW t \in Threads, Call(t)
      PROVE  i \in Todo(u)' /\ span'[u][i] = span[u][i]
  <2>1. PICK req \in Requests : CallNothing(t, req) \/ Begin(t, req)
    BY <1>3 DEF Call
  <2>2. u # t
    BY <2>1 DEF CallNothing, Begin, Starts, Todo
  <2> QED BY <2>1, <2>2 DEF CallNothing, Begin, Starts, Todo, TypeOK
<1>4. ASSUME NEW t \in Threads, Step(t), u # t
      PROVE  i \in Todo(u)' /\ span'[u][i] = span[u][i]
  <2>1. /\ pc'[u] = pc[u] /\ span'[u] = span[u] /\ done'[u] = done[u]
    BY <1>4 DEF Step, LookupHit, LookupMiss, EvictForInsert,
       Insert, EndReserve, WaitReady, WaitFailed, FetchOk,
       FetchError, CompleteEntry, TrimEvict, TrimDone, RemoveFailed, FailEntry,
       Deliver, DeliverRead, DeliverPrefetch, Fails, TypeOK, callVars
  <2> QED BY <2>1 DEF Todo
<1>5. ASSUME Step(u)
      PROVE  \/ i \in Todo(u)' /\ span'[u][i] = span[u][i]
             \/ span[u][i] \in Settled'
  <2>1. pc[u] \in {"reserve", "fetch", "complete", "remove", "fail"}
        /\ i \in done[u] + 1 .. Len(span[u])
    BY DEF Todo
  <2>2. CASE EvictForInsert(u) \/ EndReserve(u) \/ FetchOk(u) \/ FetchError(u)
             \/ RemoveFailed(u)
    BY <2>2 DEF EvictForInsert, EndReserve, FetchOk, FetchError,
       RemoveFailed, Reserving, Todo, TypeOK
  <2>3. CASE Insert(u)
    <3>1. /\ span'[u] = Append(span[u], next_recency)
          /\ pc[u] = "reserve" /\ UNCHANGED <<cursor, pc, done>>
      BY <2>3 DEF Insert, Reserving, TypeOK
    <3>2. span[u] \in Seq(EntryIds') /\ next_recency \in EntryIds'
      BY <2>3, RecencyType DEF Insert
    <3>3. /\ Len(span'[u]) = Len(span[u]) + 1
          /\ \A j \in 1 .. Len(span[u]) : span'[u][j] = span[u][j]
      BY <3>1, <3>2, AppendProperties
    <3>4. done[u] \in Nat /\ Len(span[u]) \in Nat
      BY <3>2, LenProperties DEF TypeOK
    <3> QED BY <2>1, <3>1, <3>3, <3>4 DEF Todo
  <2>4. CASE CompleteEntry(u)
    <3>1. /\ pc[u] = "complete" /\ span'[u] = span[u]
          /\ done'[u] = done[u] + 1
          /\ span[u][done[u] + 1] \in DOMAIN ready'
          /\ pc'[u] = IF done[u] + 1 = Len(span[u]) THEN "trim" ELSE "complete"
      BY <2>4 DEF CompleteEntry, TypeOK
    <3>2. done[u] \in Nat /\ Len(span[u]) \in Nat
      BY DEF TypeOK
    <3> QED BY <2>1, <3>1, <3>2 DEF Todo, Settled
  <2>5. CASE FailEntry(u)
    <3>1. /\ pc[u] = "fail" /\ span'[u] = span[u]
          /\ done'[u] = done[u] + 1
          /\ span[u][done[u] + 1] \in failed'
          /\ done[u] + 1 # Len(span[u]) => pc'[u] = "fail"
      BY <2>5 DEF FailEntry, TypeOK
    <3>2. done[u] \in Nat /\ Len(span[u]) \in Nat
      BY DEF TypeOK
    <3> QED BY <2>1, <3>1, <3>2 DEF Todo, Settled
  <2> QED BY <1>5, <2>1, <2>2, <2>3, <2>4, <2>5 DEF Step, LookupHit, LookupMiss,
      WaitReady, WaitFailed, TrimEvict, TrimDone
<1> QED BY <1>1, <1>2, <1>3, <1>4, <1>5 DEF Next

\* An inserted entry is one its thread still has to settle.
LEMMA InsertedIsTodo ==
  ASSUME RInv, NEW t \in Threads, Insert(t)
  PROVE  /\ Len(span[t]) + 1 \in Todo(t)'
         /\ span'[t][Len(span[t]) + 1] = next_recency
<1> USE DEF RInv
<1>1. /\ span'[t] = Append(span[t], next_recency)
      /\ pc'[t] = "reserve" /\ done'[t] = 0 /\ done[t] = 0
  BY DEF Insert, Reserving, Control, ThreadControl, TypeOK
<1>2. span[t] \in Seq(EntryIds') /\ next_recency \in EntryIds'
  BY RecencyType DEF Insert
<1>3. /\ Len(span'[t]) = Len(span[t]) + 1
      /\ span'[t][Len(span[t]) + 1] = next_recency
      /\ Len(span[t]) \in Nat
  BY <1>1, <1>2, AppendProperties, LenProperties
<1> QED BY <1>1, <1>3 DEF Todo

\* Settled entries stay settled.
LEMMA SettledKept ==
  ASSUME RInv, [Next]_vars
  PROVE  Settled \subseteq Settled'
BY SettledStep DEF Settled

\* t or another thread still has to settle e.
Awaits(e) == e \in Settled \/ \E u \in Threads : \E i \in Todo(u) : span[u][i] = e

LEMMA AwaitsKept ==
  ASSUME RInv, [Next]_vars, NEW e, Awaits(e)
  PROVE  Awaits(e)'
<1>1. CASE e \in Settled
  BY <1>1, SettledKept DEF Awaits
<1>2. ASSUME NEW u \in Threads, NEW i \in Todo(u), span[u][i] = e
      PROVE  Awaits(e)'
  BY <1>2, TodoKept DEF Awaits
<1> QED BY <1>1, <1>2 DEF Awaits

\* The entry of every cached block, and of every waiting thread.
Awaited ==
  /\ \A b \in DOMAIN blocks : Awaits(blocks[b].entry)
  /\ \A t \in Threads : pc[t] = "wait" => Awaits(waiting[t])

LEMMA AwaitedMeans == AwaitedBlockIsRequested <=> Awaited
<1>1. ASSUME NEW u \in Threads, NEW e
      PROVE  Owns(u, e) <=> \E i \in Todo(u) : span[u][i] = e
  BY DEF Owns, Todo
<1>2. ASSUME NEW e
      PROVE  Awaits(e) <=> e \in Settled \/ \E u \in Threads : Owns(u, e)
  BY <1>1 DEF Awaits
<1>3. ASSUME NEW t \in Threads, NEW e, pc[t] = "wait"
      PROVE  ~ Owns(t, e)
  BY <1>3 DEF Owns
<1>4. (\A b \in DOMAIN blocks : Awaits(blocks[b].entry)) <=>
      (\A b \in DOMAIN blocks : blocks[b].entry \notin Settled
         => \E u \in Threads : Owns(u, blocks[b].entry))
  BY <1>2
<1>5. ASSUME NEW t \in Threads, pc[t] = "wait"
      PROVE  Awaits(waiting[t]) <=>
             (waiting[t] \notin Settled
                => \E u \in Threads \ {t} : Owns(u, waiting[t]))
  BY <1>2, <1>3, <1>5
<1> QED BY <1>4, <1>5 DEF AwaitedBlockIsRequested, Awaited

LEMMA AwaitedStep ==
  ASSUME RInv, Awaited, [Next]_vars
  PROVE  Awaited'
<1>1. ASSUME NEW b \in DOMAIN blocks', NEW e, e = blocks'[b].entry PROVE Awaits(e)'
  <2>1. CASE b \in DOMAIN blocks /\ e = blocks[b].entry
    BY <2>1, AwaitsKept DEF Awaited
  <2>2. ASSUME NEW t \in Threads, Insert(t), e = next_recency
        PROVE  Awaits(e)'
    BY <2>2, InsertedIsTodo DEF Awaits
  <2> QED BY <1>1, <2>1, <2>2, BlocksStep
<1>2. ASSUME NEW t \in Threads, pc'[t] = "wait", NEW e, e = waiting'[t]
      PROVE  Awaits(e)'
  <2>1. CASE pc[t] = "wait" /\ e = waiting[t]
    BY <2>1, AwaitsKept DEF Awaited
  <2>2. CASE cursor[t] \in DOMAIN blocks /\ e = blocks[cursor[t]].entry
    BY <2>2, AwaitsKept DEF Awaited
  <2> QED BY <1>2, <2>1, <2>2, WaitingStep
<1>3. ASSUME NEW e PROVE Awaits(e)' <=> (e \in Settled' \/ \E u \in Threads :
                                     \E i \in Todo(u)' : span'[u][i] = e)
  BY DEF Awaits
<1> QED BY <1>1, <1>2 DEF Awaited, Awaits

----------
(* An overfull cache is trimmed *)

\* A set of naturals has a least element.
LEMMA Minimum ==
  ASSUME NEW S \in SUBSET Nat, S # {}
  PROVE  \E m \in S : \A k \in S : m <= k
<1>1. PICK R : /\ IsWellFoundedOn(R, Nat)
               /\ \A m, k \in Nat : m < k => <<m, k>> \in R
  <2> DEFINE R == OpToRel(<, Nat)
  <2>1. IsWellFoundedOn(R, Nat)
    BY NatLessThanWellFounded
  <2>2. \A m, k \in Nat : m < k => <<m, k>> \in R
    BY DEF OpToRel
  <2> QED BY <2>1, <2>2
<1>2. PICK m \in S : \A k \in S : ~ (<<k, m>> \in R)
  <2>1. S \subseteq Nat /\ IsWellFoundedOn(R, Nat)
    BY <1>1
  <2> QED BY ONLY <2>1, S # {}, WFMin
<1>3. \A k \in S : m \in Nat /\ k \in Nat /\ ~ (k < m)
  BY <1>1, <1>2
<1> QED BY <1>3

\* Eviction finds a block as soon as one is settled.
LEMMA SettledHasOldest ==
  ASSUME TypeOK, NEW b \in DOMAIN blocks, blocks[b].entry \in Settled
  PROVE  \E c \in DOMAIN blocks : OldestSettled(c)
<1> DEFINE candidates == {c \in DOMAIN blocks : blocks[c].entry \in Settled}
           ages == {blocks[c].last_used : c \in candidates}
<1>1. ages \in SUBSET Nat /\ ages # {}
  BY DEF TypeOK, EntryIds
<1>2. PICK m \in ages : \A k \in ages : m <= k
  BY <1>1, Minimum
<1>3. PICK c \in candidates : blocks[c].last_used = m
  BY <1>2
<1> QED BY <1>2, <1>3 DEF OldestSettled

\* Somebody will trim, or is trimming.
Trimming ==
  \E t \in Threads : pc[t] = "trim" \/ (pc[t] = "complete" /\ done[t] >= 1)

\* An overfull cache is trimmed as soon as there is something to trim.
OverflowIsTrimmed ==
  Overfull => Trimming \/ \A b \in DOMAIN blocks : blocks[b].entry \notin Settled

LEMMA TrimmingStep ==
  ASSUME RInv, [Next]_vars, Trimming
  PROVE  \/ Trimming'
         \/ blocks' = blocks /\ Settled' = Settled /\ ~ Trimmable
<1> USE DEF RInv
<1>1. PICK t \in Threads : pc[t] = "trim" \/ (pc[t] = "complete" /\ done[t] >= 1)
  BY DEF Trimming
<1>2. CASE UNCHANGED vars
  BY <1>1, <1>2 DEF vars, Trimming
<1>3. CASE Clear
  BY <1>1, <1>3 DEF Clear, Trimming
<1>4. ASSUME NEW u \in Threads, Call(u) PROVE Trimming'
  <2>1. PICK req \in Requests : CallNothing(u, req) \/ Begin(u, req)
    BY <1>4 DEF Call
  <2>2. pc'[t] = pc[t] /\ done' = done
    BY <1>1, <2>1 DEF CallNothing, Begin, Starts, TypeOK
  <2> QED BY <1>1, <2>2 DEF Trimming
<1>5. ASSUME NEW u \in Threads, Step(u), u # t PROVE Trimming'
  <2>1. /\ pc'[t] = pc[t] /\ done'[t] = done[t]
    BY <1>5 DEF Step, LookupHit, LookupMiss, EvictForInsert,
       Insert, EndReserve, WaitReady, WaitFailed, FetchOk,
       FetchError, CompleteEntry, TrimEvict, TrimDone, RemoveFailed, FailEntry,
       Deliver, DeliverRead, DeliverPrefetch, Fails, TypeOK, callVars
  <2> QED BY <1>1, <2>1 DEF Trimming
<1>6. ASSUME CompleteEntry(t) PROVE Trimming'
  <2>1. /\ done'[t] = done[t] + 1 /\ done[t] \in Nat
        /\ pc'[t] = "trim" \/ pc'[t] = "complete"
    BY <1>6 DEF CompleteEntry, TypeOK
  <2> QED BY <2>1 DEF Trimming
<1>7. ASSUME TrimEvict(t) PROVE Trimming'
  BY <1>7 DEF TrimEvict, Trimming
<1>8. ASSUME TrimDone(t)
      PROVE  blocks' = blocks /\ Settled' = Settled /\ ~ Trimmable
  BY <1>8 DEF TrimDone, Settled, cacheVars, entryVars
<1>9. Step(t) => CompleteEntry(t) \/ TrimEvict(t) \/ TrimDone(t)
  BY <1>1 DEF Step, LookupHit, LookupMiss, EvictForInsert, Reserving,
     Insert, EndReserve, WaitReady, WaitFailed, FetchOk,
     FetchError, RemoveFailed, FailEntry
<1> QED BY <1>2, <1>3, <1>4, <1>5, <1>6, <1>7, <1>8, <1>9 DEF Next

\* No cached block becomes settled unless its thread goes on to trim.
LEMMA SettlingTrims ==
  ASSUME RInv, [Next]_vars,
         \A b \in DOMAIN blocks : blocks[b].entry \notin Settled
  PROVE  \/ Trimming'
         \/ \A b \in DOMAIN blocks : blocks[b].entry \notin Settled'
<1> USE DEF RInv
<1>1. SUFFICES ASSUME NEW b \in DOMAIN blocks, blocks[b].entry \in Settled'
               PROVE  Trimming'
  OBVIOUS
<1>2. CASE \E t \in Threads : CompleteEntry(t)
  <2>1. PICK t \in Threads : CompleteEntry(t)
    BY <1>2
  <2>2. /\ done'[t] = done[t] + 1 /\ done[t] \in Nat
        /\ pc'[t] = "trim" \/ pc'[t] = "complete"
    BY <2>1 DEF CompleteEntry, TypeOK
  <2> QED BY <2>2 DEF Trimming
<1>3. CASE ~ \E t \in Threads : CompleteEntry(t)
  <2>1. ready' = ready
    BY <1>3 DEF Next, vars, Clear, Call, CallNothing, Begin, Starts,
       Step, LookupHit, LookupMiss, EvictForInsert, Insert,
       EndReserve, WaitReady, WaitFailed, FetchOk, FetchError,
       TrimEvict, TrimDone, RemoveFailed, FailEntry, entryVars
  <2>2. blocks[b].entry \in failed' \ failed
    BY <1>1, <2>1 DEF Settled
  <2>3. PICK t \in Threads :
          /\ pc[t] = "fail" /\ done[t] + 1 \in Todo(t)
          /\ blocks[b].entry = span[t][done[t] + 1]
    BY <2>2, SettledStep
  <2> QED BY <2>3 DEF Removed
<1> QED BY <1>2, <1>3

\* Only an insertion into a cache that is not full, or has nothing to evict,
\* makes it larger.
LEMMA GrowthStep ==
  ASSUME RInv, [Next]_vars
  PROVE  \/ DOMAIN blocks' \subseteq DOMAIN blocks
         \/ \E t \in Threads : Insert(t)
<1> USE DEF RInv
<1>1. CASE UNCHANGED blocks
  BY <1>1
<1>2. ASSUME NEW S, blocks' = WithoutBlocks(S)
      PROVE  DOMAIN blocks' \subseteq DOMAIN blocks
  BY <1>2 DEF WithoutBlocks
<1>3. ASSUME NEW t \in Threads, LookupHit(t)
      PROVE  DOMAIN blocks' \subseteq DOMAIN blocks
  BY <1>3 DEF LookupHit, TypeOK
<1>4. \/ UNCHANGED blocks
      \/ \E S : blocks' = WithoutBlocks(S)
      \/ \E t \in Threads : LookupHit(t) \/ Insert(t)
  BY DEF Next, vars, Clear, Call, CallNothing, Begin, Starts,
     Step, LookupMiss, EvictForInsert,
     EndReserve, WaitReady, WaitFailed, FetchOk, FetchError,
     CompleteEntry, TrimEvict, TrimDone, RemoveFailed, FailEntry, cacheVars
<1> QED BY <1>1, <1>2, <1>3, <1>4

\* Inserting adds one block.
LEMMA InsertSize ==
  ASSUME TypeOK, NEW t \in Threads, Insert(t)
  PROVE  /\ Cardinality(DOMAIN blocks) \in Nat
         /\ Cardinality(DOMAIN blocks') = Cardinality(DOMAIN blocks) + 1
<1>1. /\ IsFiniteSet(DOMAIN blocks)
      /\ DOMAIN blocks' = DOMAIN blocks \cup {Through(t) + 1}
      /\ Through(t) + 1 \notin DOMAIN blocks
  BY DEF Insert, Reserving, TypeOK
<1> QED BY ONLY <1>1, FS_AddElement, FS_CardinalityType

LEMMA OverflowStep ==
  ASSUME RInv, OverflowIsTrimmed, [Next]_vars
  PROVE  OverflowIsTrimmed'
<1> USE DEF RInv
<1> SUFFICES ASSUME Overfull', ~ Trimming', NEW b \in DOMAIN blocks',
                    NEW e, e = blocks'[b].entry, e \in Settled'
             PROVE  FALSE
  BY DEF OverflowIsTrimmed
<1>1. MaxBlocks \in Nat \ {0}
  BY ConfigAssumption
<1>2. CASE \E t \in Threads : Insert(t)
  <2>1. PICK t \in Threads : Insert(t)
    BY <1>2
  <2>2. Cardinality(DOMAIN blocks) \in Nat
        /\ Cardinality(DOMAIN blocks') = Cardinality(DOMAIN blocks) + 1
    BY <2>1, InsertSize
  <2>3. Full
    BY <1>1, <2>2 DEF Overfull, Full
  <2>4. \A c \in DOMAIN blocks : blocks[c].entry \notin Settled
    BY <2>1, <2>3, SettledHasOldest DEF Insert
  <2>5. Settled' = Settled
    BY <2>1 DEF Insert, Settled, entryVars
  <2>6. next_recency \notin Settled
    BY DEF Settled, TypeOK, EntryIds
  <2> QED BY <2>1, <2>4, <2>5, <2>6 DEF Insert
<1>3. CASE ~ \E t \in Threads : Insert(t)
  <2>1. DOMAIN blocks' \subseteq DOMAIN blocks
    BY <1>3, GrowthStep
  <2>2. b \in DOMAIN blocks /\ e = blocks[b].entry
    BY <1>3, BlocksStep
  <2>3. Overfull
    <3>1. IsFiniteSet(DOMAIN blocks)
      BY DEF TypeOK
    <3>2. /\ Cardinality(DOMAIN blocks') <= Cardinality(DOMAIN blocks)
          /\ Cardinality(DOMAIN blocks) \in Nat
          /\ Cardinality(DOMAIN blocks') \in Nat
      BY ONLY <2>1, <3>1, FS_Subset, FS_CardinalityType
    <3> QED BY <1>1, <3>2 DEF Overfull
  <2>4. CASE \A c \in DOMAIN blocks : blocks[c].entry \notin Settled
    BY <2>2, <2>4, SettlingTrims
  <2>5. CASE Trimming
    <3>1. blocks' = blocks /\ Settled' = Settled /\ ~ Trimmable
      BY <2>5, TrimmingStep
    <3>2. \E c \in DOMAIN blocks : OldestSettled(c)
      BY <2>2, <3>1, SettledHasOldest
    <3> QED BY <2>3, <3>1, <3>2 DEF Trimmable
  <2> QED BY <2>3, <2>4, <2>5 DEF OverflowIsTrimmed
<1> QED BY <1>2, <1>3

\* With nobody fetching, an overfull cache would hold a block nobody settles.
LEMMA CapacityHolds ==
  ASSUME TypeOK, Awaited, OverflowIsTrimmed
  PROVE  QuiescentCapacity
<1>1. SUFFICES ASSUME \A t \in Threads : pc[t] \in {"idle", "lookup", "wait"},
                      ~ (Cardinality(DOMAIN blocks) <= MaxBlocks)
               PROVE  FALSE
  BY DEF QuiescentCapacity
<1>2. /\ IsFiniteSet(DOMAIN blocks)
      /\ Cardinality(DOMAIN blocks) \in Nat
      /\ Cardinality({}) = 0
      /\ MaxBlocks \in Nat
  <2>1. IsFiniteSet(DOMAIN blocks)
    BY DEF TypeOK
  <2> QED BY <2>1, FS_CardinalityType, FS_EmptySet, ConfigAssumption
<1>3. PICK b : b \in DOMAIN blocks
  BY <1>1, <1>2
<1>4. Overfull /\ ~ Trimming
  BY <1>1, <1>2 DEF Overfull, Trimming
<1>5. blocks[b].entry \notin Settled
  BY <1>3, <1>4 DEF OverflowIsTrimmed
<1>6. \A u \in Threads : Todo(u) = {}
  BY <1>1 DEF Todo
<1> QED BY <1>3, <1>5, <1>6 DEF Awaited, Awaits

----------
(* A prefetch used alone keeps its window *)

\* Nobody else has used the cache, and nobody has cleared it.
Alone(t) == clears = 0 /\ \A u \in Threads \ {t} : calls[u] = 0

WindowStart(t) == request[t].offset \div BlockSize

\* The first block of the window this prefetch has not found or inserted yet.
Touched(t) ==
  IF pc[t] = "lookup" THEN cursor[t]
  ELSE IF pc[t] = "wait" THEN cursor[t] + 1
  ELSE cursor[t] + Len(span[t])

\* The blocks from first to before end are cached, and used after the others.
Fresh(first, end) ==
  \A b \in first .. end - 1 :
    /\ b \in DOMAIN blocks
    /\ \A c \in DOMAIN blocks \ (first .. end - 1) :
         blocks[c].last_used < blocks[b].last_used

Prefetching(t) ==
  /\ request[t].kind = "prefetch"
  /\ pc[t] \in {"lookup", "wait", "reserve", "fetch", "complete", "trim"}

Prefetched(t) ==
  /\ request[t].kind = "prefetch"
  /\ result[t] = "ok"
  /\ Clipped(request[t]) > 0

WindowKept(t) ==
  /\ Cardinality(DOMAIN blocks) <= MaxBlocks
  /\ Prefetching(t) => /\ WindowStart(t) <= cursor[t]
                       /\ Fresh(WindowStart(t), Touched(t))
  /\ pc[t] # "idle" => result[t] = "none"
  /\ Prefetched(t) =>
       WindowStart(t) .. LastBlock(request[t]) \subseteq DOMAIN blocks

PrefetchInv ==
  /\ \A u \in Threads : calls[u] = 0 => pc[u] = "idle"
  /\ \A t \in Threads : Alone(t) => WindowKept(t)

\* A prefetch asks for at most maximum_blocks blocks.
LEMMA WindowSize ==
  ASSUME NEW req \in Request, Clipped(req) > 0, req.kind = "prefetch"
  PROVE  /\ req.offset \div BlockSize \in Nat
         /\ LastBlock(req) \in Nat
         /\ LastBlock(req) <= (req.offset \div BlockSize) + MaxBlocks - 1
<1> DEFINE first == req.offset \div BlockSize
           n == req.offset + Requested(req) - 1
<1>1. /\ BlockSize \in Nat \ {0} /\ MaxBlocks \in Nat \ {0} /\ Length \in Nat
      /\ req.offset \in Nat /\ req.length \in Nat
  BY ConfigAssumption DEF Request
<1>2. /\ first \in Nat /\ first * BlockSize \in Nat
      /\ Requested(req) \in Nat \ {0}
  BY <1>1, BlockOfPosition, RequestFacts
<1>3. n \in Nat
  BY <1>1, <1>2
<1>4. (first + MaxBlocks) * BlockSize \in Nat
  BY <1>1, <1>2
<1>5. n < (first + MaxBlocks) * BlockSize
  <2> HIDE DEF first
  <2>1. WindowEnd(req) = (first + MaxBlocks) * BlockSize
    BY DEF WindowEnd, first
  <2> DEFINE w == WindowEnd(req)
  <2>2. w \in Nat
    BY <1>4, <2>1
  <2>3. Requested(req) <= w - req.offset
    <3>1. Clipped(req) \in Int
      BY <1>1 DEF Clipped, Least
    <3> HIDE DEF w
    <3>2. Requested(req) = Least(Clipped(req), Least(w, Length) - req.offset)
      BY DEF Requested, w
    <3> QED BY <1>1, <2>2, <3>1, <3>2 DEF Least
  <2> HIDE DEF w
  <2>4. w = (first + MaxBlocks) * BlockSize
    BY <2>1 DEF w
  <2> QED BY <1>1, <1>2, <2>2, <2>3, <2>4
<1> DEFINE q == n \div BlockSize
<1>6. /\ q \in Nat /\ q * BlockSize <= n /\ q * BlockSize \in Nat
  BY <1>3, BlockOfPosition
<1>7. q < first + MaxBlocks
  <2>1. SUFFICES ASSUME first + MaxBlocks <= q PROVE FALSE
    BY <1>1, <1>2, <1>6
  <2> HIDE DEF q, first, n
  <2>2. (first + MaxBlocks) * BlockSize <= q * BlockSize
    BY <1>1, <1>2, <1>6, <2>1, TimesMonotone
  <2> QED BY <1>3, <1>4, <1>5, <1>6, <2>2
<1>8. LastBlock(req) = q
  BY DEF LastBlock
<1> QED BY <1>1, <1>2, <1>6, <1>7, <1>8

\* Used alone, only blocks of the thread's own span are in flight.
LEMMA AloneInFlight ==
  ASSUME RInv, Awaited, PrefetchInv, NEW t \in Threads, Alone(t),
         NEW b \in DOMAIN blocks, blocks[b].entry \notin Settled
  PROVE  b \in cursor[t] .. Through(t)
<1> USE DEF RInv
<1>0. PICK u \in Threads : \E i \in Todo(u) : span[u][i] = blocks[b].entry
  BY DEF Awaited, Awaits
<1>1. PICK i \in Todo(u) : span[u][i] = blocks[b].entry
  BY <1>0
<1>2. pc[u] # "idle"
  BY <1>1 DEF Todo
<1>3. calls[u] # 0
  BY <1>2 DEF PrefetchInv
<1>4. u = t
  BY <1>3 DEF Alone
<1>5. b = cursor[t] + i - 1
  BY <1>1, <1>4 DEF Matching
<1>6. i \in done[t] + 1 .. Len(span[t])
  BY <1>1, <1>4 DEF Todo
<1>7. cursor[t] \in Nat /\ done[t] \in Nat /\ Len(span[t]) \in Nat
  BY DEF TypeOK
<1> QED BY <1>5, <1>6, <1>7 DEF Through

LEMMA IdleStep ==
  ASSUME RInv, PrefetchInv, [Next]_vars, NEW u \in Threads, calls'[u] = 0
  PROVE  pc'[u] = "idle"
<1> USE DEF RInv
<1>1. CASE UNCHANGED vars \/ Clear
  BY <1>1 DEF vars, Clear, callVars, PrefetchInv
<1>2. ASSUME NEW t \in Threads, Call(t) PROVE pc'[u] = "idle"
  <2>1. PICK req \in Requests : CallNothing(t, req) \/ Begin(t, req)
    BY <1>2 DEF Call
  <2>2. calls' = [calls EXCEPT ![t] = @ + 1]
    BY <2>1 DEF CallNothing, Begin, Starts
  <2>3. u # t
    BY <2>2 DEF TypeOK
  <2>4. pc'[u] = pc[u] /\ calls[u] = 0
    BY <2>1, <2>2, <2>3 DEF CallNothing, Begin, TypeOK
  <2> QED BY <2>4 DEF PrefetchInv
<1>3. ASSUME NEW t \in Threads, Step(t) PROVE pc'[u] = "idle"
  <2>1. calls' = calls /\ pc[t] # "idle"
    BY <1>3 DEF Step, LookupHit, LookupMiss, EvictForInsert, Reserving,
       Insert, EndReserve, WaitReady, WaitFailed, FetchOk,
       FetchError, CompleteEntry, TrimEvict, TrimDone, RemoveFailed, FailEntry,
       callVars
  <2>2. pc[u] = "idle" /\ u # t
    BY <2>1 DEF PrefetchInv
  <2>3. pc'[u] = pc[u]
    BY <1>3, <2>2 DEF Step, LookupHit, LookupMiss, EvictForInsert,
       Insert, EndReserve, WaitReady, WaitFailed, FetchOk,
       FetchError, CompleteEntry, TrimEvict, TrimDone, RemoveFailed, FailEntry,
       Deliver, DeliverRead, DeliverPrefetch, Fails, TypeOK, callVars
  <2> QED BY <2>2, <2>3
<1> QED BY <1>1, <1>2, <1>3 DEF Next

\* A thread that stays alone was alone, and is the only one to take a step.
LEMMA AloneStep ==
  ASSUME RInv, PrefetchInv, [Next]_vars, NEW t \in Threads, Alone(t)'
  PROVE  /\ Alone(t)
         /\ UNCHANGED vars \/ Call(t) \/ Step(t)
<1> USE DEF RInv
<1>1. CASE UNCHANGED vars
  BY <1>1 DEF vars, Alone
<1>2. CASE Clear
  BY <1>2 DEF Clear, Alone, TypeOK
<1>3. ASSUME NEW u \in Threads, Call(u) PROVE Alone(t) /\ u = t
  <2>1. PICK req \in Requests : CallNothing(u, req) \/ Begin(u, req)
    BY <1>3 DEF Call
  <2>2. calls' = [calls EXCEPT ![u] = @ + 1] /\ clears' = clears
    BY <2>1 DEF CallNothing, Begin, Starts, boundVars
  <2>3. u = t
    BY <2>2 DEF Alone, TypeOK
  <2> QED BY <2>2, <2>3 DEF Alone, TypeOK
<1>4. ASSUME NEW u \in Threads, Step(u) PROVE Alone(t) /\ u = t
  <2>1. calls' = calls /\ clears' = clears /\ pc[u] # "idle"
    BY <1>4 DEF Step, LookupHit, LookupMiss, EvictForInsert, Reserving,
       Insert, EndReserve, WaitReady, WaitFailed, FetchOk,
       FetchError, CompleteEntry, TrimEvict, TrimDone, RemoveFailed, FailEntry,
       callVars, boundVars
  <2>2. Alone(t)
    BY <2>1 DEF Alone
  <2> QED BY <2>1, <2>2 DEF Alone, PrefetchInv
<1> QED BY <1>1, <1>2, <1>3, <1>4 DEF Next

\* A call of t starts with an empty window.
LEMMA WindowCall ==
  ASSUME RInv, NEW t \in Threads, WindowKept(t), Call(t)
  PROVE  WindowKept(t)'
<1> USE DEF RInv
<1>1. PICK req \in Requests : CallNothing(t, req) \/ Begin(t, req)
  BY DEF Call
<1>2. /\ blocks' = blocks /\ request'[t] = req
  BY <1>1 DEF CallNothing, Begin, Starts, cacheVars, TypeOK
<1>3. CASE CallNothing(t, req)
  <2>1. Clipped(req) = 0 /\ pc' = pc /\ pc[t] = "idle"
    BY <1>3 DEF CallNothing, Starts
  <2> QED BY <1>2, <2>1 DEF WindowKept, Prefetching, Prefetched
<1>4. CASE Begin(t, req)
  <2>1. /\ pc'[t] = "lookup" /\ cursor'[t] = req.offset \div BlockSize
        /\ result'[t] = "none"
    BY <1>4 DEF Begin, TypeOK
  <2>2. req.offset \div BlockSize \in Nat
    BY BlockOfPosition, ConfigAssumption DEF Request
  <2>3. Touched(t)' = WindowStart(t)' /\ WindowStart(t)' \in Nat
    BY <1>2, <2>1, <2>2 DEF Touched, WindowStart
  <2>4. Fresh(WindowStart(t), Touched(t))'
    BY <2>3 DEF Fresh
  <2> QED BY <1>2, <2>1, <2>2, <2>4 DEF WindowKept, Prefetched, WindowStart
<1> QED BY <1>1, <1>3, <1>4

\* A step that leaves the cache and the touched part of the window alone.
LEMMA WindowUntouched ==
  ASSUME NEW t \in Threads, WindowKept(t),
         blocks' = blocks, request' = request, result' = result,
         pc'[t] # "idle", pc[t] # "idle",
         Prefetching(t)' => Prefetching(t) /\ Touched(t)' = Touched(t)
                              /\ WindowStart(t) <= cursor'[t]
  PROVE  WindowKept(t)'
<1>1. Fresh(WindowStart(t), Touched(t)) /\ Touched(t)' = Touched(t)
        => Fresh(WindowStart(t), Touched(t))'
  <2>1. WindowStart(t)' = WindowStart(t)
    BY DEF WindowStart
  <2> QED BY <2>1 DEF Fresh
<1>2. WindowStart(t)' = WindowStart(t)
  BY DEF WindowStart
<1> QED BY <1>1, <1>2 DEF WindowKept, Prefetching, Prefetched

\* Finding or inserting the next block of the window makes it the newest.
LEMMA FreshGrows ==
  ASSUME TypeOK, NEW first \in Nat, NEW end \in Nat, first <= end,
         Fresh(first, end),
         end \in DOMAIN blocks', blocks'[end].last_used = next_recency,
         DOMAIN blocks' = DOMAIN blocks \cup {end},
         \A b \in DOMAIN blocks' : b # end => blocks'[b] = blocks[b]
  PROVE  Fresh(first, end + 1)'
<1>1. \A b \in DOMAIN blocks : blocks[b].last_used < next_recency
  BY DEF TypeOK, EntryIds
<1>2. first .. (end + 1) - 1 = (first .. end - 1) \cup {end}
  OBVIOUS
<1>3. end \notin first .. end - 1
  OBVIOUS
<1> SUFFICES ASSUME NEW b \in first .. (end + 1) - 1
             PROVE  /\ b \in DOMAIN blocks'
                    /\ \A c \in DOMAIN blocks' \ (first .. (end + 1) - 1) :
                         blocks'[c].last_used < blocks'[b].last_used
  BY DEF Fresh
<1>4. ASSUME NEW c \in DOMAIN blocks' \ (first .. (end + 1) - 1)
      PROVE  c \in DOMAIN blocks \ (first .. end - 1) /\ blocks'[c] = blocks[c]
  BY <1>2
<1>5. CASE b = end
  BY <1>1, <1>4, <1>5
<1>6. CASE b \in first .. end - 1
  <2>1. b \in DOMAIN blocks /\ b # end /\ blocks'[b] = blocks[b]
    BY <1>3, <1>6 DEF Fresh
  <2> QED BY <1>4, <1>6, <2>1 DEF Fresh
<1> QED BY <1>2, <1>5, <1>6

\* Alone, an eviction takes a block the prefetch has not touched.
LEMMA EvictsUntouched ==
  ASSUME RInv, Awaited, PrefetchInv, NEW t \in Threads, Alone(t),
         EvictForInsert(t), Prefetching(t), NEW b, OldestSettled(b)
  PROVE  b \notin WindowStart(t) .. Touched(t) - 1
<1> USE DEF RInv
<1> DEFINE first == WindowStart(t)
           end == Touched(t)
<1>1. /\ Fresh(first, end) /\ first <= cursor[t]
  BY DEF PrefetchInv, WindowKept
<1>2. /\ pc[t] = "reserve" /\ Len(span[t]) < MaxBlocks
      /\ Through(t) + 1 <= last[t] /\ Full
  BY DEF EvictForInsert, Reserving
<1>3. /\ cursor[t] \in Nat /\ Len(span[t]) \in Nat /\ last[t] \in Nat
      /\ request[t] \in Request
  BY DEF TypeOK
<1>4. end = cursor[t] + Len(span[t]) /\ Through(t) = end - 1
  BY <1>2, <1>3 DEF Touched, Through
<1>5. /\ Clipped(request[t]) > 0 /\ last[t] = LastBlock(request[t])
  BY <1>2 DEF Control, ThreadControl
<1>6. first \in Nat /\ last[t] <= first + MaxBlocks - 1
  BY <1>3, <1>5, WindowSize DEF Prefetching, WindowStart
<1>7. MaxBlocks \in Nat \ {0}
  BY ConfigAssumption
<1> HIDE DEF first, end
<1>8. SUFFICES ASSUME b \in first .. end - 1 PROVE FALSE
  BY DEF first, end
<1>9. DOMAIN blocks \subseteq first .. end - 1
  <2>1. SUFFICES ASSUME NEW c \in DOMAIN blocks, c \notin first .. end - 1
                 PROVE  FALSE
    OBVIOUS
  <2>2. blocks[c].last_used < blocks[b].last_used
    BY <1>1, <1>8, <2>1 DEF Fresh
  <2>3. blocks[c].last_used \in Nat /\ blocks[b].last_used \in Nat
    BY DEF TypeOK, EntryIds, OldestSettled
  <2>4. blocks[c].entry \notin Settled
    BY <2>2, <2>3 DEF OldestSettled
  <2>5. c \in cursor[t] .. Through(t)
    BY <2>4, AloneInFlight
  <2>6. c \in Nat
    BY DEF TypeOK
  <2> QED BY <1>1, <1>3, <1>4, <1>6, <2>1, <2>5, <2>6
<1>10. /\ IsFiniteSet(first .. end - 1)
       /\ Cardinality(first .. end - 1) = IF first > end - 1 THEN 0
                                         ELSE end - 1 - first + 1
  <2>1. first \in Int /\ end - 1 \in Int
    BY <1>3, <1>4, <1>6
  <2> QED BY ONLY <2>1, FS_Interval
<1>11. Cardinality(DOMAIN blocks) <= Cardinality(first .. end - 1)
  BY ONLY <1>9, <1>10, FS_Subset
<1>12. Cardinality(DOMAIN blocks) \in Nat
  <2>1. IsFiniteSet(DOMAIN blocks)
    BY DEF TypeOK
  <2> QED BY ONLY <2>1, FS_CardinalityType
<1> QED BY <1>2, <1>3, <1>4, <1>6, <1>7, <1>10, <1>11, <1>12 DEF Full

\* Taking blocks out that the prefetch has not touched.
LEMMA WindowEvict ==
  ASSUME TypeOK, NEW t \in Threads, WindowKept(t), NEW b,
         blocks' = WithoutBlocks({b}),
         request' = request, result' = result, pc' = pc, cursor' = cursor,
         span' = span, pc[t] # "idle",
         Prefetching(t) => b \notin WindowStart(t) .. Touched(t) - 1
  PROVE  WindowKept(t)'
<1>1. DOMAIN blocks' = DOMAIN blocks \ {b}
      /\ \A c \in DOMAIN blocks' : blocks'[c] = blocks[c]
  BY DEF WithoutBlocks
<1>2. Cardinality(DOMAIN blocks') <= MaxBlocks
  <2>1. IsFiniteSet(DOMAIN blocks) /\ DOMAIN blocks' \subseteq DOMAIN blocks
    BY <1>1 DEF TypeOK
  <2>2. /\ Cardinality(DOMAIN blocks') <= Cardinality(DOMAIN blocks)
        /\ Cardinality(DOMAIN blocks) \in Nat
        /\ Cardinality(DOMAIN blocks') \in Nat
    BY ONLY <2>1, FS_Subset, FS_CardinalityType
  <2>3. MaxBlocks \in Nat
    BY ConfigAssumption
  <2> QED BY <2>2, <2>3 DEF WindowKept
<1>3. WindowStart(t)' = WindowStart(t) /\ Touched(t)' = Touched(t)
  BY DEF WindowStart, Touched
<1>4. ASSUME Prefetching(t) PROVE Fresh(WindowStart(t), Touched(t))'
  BY <1>1, <1>3, <1>4 DEF Fresh, WindowKept
<1> QED BY <1>2, <1>3, <1>4 DEF WindowKept, Prefetching, Prefetched

\* Alone, a block is only inserted where there is room for it.
LEMMA InsertHasRoom ==
  ASSUME RInv, Awaited, PrefetchInv, NEW t \in Threads, Alone(t), Insert(t)
  PROVE  Cardinality(DOMAIN blocks') <= MaxBlocks
<1> USE DEF RInv
<1>1. /\ Cardinality(DOMAIN blocks) \in Nat
      /\ Cardinality(DOMAIN blocks') = Cardinality(DOMAIN blocks) + 1
  BY InsertSize
<1>2. MaxBlocks \in Nat \ {0}
  BY ConfigAssumption
<1>3. SUFFICES ASSUME Full PROVE FALSE
  BY <1>1, <1>2 DEF Full
<1>4. \A c \in DOMAIN blocks : blocks[c].entry \notin Settled
  BY <1>3, SettledHasOldest DEF Insert
<1>5. DOMAIN blocks \subseteq cursor[t] .. Through(t)
  BY <1>4, AloneInFlight
<1>6. /\ cursor[t] \in Nat /\ Len(span[t]) \in Nat
      /\ Len(span[t]) < MaxBlocks
  BY DEF TypeOK, Insert, Reserving
<1>7. cursor[t] \in Int /\ Through(t) \in Int
  BY <1>6 DEF Through
<1>8. /\ IsFiniteSet(cursor[t] .. Through(t))
      /\ Cardinality(cursor[t] .. Through(t)) =
           IF cursor[t] > Through(t) THEN 0 ELSE Through(t) - cursor[t] + 1
  BY ONLY <1>7, FS_Interval
<1>9. Cardinality(DOMAIN blocks) <= Cardinality(cursor[t] .. Through(t))
  BY ONLY <1>5, <1>8, FS_Subset
<1> QED BY <1>1, <1>2, <1>3, <1>6, <1>8, <1>9 DEF Full, Through

LEMMA WindowInsert ==
  ASSUME RInv, Awaited, PrefetchInv, NEW t \in Threads, Alone(t), Insert(t)
  PROVE  WindowKept(t)'
<1> USE DEF RInv
<1>1. Cardinality(DOMAIN blocks') <= MaxBlocks
  BY InsertHasRoom
<1>2. /\ pc[t] = "reserve" /\ pc' = pc /\ request' = request /\ result' = result
      /\ cursor' = cursor
  BY DEF Insert, Reserving, callVars
<1>3. WindowKept(t)
  BY DEF PrefetchInv
<1>4. Len(span'[t]) = Len(span[t]) + 1
  <2>1. span'[t] = Append(span[t], next_recency)
    BY DEF Insert, TypeOK
  <2>2. span[t] \in Seq(EntryIds') /\ next_recency \in EntryIds'
    BY RecencyType DEF Insert
  <2> QED BY <2>1, <2>2, AppendProperties
<1>5. /\ cursor[t] \in Nat /\ Len(span[t]) \in Nat
  BY DEF TypeOK
<1>6. ASSUME Prefetching(t)
      PROVE  /\ WindowStart(t)' <= cursor'[t]
             /\ Fresh(WindowStart(t), Touched(t))'
  <2>1. WindowStart(t) \in Nat /\ Touched(t) = cursor[t] + Len(span[t])
    <3>1. request[t].offset \in Nat
      BY DEF TypeOK, Request
    <3> QED BY <1>2, <3>1, BlockOfPosition DEF WindowStart, Touched
  <2>2. PICK first \in Nat : first = WindowStart(t)
    BY <2>1
  <2>3. PICK end \in Nat : end = Touched(t)
    BY <1>5, <2>1
  <2>4. /\ first <= cursor[t] /\ Fresh(first, end)
    BY <1>3, <1>6, <2>2, <2>3 DEF WindowKept
  <2>5. Touched(t)' = end + 1 /\ WindowStart(t)' = first
    BY <1>2, <1>4, <1>5, <2>1, <2>2, <2>3 DEF Touched, WindowStart
  <2>6. end = Through(t) + 1 /\ first <= end
    BY <1>5, <2>1, <2>3, <2>4 DEF Through
  <2>7. /\ end \in DOMAIN blocks' /\ blocks'[end].last_used = next_recency
        /\ DOMAIN blocks' = DOMAIN blocks \cup {end}
        /\ \A b \in DOMAIN blocks' : b # end => blocks'[b] = blocks[b]
    <3>1. blocks' = [b \in DOMAIN blocks \cup {end} |->
                      IF b = end THEN [entry |-> next_recency, last_used |-> next_recency]
                      ELSE blocks[b]]
      BY <2>6 DEF Insert
    <3> QED BY <3>1
  <2>8. Fresh(first, end + 1)'
    BY <2>4, <2>6, <2>7, FreshGrows
  <2>9. Fresh(WindowStart(t), Touched(t))'
    BY <2>5, <2>8 DEF Fresh
  <2> QED BY <1>2, <2>4, <2>5, <2>9
<1>7. Prefetching(t)' => Prefetching(t)
  BY <1>2 DEF Prefetching
<1>8. pc'[t] # "idle" /\ result'[t] = "none"
  BY <1>2, <1>3 DEF WindowKept
<1> QED BY <1>1, <1>6, <1>7, <1>8 DEF WindowKept, Prefetched

LEMMA WindowHit ==
  ASSUME RInv, NEW t \in Threads, WindowKept(t), LookupHit(t)
  PROVE  WindowKept(t)'
<1> USE DEF RInv
<1>1. /\ pc[t] = "lookup" /\ pc'[t] = "wait" /\ request' = request
      /\ result' = result /\ cursor' = cursor
      /\ cursor[t] \in DOMAIN blocks
      /\ blocks' = [blocks EXCEPT ![cursor[t]].last_used = next_recency]
  BY DEF LookupHit, callVars, TypeOK
<1>2. cursor[t] \in Nat
  BY DEF TypeOK
<1>3. /\ DOMAIN blocks' = DOMAIN blocks
      /\ blocks'[cursor[t]].last_used = next_recency
      /\ \A b \in DOMAIN blocks : b # cursor[t] => blocks'[b] = blocks[b]
  BY <1>1 DEF TypeOK
<1>4. ASSUME Prefetching(t)
      PROVE  /\ WindowStart(t)' <= cursor'[t]
             /\ Fresh(WindowStart(t), Touched(t))'
  <2>1. WindowStart(t) \in Nat
    <3>1. request[t].offset \in Nat
      BY DEF TypeOK, Request
    <3> QED BY <3>1, BlockOfPosition DEF WindowStart
  <2>2. PICK first \in Nat : first = WindowStart(t)
    BY <2>1
  <2>3. PICK end \in Nat : end = cursor[t]
    BY <1>2
  <2>4. Touched(t) = end /\ Touched(t)' = end + 1 /\ WindowStart(t)' = first
    BY <1>1, <2>2, <2>3 DEF Touched, WindowStart
  <2>5. first <= end /\ Fresh(first, end)
    BY <1>4, <2>2, <2>3, <2>4 DEF WindowKept
  <2>6. /\ end \in DOMAIN blocks' /\ blocks'[end].last_used = next_recency
        /\ DOMAIN blocks' = DOMAIN blocks \cup {end}
        /\ \A b \in DOMAIN blocks' : b # end => blocks'[b] = blocks[b]
    BY <1>1, <1>3, <2>3
  <2>7. Fresh(first, end + 1)'
    BY <2>5, <2>6, FreshGrows
  <2>8. Fresh(WindowStart(t), Touched(t))'
    BY <2>4, <2>7 DEF Fresh
  <2> QED BY <1>1, <2>3, <2>4, <2>5, <2>8
<1>5. Prefetching(t)' => Prefetching(t)
  BY <1>1 DEF Prefetching
<1> QED BY <1>1, <1>3, <1>4, <1>5 DEF WindowKept, Prefetched

\* A delivery of a prefetch goes on after what it has touched, or ends with its
\* whole window in the cache.
LEMMA WindowDeliver ==
  ASSUME RInv, NEW t \in Threads, WindowKept(t), NEW bytes, NEW through \in Nat,
         Deliver(t, bytes, through), blocks' = blocks, request' = request,
         pc[t] \in {"wait", "trim"}, last' = last,
         Touched(t) = through + 1, cursor[t] <= through, through <= last[t]
  PROVE  WindowKept(t)'
<1> USE DEF RInv
<1>1. CASE DeliverRead(t, bytes)
  <2>1. request'[t].kind = "read"
    BY <1>1 DEF DeliverRead
  <2>2. \/ pc'[t] = "lookup" /\ result' = result
        \/ pc'[t] = "idle"
    BY <1>1 DEF DeliverRead, TypeOK
  <2> QED BY <2>1, <2>2 DEF WindowKept, Prefetching, Prefetched
<1>2. CASE DeliverPrefetch(t, through)
  <2>1. /\ Prefetching(t) /\ WindowStart(t)' = WindowStart(t)
        /\ last[t] = LastBlock(request[t])
        /\ cursor[t] \in Nat /\ last[t] \in Nat
    BY <1>2 DEF DeliverPrefetch, Prefetching, WindowStart, Control, ThreadControl,
       TypeOK
  <2>2. /\ WindowStart(t) <= cursor[t] /\ Fresh(WindowStart(t), through + 1)
    BY <2>1 DEF WindowKept
  <2>3. WindowStart(t) \in Nat
    <3>1. request[t].offset \in Nat
      BY DEF TypeOK, Request
    <3> QED BY <3>1, BlockOfPosition DEF WindowStart
  <2>4. CASE through < last[t]
    <3>1. /\ cursor'[t] = through + 1 /\ pc'[t] = "lookup" /\ result' = result
      BY <1>2, <2>4 DEF DeliverPrefetch, TypeOK
    <3>2. Touched(t)' = through + 1
      BY <3>1 DEF Touched
    <3>3. Fresh(WindowStart(t), Touched(t))'
      BY <2>1, <2>2, <3>2 DEF Fresh
    <3>4. WindowStart(t)' <= cursor'[t]
      BY <2>1, <2>2, <2>3, <3>1
    <3> QED BY <3>1, <3>3, <3>4 DEF WindowKept, Prefetched
  <2>5. CASE ~ (through < last[t])
    <3>1. pc'[t] = "idle" /\ through = last[t]
      BY <1>2, <2>1, <2>5 DEF DeliverPrefetch, TypeOK
    <3>2. WindowStart(t) .. last[t] \subseteq DOMAIN blocks
      <4>1. (through + 1) - 1 = last[t]
        BY <2>1, <3>1
      <4> QED BY <2>2, <4>1 DEF Fresh
    <3>3. LastBlock(request[t])' = LastBlock(request[t])
      BY DEF LastBlock, Requested, Clipped, WindowEnd
    <3> QED BY <2>1, <3>1, <3>2, <3>3 DEF WindowKept, Prefetching, Prefetched
  <2> QED BY <2>4, <2>5
<1> QED BY <1>1, <1>2 DEF Deliver

LEMMA WindowStep ==
  ASSUME RInv, Awaited, PrefetchInv, NEW t \in Threads, Alone(t), Step(t)
  PROVE  WindowKept(t)'
<1> USE DEF RInv
<1>0. WindowKept(t)
  BY DEF PrefetchInv
<1>a. /\ cursor[t] \in Nat /\ Len(span[t]) \in Nat /\ last[t] \in Nat
      /\ done[t] \in Nat
  BY DEF TypeOK
<1>1. CASE LookupHit(t)
  BY <1>0, <1>1, WindowHit
<1>2. CASE LookupMiss(t) \/ EndReserve(t) \/ FetchOk(t) \/ FetchError(t)
           \/ CompleteEntry(t)
  <2>1. /\ blocks' = blocks /\ request' = request /\ result' = result
        /\ cursor' = cursor /\ pc'[t] # "idle"
        /\ pc[t] \in {"lookup", "reserve", "fetch", "complete"}
    BY <1>2 DEF LookupMiss, EndReserve, FetchOk, FetchError, CompleteEntry,
       cacheVars, callVars, TypeOK
  <2>2. Prefetching(t)' => Prefetching(t)
    BY <2>1 DEF Prefetching
  <2>3. Touched(t)' = Touched(t) \/ pc'[t] = "remove"
    <3>1. CASE LookupMiss(t)
      <4>1. /\ pc[t] = "lookup" /\ pc'[t] = "reserve" /\ span'[t] = << >>
            /\ cursor' = cursor
        BY <3>1 DEF LookupMiss, TypeOK
      <4>2. Len(span'[t]) = 0
        BY <4>1
      <4> QED BY <1>a, <4>1, <4>2 DEF Touched
    <3>2. CASE ~ LookupMiss(t)
      BY <1>2, <2>1, <3>2 DEF EndReserve, FetchOk, FetchError, CompleteEntry,
         Touched, TypeOK
    <3> QED BY <3>1, <3>2
  <2>4. Prefetching(t)' => WindowStart(t) <= cursor'[t]
    BY <1>0, <2>1, <2>2 DEF WindowKept
  <2>5. pc'[t] = "remove" => ~ Prefetching(t)'
    BY DEF Prefetching
  <2> QED BY <1>0, <2>1, <2>2, <2>3, <2>4, <2>5, WindowUntouched
<1>3. CASE EvictForInsert(t)
  <2>1. PICK b : OldestSettled(b) /\ blocks' = WithoutBlocks({b})
    BY <1>3 DEF EvictForInsert
  <2>2. /\ request' = request /\ result' = result /\ pc' = pc /\ cursor' = cursor
        /\ span' = span /\ pc[t] # "idle"
    BY <1>3 DEF EvictForInsert, Reserving, callVars
  <2>3. Prefetching(t) => b \notin WindowStart(t) .. Touched(t) - 1
    BY <1>3, <2>1, EvictsUntouched
  <2> QED BY <1>0, <2>1, <2>2, <2>3, WindowEvict
<1>4. CASE Insert(t)
  BY <1>4, WindowInsert
<1>5. CASE WaitReady(t)
  <2>1. /\ Deliver(t, ready[waiting[t]], cursor[t]) /\ pc[t] = "wait"
        /\ blocks' = blocks /\ request' = request /\ last' = last
    BY <1>5 DEF WaitReady, cacheVars, callVars
  <2>2. Touched(t) = cursor[t] + 1 /\ cursor[t] <= last[t]
    BY <2>1 DEF Touched, Control, ThreadControl
  <2>3. cursor[t] <= cursor[t]
    BY <1>a
  <2> QED BY <1>0, <1>a, <2>1, <2>2, <2>3, WindowDeliver
<1>6. CASE TrimDone(t)
  <2>1. /\ Deliver(t, ready[span[t][1]], Through(t)) /\ pc[t] = "trim"
        /\ blocks' = blocks /\ request' = request /\ last' = last
    BY <1>6 DEF TrimDone, cacheVars, callVars
  <2>2. Through(t) <= last[t] /\ span[t] # << >>
    BY <2>1 DEF Control, ThreadControl
  <2>3. Len(span[t]) # 0
    <3>1. span[t] \in Seq(EntryIds)
      BY DEF TypeOK
    <3> QED BY <2>2, <3>1, EmptySeq
  <2>4. /\ Through(t) \in Nat /\ cursor[t] <= Through(t)
        /\ Touched(t) = Through(t) + 1
    BY <1>a, <2>1, <2>3 DEF Touched, Through
  <2> QED BY <1>0, <2>1, <2>2, <2>4, WindowDeliver
<1>7. CASE WaitFailed(t) \/ FailEntry(t)
  <2>1. /\ blocks' = blocks /\ request' = request
        /\ \/ pc'[t] = "idle" /\ result'[t] = "error"
           \/ pc'[t] = "fail" /\ result' = result /\ pc[t] = "fail"
    BY <1>7 DEF WaitFailed, FailEntry, Fails, cacheVars, callVars, TypeOK
  <2> QED BY <1>0, <2>1 DEF WindowKept, Prefetching, Prefetched
<1>8. CASE TrimEvict(t)
  <2>1. Overfull
    BY <1>8 DEF TrimEvict
  <2>2. /\ Cardinality(DOMAIN blocks) <= MaxBlocks
        /\ Cardinality(DOMAIN blocks) \in Nat /\ MaxBlocks \in Nat
    <3>1. IsFiniteSet(DOMAIN blocks)
      BY DEF TypeOK
    <3> QED BY <1>0, <3>1, FS_CardinalityType, ConfigAssumption DEF WindowKept
  <2> QED BY <2>1, <2>2 DEF Overfull
<1>9. CASE RemoveFailed(t)
  <2>1. PICK S : blocks' = WithoutBlocks(S)
    BY <1>9 DEF RemoveFailed
  <2>2. /\ pc'[t] = "fail" /\ pc[t] = "remove" /\ result' = result
    BY <1>9 DEF RemoveFailed, TypeOK
  <2>3. IsFiniteSet(DOMAIN blocks) /\ DOMAIN blocks' \subseteq DOMAIN blocks
    BY <2>1 DEF TypeOK, WithoutBlocks
  <2>4. /\ Cardinality(DOMAIN blocks') <= Cardinality(DOMAIN blocks)
        /\ Cardinality(DOMAIN blocks) \in Nat
        /\ Cardinality(DOMAIN blocks') \in Nat
    BY ONLY <2>3, FS_Subset, FS_CardinalityType
  <2>5. Cardinality(DOMAIN blocks') <= MaxBlocks
    BY <1>0, <2>4, ConfigAssumption DEF WindowKept
  <2> QED BY <1>0, <2>2, <2>5 DEF WindowKept, Prefetching, Prefetched
<1> QED BY <1>1, <1>2, <1>3, <1>4, <1>5, <1>6, <1>7, <1>8, <1>9 DEF Step

LEMMA PrefetchStep ==
  ASSUME RInv, Awaited, PrefetchInv, [Next]_vars
  PROVE  PrefetchInv'
<1>1. ASSUME NEW t \in Threads, Alone(t)' PROVE WindowKept(t)'
  <2>1. /\ Alone(t)
        /\ UNCHANGED vars \/ Call(t) \/ Step(t)
    BY <1>1, AloneStep
  <2>2. WindowKept(t)
    BY <2>1 DEF PrefetchInv
  <2>3. CASE UNCHANGED vars
    BY <2>2, <2>3 DEF vars, WindowKept, Prefetching, Prefetched, Fresh,
       WindowStart, Touched, Clipped, LastBlock, Requested, WindowEnd
  <2>4. CASE Call(t)
    BY <2>2, <2>4, WindowCall
  <2>5. CASE Step(t)
    BY <2>1, <2>5, WindowStep
  <2> QED BY <2>1, <2>3, <2>4, <2>5
<1>2. ASSUME NEW u \in Threads, calls'[u] = 0 PROVE pc'[u] = "idle"
  BY <1>2, IdleStep
<1> QED BY <1>1, <1>2 DEF PrefetchInv

----------
(* The theorems on fetching, capacity and prefetching *)

CacheInv == RInv /\ Awaited /\ OverflowIsTrimmed /\ PrefetchInv

LEMMA CacheInvInit == Init => CacheInv
<1> SUFFICES ASSUME Init PROVE CacheInv
  OBVIOUS
<1>1. RInv
  BY RInvInit
<1>2. DOMAIN blocks = {} /\ \A t \in Threads : pc[t] = "idle" /\ result[t] = "none"
  BY DEF Init
<1>3. Cardinality(DOMAIN blocks) <= MaxBlocks
  BY <1>2, FS_EmptySet, ConfigAssumption
<1>4. Awaited /\ OverflowIsTrimmed
  BY <1>2 DEF Awaited, OverflowIsTrimmed
<1>5. PrefetchInv
  BY <1>2, <1>3 DEF PrefetchInv, WindowKept, Prefetching, Prefetched
<1> QED BY <1>1, <1>4, <1>5 DEF CacheInv

LEMMA CacheInvStep == CacheInv /\ [Next]_vars => CacheInv'
BY RInvStep, AwaitedStep, OverflowStep, PrefetchStep DEF CacheInv

THEOREM CacheInvariance == Spec => []CacheInv
<1>1. Init => CacheInv
  BY CacheInvInit
<1>2. CacheInv /\ [Next]_vars => CacheInv'
  BY CacheInvStep
<1> QED BY <1>1, <1>2, PTL DEF Spec

\* No reader sleeps on an entry nobody will answer, and no such entry is left
\* where a later reader would find it, however the threads interleave.
THEOREM AwaitedIsRequested == Spec => []AwaitedBlockIsRequested
<1>1. CacheInv => AwaitedBlockIsRequested
  BY AwaitedMeans DEF CacheInv
<1> QED BY <1>1, CacheInvariance, PTL

\* The overflow that concurrent fetches cause has been trimmed away by the time
\* the last of them returns, in whatever order they end.
THEOREM OverflowIsTemporary == Spec => []QuiescentCapacity
<1>1. CacheInv => QuiescentCapacity
  BY CapacityHolds DEF CacheInv, RInv
<1> QED BY <1>1, CacheInvariance, PTL

\* A prefetch that nobody disturbs ends with its whole window in the cache,
\* whatever was cached before and for every capacity.
THEOREM PrefetchIsKept == Spec => []PrefetchKeepsWindow
<1>1. CacheInv => PrefetchKeepsWindow
  BY DEF CacheInv, PrefetchInv, PrefetchKeepsWindow, Alone, WindowKept, Prefetched,
     WindowStart
<1> QED BY <1>1, CacheInvariance, PTL
=============================================================================
