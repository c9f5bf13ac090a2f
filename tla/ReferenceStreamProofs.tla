----------------------- MODULE ReferenceStreamProofs -----------------------
(***************************************************************************)
(* Proofs about reference marking and conforming streams: the buffer stays *)
(* typed, ids and short-term frame_nums name one reference, the limit of   *)
(* references holds, and sequences of operations are atomic, for any       *)
(* number of references, MaxFrameNum and operations; and so when a stream  *)
(* drives the buffer.  If no operation after MMCO 6 concerns its index     *)
(* (ListsConform), long-term indices name one reference too and stay       *)
(* within their maximum.  Then every short-term reference can be named     *)
(* across the wrap of frame_num, and a stream without MMCO 5 is refused    *)
(* only when a frame_num comes round again or nothing can slide out.       *)
(***************************************************************************)
EXTENDS ReferenceStream, FiniteSetTheorems, SequenceTheorems, TLAPS

----------
(* The buffer *)

LongTermWithin(refs, maximum) == \A r \in refs : IsLong(r) => r.kind <= maximum

\* What holds of a buffer, and what more of one that no list has overridden.
Keyed(refs) == DistinctIds(refs) /\ DistinctShorts(refs)
Indexed(refs, maximum) == DistinctLongs(refs) /\ LongTermWithin(refs, maximum)
Sound(refs, maximum) == Keyed(refs) /\ (ListsConform => Indexed(refs, maximum))

\* Nothing has the index the current picture is to get, and no operation that
\* is left concerns it.
Reserved(refs, maximum, list, kind) ==
  kind # ShortTerm =>
    /\ kind <= maximum
    /\ NamedLongTerm(refs, kind) = {}
    /\ \A i \in 1 .. Len(list) : ~ Overrides(list[i], kind)

\* What the loop over the operations maintains about its copies.
Copies ==
  /\ Sound(clone, clone_max)
  /\ ListsConform =>
       LeavesCurrent(operations) /\ Reserved(clone, clone_max, operations, current_kind)

DInv ==
  /\ TypeOK
  /\ Sound(references, max_long_term_frame_idx)
  /\ WithinLimit
  /\ marking => Copies

----------
(* Sets of references *)

\* Removing references keeps the rest sound.
LEMMA SoundSubset ==
  ASSUME NEW refs, NEW left \in SUBSET refs, NEW maximum, Sound(refs, maximum)
  PROVE  Sound(left, maximum)
BY DEF Sound, Keyed, Indexed, DistinctIds, DistinctShorts, DistinctLongs, LongTermWithin

LEMMA LimitType == Limit \in Nat \ {0} /\ MaxReferenceId \in Nat \ {0}
BY DpbAssumption DEF Limit

\* The id after any other is an id.
LEMMA IdAfterType ==
  ASSUME NEW id \in 1 .. MaxReferenceId, NEW n \in Nat
  PROVE  IdAfter(id, n) \in 1 .. MaxReferenceId
<1>1. MaxReferenceId \in Nat /\ MaxReferenceId > 0
  BY LimitType
<1> DEFINE x == id - 1 + n
<1>2. x \in Nat
  OBVIOUS
<1> HIDE DEF x
<1>3. x % MaxReferenceId \in 0 .. MaxReferenceId - 1
  BY <1>1, <1>2
<1> QED BY <1>1, <1>3 DEF IdAfter, x

\* A reference with a free id and a new number keeps a buffer sound.
LEMMA SoundAdded ==
  ASSUME NEW refs \in SUBSET ReferenceType, NEW maximum \in Nat \cup {NoIndex},
         Sound(refs, maximum),
         NEW new \in ReferenceType,
         \A r \in refs : r.id # new.id,
         IsShort(new) => \A r \in refs : IsShort(r) => r.frame_num # new.frame_num,
         ListsConform /\ IsLong(new) =>
           new.kind <= maximum /\ \A r \in refs : r.kind # new.kind
  PROVE  Sound(refs \cup {new}, maximum)
<1>1. DistinctIds(refs \cup {new})
  BY DEF Sound, Keyed, DistinctIds
<1>2. DistinctShorts(refs \cup {new})
  BY DEF Sound, Keyed, DistinctShorts, IsShort
<1>3. ASSUME ListsConform PROVE DistinctLongs(refs \cup {new})
  BY <1>3 DEF Sound, Indexed, DistinctLongs, IsLong
<1>4. ASSUME ListsConform PROVE LongTermWithin(refs \cup {new}, maximum)
  BY <1>4 DEF Sound, Indexed, LongTermWithin
<1> QED BY <1>1, <1>2, <1>3, <1>4 DEF Sound, Keyed, Indexed

\* Push keeps the buffer typed and sound, and adds one reference.
LEMMA PushSound ==
  ASSUME NEW refs \in SUBSET ReferenceType, IsFiniteSet(refs),
         NEW maximum \in Nat \cup {NoIndex}, Sound(refs, maximum),
         NEW frame_num \in Nat, NEW poc \in Int, NEW kind \in Nat \cup {ShortTerm},
         next_reference_id \in 1 .. MaxReferenceId,
         Cardinality(refs) < Limit,
         kind = ShortTerm => ~ HasShortTerm(refs, frame_num),
         ListsConform /\ kind # ShortTerm => kind <= maximum /\ NamedLongTerm(refs, kind) = {},
         Push(refs, frame_num, poc, kind)
  PROVE  /\ references' \subseteq ReferenceType /\ IsFiniteSet(references')
         /\ next_reference_id' \in 1 .. MaxReferenceId
         /\ Sound(references', maximum)
         /\ Cardinality(references') <= Limit
<1>1. PICK id \in 1 .. MaxReferenceId :
        /\ NextAvailable(refs, next_reference_id, id)
        /\ references' = refs \cup {Reference(id, frame_num, poc, kind)}
        /\ next_reference_id' = IdAfter(id, 1)
  BY DEF Push
<1> DEFINE new == Reference(id, frame_num, poc, kind)
<1>2. /\ new \in ReferenceType
      /\ new.id = id /\ new.frame_num = frame_num /\ new.kind = kind
  BY DEF Reference, ReferenceType
<1>3. \A r \in refs : r.id # id
  BY <1>1 DEF NextAvailable
<1> HIDE DEF new
<1>4. IsShort(new) => \A r \in refs : IsShort(r) => r.frame_num # new.frame_num
  BY <1>2 DEF IsShort, HasShortTerm
<1>5. ListsConform /\ IsLong(new) =>
        new.kind <= maximum /\ \A r \in refs : r.kind # new.kind
  BY <1>2 DEF IsLong, NamedLongTerm
<1>6. Sound(references', maximum)
  BY <1>1, <1>2, <1>3, <1>4, <1>5, SoundAdded DEF new
<1>7. references' \subseteq ReferenceType
  BY <1>1, <1>2 DEF new
<1>8. new \notin refs
  BY <1>2, <1>3
<1>9. /\ IsFiniteSet(references')
      /\ Cardinality(references') = Cardinality(refs) + 1
  BY <1>1, <1>8, FS_AddElement DEF new
<1>10. Cardinality(refs) \in Nat
  BY FS_CardinalityType
<1>11. next_reference_id' \in 1 .. MaxReferenceId
  BY <1>1, IdAfterType
<1> QED BY <1>6, <1>7, <1>9, <1>10, <1>11, LimitType

----------
\* The buffer starts empty.
LEMMA InitInv == Init => DInv
<1> SUFFICES ASSUME Init PROVE DInv
  OBVIOUS
<1>1. Cardinality({}) = 0 /\ IsFiniteSet({})
  BY FS_EmptySet
<1>2. << >> \in Seq(Operation)
  OBVIOUS
<1>3. TypeOK
  <2>1. next_reference_id \in 1 .. MaxReferenceId
    BY LimitType DEF Init
  <2>2. current \in [frame_num : Nat, picture_order_count : Int]
    BY DEF Init, NoPicture
  <2>3. references = {} /\ clone = {}
    BY DEF Init
  <2> QED BY <1>1, <1>2, <2>1, <2>2, <2>3 DEF Init, TypeOK
<1>4. Sound(references, max_long_term_frame_idx)
  BY DEF Init, Sound, Keyed, Indexed, DistinctIds, DistinctShorts, DistinctLongs, LongTermWithin
<1>5. WithinLimit
  BY <1>1, LimitType DEF Init, WithinLimit
<1> QED BY <1>3, <1>4, <1>5 DEF DInv, Init

----------
(* Stores of one step *)

\* An IDR picture leaves itself alone in the buffer.
LEMMA IdrStep ==
  ASSUME DInv, NEW poc \in Int, NEW long_term_reference \in BOOLEAN,
         store_idr(poc, long_term_reference)
  PROVE  DInv'
<1> DEFINE kind == IF long_term_reference THEN 0 ELSE ShortTerm
           new == Reference(1, 0, poc, kind)
<1>1. /\ references' = {new}
      /\ max_long_term_frame_idx' = IF long_term_reference THEN 0 ELSE NoIndex
      /\ next_reference_id' = 2
      /\ outcome' = "ok"
      /\ UNCHANGED <<marking, cloneVars>>
      /\ ~ marking
  BY DEF store_idr
<1>2. kind \in Nat \cup {ShortTerm}
  OBVIOUS
<1>3. 1 \in 1 .. MaxReferenceId /\ 2 \in 1 .. MaxReferenceId
  <2>1. Limit \in Nat /\ Limit >= 1 /\ Limit < MaxReferenceId /\ MaxReferenceId \in Nat
    BY DpbAssumption, LimitType
  <2> QED BY <2>1
<1>4. new \in ReferenceType /\ new.kind = kind
  BY <1>2, <1>3 DEF Reference, ReferenceType
<1>5. IsFiniteSet({new}) /\ Cardinality({new}) = 1
  BY FS_Singleton
<1>6. IsLong(new) => new.kind <= max_long_term_frame_idx'
  BY <1>1, <1>4 DEF IsLong, NoIndex, ShortTerm
<1> HIDE DEF new
<1>7. TypeOK'
  <2>1. references' \subseteq ReferenceType /\ IsFiniteSet(references')
    BY <1>1, <1>4, <1>5
  <2>2. max_long_term_frame_idx' \in Nat \cup {NoIndex}
    BY <1>1
  <2> QED BY <1>1, <1>3, <2>1, <2>2 DEF DInv, TypeOK, cloneVars
<1>8. Sound(references, max_long_term_frame_idx)'
  BY <1>1, <1>6 DEF Sound, Keyed, Indexed, DistinctIds, DistinctShorts, DistinctLongs, LongTermWithin
<1>9. WithinLimit'
  BY <1>1, <1>5, LimitType DEF WithinLimit
<1> QED BY <1>1, <1>7, <1>8, <1>9 DEF DInv

\* clear empties the buffer.
LEMMA ClearStep ==
  ASSUME DInv, clear
  PROVE  DInv'
<1>1. /\ ~ marking
      /\ references' = {}
      /\ max_long_term_frame_idx' = NoIndex
      /\ next_reference_id' = 1
      /\ UNCHANGED <<marking, cloneVars, outcome>>
  BY DEF clear
<1>2. Cardinality({}) = 0 /\ IsFiniteSet({})
  BY FS_EmptySet
<1>3. next_reference_id' \in 1 .. MaxReferenceId
  BY <1>1, LimitType
<1>4. TypeOK'
  BY <1>1, <1>2, <1>3 DEF DInv, TypeOK, cloneVars
<1>5. Sound(references, max_long_term_frame_idx)'
  BY <1>1 DEF Sound, Keyed, Indexed, DistinctIds, DistinctShorts, DistinctLongs, LongTermWithin
<1>6. WithinLimit'
  BY <1>1, <1>2, LimitType DEF WithinLimit
<1> QED BY <1>1, <1>4, <1>5, <1>6 DEF DInv

\* The sliding window makes room for one more reference.
LEMMA SlidesSound ==
  ASSUME DInv, NEW frame_num \in Nat, NEW left \in SUBSET references,
         Slides(references, frame_num, left)
  PROVE  IsFiniteSet(left) /\ Cardinality(left) < Limit
<1>1. /\ IsFiniteSet(references)
      /\ Cardinality(references) \in Nat
      /\ Cardinality(references) <= Limit
  BY FS_CardinalityType DEF DInv, TypeOK, WithinLimit
<1>2. CASE ~ Full(references) /\ left = references
  BY <1>1, <1>2, LimitType DEF Full
<1>3. CASE Full(references) /\ \E r \in references :
             Oldest(r, references, frame_num) /\ left = references \ {r}
  <2>1. PICK r \in references : left = references \ {r}
    BY <1>3
  <2>2. /\ IsFiniteSet(left)
        /\ Cardinality(left) = Cardinality(references) - 1
    BY <1>1, <2>1, FS_RemoveElement
  <2> QED BY <1>1, <2>2, LimitType
<1> QED BY <1>2, <1>3 DEF Slides

\* The sliding window removes a reference before it adds the picture.
LEMMA ShortTermStep ==
  ASSUME DInv, NEW frame_num \in Nat, NEW poc \in Int,
         store_short_term(frame_num, poc)
  PROVE  DInv'
<1>1. frame_num \in Nat /\ poc \in Int
  OBVIOUS
<1>2. PICK left \in SUBSET references :
        /\ Slides(references, frame_num, left)
        /\ Push(left, frame_num, poc, ShortTerm)
  BY DEF store_short_term
<1>3. /\ ~ marking /\ CanSlide(frame_num)
      /\ outcome' = "ok"
      /\ UNCHANGED <<max_long_term_frame_idx, marking, cloneVars>>
  BY DEF store_short_term
<1>4. IsFiniteSet(left) /\ Cardinality(left) < Limit
  BY <1>1, <1>2, SlidesSound
<1>5. Sound(left, max_long_term_frame_idx)
  BY SoundSubset DEF DInv
<1>6. ~ HasShortTerm(left, frame_num)
  BY <1>3 DEF CanSlide, HasShortTerm
<1>7. /\ left \in SUBSET ReferenceType
      /\ max_long_term_frame_idx \in Nat \cup {NoIndex}
      /\ next_reference_id \in 1 .. MaxReferenceId
  BY DEF DInv, TypeOK
<1>8. /\ references' \subseteq ReferenceType /\ IsFiniteSet(references')
      /\ next_reference_id' \in 1 .. MaxReferenceId
      /\ Sound(references', max_long_term_frame_idx)
      /\ Cardinality(references') <= Limit
  BY <1>1, <1>2, <1>4, <1>5, <1>6, <1>7, PushSound
<1>9. TypeOK'
  BY <1>3, <1>8 DEF DInv, TypeOK, cloneVars
<1>10. Sound(references, max_long_term_frame_idx)'
  BY <1>3, <1>8
<1> QED BY <1>3, <1>8, <1>9, <1>10 DEF DInv, WithinLimit

\* A rejected store changes nothing but the outcome.
LEMMA RejectedStep ==
  ASSUME DInv, NEW frame_num \in Nat,
         \/ store_short_term_rejected(frame_num)
         \/ store_adaptive_rejected(frame_num)
  PROVE  DInv'
<1>1. /\ ~ marking
      /\ outcome' = "error"
      /\ UNCHANGED <<dpbVars, marking, cloneVars>>
  BY DEF store_short_term_rejected, store_adaptive_rejected
<1>2. TypeOK'
  BY <1>1 DEF DInv, TypeOK, dpbVars, cloneVars
<1> QED BY <1>1, <1>2 DEF DInv, WithinLimit, dpbVars

----------
(* Adaptive marking *)

\* The copies of a sound buffer are sound.
LEMMA AdaptiveStep ==
  ASSUME DInv, NEW frame_num \in Nat, NEW poc \in Int,
         NEW list \in OperationLists,
         store_adaptive(frame_num, poc, list)
  PROVE  DInv'
<1>1. /\ frame_num \in Nat /\ poc \in Int
      /\ list \in Seq(Operation) /\ (ListsConform => LeavesCurrent(list))
  BY DpbAssumption DEF ListsConform
<1>2. /\ current' = [frame_num |-> frame_num, picture_order_count |-> poc]
      /\ marking' = TRUE /\ operations' = list /\ clone' = references
      /\ clone_max' = max_long_term_frame_idx /\ current_kind' = ShortTerm
      /\ UNCHANGED <<dpbVars, outcome>>
  BY DEF store_adaptive
<1>3. TypeOK'
  BY <1>1, <1>2 DEF DInv, TypeOK, dpbVars
<1>4. Copies'
  BY <1>1, <1>2 DEF DInv, Copies, Reserved
<1> QED BY <1>2, <1>3, <1>4 DEF DInv, WithinLimit, dpbVars

\* What is left of a sequence after its first operation.
LEMMA TailFacts ==
  ASSUME NEW list \in Seq(Operation), list # << >>
  PROVE  /\ Head(list) \in Operation
         /\ Tail(list) \in Seq(Operation)
         /\ Len(list) \in Nat \ {0} /\ Len(Tail(list)) = Len(list) - 1
         /\ Head(list) = list[1]
         /\ \A i \in 1 .. Len(Tail(list)) : i + 1 \in 1 .. Len(list) /\ Tail(list)[i] = list[i + 1]
OBVIOUS

\* A list that leaves the current picture alone goes on doing so, and what
\* comes after MMCO 6 does not concern its index.
LEMMA TailLeaves ==
  ASSUME NEW list \in Seq(Operation), list # << >>, LeavesCurrent(list)
  PROVE  /\ LeavesCurrent(Tail(list))
         /\ Head(list).kind = "MarkCurrentLongTerm" =>
              \A i \in 1 .. Len(Tail(list)) : ~ Overrides(Tail(list)[i], Head(list).index)
<1> DEFINE rest == Tail(list)
<1>1. /\ Len(list) \in Nat \ {0} /\ Len(rest) \in Nat /\ Head(list) = list[1]
      /\ \A i \in 1 .. Len(rest) : i + 1 \in 1 .. Len(list) /\ rest[i] = list[i + 1]
  BY TailFacts
<1> HIDE DEF rest
<1>2. LeavesCurrent(rest)
  <2> SUFFICES ASSUME NEW i \in 1 .. Len(rest), NEW j \in 1 .. Len(rest), i < j,
                      rest[i].kind = "MarkCurrentLongTerm"
               PROVE  ~ Overrides(rest[j], rest[i].index)
    BY DEF LeavesCurrent
  <2>1. /\ i + 1 \in 1 .. Len(list) /\ j + 1 \in 1 .. Len(list) /\ i + 1 < j + 1
        /\ rest[i] = list[i + 1] /\ rest[j] = list[j + 1]
    BY <1>1
  <2> QED BY <2>1 DEF LeavesCurrent
<1>3. ASSUME Head(list).kind = "MarkCurrentLongTerm", NEW i \in 1 .. Len(rest)
      PROVE  ~ Overrides(rest[i], Head(list).index)
  <2>1. /\ 1 \in 1 .. Len(list) /\ i + 1 \in 1 .. Len(list) /\ 1 < i + 1
        /\ Head(list) = list[1] /\ rest[i] = list[i + 1]
    BY <1>1
  <2> QED BY <1>3, <2>1 DEF LeavesCurrent
<1> QED BY <1>2, <1>3 DEF rest

\* An operation that leaves typed, sound copies keeps the invariant, if it leaves
\* the index of the current picture alone or gives it one.
LEMMA ExecutesStep ==
  ASSUME DInv, NEW kind, Executes(kind),
         clone' \subseteq ReferenceType, IsFiniteSet(clone'),
         clone_max' \in Nat \cup {NoIndex},
         current_kind' \in Nat \cup {ShortTerm},
         Sound(clone, clone_max)',
         ListsConform =>
           \/ /\ current_kind' = current_kind
              /\ current_kind # ShortTerm /\ ~ Overrides(Head(operations), current_kind)
                   => /\ current_kind <= clone_max => current_kind <= clone_max'
                      /\ NamedLongTerm(clone, current_kind) = {}
                           => NamedLongTerm(clone', current_kind) = {}
           \/ /\ kind = "MarkCurrentLongTerm"
              /\ current_kind' = Head(operations).index
              /\ current_kind' <= clone_max'
              /\ NamedLongTerm(clone', current_kind') = {}
  PROVE  DInv'
<1>1. /\ marking /\ operations # << >> /\ operations' = Tail(operations)
      /\ Head(operations).kind = kind
      /\ UNCHANGED <<dpbVars, marking, current, outcome>>
  BY DEF Executes
<1>2. /\ operations \in Seq(Operation)
      /\ ListsConform => /\ LeavesCurrent(operations)
                         /\ Reserved(clone, clone_max, operations, current_kind)
  BY <1>1 DEF DInv, TypeOK, Copies
<1>3. operations' \in Seq(Operation)
  BY <1>1, <1>2, TailFacts
<1>4. TypeOK'
  BY <1>1, <1>3 DEF DInv, TypeOK, dpbVars
<1>5. ASSUME ListsConform
      PROVE  LeavesCurrent(operations') /\ Reserved(clone', clone_max', operations', current_kind')
  <2>1. /\ LeavesCurrent(operations')
        /\ kind = "MarkCurrentLongTerm" =>
             \A i \in 1 .. Len(operations') : ~ Overrides(operations'[i], Head(operations).index)
    BY <1>1, <1>2, <1>5, TailLeaves
  <2>2. ASSUME current_kind # ShortTerm, current_kind' = current_kind
        PROVE  /\ ~ Overrides(Head(operations), current_kind)
               /\ \A i \in 1 .. Len(operations') : ~ Overrides(operations'[i], current_kind)
    <3>1. \A i \in 1 .. Len(operations) : ~ Overrides(operations[i], current_kind)
      BY <1>2, <1>5, <2>2 DEF Reserved
    <3>2. /\ 1 \in 1 .. Len(operations) /\ Head(operations) = operations[1]
          /\ \A i \in 1 .. Len(operations') :
               i + 1 \in 1 .. Len(operations) /\ operations'[i] = operations[i + 1]
      BY <1>1, <1>2, TailFacts
    <3> QED BY <3>1, <3>2
  <2>3. Reserved(clone', clone_max', operations', current_kind')
    BY <1>2, <1>5, <2>1, <2>2 DEF Reserved
  <2> QED BY <2>1, <2>3
<1>6. Copies'
  BY <1>5 DEF Copies
<1> QED BY <1>1, <1>4, <1>6 DEF DInv, WithinLimit, dpbVars

\* MMCO 1, 2, 4 and 5 only remove references.
LEMMA ForgetSteps ==
  ASSUME DInv, ForgetShortTerm \/ ForgetLongTerm \/ LimitLongTerm \/ ForgetAll
  PROVE  DInv'
<1>1. /\ marking /\ clone \subseteq ReferenceType /\ IsFiniteSet(clone)
      /\ clone_max \in Nat \cup {NoIndex} /\ Sound(clone, clone_max)
      /\ current_kind \in Nat \cup {ShortTerm}
  BY DEF DInv, TypeOK, Copies, Executes, ForgetShortTerm, ForgetLongTerm,
         LimitLongTerm, ForgetAll
<1>2. CASE ForgetShortTerm \/ ForgetLongTerm
  <2>1. /\ clone' \in SUBSET clone
        /\ UNCHANGED <<clone_max, current_kind>>
        /\ Executes("ForgetShortTerm") \/ Executes("ForgetLongTerm")
    BY <1>2 DEF ForgetShortTerm, ForgetLongTerm
  <2>2. IsFiniteSet(clone')
    BY <1>1, <2>1, FS_Subset
  <2>3. Sound(clone, clone_max)'
    BY <1>1, <2>1, SoundSubset
  <2>4. NamedLongTerm(clone, current_kind) = {} => NamedLongTerm(clone', current_kind) = {}
    BY <2>1 DEF NamedLongTerm
  <2> QED BY <1>1, <2>1, <2>2, <2>3, <2>4, ExecutesStep
<1>3. CASE LimitLongTerm
  <2>1. /\ Executes("LimitLongTerm")
        /\ clone' = {r \in clone : IsLong(r) => r.kind < Head(operations).index}
        /\ clone_max' = Head(operations).index - 1
        /\ UNCHANGED current_kind
    BY <1>3 DEF LimitLongTerm
  <2>2. Head(operations).index \in Nat
    <3>1. operations # << >> /\ operations \in Seq(Operation)
      BY <2>1 DEF Executes, DInv, TypeOK
    <3>2. Head(operations) \in Operation
      BY <3>1
    <3> QED BY <3>2 DEF Operation
  <2>3. IsFiniteSet(clone') /\ clone' \in SUBSET clone
    BY <1>1, <2>1, FS_Subset
  <2>4. Sound(clone', clone_max)
    BY <1>1, <2>3, SoundSubset
  <2>5. LongTermWithin(clone', clone_max')
    <3> SUFFICES ASSUME NEW r \in clone', IsLong(r) PROVE r.kind <= clone_max'
      BY DEF LongTermWithin
    <3>1. r.kind < Head(operations).index /\ r.kind \in Int
      BY <1>1, <2>1 DEF ReferenceType, ShortTerm
    <3> QED BY <2>1, <2>2, <3>1
  <2>6. Sound(clone, clone_max)'
    BY <2>4, <2>5 DEF Sound, Indexed
  <2>7. clone_max' \in Nat \cup {NoIndex}
    BY <2>1, <2>2 DEF NoIndex
  <2>8. NamedLongTerm(clone, current_kind) = {} => NamedLongTerm(clone', current_kind) = {}
    BY <2>1 DEF NamedLongTerm
  <2>9. ASSUME current_kind # ShortTerm, ~ Overrides(Head(operations), current_kind)
        PROVE  current_kind <= clone_max'
    <3>1. ~ (Head(operations).index <= current_kind) /\ current_kind \in Nat
      BY <1>1, <2>1, <2>9 DEF Overrides, Executes
    <3> QED BY <2>1, <2>2, <3>1
  <2> QED BY <1>1, <2>1, <2>3, <2>6, <2>7, <2>8, <2>9, ExecutesStep
<1>4. CASE ForgetAll
  <2>1. /\ Executes("ForgetAll")
        /\ clone' = {} /\ clone_max' = NoIndex
        /\ UNCHANGED current_kind
    BY <1>4 DEF ForgetAll
  <2>2. IsFiniteSet(clone')
    BY <2>1, FS_EmptySet
  <2>3. Sound(clone, clone_max)'
    BY <2>1 DEF Sound, Keyed, Indexed, DistinctIds, DistinctShorts, DistinctLongs, LongTermWithin
  <2>4. Overrides(Head(operations), current_kind)
    BY <2>1 DEF Executes, Overrides
  <2> QED BY <1>1, <2>1, <2>2, <2>3, <2>4, ExecutesStep
<1> QED BY <1>2, <1>3, <1>4

\* What has given an index up is a part of the copies, where nothing has the
\* index any more when one reference had it.
LEMMA VacatedFacts ==
  ASSUME NEW index \in Nat, NEW left \in Vacated(index)
  PROVE  /\ left \in SUBSET clone
         /\ DistinctLongs(clone) => \A s \in left : s.kind # index
<1>1. left \in SUBSET clone
  BY DEF Vacated
<1>2. ASSUME DistinctLongs(clone), NEW s \in left, s.kind = index PROVE FALSE
  <2>1. s \in NamedLongTerm(clone, index)
    BY <1>1, <1>2 DEF NamedLongTerm
  <2>2. PICK r \in NamedLongTerm(clone, index) : left = clone \ {r}
    BY <2>1 DEF Vacated
  <2>3. IsLong(r) /\ r.kind = s.kind
    BY <1>2, <2>2 DEF NamedLongTerm, IsLong, ShortTerm
  <2>4. r = s
    BY <1>1, <1>2, <2>2, <2>3 DEF DistinctLongs, NamedLongTerm
  <2> QED BY <1>2, <2>2, <2>4
<1> QED BY <1>1, <1>2

\* MMCO 3 takes the index from the reference that has it.
LEMMA AssignStep ==
  ASSUME DInv, AssignLongTerm
  PROVE  DInv'
<1> DEFINE index == Head(operations).index
<1>1. /\ Executes("AssignLongTerm")
      /\ index <= clone_max
      /\ UNCHANGED <<clone_max, current_kind>>
  BY DEF AssignLongTerm, IndexAllowed
<1>2. PICK others \in Vacated(index) :
        \E r \in others : /\ IsShort(r)
                         /\ clone' = (others \ {r}) \cup {[r EXCEPT !.kind = index]}
  BY DEF AssignLongTerm, NamedShortTerm
<1>3. /\ clone \subseteq ReferenceType /\ IsFiniteSet(clone)
      /\ clone_max \in Nat \cup {NoIndex} /\ Sound(clone, clone_max)
      /\ current_kind \in Nat \cup {ShortTerm}
  BY <1>1 DEF DInv, TypeOK, Copies, Executes
<1>4. index \in Nat
  <2>1. operations # << >> /\ operations \in Seq(Operation)
    BY <1>1 DEF Executes, DInv, TypeOK
  <2>2. Head(operations) \in Operation
    BY <2>1
  <2> QED BY <2>2 DEF Operation
<1>5. PICK r \in others : IsShort(r) /\ clone' = (others \ {r}) \cup {[r EXCEPT !.kind = index]}
  BY <1>2
<1> DEFINE new == [r EXCEPT !.kind = index]
           rest == others \ {r}
<1>6. /\ others \in SUBSET clone
      /\ DistinctLongs(clone) => \A s \in others : s.kind # index
  BY <1>2, <1>4, VacatedFacts
<1>7. rest \in SUBSET clone /\ r \in clone
  BY <1>6
<1>8. /\ new \in ReferenceType
      /\ new.id = r.id /\ new.kind = index
  BY <1>3, <1>4, <1>7 DEF ReferenceType
<1>9. Sound(rest, clone_max) /\ IsFiniteSet(rest)
  BY <1>3, <1>7, SoundSubset, FS_Subset
<1>10. \A s \in rest : s.id # new.id
  BY <1>3, <1>7, <1>8 DEF Sound, Keyed, DistinctIds
<1>11. ListsConform => \A s \in rest : s.kind # new.kind
  BY <1>3, <1>6, <1>8 DEF Sound, Indexed
<1>12. clone' = rest \cup {new}
  BY <1>5
<1>13. ASSUME current_kind # ShortTerm, ~ Overrides(Head(operations), current_kind),
              NamedLongTerm(clone, current_kind) = {}
       PROVE  NamedLongTerm(clone', current_kind) = {}
  <2>1. current_kind # index
    BY <1>1, <1>13 DEF Overrides, Executes
  <2> QED BY <1>7, <1>8, <1>12, <1>13, <2>1 DEF NamedLongTerm
<1> HIDE DEF index, new, rest
<1>14. Sound(clone, clone_max)'
  <2>1. rest \in SUBSET ReferenceType
    BY <1>3, <1>7
  <2>2. ~ IsShort(new)
    BY <1>4, <1>8 DEF IsShort, ShortTerm
  <2>3. ListsConform /\ IsLong(new) =>
          new.kind <= clone_max /\ \A s \in rest : s.kind # new.kind
    BY <1>1, <1>8, <1>11
  <2>4. Sound(rest \cup {new}, clone_max)
    BY <1>3, <1>8, <1>9, <1>10, <2>1, <2>2, <2>3, SoundAdded
  <2> QED BY <1>1, <1>12, <2>4
<1>15. clone' \subseteq ReferenceType /\ IsFiniteSet(clone')
  BY <1>3, <1>7, <1>8, <1>9, <1>12, FS_AddElement
<1> QED BY <1>1, <1>3, <1>13, <1>14, <1>15, ExecutesStep

\* MMCO 6 reserves its index for the current picture.
LEMMA MarkCurrentStep ==
  ASSUME DInv, MarkCurrentLongTerm
  PROVE  DInv'
<1> DEFINE index == Head(operations).index
<1>1. /\ Executes("MarkCurrentLongTerm")
      /\ index <= clone_max
      /\ clone' \in Vacated(index)
      /\ current_kind' = index
      /\ UNCHANGED clone_max
  BY DEF MarkCurrentLongTerm, IndexAllowed
<1>2. /\ clone \subseteq ReferenceType /\ IsFiniteSet(clone)
      /\ clone_max \in Nat \cup {NoIndex} /\ Sound(clone, clone_max)
  BY <1>1 DEF DInv, TypeOK, Copies, Executes
<1>3. index \in Nat
  <2>1. operations # << >> /\ operations \in Seq(Operation)
    BY <1>1 DEF Executes, DInv, TypeOK
  <2>2. Head(operations) \in Operation
    BY <2>1
  <2> QED BY <2>2 DEF Operation
<1>4. /\ clone' \in SUBSET clone
      /\ DistinctLongs(clone) => \A s \in clone' : s.kind # index
  BY <1>1, <1>3, VacatedFacts
<1>5. Sound(clone, clone_max)' /\ IsFiniteSet(clone')
  BY <1>1, <1>2, <1>4, SoundSubset, FS_Subset
<1>6. ListsConform => NamedLongTerm(clone', current_kind') = {}
  BY <1>1, <1>2, <1>4 DEF NamedLongTerm, Sound, Indexed
<1> QED BY <1>1, <1>2, <1>3, <1>4, <1>5, <1>6, ExecutesStep

\* A sequence that fails leaves the references as they were.
LEMMA RejectStep ==
  ASSUME DInv, RejectMarking
  PROVE  DInv'
<1>1. UNCHANGED dpbVars /\ Return("error")
  BY DEF RejectMarking
<1>2. << >> \in Seq(Operation) /\ IsFiniteSet({}) /\ NoPicture \in
        [frame_num : Nat, picture_order_count : Int]
  BY FS_EmptySet DEF NoPicture
<1>3. TypeOK'
  BY <1>1, <1>2 DEF DInv, TypeOK, Return, dpbVars
<1>4. marking' = FALSE
  BY <1>1 DEF Return
<1> QED BY <1>1, <1>3, <1>4 DEF DInv, WithinLimit, dpbVars

\* A sequence that succeeds replaces the references by sound copies.
LEMMA CommitStep ==
  ASSUME DInv, CommitMarking
  PROVE  DInv'
<1>1. /\ marking /\ Storable
      /\ Push(clone, current.frame_num, current.picture_order_count, current_kind)
      /\ max_long_term_frame_idx' = clone_max
      /\ Return("ok")
  BY DEF CommitMarking
<1>2. /\ clone \in SUBSET ReferenceType /\ IsFiniteSet(clone)
      /\ clone_max \in Nat \cup {NoIndex}
      /\ Sound(clone, clone_max)
      /\ current.frame_num \in Nat /\ current.picture_order_count \in Int
      /\ current_kind \in Nat \cup {ShortTerm}
      /\ next_reference_id \in 1 .. MaxReferenceId
      /\ ListsConform /\ current_kind # ShortTerm =>
           current_kind <= clone_max /\ NamedLongTerm(clone, current_kind) = {}
  BY <1>1 DEF DInv, TypeOK, Copies, Reserved
<1>3. /\ Cardinality(clone) < Limit
      /\ current_kind = ShortTerm => ~ HasShortTerm(clone, current.frame_num)
  BY <1>1 DEF Storable
<1>4. /\ references' \subseteq ReferenceType /\ IsFiniteSet(references')
      /\ next_reference_id' \in 1 .. MaxReferenceId
      /\ Sound(references', clone_max)
      /\ Cardinality(references') <= Limit
  BY <1>1, <1>2, <1>3, PushSound
<1>5. << >> \in Seq(Operation) /\ IsFiniteSet({}) /\ NoPicture \in
        [frame_num : Nat, picture_order_count : Int]
  BY FS_EmptySet DEF NoPicture
<1>6. TypeOK'
  BY <1>1, <1>2, <1>4, <1>5 DEF TypeOK, Return
<1>7. marking' = FALSE
  BY <1>1 DEF Return
<1> QED BY <1>1, <1>4, <1>6, <1>7 DEF DInv, WithinLimit

\* Every step of a marking keeps the invariant.
LEMMA MarkStep ==
  ASSUME DInv, Mark
  PROVE  DInv'
BY ForgetSteps, AssignStep, MarkCurrentStep, RejectStep, CommitStep DEF Mark

----------
(* The invariant and what follows from it *)

\* Every step of the buffer keeps the invariant.
LEMMA NextInv ==
  ASSUME DInv, [Next]_vars
  PROVE  DInv'
<1>1. CASE Store
  <2>0. FrameNums \subseteq Nat /\ Pocs \subseteq Int
    BY DpbAssumption
  <2>1. CASE \E poc \in Pocs, long_term_reference \in BOOLEAN :
               store_idr(poc, long_term_reference)
    BY <2>0, <2>1, IdrStep
  <2>2. CASE \E frame_num \in FrameNums :
               \/ store_short_term_rejected(frame_num)
               \/ store_adaptive_rejected(frame_num)
    BY <2>0, <2>2, RejectedStep
  <2>3. CASE \E frame_num \in FrameNums, poc \in Pocs : store_short_term(frame_num, poc)
    BY <2>0, <2>3, ShortTermStep
  <2>4. CASE \E frame_num \in FrameNums, poc \in Pocs, list \in OperationLists :
               store_adaptive(frame_num, poc, list)
    BY <2>0, <2>4, AdaptiveStep
  <2> QED BY <1>1, <2>1, <2>2, <2>3, <2>4 DEF Store
<1>2. CASE clear
  BY <1>2, ClearStep
<1>3. CASE Mark
  BY <1>3, MarkStep
<1>4. CASE UNCHANGED vars
  BY <1>4 DEF DInv, TypeOK, WithinLimit, Copies, vars
<1> QED BY <1>1, <1>2, <1>3, <1>4 DEF Next

\* The invariant holds in every reachable state.
THEOREM Invariance == Spec => []DInv
BY InitInv, NextInv, PTL DEF Spec

\* Every variable of the buffer keeps its type.
THEOREM TypeCorrect == Spec => []TypeOK
<1>1. DInv => TypeOK
  BY DEF DInv
<1> QED BY <1>1, Invariance, PTL

\* Whatever the lists of operations, ids and short-term frame_nums name one
\* reference each.
THEOREM ShortKeysUnique == Spec => [](DistinctIds(references) /\ DistinctShorts(references))
<1>1. DInv => DistinctIds(references) /\ DistinctShorts(references)
  BY DEF DInv, Sound, Keyed
<1> QED BY <1>1, Invariance, PTL

\* So do long-term indices, if no list that marks the current picture long-term
\* goes on to give its index away, lower the maximum to it or forget everything.
THEOREM KeysUnique == ListsConform => (Spec => []UniqueKeys)
<1> SUFFICES ASSUME ListsConform PROVE Spec => []UniqueKeys
  OBVIOUS
<1>1. DInv => UniqueKeys
  BY DEF DInv, Sound, Keyed, Indexed, UniqueKeys
<1> QED BY <1>1, Invariance, PTL

\* No store leaves more references than max_num_ref_frames, or one when it is 0.
THEOREM LimitKept == Spec => []WithinLimit
<1>1. DInv => WithinLimit
  BY DEF DInv
<1> QED BY <1>1, Invariance, PTL

\* No long-term reference has an index above MaxLongTermFrameIdx, if no list that
\* marks the current picture long-term lowers the maximum to its index afterwards.
THEOREM LongTermBounded == ListsConform => (Spec => []LongTermWithinMaximum)
<1> SUFFICES ASSUME ListsConform PROVE Spec => []LongTermWithinMaximum
  OBVIOUS
<1>1. DInv => LongTermWithinMaximum
  BY DEF DInv, Sound, Indexed, LongTermWithin, LongTermWithinMaximum
<1> QED BY <1>1, Invariance, PTL

\* The buffer changes only when a whole MMCO sequence has succeeded.
THEOREM AtomicMarking == Spec => MarkingIsAtomic
<1>1. ASSUME [Next]_vars
      PROVE  [marking /\ dpbVars' # dpbVars => operations = << >> /\ outcome' = "ok"]_vars
  <2>1. CASE Store
    BY <2>1 DEF Store, store_idr, store_short_term, store_short_term_rejected,
                store_adaptive, store_adaptive_rejected
  <2>2. CASE clear
    BY <2>2 DEF clear
  <2>3. CASE CommitMarking
    BY <2>3 DEF CommitMarking, Return
  <2>4. CASE Mark /\ ~ CommitMarking
    <3>1. dpbVars' = dpbVars
      BY <2>4 DEF Mark, ForgetShortTerm, ForgetLongTerm, AssignLongTerm,
                  LimitLongTerm, ForgetAll, MarkCurrentLongTerm, RejectMarking, Executes
    <3> QED BY <3>1
  <2>5. CASE UNCHANGED vars
    BY <2>5 DEF vars, dpbVars
  <2> QED BY <1>1, <2>1, <2>2, <2>3, <2>4, <2>5 DEF Next
<1> QED BY <1>1, PTL DEF Spec, MarkingIsAtomic

----------
(* The stream *)

FrameNumRange == 0 .. MaxFrameNum - 1

Numbered(refs) == \A r \in refs : r.frame_num \in FrameNumRange

\* Numbers stay below MaxFrameNum, those of the copies and of the picture that
\* is being marked too.
SInv ==
  /\ DInv
  /\ prev_ref_frame_num \in FrameNumRange
  /\ pictures \in Nat
  /\ rejected \in BOOLEAN
  /\ Numbered(references)
  /\ marking => /\ pictures > 0
                /\ Numbered(clone) /\ current.frame_num \in FrameNumRange

\* Before the numbers start again, a reference is as many numbers behind the
\* last reference picture as there were reference pictures since.
Behind(refs) ==
  \A r \in refs : \E d \in 0 .. pictures - 1 :
    \/ r.frame_num = prev_ref_frame_num - d
    \/ r.frame_num = prev_ref_frame_num - d + MaxFrameNum

Recent ==
  pictures < MaxFrameNum =>
    /\ Behind(references)
    /\ marking => Behind(clone) /\ current.frame_num = prev_ref_frame_num

\* No picture of the stream carries MMCO 5.
NoReset ==
  \A list \in MarkingLists : \A i \in DOMAIN list : list[i].kind # "ForgetAll"

----------
(* Numbers *)

LEMMA MaxFrameNumType == MaxFrameNum \in Nat \ {0}
BY DpbAssumption

\* The next number is one more, or 0 after the last one.
LEMMA NextNumber ==
  ASSUME prev_ref_frame_num \in FrameNumRange
  PROVE  /\ NextFrameNum \in FrameNumRange
         /\ \/ NextFrameNum = prev_ref_frame_num + 1
            \/ NextFrameNum = prev_ref_frame_num + 1 - MaxFrameNum
<1>1. PICK m \in Nat \ {0} : m = MaxFrameNum
  BY MaxFrameNumType
<1>2. PICK p \in 0 .. m - 1 : p = prev_ref_frame_num
  BY <1>1 DEF FrameNumRange
<1>3. PICK n \in 0 .. m - 1 : n = (p + 1) % m
  BY <1>1
<1>4. \/ n = p + 1
      \/ n = p + 1 - m
  <2>1. CASE p + 1 < m
    BY <1>3, <2>1
  <2>2. CASE p + 1 = m
    BY <1>3, <2>2
  <2> QED BY <2>1, <2>2
<1> QED BY <1>1, <1>2, <1>3, <1>4 DEF NextFrameNum, FrameNumRange

\* A reference that is behind one picture is behind the next one too.
LEMMA StillBehind ==
  ASSUME SInv, Behind(references), pictures' = pictures + 1,
         pictures' < MaxFrameNum, prev_ref_frame_num' = NextFrameNum,
         NEW left \in SUBSET references
  PROVE  Behind(left)'
<1> SUFFICES ASSUME NEW r \in left
             PROVE  \E d \in 0 .. pictures' - 1 :
                      \/ r.frame_num = prev_ref_frame_num' - d
                      \/ r.frame_num = prev_ref_frame_num' - d + MaxFrameNum
  BY DEF Behind
<1>1. PICK m \in Nat \ {0} : m = MaxFrameNum
  BY MaxFrameNumType
<1>2. PICK p \in 0 .. m - 1 : p = prev_ref_frame_num
  BY <1>1 DEF FrameNumRange, SInv
<1>3. PICK n \in 0 .. m - 1 : n = NextFrameNum
  BY <1>1, NextNumber DEF SInv, FrameNumRange
<1>4. n = p + 1 \/ n = p + 1 - m
  BY <1>1, <1>2, <1>3, NextNumber DEF SInv
<1>5. PICK f \in 0 .. m - 1 : f = r.frame_num
  BY <1>1 DEF SInv, Numbered, FrameNumRange
<1>6. PICK k \in Nat : k = pictures
  BY DEF SInv
<1>7. PICK d \in 0 .. k - 1 : f = p - d \/ f = p - d + m
  BY <1>1, <1>2, <1>5, <1>6 DEF Behind
<1>8. k + 1 < m
  BY <1>1, <1>6
<1>9. d + 1 \in 0 .. k + 1 - 1 /\ (f = n - (d + 1) \/ f = n - (d + 1) + m)
  BY ONLY m \in Nat, p \in 0 .. m - 1, n \in 0 .. m - 1, f \in 0 .. m - 1, k \in Nat,
          d \in 0 .. k - 1, <1>4, <1>7, <1>8
<1> QED BY <1>1, <1>3, <1>5, <1>6, <1>9

----------
(* What stores do to the numbers *)

\* A picture that is pushed brings its own number.
LEMMA PushedNumbers ==
  ASSUME NEW refs, NEW frame_num, NEW poc, NEW kind, Push(refs, frame_num, poc, kind)
  PROVE  \A r \in references' : r \in refs \/ r.frame_num = frame_num
BY DEF Push, Reference

\* A step of a marking leaves the copies' numbers alone.
LEMMA MarkedNumbers ==
  ASSUME DInv, Mark, marking'
  PROVE  /\ \A r \in clone' : \E s \in clone : r.frame_num = s.frame_num
         /\ UNCHANGED <<references, current>>
         /\ marking
<1>1. CASE ForgetShortTerm \/ ForgetLongTerm \/ LimitLongTerm \/ ForgetAll
           \/ MarkCurrentLongTerm
  BY <1>1 DEF ForgetShortTerm, ForgetLongTerm, LimitLongTerm, ForgetAll,
              MarkCurrentLongTerm, Vacated, Executes, dpbVars
<1>2. CASE AssignLongTerm
  <2>1. UNCHANGED <<references, current>> /\ marking
    BY <1>2 DEF AssignLongTerm, Executes, dpbVars
  <2>2. PICK r \in clone :
          clone' \subseteq clone \cup {[r EXCEPT !.kind = Head(operations).index]}
    BY <1>2 DEF AssignLongTerm, NamedShortTerm, Vacated
  <2>3. [r EXCEPT !.kind = Head(operations).index].frame_num = r.frame_num
    BY DEF DInv, TypeOK, ReferenceType
  <2> QED BY <2>1, <2>2, <2>3
<1>3. CASE RejectMarking \/ CommitMarking
  BY <1>3 DEF RejectMarking, CommitMarking, Return
<1> QED BY <1>1, <1>2, <1>3 DEF Mark

\* When a marking ends, the buffer is as it was, or the copies and the picture.
LEMMA EndedNumbers ==
  ASSUME Mark, ~ marking'
  PROVE  /\ marking
         /\ \/ references' = references
            \/ \A r \in references' : r \in clone \/ r.frame_num = current.frame_num
<1>1. CASE RejectMarking
  BY <1>1 DEF RejectMarking, dpbVars
<1>2. CASE CommitMarking
  BY <1>2, PushedNumbers DEF CommitMarking
<1>3. CASE ~ (RejectMarking \/ CommitMarking)
  BY <1>3 DEF Mark, ForgetShortTerm, ForgetLongTerm, AssignLongTerm, LimitLongTerm,
              ForgetAll, MarkCurrentLongTerm, Executes
<1> QED BY <1>1, <1>2, <1>3

----------
(* The invariants *)

LEMMA StreamInitInv == StreamInit => SInv /\ Recent
<1> SUFFICES ASSUME StreamInit PROVE SInv /\ Recent
  OBVIOUS
<1>1. DInv /\ references = {} /\ ~ marking
  BY InitInv DEF StreamInit, Init
<1>2. prev_ref_frame_num \in FrameNumRange
  BY MaxFrameNumType DEF StreamInit, FrameNumRange
<1> QED BY <1>1, <1>2 DEF StreamInit, SInv, Recent, Numbered, Behind

\* An IDR picture starts the numbers at 0.
LEMMA StreamIdr ==
  ASSUME SInv, NEW long_term_reference \in BOOLEAN, Idr(long_term_reference)
  PROVE  SInv' /\ Recent'
<1>1. /\ store_idr(0, long_term_reference)
      /\ prev_ref_frame_num' = 0 /\ pictures' = 1 /\ rejected' = rejected
  BY DEF Idr
<1>2. DInv'
  <2>1. DInv /\ store_idr(0, long_term_reference) /\ 0 \in Int
    BY <1>1 DEF SInv
  <2> QED BY ONLY <2>1, long_term_reference \in BOOLEAN, IdrStep
<1>3. ~ marking' /\ \A r \in references' : r.frame_num = 0
  BY <1>1 DEF store_idr, Reference
<1>4. 0 \in FrameNumRange
  BY MaxFrameNumType DEF FrameNumRange
<1>5. SInv'
  BY <1>1, <1>2, <1>3, <1>4 DEF SInv, Numbered
<1>6. Behind(references)'
  BY <1>1, <1>3 DEF Behind
<1> QED BY <1>3, <1>5, <1>6 DEF Recent

\* A picture that slides in has the next number.
LEMMA StreamSlides ==
  ASSUME SInv, SlidingReference
  PROVE  SInv' /\ (Recent => Recent')
<1>1. /\ ~ marking /\ ~ rejected
      /\ pictures' = pictures + 1 /\ prev_ref_frame_num' = NextFrameNum
  BY DEF SlidingReference, Continues
<1>2. NextFrameNum \in FrameNumRange /\ NextFrameNum \in Nat
  BY NextNumber, MaxFrameNumType DEF SInv, FrameNumRange
<1>3. /\ DInv' /\ ~ marking' /\ rejected' \in BOOLEAN
      /\ \A r \in references' : r \in references \/ r.frame_num = NextFrameNum
  <2>1. CASE store_short_term(NextFrameNum, 0) /\ UNCHANGED rejected
    <3>0. DInv /\ store_short_term(NextFrameNum, 0) /\ 0 \in Int
      BY <2>1 DEF SInv
    <3>1. DInv'
      BY ONLY <1>2, <3>0, ShortTermStep
    <3>2. PICK left \in SUBSET references : Push(left, NextFrameNum, 0, ShortTerm)
      BY <2>1 DEF store_short_term
    <3>3. \A r \in references' : r \in left \/ r.frame_num = NextFrameNum
      BY <3>2, PushedNumbers
    <3>4. ~ marking' /\ rejected' \in BOOLEAN
      BY <1>1, <2>1 DEF store_short_term, SInv
    <3> QED BY <3>1, <3>3, <3>4
  <2>2. CASE store_short_term_rejected(NextFrameNum) /\ rejected' = TRUE
    <3>0. DInv /\ store_short_term_rejected(NextFrameNum)
      BY <2>2 DEF SInv
    <3>1. DInv'
      BY ONLY <1>2, <3>0, RejectedStep
    <3> QED BY <1>1, <2>2, <3>1 DEF store_short_term_rejected, dpbVars
  <2> QED BY <2>1, <2>2 DEF SlidingReference
<1>4. SInv'
  BY <1>1, <1>2, <1>3 DEF SInv, Numbered
<1>5. ASSUME Recent PROVE Recent'
  <2> SUFFICES ASSUME pictures' < MaxFrameNum PROVE Behind(references)'
    BY <1>3 DEF Recent
  <2>1. pictures < MaxFrameNum /\ pictures \in Nat
    BY <1>1, MaxFrameNumType DEF SInv
  <2>2. \A left \in SUBSET references : Behind(left)'
    BY <1>1, <1>5, <2>1, StillBehind DEF Recent
  <2>3. 0 \in 0 .. pictures' - 1
    BY <1>1, <2>1
  <2>4. NextFrameNum = NextFrameNum - 0
    BY <1>2
  <2> SUFFICES ASSUME NEW r \in references'
               PROVE  \E d \in 0 .. pictures' - 1 :
                        \/ r.frame_num = prev_ref_frame_num' - d
                        \/ r.frame_num = prev_ref_frame_num' - d + MaxFrameNum
    BY DEF Behind
  <2>5. CASE r \in references
    <3>1. Behind({r})'
      BY <2>2, <2>5
    <3> QED BY <3>1 DEF Behind
  <2>6. CASE r.frame_num = NextFrameNum
    BY <1>1, <2>3, <2>4, <2>6
  <2> QED BY <1>3, <2>5, <2>6
<1> QED BY <1>4, <1>5

\* A picture that marks works on copies of the references.
LEMMA StreamAdapts ==
  ASSUME SInv, NEW list \in MarkingLists, AdaptiveReference(list)
  PROVE  SInv' /\ (NoReset /\ Recent => Recent')
<1>1. /\ ~ marking /\ pictures' = pictures + 1
      /\ store_adaptive(NextFrameNum, 0, list)
      /\ prev_ref_frame_num' =
           IF \E i \in DOMAIN list : list[i].kind = "ForgetAll" THEN 0 ELSE NextFrameNum
      /\ rejected' = rejected
  BY DEF AdaptiveReference, Continues
<1>2. /\ NextFrameNum \in FrameNumRange /\ NextFrameNum \in Nat /\ 0 \in FrameNumRange
  BY NextNumber, MaxFrameNumType DEF SInv, FrameNumRange
<1>3. list \in OperationLists
  BY StreamAssumption
<1>4. DInv'
  <2>1. DInv
    BY DEF SInv
  <2>2. store_adaptive(NextFrameNum, 0, list)
    BY <1>1
  <2>3. NextFrameNum \in Nat /\ 0 \in Int
    BY <1>2
  <2> QED BY ONLY <1>3, <2>1, <2>2, <2>3, AdaptiveStep
<1>5. /\ references' = references /\ clone' = references
      /\ current'.frame_num = NextFrameNum
  BY <1>1 DEF store_adaptive, dpbVars
<1>6. SInv'
  <2>1. pictures' \in Nat /\ pictures' > 0
    BY <1>1 DEF SInv
  <2> QED BY <1>1, <1>2, <1>4, <1>5, <2>1 DEF SInv, Numbered
<1>7. ASSUME NoReset, Recent PROVE Recent'
  <2> SUFFICES ASSUME pictures' < MaxFrameNum
               PROVE  Behind(references)' /\ Behind(clone)'
                      /\ current'.frame_num = prev_ref_frame_num'
    BY DEF Recent
  <2>1. pictures < MaxFrameNum
    BY <1>1, MaxFrameNumType DEF SInv
  <2>2. prev_ref_frame_num' = NextFrameNum
    BY <1>1, <1>7 DEF NoReset
  <2>3. Behind(references)'
    <3>1. \A left \in SUBSET references : Behind(left)'
      BY <1>1, <1>7, <2>1, <2>2, StillBehind DEF Recent
    <3> QED BY <1>5, <3>1 DEF Behind
  <2> QED BY <1>5, <2>2, <2>3 DEF Behind
<1> QED BY <1>6, <1>7

\* Marking removes numbers, and ends with the number of the picture.
LEMMA StreamMarks ==
  ASSUME SInv, Marks
  PROVE  SInv' /\ (Recent => Recent')
<1>1. /\ Mark /\ UNCHANGED <<prev_ref_frame_num, pictures>>
      /\ rejected' \in BOOLEAN
  BY DEF Marks, SInv
<1>2. DInv'
  BY <1>1, MarkStep DEF SInv
<1>3. CASE marking'
  <2>1. /\ \A r \in clone' : \E s \in clone : r.frame_num = s.frame_num
        /\ UNCHANGED <<references, current>>
        /\ marking
    BY <1>1, <1>3, MarkedNumbers DEF SInv
  <2>2. SInv'
    BY <1>1, <1>2, <2>1 DEF SInv, Numbered
  <2>3. Recent => Recent'
    BY <1>1, <2>1 DEF Recent, Behind
  <2> QED BY <2>2, <2>3
<1>4. CASE ~ marking'
  <2>1. /\ marking
        /\ \/ references' = references
           \/ \A r \in references' : r \in clone \/ r.frame_num = current.frame_num
    BY <1>1, <1>4, EndedNumbers
  <2>2. SInv'
    BY <1>1, <1>2, <1>4, <2>1 DEF SInv, Numbered
  <2>3. ASSUME Recent, pictures < MaxFrameNum PROVE Behind(references)'
    <3>1. CASE references' = references
      BY <1>1, <2>3, <3>1 DEF Recent, Behind
    <3>2. CASE \A r \in references' : r \in clone \/ r.frame_num = current.frame_num
      <4>1. Behind(clone) /\ current.frame_num = prev_ref_frame_num
        BY <2>1, <2>3 DEF Recent
      <4> SUFFICES ASSUME NEW r \in references'
                   PROVE  \E d \in 0 .. pictures - 1 :
                            \/ r.frame_num = prev_ref_frame_num - d
                            \/ r.frame_num = prev_ref_frame_num - d + MaxFrameNum
        BY <1>1 DEF Behind
      <4>2. CASE r \in clone
        BY <4>1, <4>2 DEF Behind
      <4>3. CASE r.frame_num = prev_ref_frame_num
        <5>1. prev_ref_frame_num = prev_ref_frame_num - 0
          BY MaxFrameNumType DEF SInv, FrameNumRange
        <5>2. 0 \in 0 .. pictures - 1
          BY <2>1 DEF SInv
        <5> QED BY <4>3, <5>1, <5>2
      <4> QED BY <3>2, <4>1, <4>2, <4>3
    <3> QED BY <2>1, <3>1, <3>2
  <2>4. Recent => Recent'
    BY <1>1, <1>4, <2>3 DEF Recent
  <2> QED BY <2>2, <2>4
<1> QED BY <1>3, <1>4
----------
LEMMA StreamNextInv ==
  ASSUME SInv, [StreamNext]_allVars
  PROVE  SInv' /\ (NoReset /\ Recent => Recent')
<1>1. CASE UNCHANGED allVars
  <2>1. UNCHANGED <<vars, prev_ref_frame_num, pictures, rejected>>
    BY <1>1 DEF allVars, streamVars
  <2>2. DInv'
    BY <2>1, NextInv DEF SInv
  <2> QED BY <2>1, <2>2 DEF SInv, Recent, Numbered, Behind, vars
<1>2. CASE StreamNext
  BY <1>2, StreamIdr, StreamSlides, StreamAdapts, StreamMarks DEF StreamNext
<1> QED BY <1>1, <1>2

\* Whatever a stream marks, resets included, its numbers stay in range.
THEOREM StreamInvariance == StreamSpec => []SInv
<1>1. StreamInit => SInv
  BY StreamInitInv
<1>2. SInv /\ [StreamNext]_allVars => SInv'
  BY StreamNextInv
<1> QED BY <1>1, <1>2, PTL DEF StreamSpec

\* Driven by a stream, with or without MMCO 5, the buffer is what it is under
\* any stores: keys name one reference each and the limits hold, if the lists
\* leave the current picture's index alone.
THEOREM StreamSound ==
  ListsConform => (StreamSpec => [](UniqueKeys /\ WithinLimit /\ LongTermWithinMaximum))
<1> SUFFICES ASSUME ListsConform
             PROVE  StreamSpec => [](UniqueKeys /\ WithinLimit /\ LongTermWithinMaximum)
  OBVIOUS
<1>1. SInv => UniqueKeys /\ WithinLimit /\ LongTermWithinMaximum
  BY DEF SInv, DInv, Sound, Keyed, Indexed, UniqueKeys, LongTermWithin, LongTermWithinMaximum
<1> QED BY <1>1, StreamInvariance, PTL

----------
(* Naming references *)

\* What the slice header subtracts to name a reference is its distance back
\* from the current frame_num, modulo MaxFrameNum.
LEMMA OneDifference ==
  ASSUME NEW m \in Nat \ {0}, NEW n \in 0 .. m - 1, NEW f \in 0 .. m - 1,
         NEW d \in 0 .. m - 1
  PROVE  (n - d) % m = f <=> d = IF f <= n THEN n - f ELSE n - f + m
<1>1. (n - d) % m = IF d <= n THEN n - d ELSE n - d + m
  <2>1. CASE d <= n
    BY <2>1
  <2>2. CASE d > n
    <3>1. n - d + m \in 0 .. m - 1 /\ n - d = (n - d + m) + m * (-1)
      BY <2>2
    <3> QED BY <2>2, <3>1
  <2> QED BY <2>1, <2>2
<1> QED BY <1>1

\* The picture number named by p, of the current cycle or the one before, is
\* that of a reference exactly when p is its frame_num.
LEMMA NamedByNumber ==
  ASSUME NEW refs, NEW r \in refs, IsShort(r), MaxFrameNum \in Nat,
         NEW n \in FrameNumRange, NEW p \in FrameNumRange, r.frame_num \in FrameNumRange
  PROVE  r \in short_term_by_modified_pic_num(refs, n, p) <=> p = r.frame_num
<1>1. PICK m \in Nat : m = MaxFrameNum
  OBVIOUS
<1>2. PICK f \in 0 .. m - 1 : f = r.frame_num
  BY <1>1 DEF FrameNumRange
<1>3. n \in 0 .. m - 1 /\ p \in 0 .. m - 1
  BY <1>1 DEF FrameNumRange
<1>4. (IF f > n THEN f - m ELSE f) = (IF p > n THEN p - m ELSE p) <=> p = f
  BY <1>3
<1>5. r \in short_term_by_modified_pic_num(refs, n, p)
        <=> frame_num_wrap(r.frame_num, n) = IF p > n THEN p - MaxFrameNum ELSE p
  BY DEF short_term_by_modified_pic_num, Shorts
<1> QED BY <1>1, <1>2, <1>4, <1>5 DEF frame_num_wrap

\* One value of abs_diff_pic_num below MaxFrameNum names a short-term reference
\* from the next picture, wherever frame_num has wrapped in between and even
\* after MMCO 5 (the first half of EveryReferenceNameable).
THEOREM ShortTermsNameable ==
  StreamSpec => [](\A r \in Shorts(references) : NamedOnce(r))
<1>1. ASSUME SInv, NEW r \in Shorts(references) PROVE NamedOnce(r)
  <2>1. PICK m \in Nat \ {0} : m = MaxFrameNum
    BY MaxFrameNumType
  <2>2. PICK n \in 0 .. m - 1 : n = NextFrameNum
    BY <1>1, <2>1, NextNumber DEF SInv, FrameNumRange
  <2>3. PICK f \in 0 .. m - 1 : f = r.frame_num
    BY <1>1, <2>1 DEF SInv, Numbered, FrameNumRange, Shorts
  <2>4. PICK back \in 0 .. m - 1 : back = IF f <= n THEN n - f ELSE n - f + m
    <3>1. (IF f <= n THEN n - f ELSE n - f + m) \in 0 .. m - 1
      OBVIOUS
    <3> QED BY <3>1
  <2>5. ASSUME NEW d \in 0 .. m - 1
        PROVE  r \in Selected(references, n, [kind |-> "SubtractPicNum", value |-> d], n)
                 <=> d = back
    <3>1. PICK p \in 0 .. m - 1 : p = (n - d) % m
      OBVIOUS
    <3>2. Selected(references, n, [kind |-> "SubtractPicNum", value |-> d], n)
            = short_term_by_modified_pic_num(references, n, p)
      BY <2>1, <3>1 DEF Selected, Predicted
    <3>3. r \in short_term_by_modified_pic_num(references, n, p) <=> p = f
      BY <1>1, <2>1, <2>3, NamedByNumber DEF Shorts, FrameNumRange
    <3>4. p = f <=> d = back
      BY <2>4, <3>1, OneDifference
    <3> QED BY <3>2, <3>3, <3>4
  <2>6. {d \in 0 .. m - 1 :
           r \in Selected(references, n, [kind |-> "SubtractPicNum", value |-> d], n)} = {back}
    BY <2>5
  <2>7. Cardinality({back}) = 1
    BY FS_Singleton
  <2> QED BY <2>1, <2>2, <2>6, <2>7 DEF NamedOnce
<1>2. SInv => \A r \in Shorts(references) : NamedOnce(r)
  BY <1>1
<1> QED BY <1>2, StreamInvariance, PTL

----------
(* Refusals *)

\* A reference that is fewer numbers behind than there are has another number.
LEMMA NumberIsFree ==
  ASSUME SInv, Recent, ~ marking, pictures < MaxFrameNum
  PROVE  ~ HasShortTerm(references, NextFrameNum)
<1> SUFFICES ASSUME NEW r \in references, r.frame_num = NextFrameNum PROVE FALSE
  BY DEF HasShortTerm
<1>1. PICK m \in Nat \ {0} : m = MaxFrameNum
  BY MaxFrameNumType
<1>2. PICK p \in 0 .. m - 1 : p = prev_ref_frame_num
  BY <1>1 DEF FrameNumRange, SInv
<1>3. PICK n \in 0 .. m - 1 : n = NextFrameNum
  BY <1>1, NextNumber DEF SInv, FrameNumRange
<1>4. n = p + 1 \/ n = p + 1 - m
  BY <1>1, <1>2, <1>3, NextNumber DEF SInv
<1>5. PICK k \in Nat : k = pictures
  BY DEF SInv
<1>6. PICK d \in 0 .. k - 1 : n = p - d \/ n = p - d + m
  BY <1>1, <1>2, <1>3, <1>5 DEF Behind, Recent
<1>7. k < m
  BY <1>1, <1>5
<1> QED BY <1>4, <1>6, <1>7

\* A stream without MMCO 5 has a picture refused only when nothing can slide out
\* or when marking has kept a short-term reference for a whole cycle.
THEOREM NeverRefusedEarly == NoReset => (StreamSpec => SlidingNeverRefused)
<1> SUFFICES ASSUME NoReset PROVE StreamSpec => SlidingNeverRefused
  OBVIOUS
<1>1. StreamInit => SInv /\ Recent
  BY StreamInitInv
<1>2. SInv /\ Recent /\ [StreamNext]_allVars => (SInv /\ Recent)'
  BY StreamNextInv
<1>3. ASSUME SInv, Recent, [StreamNext]_allVars
      PROVE  [SlidingReference /\ rejected'
                => \/ HasShortTerm(references, NextFrameNum) /\ pictures >= MaxFrameNum
                   \/ Shorts(references) = {}]_allVars
  <2> SUFFICES ASSUME SlidingReference, rejected'
               PROVE  \/ HasShortTerm(references, NextFrameNum) /\ pictures >= MaxFrameNum
                      \/ Shorts(references) = {}
    OBVIOUS
  <2>1. ~ CanSlide(NextFrameNum) /\ ~ marking
    BY DEF SlidingReference, Continues, store_short_term_rejected
  <2>2. NextFrameNum < MaxFrameNum
    BY <1>3, NextNumber, MaxFrameNumType DEF SInv, FrameNumRange
  <2>3. CASE HasShortTerm(references, NextFrameNum)
    <3>1. ~ (pictures < MaxFrameNum)
      BY <1>3, <2>1, <2>3, NumberIsFree
    <3>2. pictures \in Nat /\ MaxFrameNum \in Nat
      BY <1>3, MaxFrameNumType DEF SInv
    <3> QED BY <2>3, <3>1, <3>2
  <2>4. CASE ~ HasShortTerm(references, NextFrameNum)
    BY <2>1, <2>2, <2>4 DEF CanSlide, Shorts
  <2> QED BY <2>3, <2>4
<1> QED BY <1>1, <1>2, <1>3, PTL DEF StreamSpec, SlidingNeverRefused
=============================================================================
