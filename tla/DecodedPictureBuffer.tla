------------------------ MODULE DecodedPictureBuffer ------------------------
(***************************************************************************)
(* Reference-picture marking of decv-h264 (crates/decv-h264/src/dpb.rs):   *)
(* store_idr, store_short_term (sliding window) and store_adaptive (MMCO   *)
(* 1 to 6) on the references a progressive stream may predict from.        *)
(*                                                                         *)
(* The Vec of references is a set: the code searches it by frame_num,      *)
(* long-term index or id only, and UniqueKeys says when each finds at most *)
(* one; the first of several is any of them.  Pixels and motion fields are *)
(* left out, and so is the coded size, which the decoder changes only      *)
(* together with the whole buffer.                                         *)
(***************************************************************************)
EXTENDS Integers, FiniteSets, Sequences

CONSTANTS MaxNumRefFrames,  \* max_num_ref_frames of the SPS
          MaxFrameNum,      \* 2^log2_max_frame_num
          MaxReferenceId,   \* u32::MAX, the last id before they start again
          FrameNums,        \* frame_num values callers pass
          Pocs,             \* picture order counts callers pass
          OperationLists    \* MMCO sequences slice headers carry

\* store_adaptive holds at most this many references, store_short_term too.
Limit == IF MaxNumRefFrames = 0 THEN 1 ELSE MaxNumRefFrames

OperationKinds == {"ForgetShortTerm", "ForgetLongTerm", "AssignLongTerm",
                   "LimitLongTerm", "ForgetAll", "MarkCurrentLongTerm"}

\* difference: difference_of_pic_nums.  index: long_term_pic_num,
\* long_term_frame_idx or max_long_term_frame_idx_plus1.  Unused ones are 0.
Operation == [kind : OperationKinds, difference : Nat, index : Nat]

\* The operation gives the index to another picture or takes it from all.
Overrides(operation, index) ==
  \/ operation.kind = "AssignLongTerm" /\ operation.index = index
  \/ operation.kind = "LimitLongTerm" /\ operation.index <= index
  \/ operation.kind = "ForgetAll"

\* Once the current picture is long-term, no operation after that concerns its
\* index.  Neither the parser (slice.rs:579-612) nor store_adaptive asks for
\* that: it is a property of the streams, and what needs it says so.
LeavesCurrent(list) ==
  \A i, j \in 1 .. Len(list) :
    i < j /\ list[i].kind = "MarkCurrentLongTerm" => ~ Overrides(list[j], list[i].index)

ListsConform == \A list \in OperationLists : LeavesCurrent(list)

ASSUME DpbAssumption ==
  /\ MaxNumRefFrames \in Nat
  /\ MaxFrameNum \in Nat \ {0}
  /\ MaxReferenceId \in Nat \ {0}
  /\ Limit < MaxReferenceId
  /\ FrameNums \subseteq Nat
  /\ Pocs \subseteq Int
  /\ OperationLists \subseteq Seq(Operation)

ShortTerm == -1    \* ReferenceKind::ShortTerm; LongTerm{i} is i itself
NoIndex == -1      \* max_long_term_frame_idx = None
NoPicture == [frame_num |-> 0, picture_order_count |-> 0]

VARIABLES
  references,               \* the references, committed
  max_long_term_frame_idx,
  next_reference_id,
  marking,                  \* store_adaptive is executing its operations
  current,                  \* the picture being stored adaptively
  operations,               \* the operations it has not executed yet
  clone,                    \* its copies of references and
  clone_max,                \* max_long_term_frame_idx, and
  current_kind,             \* how it marks the current picture
  outcome                   \* result of the last store

dpbVars == <<references, max_long_term_frame_idx, next_reference_id>>
cloneVars == <<current, operations, clone, clone_max, current_kind>>
vars == <<references, max_long_term_frame_idx, next_reference_id, marking,
          current, operations, clone, clone_max, current_kind, outcome>>

----------
(* Numbers *)

\* Mutant: frame_num is compared as it is.
FrameNumUnwrapped(frame_num, current_frame_num) == frame_num

\* FrameNumWrap: a frame_num above the current one is of the cycle before.
frame_num_wrap(frame_num, current_frame_num) ==
  IF frame_num > current_frame_num THEN frame_num - MaxFrameNum ELSE frame_num

IsShort(r) == r.kind = ShortTerm
IsLong(r) == r.kind # ShortTerm

\* Mutant: the plain frame_num decides which picture is the oldest.
OldestByFrameNum(r, refs, frame_num) ==
  /\ r \in refs /\ IsShort(r)
  /\ \A s \in refs : IsShort(s) => r.frame_num <= s.frame_num

\* The sliding window drops the short-term picture with the least PicNum.
Oldest(r, refs, frame_num) ==
  /\ r \in refs /\ IsShort(r)
  /\ \A s \in refs : IsShort(s) =>
       frame_num_wrap(r.frame_num, frame_num) <= frame_num_wrap(s.frame_num, frame_num)

\* short_term_operation_index: the picture an operation of frame_num names.
NamedShortTerm(refs, frame_num, difference) ==
  {r \in refs : /\ difference # 0
                /\ IsShort(r)
                /\ frame_num_wrap(r.frame_num, frame_num) = frame_num - difference}

\* long_term_index
NamedLongTerm(refs, index) == {r \in refs : r.kind = index}

HasShortTerm(refs, frame_num) ==
  \E r \in refs : IsShort(r) /\ r.frame_num = frame_num

\* Mutant: ids go on past the last one.
IdAfterUnwrapped(candidate, steps) == candidate + steps

\* The id that many steps after candidate, which runs from 1 to u32::MAX.
IdAfter(candidate, steps) == ((candidate - 1 + steps) % MaxReferenceId) + 1

\* Mutant: the candidate is taken whether or not a reference still has it.
TakesCandidate(refs, candidate, id) == id = candidate

\* next_available_reference_id: the first id from candidate on that is free.
NextAvailable(refs, candidate, id) ==
  \E skipped \in 0 .. MaxReferenceId - 1 :
    /\ id = IdAfter(candidate, skipped)
    /\ \A r \in refs : r.id # id
    /\ \A k \in 0 .. skipped - 1 : \E r \in refs : r.id = IdAfter(candidate, k)

Reference(id, frame_num, poc, kind) ==
  [id |-> id, frame_num |-> frame_num, picture_order_count |-> poc, kind |-> kind]

----------
Init ==
  /\ references = {}
  /\ max_long_term_frame_idx = NoIndex
  /\ next_reference_id = 1
  /\ marking = FALSE
  /\ current = NoPicture
  /\ operations = << >>
  /\ clone = {}
  /\ clone_max = NoIndex
  /\ current_kind = ShortTerm
  /\ outcome = "none"

----------
(* store_idr and clear *)

store_idr(poc, long_term_reference) ==
  /\ ~ marking
  /\ LET kind == IF long_term_reference THEN 0 ELSE ShortTerm IN
       /\ references' = {Reference(1, 0, poc, kind)}
       /\ max_long_term_frame_idx' = IF long_term_reference THEN 0 ELSE NoIndex
  /\ next_reference_id' = 2
  /\ outcome' = "ok"
  /\ UNCHANGED <<marking, cloneVars>>

clear ==
  /\ ~ marking
  /\ references' = {}
  /\ max_long_term_frame_idx' = NoIndex
  /\ next_reference_id' = 1
  /\ UNCHANGED <<marking, cloneVars, outcome>>

----------
(* store_short_term *)

Push(refs, frame_num, poc, kind) ==
  \E id \in 1 .. MaxReferenceId :
    /\ NextAvailable(refs, next_reference_id, id)
    /\ references' = refs \cup {Reference(id, frame_num, poc, kind)}
    /\ next_reference_id' = IdAfter(id, 1)

Full(refs) == Cardinality(refs) = Limit

\* What the sliding window leaves of the references before the new one.
Slides(refs, frame_num, left) ==
  \/ ~ Full(refs) /\ left = refs
  \/ Full(refs) /\ \E r \in refs : Oldest(r, refs, frame_num) /\ left = refs \ {r}

\* Mutant: a full buffer is refused instead of sliding.
CanSlideWithRoom(frame_num) ==
  frame_num < MaxFrameNum /\ ~ HasShortTerm(references, frame_num) /\ ~ Full(references)

CanSlide(frame_num) ==
  /\ frame_num < MaxFrameNum
  /\ ~ HasShortTerm(references, frame_num)
  /\ Full(references) => \E r \in references : IsShort(r)

store_short_term(frame_num, poc) ==
  /\ ~ marking
  /\ CanSlide(frame_num)
  /\ \E left \in SUBSET references :
       /\ Slides(references, frame_num, left)
       /\ Push(left, frame_num, poc, ShortTerm)
  /\ outcome' = "ok"
  /\ UNCHANGED <<max_long_term_frame_idx, marking, cloneVars>>

store_short_term_rejected(frame_num) ==
  /\ ~ marking
  /\ ~ CanSlide(frame_num)
  /\ outcome' = "error"
  /\ UNCHANGED <<dpbVars, marking, cloneVars>>

----------
(* store_adaptive: the operations run one by one on copies *)

store_adaptive(frame_num, poc, list) ==
  /\ ~ marking
  /\ frame_num < MaxFrameNum
  /\ marking' = TRUE
  /\ current' = [frame_num |-> frame_num, picture_order_count |-> poc]
  /\ operations' = list
  /\ clone' = references
  /\ clone_max' = max_long_term_frame_idx
  /\ current_kind' = ShortTerm
  /\ UNCHANGED <<dpbVars, outcome>>

store_adaptive_rejected(frame_num) ==
  /\ ~ marking
  /\ frame_num >= MaxFrameNum
  /\ outcome' = "error"
  /\ UNCHANGED <<dpbVars, marking, cloneVars>>

\* The operation executed next is of the given kind, and the rest are left.
Executes(kind) ==
  /\ marking
  /\ operations # << >>
  /\ Head(operations).kind = kind
  /\ operations' = Tail(operations)
  /\ UNCHANGED <<dpbVars, marking, current, outcome>>

ForgetShortTerm ==
  /\ Executes("ForgetShortTerm")
  /\ \E r \in NamedShortTerm(clone, current.frame_num, Head(operations).difference) :
       clone' = clone \ {r}
  /\ UNCHANGED <<clone_max, current_kind>>

ForgetLongTerm ==
  /\ Executes("ForgetLongTerm")
  /\ \E r \in NamedLongTerm(clone, Head(operations).index) : clone' = clone \ {r}
  /\ UNCHANGED <<clone_max, current_kind>>

\* ensure_long_term_index
IndexAllowed(index) == index <= clone_max

\* What may be left when a picture that has the index is forgotten.
Vacated(index) ==
  IF NamedLongTerm(clone, index) = {} THEN {clone}
  ELSE {clone \ {r} : r \in NamedLongTerm(clone, index)}

\* Mutant: the picture that had the index before keeps it.
AssignLongTermKeepingOther ==
  /\ Executes("AssignLongTerm")
  /\ IndexAllowed(Head(operations).index)
  /\ \E r \in NamedShortTerm(clone, current.frame_num, Head(operations).difference) :
       clone' = (clone \ {r}) \cup {[r EXCEPT !.kind = Head(operations).index]}
  /\ UNCHANGED <<clone_max, current_kind>>

\* The picture that had the index before is forgotten.
AssignLongTerm ==
  /\ Executes("AssignLongTerm")
  /\ LET index == Head(operations).index
     IN  /\ IndexAllowed(index)
         /\ \E others \in Vacated(index) :
              \E r \in NamedShortTerm(others, current.frame_num, Head(operations).difference) :
                clone' = (others \ {r}) \cup {[r EXCEPT !.kind = index]}
  /\ UNCHANGED <<clone_max, current_kind>>

\* Mutant: the limit itself is kept.
LimitLongTermInclusive ==
  /\ Executes("LimitLongTerm")
  /\ clone' = {r \in clone : IsLong(r) => r.kind <= Head(operations).index}
  /\ clone_max' = Head(operations).index - 1
  /\ UNCHANGED current_kind

LimitLongTerm ==
  /\ Executes("LimitLongTerm")
  /\ clone' = {r \in clone : IsLong(r) => r.kind < Head(operations).index}
  /\ clone_max' = Head(operations).index - 1
  /\ UNCHANGED current_kind

\* Mutant: the references themselves are cleared, not the copies.
ForgetAllInPlace ==
  /\ marking
  /\ operations # << >>
  /\ Head(operations).kind = "ForgetAll"
  /\ operations' = Tail(operations)
  /\ references' = {}
  /\ clone' = {}
  /\ clone_max' = NoIndex
  /\ UNCHANGED <<max_long_term_frame_idx, next_reference_id, marking, current,
                 current_kind, outcome>>

ForgetAll ==
  /\ Executes("ForgetAll")
  /\ clone' = {}
  /\ clone_max' = NoIndex
  /\ UNCHANGED current_kind

MarkCurrentLongTerm ==
  /\ Executes("MarkCurrentLongTerm")
  /\ IndexAllowed(Head(operations).index)
  /\ clone' \in Vacated(Head(operations).index)
  /\ current_kind' = Head(operations).index
  /\ UNCHANGED clone_max

\* An operation naming a missing picture, or an index above the maximum.
Impossible(operation) ==
  \/ /\ operation.kind = "ForgetShortTerm"
     /\ NamedShortTerm(clone, current.frame_num, operation.difference) = {}
  \/ /\ operation.kind = "ForgetLongTerm"
     /\ NamedLongTerm(clone, operation.index) = {}
  \/ /\ operation.kind = "AssignLongTerm"
     /\ IndexAllowed(operation.index) =>
          NamedShortTerm(clone, current.frame_num, operation.difference) = {}
  \/ /\ operation.kind = "MarkCurrentLongTerm"
     /\ ~ IndexAllowed(operation.index)

Storable ==
  /\ current_kind = ShortTerm => ~ HasShortTerm(clone, current.frame_num)
  /\ Cardinality(clone) < Limit

Return(result) ==
  /\ marking' = FALSE
  /\ outcome' = result
  /\ current' = NoPicture
  /\ operations' = << >>
  /\ clone' = {}
  /\ clone_max' = NoIndex
  /\ current_kind' = ShortTerm

\* The copies are dropped with the first operation that fails.
RejectMarking ==
  /\ marking
  /\ IF operations = << >> THEN ~ Storable ELSE Impossible(Head(operations))
  /\ Return("error")
  /\ UNCHANGED dpbVars

\* Mutant: the current picture is stored however many references are left.
CommitUnlimited ==
  /\ marking
  /\ operations = << >>
  /\ current_kind = ShortTerm => ~ HasShortTerm(clone, current.frame_num)
  /\ Push(clone, current.frame_num, current.picture_order_count, current_kind)
  /\ max_long_term_frame_idx' = clone_max
  /\ Return("ok")

\* The copies replace the references once all operations have succeeded.
CommitMarking ==
  /\ marking
  /\ operations = << >>
  /\ Storable
  /\ Push(clone, current.frame_num, current.picture_order_count, current_kind)
  /\ max_long_term_frame_idx' = clone_max
  /\ Return("ok")

Mark ==
  \/ ForgetShortTerm \/ ForgetLongTerm \/ AssignLongTerm \/ LimitLongTerm
  \/ ForgetAll \/ MarkCurrentLongTerm \/ RejectMarking \/ CommitMarking

----------
Store ==
  \/ \E poc \in Pocs, long_term_reference \in BOOLEAN :
       store_idr(poc, long_term_reference)
  \/ \E frame_num \in FrameNums :
       \/ store_short_term_rejected(frame_num)
       \/ store_adaptive_rejected(frame_num)
       \/ \E poc \in Pocs : store_short_term(frame_num, poc)
       \/ \E poc \in Pocs, list \in OperationLists :
            store_adaptive(frame_num, poc, list)

Next == Store \/ clear \/ Mark

Spec == Init /\ [][Next]_vars

----------
(* Properties *)

ReferenceType ==
  [id : 1 .. MaxReferenceId, frame_num : Nat, picture_order_count : Int,
   kind : Nat \cup {ShortTerm}]

\* Type invariant: every variable has its type.
TypeOK ==
  /\ references \subseteq ReferenceType /\ IsFiniteSet(references)
  /\ max_long_term_frame_idx \in Nat \cup {NoIndex}
  /\ next_reference_id \in 1 .. MaxReferenceId
  /\ marking \in BOOLEAN
  /\ current \in [frame_num : Nat, picture_order_count : Int]
  /\ operations \in Seq(Operation)
  /\ clone \subseteq ReferenceType /\ IsFiniteSet(clone)
  /\ clone_max \in Nat \cup {NoIndex}
  /\ current_kind \in Nat \cup {ShortTerm}
  /\ outcome \in {"none", "ok", "error"}

DistinctIds(refs) == \A r, s \in refs : r.id = s.id => r = s

DistinctShorts(refs) ==
  \A r, s \in refs : IsShort(r) /\ IsShort(s) /\ r.frame_num = s.frame_num => r = s
DistinctLongs(refs) == \A r, s \in refs : IsLong(r) /\ r.kind = s.kind => r = s

\* Whatever names a reference names one: ids stay distinct when they wrap and no
\* two short-term references share a frame_num, after any sequence of stores,
\* reassignments and rejected stores; and no two long-term ones share an index
\* when every list leaves the current picture's index alone (ListsConform).  The
\* decoder accepts other lists: MMCO 6 for an index and then MMCO 3 for the
\* same one stores two references that have it.
UniqueKeys ==
  DistinctIds(references) /\ DistinctShorts(references) /\ DistinctLongs(references)

\* Neither kind of store leaves more references than the SPS allows.
WithinLimit == Cardinality(references) <= Limit

\* No long-term reference has an index above MaxLongTermFrameIdx, whichever of
\* MMCO 3 to 6 and a long-term IDR set, lowered or cleared it last, when every
\* list leaves the current picture's index alone (ListsConform).  MMCO 4 or 5
\* after MMCO 6, which the decoder accepts, leaves the current picture with an
\* index that MMCO 4 or 5 has just ruled out.
LongTermWithinMaximum ==
  \A r \in references : IsLong(r) => r.kind <= max_long_term_frame_idx

\* "The complete command sequence is atomic": the buffer changes only after the
\* last operation of a sequence, when the store succeeds.
MarkingIsAtomic ==
  [][marking /\ dpbVars' # dpbVars => operations = << >> /\ outcome' = "ok"]_vars

=============================================================================
