--------------------------- MODULE ReferenceStream --------------------------
(***************************************************************************)
(* A conforming progressive stream drives the decoded picture buffer: the  *)
(* decoder of decv-h264 (crates/decv-h264/src/decoder.rs) hands every      *)
(* reference picture's frame_num and marking to the buffer and asks it for *)
(* the lists of the next picture.  The stream numbers its pictures as      *)
(* H.264 7.4.3 does: one more than the previous reference picture, modulo  *)
(* MaxFrameNum, and a picture with MMCO 5 counts as number 0 afterwards.   *)
(***************************************************************************)
EXTENDS ReferenceLists

CONSTANTS MaxPictures,     \* bound: pictures between two IDR pictures
          Modifications,   \* list modifications P slices carry
          MarkingLists     \* MMCO sequences reference pictures carry

ASSUME StreamAssumption ==
  /\ MaxPictures \in Nat
  /\ MarkingLists \subseteq OperationLists

VARIABLES
  prev_ref_frame_num,   \* frame_num the stream counts from
  pictures,             \* pictures since the last IDR
  arrival,              \* ids of the references in decoding order
  rejected              \* a picture could not be stored: decoding has failed

streamVars == <<prev_ref_frame_num, pictures, arrival, rejected>>
allVars == <<vars, streamVars>>

NextFrameNum == (prev_ref_frame_num + 1) % MaxFrameNum

StreamInit ==
  /\ Init
  /\ prev_ref_frame_num = 0
  /\ pictures = 0
  /\ arrival = << >>
  /\ rejected = FALSE

\* The references that are still there, then the new one: the order of the Vec.
Arrived ==
  LET new == IdAfter(next_reference_id', MaxReferenceId - 1)
      kept == {r.id : r \in references'} \ {new}
  IN  arrival' = Append(SelectSeq(arrival, LAMBDA id : id \in kept), new)

Idr(long_term_reference) ==
  /\ store_idr(0, long_term_reference)
  /\ prev_ref_frame_num' = 0
  /\ pictures' = 1
  /\ arrival' = <<1>>
  /\ UNCHANGED rejected

\* A picture after the first IDR, while every one before could be stored.
Continues ==
  /\ pictures \in 1 .. MaxPictures - 1
  /\ ~ marking /\ ~ rejected
  /\ pictures' = pictures + 1

SlidingReference ==
  /\ Continues
  /\ prev_ref_frame_num' = NextFrameNum
  /\ \/ store_short_term(NextFrameNum, 0) /\ Arrived /\ UNCHANGED rejected
     \/ store_short_term_rejected(NextFrameNum) /\ rejected' = TRUE /\ UNCHANGED arrival

\* The stream does not mark while a short-term reference has the same number.
AdaptiveReference(list) ==
  /\ Continues
  /\ ~ HasShortTerm(references, NextFrameNum)
  /\ store_adaptive(NextFrameNum, 0, list)
  /\ prev_ref_frame_num' =
       IF \E i \in DOMAIN list : list[i].kind = "ForgetAll" THEN 0 ELSE NextFrameNum
  /\ UNCHANGED <<arrival, rejected>>

\* The marking of an adaptive reference runs and ends.
Marks ==
  /\ Mark
  /\ IF marking' THEN UNCHANGED <<arrival, rejected>>
     ELSE /\ rejected' = (outcome' = "error")
          /\ IF outcome' = "ok" THEN Arrived ELSE UNCHANGED arrival
  /\ UNCHANGED <<prev_ref_frame_num, pictures>>

StreamNext ==
  \/ \E long_term_reference \in BOOLEAN : Idr(long_term_reference)
  \/ SlidingReference
  \/ \E list \in MarkingLists : AdaptiveReference(list)
  \/ Marks

StreamSpec == StreamInit /\ [][StreamNext]_allVars

----------
(* Properties *)

ById(id) == CHOOSE r \in references : r.id = id

RecentShorts ==
  SelectSeq(Reverse([i \in DOMAIN arrival |-> ById(arrival[i])]), IsShort)

\* However often frame_num has wrapped and whatever marking has removed, the
\* default List 0 of the next picture starts with the short-term references in
\* reverse decoding order: PicNum order is decoding order.
RecentFirst ==
  pictures > 0 /\ ~ marking /\ ~ rejected /\ ~ HasShortTerm(references, NextFrameNum)
    => SubSeq(ordered_p_references(references, NextFrameNum), 1, Len(RecentShorts))
         = RecentShorts

\* The sliding window removes the short-term reference decoded first.
WindowDropsEarliest ==
  [][SlidingReference /\ references \ references' # {}
       => references \ references' = {RecentShorts[Len(RecentShorts)]}]_allVars

\* A picture is refused only when nothing can slide out, or when marking has
\* kept a short-term reference until its frame_num comes round again.
SlidingNeverRefused ==
  [][SlidingReference /\ rejected'
       => \/ HasShortTerm(references, NextFrameNum) /\ pictures >= MaxFrameNum
          \/ Shorts(references) = {}]_allVars

\* List modification by shifting one entry and squeezing duplicates out gives
\* what 8.2.4.3 describes: the selected references in order, then the others
\* of the initial list, cut to the active count.
SelectedInOrder(frame_num, modifications) ==
  LET step(state, m) ==
        [predicted |-> Predicted(m, state.predicted),
         chosen |-> Append(state.chosen,
                      Selected(references, frame_num, m, state.predicted))]
  IN  FoldLeft(step, [predicted |-> frame_num, chosen |-> << >>], modifications).chosen

ModifiedListAsDescribed ==
  pictures > 0 /\ ~ marking => \A modifications \in Modifications : \A n \in 1 .. Limit :
    LET chosen == SelectedInOrder(NextFrameNum, modifications)
        valid == /\ \A i \in DOMAIN chosen : chosen[i] # {}
                 /\ Len(chosen) <= n
        front == [i \in DOMAIN chosen |-> CHOOSE r \in chosen[i] : TRUE]
        ordered == ordered_p_references(references, NextFrameNum)
        rest == SelectSeq(SubSeq(ordered, 1, IF n < Len(ordered) THEN n ELSE Len(ordered)),
                          LAMBDA r : \A i \in DOMAIN front : front[i] # r)
        described == front \o rest \o [i \in 1 .. n |-> NoReference]
    IN  p_list0(references, NextFrameNum, n, modifications)
          = IF valid THEN SubSeq(described, 1, n) ELSE << >>

\* Every short-term reference can be named by exactly one value of
\* abs_diff_pic_num below MaxFrameNum, across the wrap of frame_num.
NamedOnce(r) ==
  Cardinality({d \in 0 .. MaxFrameNum - 1 :
    r \in Selected(references, NextFrameNum,
                   [kind |-> "SubtractPicNum", value |-> d], NextFrameNum)}) = 1

\* The references with POCs given to them, so that the current one is 0.
WithPocs(pocs) == {[r EXCEPT !.picture_order_count = pocs[r.id]] : r \in references}

\* Both lists of a B slice hold every reference once and differ wherever there
\* is more than one.
ListsHoldAll(refs, lists) ==
  /\ \A l \in {1, 2} : /\ Len(lists[l]) = Cardinality(refs)
                       /\ {lists[l][i] : i \in DOMAIN lists[l]} = refs
  /\ Cardinality(refs) > 1 => lists[1] # lists[2]

\* The next picture can use every reference: a P slice by naming it, a B slice,
\* whatever the POCs, from either list.
EveryReferenceNameable ==
  pictures > 0 /\ ~ marking =>
    /\ ~ HasShortTerm(references, NextFrameNum) => \A r \in Shorts(references) : NamedOnce(r)
    /\ \A pocs \in [{r.id : r \in references} -> {-4, -2, 2, 4}] :
         ListsHoldAll(WithPocs(pocs), ordered_b_references(WithPocs(pocs), 0))

\* "Applies progressive-frame MMCO 1 through 6" and "MMCO 5 reset": a stream
\* that only slides and resets is never refused.
ResetStreamAccepted == ~ rejected
=============================================================================
