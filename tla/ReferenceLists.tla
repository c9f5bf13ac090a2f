--------------------------- MODULE ReferenceLists ---------------------------
(***************************************************************************)
(* The reference picture lists of P and B slices, built from the decoded   *)
(* picture buffer (crates/decv-h264/src/dpb.rs).  refs is the content of   *)
(* the buffer.  A list is a sequence of references; NoReference is None.   *)
(* References with equal POCs, which the code sorts unstably, are ordered  *)
(* by id: a conforming stream has none in the buffer at the same time.     *)
(***************************************************************************)
EXTENDS DecodedPictureBuffer, SequencesExt

NoReference == Reference(0, 0, 0, ShortTerm)

Shorts(refs) == {r \in refs : IsShort(r)}
Longs(refs) == {r \in refs : IsLong(r)}

Sorted(refs, key(_)) ==
  SetToSortSeq(refs, LAMBDA r, s : \/ key(r) < key(s)
                                   \/ key(r) = key(s) /\ r.id < s.id)

----------
(* Default lists *)

\* ordered_p_references: by descending PicNum, then ascending long-term index.
ordered_p_references(refs, frame_num) ==
  Sorted(Shorts(refs), LAMBDA r : - frame_num_wrap(r.frame_num, frame_num))
    \o Sorted(Longs(refs), LAMBDA r : r.kind)

Earlier(refs, poc) ==
  Sorted({r \in Shorts(refs) : r.picture_order_count <= poc},
         LAMBDA r : - r.picture_order_count)
Later(refs, poc) ==
  Sorted({r \in Shorts(refs) : r.picture_order_count > poc},
         LAMBDA r : r.picture_order_count)
LongList(refs) == Sorted(Longs(refs), LAMBDA r : r.kind)

\* ordered_b_references: List 0 starts before the current picture and List 1
\* after it; the first two of List 1 are swapped where it would be List 0.
ordered_b_references(refs, poc) ==
  LET list0 == Earlier(refs, poc) \o Later(refs, poc) \o LongList(refs)
      list1 == Later(refs, poc) \o Earlier(refs, poc) \o LongList(refs)
      swapped == [i \in DOMAIN list1 |->
                    CASE i = 1 -> list1[2] [] i = 2 -> list1[1] [] OTHER -> list1[i]]
  IN  IF Len(list0) > 1 /\ list0 = list1 THEN <<list0, swapped>>
      ELSE <<list0, list1>>

----------
(* Modification *)

\* The picture number a modification asks for is reduced into 0..MaxFrameNum-1
\* and is negative, in the cycle before, when it is above the current one.
\* Mutant: it is not moved into the cycle before.
NamedWithoutWrap(refs, frame_num, pic_num) ==
  {r \in Shorts(refs) : frame_num_wrap(r.frame_num, frame_num) = pic_num}

short_term_by_modified_pic_num(refs, frame_num, pic_num) ==
  LET wanted == IF pic_num > frame_num THEN pic_num - MaxFrameNum ELSE pic_num
  IN  {r \in Shorts(refs) : frame_num_wrap(r.frame_num, frame_num) = wanted}

\* The prediction for the next SubtractPicNum or AddPicNum.
Predicted(modification, predicted) ==
  CASE modification.kind = "SubtractPicNum" ->
         (predicted - modification.value) % MaxFrameNum
    [] modification.kind = "AddPicNum" ->
         (predicted + modification.value) % MaxFrameNum
    [] OTHER -> predicted

Selected(refs, frame_num, modification, predicted) ==
  IF modification.kind = "LongTerm"
  THEN NamedLongTerm(Longs(refs), modification.value)
  ELSE short_term_by_modified_pic_num(refs, frame_num,
                                      Predicted(modification, predicted))

\* Entries from i on move back by one to let the selected one in.
Insert(list, i, selected) ==
  [k \in DOMAIN list |-> CASE k < i -> list[k] [] k = i -> selected
                           [] OTHER -> list[k - 1]]

\* Mutant: the later copy of the selected reference stays in the list.
CompactNothing(list, i, selected) == list

\* After i the selected reference and missing entries are squeezed out.
Compact(list, i, selected) ==
  LET kept == SelectSeq(SubSeq(list, i + 1, Len(list)),
                        LAMBDA r : r # NoReference /\ r # selected)
  IN  [k \in DOMAIN list |->
         IF k <= i THEN list[k]
         ELSE IF k - i <= Len(kept) THEN kept[k - i] ELSE NoReference]

\* One modification at reference index state.index (from 1).
Modify(refs, frame_num, state, modification) ==
  LET selected == Selected(refs, frame_num, modification, state.predicted)
      r == CHOOSE s \in selected : TRUE
  IN  IF state.failed \/ state.index >= Len(state.list) \/ selected = {}
      THEN [state EXCEPT !.failed = TRUE]
      ELSE [failed |-> FALSE,
            index |-> state.index + 1,
            predicted |-> Predicted(modification, state.predicted),
            list |-> Compact(Insert(state.list, state.index, r), state.index, r)]

\* active_reference_list: one entry more than active_count while modifying.
\* The empty sequence stands for the error.
active_reference_list(refs, frame_num, active_count, modifications, ordered) ==
  LET initial == [k \in 1 .. active_count + 1 |->
                    IF k <= active_count /\ k <= Len(ordered) THEN ordered[k]
                    ELSE NoReference]
      final == FoldLeft(LAMBDA state, m : Modify(refs, frame_num, state, m),
                        [failed |-> FALSE, index |-> 1, predicted |-> frame_num,
                         list |-> initial],
                        modifications)
  IN  IF final.failed \/ active_count \notin 1 .. 32 THEN << >>
      ELSE SubSeq(final.list, 1, active_count)

p_list0(refs, frame_num, active_count, modifications) ==
  active_reference_list(refs, frame_num, active_count, modifications,
                        ordered_p_references(refs, frame_num))

=============================================================================
