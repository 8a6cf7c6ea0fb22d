------------------------------- MODULE Array -------------------------------
(***************************************************************************)
(* The array of src/src/array/array.c, static or growing: the page pool    *)
(* keeps its regions in one, sorted by address.                            *)
(*                                                                         *)
(* The array is the cells of its memory, counted from 0, of which the      *)
(* first current_cnt are elements.  The others keep what was last written  *)
(* there.  An argument error and an index out of range change nothing and  *)
(* are left out; realloc may fail.                                         *)
(*                                                                         *)
(* The operators named Wrong... are the definition that follows them with  *)
(* a mistake in it.                                                        *)
(***************************************************************************)
EXTENDS Integers, SequencesExt, FiniteSetsExt

CONSTANTS
    Elements,       \* numbers
    Chunks,         \* what is inserted at once: sequences of elements
    MinSize,        \* ST_ARRAY_MIN_SIZE
    MaxTotal,       \* bound: cells
    NULL            \* the content of a cell never written

VARIABLE array

total_cnt(A) == Cardinality(DOMAIN A.cell)

st_array_init_static(total) ==
    [dynamic |-> FALSE, current_cnt |-> 0, cell |-> [i \in 0..(total - 1) |-> NULL]]

\* More room for a growing array, if it needs it and if realloc can give it.
st_array_extend_when_needed(A, incr_cnt, realloc_ok) ==
    LET more == total_cnt(A) + Max({incr_cnt, MinSize})
    IN  IF A.current_cnt + incr_cnt <= total_cnt(A) \/ ~realloc_ok THEN A
        ELSE [A EXCEPT !.cell =
                [i \in 0..(more - 1) |-> IF i < total_cnt(A) THEN A.cell[i] ELSE NULL]]

st_array_init_dynamic ==
    st_array_extend_when_needed(
        [dynamic |-> TRUE, current_cnt |-> 0, cell |-> <<>>], MinSize, TRUE)

Fresh == {st_array_init_static(MinSize), st_array_init_dynamic}

ArrayInit == array \in Fresh

\* Destroyed, and initialised for another use.
st_array_destroy == array' \in Fresh

\* n cells from "from" on are copied to "to"; the two may overlap.
memmove(cell, to, from, n) ==
    [i \in DOMAIN cell |-> IF i \in to..(to + n - 1) THEN cell[i - to + from] ELSE cell[i]]

\* ST_OUT_OF_MEMORY leaves the elements as they are.
st_array_insert_many(A, idx, elements, realloc_ok) ==
    LET cnt == Len(elements)
        A1 == IF A.dynamic THEN st_array_extend_when_needed(A, cnt, realloc_ok) ELSE A
        moved == memmove(A1.cell, idx + cnt, idx, A.current_cnt - idx)
    IN  IF A.current_cnt + cnt > total_cnt(A1) THEN A1
        ELSE [A1 EXCEPT !.current_cnt = @ + cnt,
                        !.cell = [i \in DOMAIN moved |->
                                    IF i \in idx..(idx + cnt - 1)
                                    THEN elements[i - idx + 1] ELSE moved[i]]]

WrongClipped(A, idx, cnt) == IF idx + cnt > A.current_cnt + 1
                             THEN A.current_cnt - idx ELSE cnt

\* No more are removed than there are.
Clipped(A, idx, cnt) == IF idx + cnt > A.current_cnt THEN A.current_cnt - idx ELSE cnt

st_array_remove_many(A, idx, n) ==
    LET cnt == Clipped(A, idx, n)
    IN  [A EXCEPT !.current_cnt = @ - cnt,
                  !.cell = memmove(@, idx, idx + cnt, A.current_cnt - (idx + cnt))]

Content(A) == [i \in 1..A.current_cnt |-> A.cell[i - 1]]

st_array_sort(A) ==
    LET sorted == SortSeq(Content(A), <)
    IN  [A EXCEPT !.cell = [i \in DOMAIN @ |->
                                IF i < A.current_cnt THEN sorted[i + 1] ELSE @[i]]]

st_array_indexof(A, e) ==
    LET found == {i \in 0..(A.current_cnt - 1) : A.cell[i] = e}
    IN  IF found = {} THEN -1 ELSE Min(found)

\* The loop of the two searches; Right(e) says that the place is right of e.
\* The result is the place, and whether an equal element was met on the way.
BSearch(A, element, Right(_)) ==
    LET RECURSIVE Between(_, _, _)
        Between(start, end, found) ==
            LET mid == (start + end) \div 2
                e == A.cell[mid]
            IN  IF start >= end THEN [idx |-> start, found |-> found]
                ELSE IF Right(e) THEN Between(mid + 1, end, found \/ e = element)
                ELSE Between(start, mid, found \/ e = element)
    IN  Between(0, A.current_cnt, FALSE)

st_array_bsearch_left(A, element) == BSearch(A, element, LAMBDA e : element > e)

st_array_bsearch_right(A, element) == BSearch(A, element, LAMBDA e : element >= e)

\* Bound: an array does not grow past MaxTotal cells.
MayGrow(cnt) == total_cnt(array) + Max({cnt, MinSize}) <= MaxTotal

ArrayNext ==
    \/ \E idx \in 0..array.current_cnt, chunk \in Chunks, ok \in BOOLEAN :
        array' = st_array_insert_many(array, idx, chunk, ok /\ MayGrow(Len(chunk)))
    \/ \E idx \in 0..(array.current_cnt - 1), n \in 0..MinSize :
        array' = st_array_remove_many(array, idx, n)
    \/ array' = st_array_sort(array)
    \/ st_array_destroy

ArraySpec == ArrayInit /\ [][ArrayNext]_array

\* The elements are what a sequence would be after the same insertions and
\* removals, at every index and for a number of elements that does not fit or
\* that goes past the end; a failing realloc loses none.  In a sorted array the
\* two searches find the first element that is not less, and the first that is
\* greater: st_pagepool_get_region relies on them at both ends of the array.
ArrayExact ==
    LET s == Content(array)
        n == array.current_cnt
    IN  /\ n \in 0..total_cnt(array)
        /\ ToSet(s) \subseteq Elements
        /\ \A idx \in 0..n, chunk \in Chunks, ok \in BOOLEAN :
            LET A == st_array_insert_many(array, idx, chunk, ok)
                fits == n + Len(chunk) <= total_cnt(array) \/ (array.dynamic /\ ok)
            IN  Content(A) = IF ~fits THEN s
                             ELSE SubSeq(s, 1, idx) \o chunk \o SubSeq(s, idx + 1, n)
        /\ \A idx \in 0..(n - 1), cnt \in 0..MinSize :
            Content(st_array_remove_many(array, idx, cnt)) =
                SubSeq(s, 1, idx) \o SubSeq(s, idx + cnt + 1, n)
        /\ (\A i \in 1..(n - 1) : s[i] <= s[i + 1]) =>
            \A e \in Elements :
                /\ st_array_bsearch_left(array, e) =
                    [idx |-> Len(SelectSeq(s, LAMBDA x : x < e)), found |-> e \in ToSet(s)]
                /\ st_array_bsearch_right(array, e) =
                    [idx |-> Len(SelectSeq(s, LAMBDA x : x <= e)), found |-> e \in ToSet(s)]
                /\ e \in ToSet(s) =>
                    st_array_indexof(array, e) = st_array_bsearch_left(array, e).idx
=============================================================================
