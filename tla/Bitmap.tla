------------------------------- MODULE Bitmap -------------------------------
(***************************************************************************)
(* The bitmaps of src/src/bitmap/bitmap.c, in which a slab marks the       *)
(* objects it has handed out.                                              *)
(*                                                                         *)
(* A bitmap is a sequence of words, counted from 0; a word is the set of   *)
(* its bits that are 1.  The code reads a range of bits word by word, and  *)
(* masks the first and the last word: that is kept.  Here a word is short. *)
(*                                                                         *)
(* The operators named Wrong... are the definition that follows them with  *)
(* a mistake in it.                                                        *)
(***************************************************************************)
EXTENDS Integers, FiniteSets

CONSTANTS
    WordBits,       \* ST_BITMAP_BITS_PER_WORD
    Words           \* how many words a bitmap has

VARIABLE bitmap

Bits == 0..(WordBits * Words - 1)

BitmapInit == bitmap = [w \in 0..(Words - 1) |-> {}]

mask_(start, end) == start..(end - 1)

WrongEndInWord(end) == end % WordBits

\* Where a range ends, within its last word.
EndInWord(end) == ((end - 1) % WordBits) + 1

\* The bits of a range within one word that are 1, or, reversed, that are 0.
word_bits_value_(B, start, end, reverse) ==
    LET word == B[start \div WordBits]
    IN  (IF reverse THEN (0..(WordBits - 1)) \ word ELSE word)
            \cap mask_(start % WordBits, EndInWord(end))

st_bitmap_get(B, idx) == word_bits_value_(B, idx, idx + 1, FALSE) # {}

st_bitmap_set(idx) ==
    bitmap' = [bitmap EXCEPT ![idx \div WordBits] =
                    @ \cup mask_(idx % WordBits, (idx % WordBits) + 1)]

st_bitmap_clear(idx) ==
    bitmap' = [bitmap EXCEPT ![idx \div WordBits] =
                    @ \ mask_(idx % WordBits, (idx % WordBits) + 1)]

\* The loop over the words that a range of bits touches: the first boundary at
\* which Test is false of a word's part of the range, -1 if there is none.
Scan(Test(_, _), from, firstBoundary, end) ==
    LET RECURSIVE At(_, _)
        At(idx, next) ==
            LET boundary == IF next > end THEN end ELSE next
            IN  IF idx >= end THEN -1
                ELSE IF ~Test(idx, boundary) THEN idx
                ELSE At(boundary, boundary + WordBits)
    IN  At(from, firstBoundary)

st_bitmap_are_all_cleared(B, nbits) ==
    Scan(LAMBDA i, j : word_bits_value_(B, i, j, FALSE) = {}, 0, WordBits, nbits) = -1

st_bitmap_are_all_set(B, nbits) ==
    Scan(LAMBDA i, j : word_bits_value_(B, i, j, TRUE) = {}, 0, WordBits, nbits) = -1

st_bitmap_equal(B, C, nbits) ==
    Scan(LAMBDA i, j : word_bits_value_(B, i, j, FALSE) = word_bits_value_(C, i, j, FALSE),
         0, WordBits, nbits) = -1

\* The first bit of the value in the range, -1 if there is none.
st_bitmap_find_next_bit(B, start, end, bit_value) ==
    LET boundary == (start \div WordBits + 1) * WordBits
        idx == Scan(LAMBDA i, j : word_bits_value_(B, i, j, bit_value = 0) = {},
                    start, boundary, end)
        found == {i \in idx..(end - 1) : word_bits_value_(B, i, i + 1, bit_value = 0) # {}}
    IN  IF idx = -1 THEN -1 ELSE CHOOSE i \in found : \A j \in found : i <= j

BitmapNext == \E idx \in Bits : st_bitmap_set(idx) \/ st_bitmap_clear(idx)

BitmapSpec == BitmapInit /\ [][BitmapNext]_bitmap

\* Bit idx of a bitmap, by its definition.
Bit(B, idx) == IF idx % WordBits \in B[idx \div WordBits] THEN 1 ELSE 0

\* For a range that starts or ends inside a word, at a boundary or in another
\* word, the functions see exactly the bits of the range: the slab takes the
\* first bit that is clear for a new object, and decides by these functions that
\* a slab is full or that its pages can go back.
BitmapExact ==
    /\ \A idx \in Bits : st_bitmap_get(bitmap, idx) = (Bit(bitmap, idx) = 1)
    /\ \A n \in 0..(WordBits * Words) :
        /\ st_bitmap_are_all_cleared(bitmap, n) = (\A i \in 0..(n - 1) : Bit(bitmap, i) = 0)
        /\ st_bitmap_are_all_set(bitmap, n) = (\A i \in 0..(n - 1) : Bit(bitmap, i) = 1)
        /\ \A idx \in Bits :
            LET other == [bitmap EXCEPT ![idx \div WordBits] = {idx % WordBits}]
            IN  st_bitmap_equal(bitmap, other, n) =
                    (\A i \in 0..(n - 1) : Bit(bitmap, i) = Bit(other, i))
    /\ \A start, end \in 0..(WordBits * Words), bit_value \in {0, 1} :
        start < end =>
            LET r == st_bitmap_find_next_bit(bitmap, start, end, bit_value)
                found == {i \in start..(end - 1) : Bit(bitmap, i) = bit_value}
            IN  IF found = {} THEN r = -1
                ELSE r \in found /\ \A i \in found : r <= i
=============================================================================
