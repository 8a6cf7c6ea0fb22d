-------------------------------- MODULE Str --------------------------------
(***************************************************************************)
(* The strings of src/src/str/str.c: a type, a length, and bytes that the  *)
(* string owns, or that it refers to and another one owns.  The keys and   *)
(* the values of tables are such strings, and the tree of a table is       *)
(* ordered by st_str_cmp.                                                  *)
(*                                                                         *)
(* Bytes are a sequence of small numbers.  They are in a buffer that       *)
(* st_malloc gave, or they are constant and then stand for themselves.  An *)
(* integer or a double is one byte, its value.  An operation of which an   *)
(* assertion or a check of the arguments fails is left out.                *)
(*                                                                         *)
(* The operators named Wrong... are the definition that follows them with  *)
(* a mistake in it.                                                        *)
(***************************************************************************)
EXTENDS Integers, Sequences, FiniteSets

CONSTANTS
    Strs,           \* the variables of type st_str_t
    Buffers,        \* what st_malloc can return
    Texts,          \* the bytes used, none empty and none a NaN
    MaxInt,         \* INT_MAX
    NaN,            \* the double that is not a number
    NULL

\* The types of src/src/inc/types.h that differ in how they are compared.
TYPES_UNKNOWN == -1
TYPES_NIL == 0
TYPES_NUMBER == 3
TYPES_STRING == 4
TYPES_INTEGER == 19

VARIABLES
    str,            \* the strings
    heap            \* the bytes in each buffer, NULL for a free one

svars == <<str, heap>>

Wrap(type, len, capacity, bytes) ==
    [type |-> type, len |-> len, capacity |-> capacity, bytes_owned |-> FALSE,
     bytes |-> bytes]

st_str_zero == Wrap(TYPES_STRING, 0, 0, NULL)

st_str_empty == Wrap(TYPES_STRING, 0, 1, <<>>)

StrInit == str = [s \in Strs |-> st_str_zero] /\ heap = [b \in Buffers |-> NULL]

Bytes(v) == IF v.bytes \in Buffers THEN heap[v.bytes] ELSE v.bytes

\* The string v gets a buffer with these bytes in it; without memory nothing
\* changes, and that is no step.  st_str_init leaves the type alone.
Allocate(s, v, bytes, len, capacity) ==
    \E b \in Buffers :
        /\ heap[b] = NULL
        /\ heap' = [heap EXCEPT ![b] = bytes]
        /\ str' = [str EXCEPT ![s] = [v EXCEPT !.bytes = b, !.bytes_owned = TRUE,
                                              !.len = len, !.capacity = capacity]]

Assign(s, v) == str' = [str EXCEPT ![s] = v] /\ UNCHANGED heap

\* The bytes that the callers give a string of a type.
BytesOf(type) ==
    CASE type = TYPES_INTEGER -> {text \in Texts : Len(text) = 1}
      [] type = TYPES_NUMBER -> {text \in Texts : Len(text) = 1} \cup {<<NaN>>}
      [] OTHER -> Texts

\* st_str_init, and the caller fills the buffer.
st_str_init(s) ==
    /\ ~str[s].bytes_owned
    /\ \/ Assign(s, st_str_empty)
       \/ \E text \in BytesOf(str[s].type) : Allocate(s, str[s], text, Len(text), Len(text))

\* A string that refers to bytes which are not on the heap.
st_str_wrap_common(s, type) ==
    /\ ~str[s].bytes_owned
    /\ \E text \in BytesOf(type) :
        LET len == Len(text)
        IN  Assign(s, Wrap(type, len, IF type = TYPES_STRING THEN len + 1 ELSE len, text))

\* The callers destroy the owner of bytes after the references to them.
st_str_destroy(s) ==
    /\ str[s].bytes_owned => \A t \in Strs \ {s} : str[t].bytes # str[s].bytes
    /\ heap' = IF str[s].bytes_owned THEN [heap EXCEPT ![str[s].bytes] = NULL] ELSE heap
    /\ str' = [str EXCEPT ![s] = Wrap(TYPES_UNKNOWN, 0, 0, NULL)]

st_str_ref(s, target) ==
    /\ ~str[s].bytes_owned /\ s # target
    /\ Assign(s, [str[target] EXCEPT !.bytes_owned = FALSE])

st_str_copy(s, from) ==
    /\ ~str[s].bytes_owned /\ s # from
    /\ IF str[from].capacity = 0 THEN Assign(s, str[from])
       ELSE Allocate(s, [str[s] EXCEPT !.type = str[from].type],
                     Bytes(str[from]), str[from].len, str[from].capacity)

\* The copy of a C string that is not empty is of type 0.
st_str_copy_cstr(s) ==
    /\ ~str[s].bytes_owned
    /\ \/ Assign(s, st_str_empty)
       \/ \E text \in Texts :
            Allocate(s, [str[s] EXCEPT !.type = 0], text, Len(text), Len(text) + 1)

\* Wrong: both own the bytes.
WrongSeize(s, from) ==
    /\ ~str[s].bytes_owned /\ s # from
    /\ Assign(s, str[from])

st_str_seize(s, from) ==
    /\ ~str[s].bytes_owned /\ s # from
    /\ str' = [str EXCEPT ![s] = str[from], ![from].bytes_owned = FALSE]
    /\ UNCHANGED heap

\* In place, so that whoever refers to the bytes sees the next number.
st_str_increment(s) ==
    LET b == str[s].bytes
    IN  /\ str[s].type = TYPES_INTEGER /\ b \in Buffers
        /\ heap[b][1] # MaxInt
        /\ heap' = [heap EXCEPT ![b][1] = @ + 1]
        /\ UNCHANGED str

-----------------------------------------------------------------------------
(* Comparing.                                                                *)

st_cmp(a, b) == IF a > b THEN 1 ELSE IF a < b THEN -1 ELSE 0

\* st_cmp of doubles: a NaN is neither greater nor less than any of them.
CmpDoubles(a, b) == IF NaN \in {a, b} THEN 0 ELSE st_cmp(a, b)

\* The first difference decides.
st_memcmp(a, b, n) ==
    LET differ == {i \in 1..n : a[i] # b[i]}
        first == CHOOSE i \in differ : \A j \in differ : i <= j
    IN  IF differ = {} THEN 0 ELSE st_cmp(a[first], b[first])

MinLen(a, b) == IF a.len < b.len THEN a.len ELSE b.len

\* Wrong: a string is equal to what it starts with.
WrongCmpBytes(a, b) ==
    IF a.type = TYPES_INTEGER THEN st_cmp(Bytes(a)[1], Bytes(b)[1])
    ELSE st_memcmp(Bytes(a), Bytes(b), MinLen(a, b))

\* The bytes of two strings of one type, then their lengths.
CmpBytes(a, b) ==
    LET ret == CASE a.type = TYPES_INTEGER -> st_cmp(Bytes(a)[1], Bytes(b)[1])
                 [] a.type = TYPES_NUMBER -> CmpDoubles(Bytes(a)[1], Bytes(b)[1])
                 [] a.type = TYPES_NIL -> 0
                 [] OTHER -> st_memcmp(Bytes(a), Bytes(b), MinLen(a, b))
    IN  IF ret # 0 THEN ret ELSE st_cmp(a.len, b.len)

st_str_cmp(a, b) ==
    CASE a.type # b.type -> st_cmp(a.type, b.type)
      [] a.type = b.type /\ a.bytes = NULL -> IF b.bytes = NULL THEN 0 ELSE -1
      [] a.type = b.type /\ a.bytes # NULL ->
            IF b.bytes = NULL THEN 1 ELSE CmpBytes(a, b)

StrNext ==
    \E s \in Strs :
        \/ st_str_init(s)
        \/ \E type \in {TYPES_STRING, TYPES_NUMBER, TYPES_INTEGER} : st_str_wrap_common(s, type)
        \/ st_str_copy_cstr(s)
        \/ \E t \in Strs : st_str_ref(s, t) \/ st_str_copy(s, t) \/ st_str_seize(s, t)
        \/ st_str_destroy(s)
        \/ st_str_increment(s)

StrSpec == StrInit /\ [][StrNext]_svars

-----------------------------------------------------------------------------
(* The properties.                                                           *)

\* Through copies, references, seizures and increments, every buffer that is in
\* use is owned by one string, which will free it, and no string owns a free
\* one: nothing leaks and nothing is freed twice.
OneOwner ==
    \A b \in Buffers :
        Cardinality({s \in Strs : str[s].bytes_owned /\ str[s].bytes = b})
            = IF heap[b] = NULL THEN 0 ELSE 1

IsNaN(v) == v.type = TYPES_NUMBER /\ NaN = Bytes(v)[1]

\* What st_str_cmp takes to be one key: strings with the same bytes, but also
\* all C strings of one length that st_str_copy_cstr has copied, whose type 0
\* is that of nil, and a NaN and any number.
SameKey(a, b) ==
    /\ a.type = b.type
    /\ CASE a.type = TYPES_NIL -> a.len = b.len
         [] IsNaN(a) \/ IsNaN(b) -> TRUE
         [] OTHER -> Bytes(a) = Bytes(b)

\* st_str_cmp orders strings of different types, lengths and origins.  It is
\* antisymmetric, and 0 exactly for what SameKey says: no other two keys are
\* taken for one.  Without a NaN it is transitive, and equal strings cannot be
\* told apart by a third one; the tree of a table can be searched only then.
CmpIsOrder ==
    \A s, t \in Strs :
        LET c == st_str_cmp(str[s], str[t])
        IN  /\ c = -st_str_cmp(str[t], str[s])
            /\ c = 0 <=> SameKey(str[s], str[t])
            /\ \A u \in Strs :
                LET d == st_str_cmp(str[t], str[u])
                    e == st_str_cmp(str[s], str[u])
                IN  (\A v \in {s, t, u} : ~IsNaN(str[v])) =>
                        /\ c = 0 => e = d
                        /\ (c < 0 /\ d < 0) => e < 0

=============================================================================
