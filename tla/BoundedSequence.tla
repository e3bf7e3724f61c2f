--------------------------- MODULE BoundedSequence ---------------------------
(***************************************************************************)
(* What a buffer of fixed capacity promises its user: elements numbered    *)
(* from 0 that a failed call leaves alone, never more than fit, of which   *)
(* only those that resize() adds are unspecified.                          *)
(***************************************************************************)
EXTENDS Naturals

CONSTANTS
    Capacity,   \* the largest number of elements
    Values,     \* elements
    Sources,    \* arrays the user passes to assign()
    Counts      \* numbers of elements the user passes to assign() and resize()

VARIABLES
    length,     \* the number of elements
    contents,   \* the elements, a function on 0..length - 1
    answer      \* what the last call returned, 1 for true and 0 for false

vars == <<length, contents, answer>>

Init == length = 0 /\ contents = [i \in {} |-> 0] /\ answer = 0

Refused == answer' = 0 /\ UNCHANGED <<length, contents>>

\* The elements become n ones, of which the first k keep their values.
Becomes(n, k) ==
    /\ length' = n
    /\ contents' \in [0..n - 1 -> Values]
    /\ \A i \in 0..n - 1 : i < k => contents'[i] = contents[i]

PushBack(v) ==
    \/ length = Capacity /\ Refused
    \/ /\ length < Capacity /\ answer' = 1
       /\ Becomes(length + 1, length) /\ contents'[length] = v

PopBack ==
    \/ length = 0 /\ Refused
    \/ length > 0 /\ answer' = 1 /\ Becomes(length - 1, length)

Clear == Becomes(0, 0) /\ UNCHANGED answer

Resize(n) ==
    \/ n > Capacity /\ Refused
    \/ n <= Capacity /\ answer' = 1 /\ Becomes(n, length)

\* answer is the number of elements copied: all of them, or as many as fit.
Assign(src, count) ==
    /\ Becomes(answer', 0)
    /\ answer' <= count /\ answer' <= Capacity
    /\ answer' \in {count, Capacity}
    /\ \A i \in 0..answer' - 1 : contents'[i] = src[i]

Next ==
    \/ \E v \in Values : PushBack(v)
    \/ PopBack \/ Clear
    \/ \E n \in Counts : Resize(n)
    \/ \E src \in Sources, n \in Counts : Assign(src, n)

Spec == Init /\ [][Next]_vars
=============================================================================
