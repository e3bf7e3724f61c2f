----------------------------- MODULE FixedBuffer -----------------------------
(***************************************************************************)
(* do178c::FixedBuffer: an array of Capacity elements and a size.  Nothing *)
(* is ever erased: pop_back(), clear() and resize() only move the size,    *)
(* and resize() brings back whatever the array holds there.                *)
(***************************************************************************)
EXTENDS Naturals

CONSTANTS
    Capacity,   \* the template parameter
    Values,     \* elements
    Zero,       \* the value-initialised element
    Sources,    \* arrays the user passes to assign(), of every count in Counts
    Counts      \* numbers of elements the user passes to assign() and resize()

ASSUME BufferAssumption ==
    /\ Capacity \in Nat \ {0} /\ Zero \in Values /\ Counts \subseteq Nat
    /\ \A src \in Sources, n \in Counts : \A i \in 0..n - 1 : src[i] \in Values

VARIABLES
    size,       \* size_
    data,       \* data_
    answer      \* what the last call returned, 1 for true and 0 for false

bufferVars == <<size, data, answer>>

BufferInit ==
    size = 0 /\ data = [i \in 0..Capacity - 1 |-> Zero] /\ answer = 0

\* The most of count elements that fit in limit; also the bound of safeCopy()
\* and safeSet().
Clipped(count, limit) == IF count > limit THEN limit ELSE count

push_back(v) ==
    IF size >= Capacity
      THEN answer' = 0 /\ UNCHANGED <<size, data>>
      ELSE answer' = 1 /\ size' = size + 1 /\ data' = [data EXCEPT ![size] = v]

pop_back ==
    /\ IF size = 0 THEN answer' = 0 /\ UNCHANGED size
                   ELSE answer' = 1 /\ size' = size - 1
    /\ UNCHANGED data

clear == size' = 0 /\ UNCHANGED <<data, answer>>

resize(newSize) ==
    /\ IF newSize > Capacity THEN answer' = 0 /\ UNCHANGED size
                             ELSE answer' = 1 /\ size' = newSize
    /\ UNCHANGED data

\* Mutant: assign() never shrinks the buffer.
BugAssignGrows(src, count) ==
    LET toCopy == Clipped(count, Capacity) IN
        /\ data' = [i \in DOMAIN data |-> IF i < toCopy THEN src[i] ELSE data[i]]
        /\ size' = (IF toCopy > size THEN toCopy ELSE size) /\ answer' = toCopy

\* A null source copies nothing and leaves size_ alone: a stuttering step.
assign(src, count) ==
    LET toCopy == Clipped(count, Capacity) IN
        /\ data' = [i \in DOMAIN data |-> IF i < toCopy THEN src[i] ELSE data[i]]
        /\ size' = toCopy /\ answer' = toCopy

BufferNext ==
    \/ \E v \in Values : push_back(v)
    \/ pop_back \/ clear
    \/ \E n \in Counts : resize(n)
    \/ \E src \in Sources, n \in Counts : assign(src, n)

BufferSpec == BufferInit /\ [][BufferNext]_bufferVars

-----------------------------------------------------------------------------

BufferTypeOK ==
    size \in 0..Capacity /\ data \in [0..Capacity - 1 -> Values] /\ answer \in Nat

\* begin() .. end().
Contents == [i \in 0..size - 1 |-> data[i]]

Promised == INSTANCE BoundedSequence WITH length <- size, contents <- Contents

\* Every call does what the bounded sequence promises: push_back() and
\* assign() never write past the array, a refused call changes nothing, and
\* resize() keeps the elements it does not add.
ImplementsSequence == Promised!Spec
=============================================================================
