------------------------------ MODULE Sequence ------------------------------
(***************************************************************************)
(* Sequence numbering: a SequenceGenerator at the sending end, a           *)
(* SequenceValidator at the receiving end, and between them an in-order    *)
(* link that may lose a frame or deliver it a second time.                 *)
(*                                                                         *)
(* The operators named Bug... are mutations of the definition that follows *)
(* them; SequenceNext does not use them.                                   *)
(***************************************************************************)
EXTENDS Integers

CONSTANTS
    M,          \* numbers wrap at M: 2^32 in the code
    Window,     \* width of the two wrap-around zones: 1000 in the code
    LinkCapacity,   \* frames the link can hold
    MaxLost     \* bound on consecutive losses

\* The two zones do not overlap and leave ordinary numbers between them.
ASSUME NumbersAssumption ==
    /\ M \in Nat /\ Window \in Nat /\ 0 < Window /\ 2 * Window + 1 < M
ASSUME LinkAssumption == LinkCapacity \in Nat /\ MaxLost \in Nat

Numbers == 0 .. M - 1
Results == {"Valid", "Duplicate", "Gap", "WrapAround"}

VARIABLES
    counter,        \* counter_ of the generator
    transit, link,  \* the frames on the link: how many, and their numbers in order
    copy,           \* the frame at the head has been delivered once already
    initialized,    \* initialized_
    expected,       \* expectedSequence_
    result,         \* what validate() returned last ("none" before)
    gap,            \* by how much it raised gapCount_
    last,           \* history: the newest number delivered
    lost,           \* history: frames lost since then
    truth           \* history: what the last delivery really was

validator == <<initialized, expected, result, gap>>
frames == <<transit, link, copy>>
history == <<last, lost, truth>>
sequenceVars == <<counter, frames, validator, history>>

SequenceInit ==
    /\ counter = 0 /\ transit = 0 /\ link = [i \in 1..0 |-> 0] /\ copy = FALSE
    /\ initialized = FALSE /\ expected = 0 /\ result = "none" /\ gap = 0
    /\ last = 0 /\ lost = 0 /\ truth = "none"

\* + 1 on a std::uint32_t.
Inc(n) == IF n = M - 1 THEN 0 ELSE n + 1

-----------------------------------------------------------------------------
(* SequenceValidator::validate. *)

\* Without the wrap-around test, and with one zone instead of two.
BugNoWrapTest(n) == FALSE
BugWrapEither(n) == expected > M - 1 - Window \/ n < Window

Wraps(n) == expected > M - 1 - Window /\ n < Window

\* The gap counted from the frame before.
BugVerdictGap(n) ==
    /\ initialized' = TRUE
    /\ expected' = Inc(n)
    /\ \/ ~initialized /\ result' = "Valid" /\ gap' = 0
       \/ initialized /\ n = expected /\ result' = "Valid" /\ gap' = 0
       \/ initialized /\ n < expected /\ result' = "Duplicate" /\ gap' = 0
       \/ initialized /\ n > expected /\ result' = "Gap" /\ gap' = n - expected + 1

Validate(n) ==
    \/ /\ ~initialized
       /\ initialized' = TRUE /\ expected' = Inc(n)
       /\ result' = "Valid" /\ gap' = 0
    \/ /\ initialized /\ Wraps(n)
       /\ expected' = Inc(n)
       /\ result' = "WrapAround" /\ gap' = 0 /\ UNCHANGED initialized
    \/ /\ initialized /\ ~Wraps(n) /\ n = expected
       /\ expected' = Inc(n)
       /\ result' = "Valid" /\ gap' = 0 /\ UNCHANGED initialized
    \/ /\ initialized /\ ~Wraps(n) /\ n < expected
       /\ result' = "Duplicate" /\ gap' = 0 /\ UNCHANGED <<initialized, expected>>
    \/ /\ initialized /\ ~Wraps(n) /\ n > expected
       /\ expected' = Inc(n)
       /\ result' = "Gap" /\ gap' = n - expected /\ UNCHANGED initialized

-----------------------------------------------------------------------------

\* The sender takes next() and transmits.
Send ==
    /\ transit < LinkCapacity
    /\ transit' = transit + 1
    /\ link' = [i \in 1..transit + 1 |-> IF i <= transit THEN link[i] ELSE counter]
    /\ counter' = Inc(counter)
    /\ UNCHANGED <<copy, validator, history>>

\* The frame at the head leaves the link.
Leave ==
    /\ transit' = transit - 1
    /\ link' = [i \in 1..transit - 1 |-> link[i + 1]]
    /\ copy' = FALSE

\* The frame at the head arrives; the link may keep a copy.
Deliver ==
    /\ transit > 0
    /\ Validate(link[1])
    /\ IF copy
         THEN truth' = "again" /\ UNCHANGED <<last, lost>>
         ELSE /\ truth' = IF ~initialized THEN "first"
                          ELSE IF lost = 0 THEN "next" ELSE "skip"
              /\ last' = link[1] /\ lost' = 0
    /\ Leave \/ (copy' = TRUE /\ UNCHANGED <<transit, link>>)
    /\ UNCHANGED counter

Lose ==
    /\ transit > 0
    /\ IF copy \/ ~initialized
         THEN UNCHANGED lost
         ELSE lost < MaxLost /\ lost' = lost + 1
    /\ Leave
    /\ UNCHANGED <<counter, validator, last, truth>>

\* SequenceValidator::reset: no earlier delivery is remembered.
Reset ==
    /\ initialized' = FALSE /\ expected' = 0 /\ result' = "none" /\ gap' = 0
    /\ last' = 0 /\ lost' = 0 /\ truth' = "none"
    /\ copy' = FALSE
    /\ UNCHANGED <<counter, transit, link>>

SequenceNext == Send \/ Deliver \/ Lose \/ Reset
SequenceSpec == SequenceInit /\ [][SequenceNext]_sequenceVars

-----------------------------------------------------------------------------
(* Properties. *)

\* The inductive strengthening of all three: the frames on the link are numbered
\* in order up to counter_, the next new one follows the newest delivered after
\* the lost ones, and the validator expects the number after the newest.
SequenceTypeOK ==
    /\ counter \in Numbers /\ expected \in Numbers /\ last \in Numbers
    /\ transit \in 0..LinkCapacity /\ link \in [1..transit -> Numbers]
    /\ copy \in BOOLEAN /\ initialized \in BOOLEAN
    /\ result \in Results \cup {"none"} /\ gap \in Nat /\ lost \in 0..MaxLost
    /\ truth \in {"none", "first", "next", "skip", "again"}
LinkInv ==
    /\ \A i \in 1..transit - 1 : link[i + 1] = Inc(link[i])
    /\ transit > 0 => counter = Inc(link[transit])
    /\ copy => transit > 0

After(n, k) == IF n + k < M THEN n + k ELSE n + k - M
Upcoming == IF transit = 0 THEN counter ELSE link[1]
ValidatorInv ==
    /\ initialized => /\ expected = Inc(last)
                      /\ IF copy THEN Upcoming = last /\ lost = 0
                                 ELSE Upcoming = After(last, lost + 1)
    /\ ~initialized => truth = "none" /\ ~copy /\ lost = 0

\* A frame that arrives in its turn is never reported as an anomaly, at the
\* wrap-around and after losses and duplicates included.
NoFalseAlarm == truth \in {"first", "next"} => result = "Valid"

\* Lost frames are reported at the next new one: as a gap of exactly that many
\* frames, or as a wrap-around when the numbers start again in between.
LossesAreReported ==
    [][(truth' = "skip" /\ lost > 0 /\ lost' = 0) =>
          IF last' >= Inc(last) THEN result' = "Gap" /\ gap' = lost
                               ELSE result' = "WrapAround"]_sequenceVars

\* A second delivery is reported as a duplicate, unless it is the last number
\* before the wrap-around.
DuplicatesAreNoticed ==
    truth = "again" /\ last # M - 1 => result = "Duplicate"
=============================================================================
