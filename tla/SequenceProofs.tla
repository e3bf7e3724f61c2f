--------------------------- MODULE SequenceProofs ---------------------------
(***************************************************************************)
(* Theorems about Sequence, for every width of the numbers, every window,  *)
(* every capacity of the link and every bound on losses up to the window.  *)
(***************************************************************************)
EXTENDS Sequence, TLAPS

USE NumbersAssumption, LinkAssumption

LEMMA IncType == \A n \in Numbers : Inc(n) \in Numbers
  BY DEF Inc, Numbers

-----------------------------------------------------------------------------
(* The link. *)

LEMMA ValidateType ==
  ASSUME SequenceTypeOK, NEW n \in Numbers, Validate(n)
  PROVE  /\ initialized' = TRUE /\ expected' \in Numbers
         /\ result' \in Results /\ gap' \in Nat
<1>1. n > expected => n - expected \in Nat
  BY DEF SequenceTypeOK, Numbers
<1> QED
  BY <1>1, IncType DEF SequenceTypeOK, Validate, Results

LEMMA HeadLeaves ==
  ASSUME SequenceTypeOK, LinkInv, transit > 0, Leave
  PROVE  /\ transit' \in 0..LinkCapacity /\ link' \in [1..transit' -> Numbers]
         /\ \A i \in 1..transit' - 1 : link'[i + 1] = Inc(link'[i])
         /\ transit' > 0 => link'[transit'] = link[transit] /\ link'[1] = Inc(link[1])
         /\ transit' = 0 => transit = 1
<1> USE DEF SequenceTypeOK, LinkInv, Leave
<1>1. transit' \in 0..LinkCapacity /\ transit' = transit - 1
  OBVIOUS
<1>2. \A i \in 1..transit - 1 : i + 1 \in 1..transit /\ link'[i] = link[i + 1]
  OBVIOUS
<1>3. link' \in [1..transit' -> Numbers]
  BY <1>1, <1>2
<1>4. ASSUME NEW i \in 1..transit' - 1
      PROVE  link'[i + 1] = Inc(link'[i])
  <2>1. i \in 1..transit - 1 /\ i + 1 \in 1..transit - 1
    BY <1>1
  <2> QED
    BY <1>2, <2>1
<1>5. ASSUME transit' > 0
      PROVE  link'[transit'] = link[transit] /\ link'[1] = Inc(link[1])
  <2>1. 1 \in 1..transit - 1 /\ transit - 1 \in 1..transit - 1
    BY <1>1, <1>5
  <2> QED
    BY <1>1, <1>2, <2>1
<1> QED
  BY <1>1, <1>3, <1>4, <1>5

LEMMA LinkStep ==
  ASSUME SequenceTypeOK, LinkInv, [SequenceNext]_sequenceVars
  PROVE  (SequenceTypeOK /\ LinkInv)'
<1>1. CASE Send
  <2> USE <1>1 DEF Send, SequenceTypeOK, LinkInv, validator, history
  <2>1. transit' \in 0..LinkCapacity /\ transit' = transit + 1
    OBVIOUS
  <2>2. /\ \A i \in 1..transit : link'[i] = link[i]
        /\ link'[transit + 1] = counter
    OBVIOUS
  <2>3. link' \in [1..transit' -> Numbers]
    BY <2>1, <2>2
  <2>4. ASSUME NEW i \in 1..transit' - 1
        PROVE  link'[i + 1] = Inc(link'[i])
    <3>1. CASE i = transit
      BY <2>2, <3>1
    <3>2. CASE i # transit
      <4>1. i \in 1..transit /\ i + 1 \in 1..transit /\ i \in 1..transit - 1
        BY <2>1, <3>2
      <4> QED
        BY <2>2, <4>1
    <3> QED
      BY <3>1, <3>2
  <2>5. counter' = Inc(link'[transit']) /\ counter' \in Numbers
    BY <2>1, <2>2, IncType
  <2> QED
    BY <2>1, <2>3, <2>4, <2>5
<1>2. CASE Deliver
  <2>1. link[1] \in Numbers
    BY <1>2 DEF Deliver, SequenceTypeOK
  <2>2. /\ initialized' = TRUE /\ expected' \in Numbers
        /\ result' \in Results /\ gap' \in Nat
    BY <1>2, <2>1, ValidateType DEF Deliver
  <2>3. /\ last' \in Numbers /\ lost' \in 0..MaxLost
        /\ truth' \in {"none", "first", "next", "skip", "again"}
    BY <1>2, <2>1 DEF Deliver, SequenceTypeOK
  <2>4. CASE Leave
    BY <1>2, <2>2, <2>3, <2>4, HeadLeaves DEF Deliver, Leave, SequenceTypeOK, LinkInv
  <2>5. CASE copy' = TRUE /\ UNCHANGED <<transit, link>>
    BY <1>2, <2>2, <2>3, <2>5 DEF Deliver, SequenceTypeOK, LinkInv
  <2> QED
    BY <1>2, <2>4, <2>5 DEF Deliver
<1>3. CASE Lose
  <2>1. lost' \in 0..MaxLost
    BY <1>3 DEF Lose, SequenceTypeOK
  <2>2. /\ transit' \in 0..LinkCapacity /\ link' \in [1..transit' -> Numbers]
        /\ \A i \in 1..transit' - 1 : link'[i + 1] = Inc(link'[i])
        /\ transit' > 0 => counter' = Inc(link'[transit'])
        /\ copy' = FALSE
    BY <1>3, HeadLeaves DEF Lose, Leave, LinkInv
  <2> QED
    BY <1>3, <2>1, <2>2 DEF Lose, SequenceTypeOK, LinkInv, validator
<1>4. CASE Reset
  <2>1. 0 \in Numbers /\ 0 \in 0..MaxLost /\ 0 \in Nat
    BY DEF Numbers
  <2>2. SequenceTypeOK'
    BY <1>4, <2>1 DEF Reset, SequenceTypeOK
  <2>3. LinkInv'
    BY <1>4 DEF Reset, LinkInv
  <2> QED
    BY <2>2, <2>3
<1>5. CASE UNCHANGED sequenceVars
  BY <1>5 DEF sequenceVars, frames, validator, history, SequenceTypeOK, LinkInv
<1> QED
  BY <1>1, <1>2, <1>3, <1>4, <1>5 DEF SequenceNext

LEMMA InitLink == SequenceInit => SequenceTypeOK /\ LinkInv /\ ValidatorInv
<1> SUFFICES ASSUME SequenceInit PROVE SequenceTypeOK /\ LinkInv /\ ValidatorInv
  OBVIOUS
<1>1. link \in [1..transit -> Numbers]
  BY DEF SequenceInit
<1>2. 0 \in Numbers /\ 0 \in 0..MaxLost /\ 0 \in 0..LinkCapacity /\ 0 \in Nat
  BY DEF Numbers
<1> QED
  <2>1. SequenceTypeOK
    BY <1>1, <1>2 DEF SequenceInit, SequenceTypeOK
  <2>2. LinkInv
    BY DEF SequenceInit, LinkInv
  <2>3. ValidatorInv
    BY DEF SequenceInit, ValidatorInv
  <2> QED
    BY <2>1, <2>2, <2>3

\* Every variable keeps its type, and the frames on the link stay numbered in
\* order up to the generator's counter.
THEOREM LinkIsInOrder == SequenceSpec => [](SequenceTypeOK /\ LinkInv)
  BY InitLink, LinkStep, PTL DEF SequenceSpec

-----------------------------------------------------------------------------
(* The validator.  A number k places after n, for the losses that may lie    *)
(* between.                                                                  *)

LEMMA AfterInc ==
  ASSUME NEW n \in Numbers, NEW k \in Nat, k + 1 < M
  PROVE  After(n, k) \in Numbers /\ Inc(After(n, k)) = After(n, k + 1)
  BY DEF After, Inc, Numbers

LEMMA AfterOne == \A n \in Numbers : After(n, 1) = Inc(n)
  BY DEF After, Inc, Numbers

LEMMA Verdicts ==
  ASSUME initialized, NEW n, Validate(n)
  PROVE  \/ Wraps(n) /\ expected' = Inc(n) /\ result' = "WrapAround"
         \/ ~Wraps(n) /\ n = expected /\ expected' = Inc(n) /\ result' = "Valid"
         \/ ~Wraps(n) /\ n < expected /\ expected' = expected /\ result' = "Duplicate"
         \/ /\ ~Wraps(n) /\ n > expected /\ expected' = Inc(n) /\ result' = "Gap"
            /\ gap' = n - expected
  BY Zenon DEF Validate

\* What the validator says of the next frame, of one after losses, and of a
\* second delivery.
LEMMA InTurn ==
  ASSUME SequenceTypeOK, initialized, Validate(expected)
  PROVE  expected' = Inc(expected) /\ result' = "Valid"
<1>1. ~Wraps(expected) /\ ~(expected < expected) /\ ~(expected > expected)
  BY DEF Wraps, SequenceTypeOK, Numbers
<1> QED
  BY <1>1, Verdicts, Zenon

LEMMA AfterLosses ==
  ASSUME SequenceTypeOK, initialized, NEW k \in 1..MaxLost, MaxLost <= Window,
         expected = Inc(last), NEW n \in Numbers, n = After(last, k + 1), Validate(n)
  PROVE  /\ expected' = Inc(n)
         /\ IF n >= expected THEN result' = "Gap" /\ gap' = k
                             ELSE result' = "WrapAround"
<1>1. k \in Nat /\ k >= 1 /\ k <= Window
  OBVIOUS
<1>2. CASE expected + k < M
  <2>1. n = expected + k
    BY <1>1, <1>2 DEF After, Inc, SequenceTypeOK, Numbers
  <2>2. ~Wraps(n) /\ n > expected /\ n - expected = k
    BY <1>1, <2>1 DEF Wraps, SequenceTypeOK, Numbers
  <2> QED
    BY <2>2, Verdicts DEF SequenceTypeOK, Numbers
<1>3. CASE ~(expected + k < M)
  <2>1. n = expected + k - M
    BY <1>1, <1>3 DEF After, Inc, SequenceTypeOK, Numbers
  <2>2. Wraps(n) /\ n < expected
    BY <1>1, <1>3, <2>1 DEF Wraps, SequenceTypeOK, Numbers
  <2> QED
    BY <2>2, Verdicts DEF SequenceTypeOK, Numbers
<1> QED
  BY <1>2, <1>3

LEMMA Again ==
  ASSUME SequenceTypeOK, initialized, expected = Inc(last), Validate(last)
  PROVE  /\ expected' = expected
         /\ last # M - 1 => result' = "Duplicate"
<1>1. CASE last = M - 1
  <2>1. expected = 0 /\ last > expected /\ Inc(last) = expected /\ ~Wraps(last)
    BY <1>1 DEF Inc, Wraps, SequenceTypeOK, Numbers
  <2> QED
    BY <1>1, <2>1, Verdicts
<1>2. CASE last # M - 1
  <2>1. last < expected /\ ~Wraps(last)
    BY <1>2 DEF Inc, Wraps, SequenceTypeOK, Numbers
  <2> QED
    BY <2>1, Verdicts DEF SequenceTypeOK, Numbers
<1> QED
  BY <1>1, <1>2

SequenceInv == SequenceTypeOK /\ LinkInv /\ ValidatorInv

\* What a delivery finds and leaves, by what it really was.
LEMMA Delivery ==
  ASSUME SequenceInv, MaxLost <= Window, Deliver
  PROVE  /\ expected' = Inc(last') /\ lost' = 0 /\ last' = link[1] /\ truth' # "none"
         /\ truth' \in {"first", "next"} => result' = "Valid"
         /\ truth' = "again" => lost = 0 /\ (last' # M - 1 => result' = "Duplicate")
         /\ truth' = "skip" => IF last' >= Inc(last) THEN result' = "Gap" /\ gap' = lost
                                                    ELSE result' = "WrapAround"
<1> USE DEF SequenceInv
<1>1. link[1] \in Numbers /\ Upcoming = link[1] /\ Validate(link[1])
  BY DEF Deliver, SequenceTypeOK, Upcoming
<1>2. CASE copy
  BY <1>1, <1>2, Again DEF Deliver, ValidatorInv
<1>3. CASE ~copy /\ ~initialized
  BY <1>1, <1>3 DEF Deliver, Validate
<1>4. CASE ~copy /\ initialized /\ lost = 0
  <2>1. link[1] = expected
    BY <1>1, <1>4, AfterOne DEF ValidatorInv, SequenceTypeOK
  <2> QED
    BY <1>1, <1>4, <2>1, InTurn DEF Deliver
<1>5. CASE ~copy /\ initialized /\ lost # 0
  <2>1. lost \in 1..MaxLost /\ expected = Inc(last) /\ link[1] = After(last, lost + 1)
    BY <1>1, <1>5 DEF ValidatorInv, SequenceTypeOK
  <2> QED
    BY <1>1, <1>5, <2>1, AfterLosses DEF Deliver
<1> QED
  BY <1>2, <1>3, <1>4, <1>5 DEF SequenceTypeOK

LEMMA ValidatorStep ==
  ASSUME SequenceInv, MaxLost <= Window, [SequenceNext]_sequenceVars
  PROVE  ValidatorInv'
<1> USE DEF SequenceInv
<1>0. (SequenceTypeOK /\ LinkInv)'
  BY LinkStep DEF SequenceInv
<1>1. CASE Send
  BY <1>1 DEF Send, SequenceTypeOK, LinkInv, ValidatorInv, Upcoming, validator, history
<1>2. CASE Deliver
  <2>1. initialized' = TRUE /\ expected' = Inc(last') /\ lost' = 0 /\ last' = link[1]
    <3>1. expected' = Inc(last') /\ lost' = 0 /\ last' = link[1]
      BY <1>2, Delivery
    <3>2. link[1] \in Numbers /\ Validate(link[1])
      BY <1>2 DEF Deliver, SequenceTypeOK
    <3> QED
      BY <3>1, <3>2, ValidateType
  <2>2. CASE Leave
    <3>1. Upcoming' = Inc(last')
      <4>1. /\ transit' > 0 => link'[1] = Inc(link[1])
            /\ transit' = 0 => transit = 1
            /\ transit' \in 0..LinkCapacity /\ transit > 0
        BY <1>2, <2>2, HeadLeaves DEF Deliver
      <4>2. transit' = 0 => counter' = Inc(link[1])
        BY <1>2, <4>1 DEF Deliver, LinkInv
      <4> QED
        BY <2>1, <4>1, <4>2 DEF Upcoming
    <3> QED
      BY <1>0, <2>1, <2>2, <3>1, AfterOne DEF ValidatorInv, SequenceTypeOK, Leave
  <2>3. CASE copy' = TRUE /\ UNCHANGED <<transit, link>>
    BY <1>2, <2>1, <2>3 DEF Deliver, ValidatorInv, Upcoming, SequenceTypeOK
  <2> QED
    BY <1>2, <2>2, <2>3 DEF Deliver
<1>3. CASE Lose
  <2>1. Upcoming' = Inc(Upcoming)
    BY <1>3, HeadLeaves DEF Lose, Leave, Upcoming, LinkInv, SequenceTypeOK
  <2>2. CASE copy
    BY <1>3, <2>1, <2>2, AfterOne
    DEF Lose, Leave, ValidatorInv, SequenceTypeOK, validator
  <2>3. CASE ~copy /\ initialized
    BY <1>3, <2>1, <2>3, AfterInc
    DEF Lose, Leave, ValidatorInv, SequenceTypeOK, validator
  <2>4. CASE ~initialized
    BY <1>3, <2>4 DEF Lose, Leave, ValidatorInv, SequenceTypeOK, validator
  <2> QED
    BY <2>2, <2>3, <2>4 DEF SequenceTypeOK
<1>4. CASE Reset
  BY <1>4 DEF Reset, ValidatorInv
<1>5. CASE UNCHANGED sequenceVars
  BY <1>5 DEF sequenceVars, frames, validator, history, ValidatorInv, Upcoming
<1> QED
  BY <1>1, <1>2, <1>3, <1>4, <1>5 DEF SequenceNext

LEMMA ValidatorAlways ==
  ASSUME MaxLost <= Window
  PROVE  SequenceSpec => []SequenceInv
<1>1. SequenceInit => SequenceInv
  BY InitLink DEF SequenceInv
<1>2. SequenceInv /\ [SequenceNext]_sequenceVars => SequenceInv'
  BY LinkStep, ValidatorStep DEF SequenceInv
<1> QED
  BY <1>1, <1>2, PTL DEF SequenceSpec

\* A frame that arrives in its turn is valid, wherever in the range of numbers,
\* as long as no more frames in a row are lost than a zone of the validator is
\* wide.
THEOREM InTurnIsValid ==
  ASSUME MaxLost <= Window
  PROVE  SequenceSpec => []NoFalseAlarm
<1>1. SequenceInit => NoFalseAlarm
  BY DEF SequenceInit, NoFalseAlarm
<1>2. SequenceInv /\ NoFalseAlarm /\ [SequenceNext]_sequenceVars => NoFalseAlarm'
  BY Delivery DEF SequenceNext, Send, Lose, Reset,
     sequenceVars, validator, history, NoFalseAlarm
<1> QED
  BY <1>1, <1>2, ValidatorAlways, PTL DEF SequenceSpec

\* Under the same bound a second delivery is a duplicate, but for the last
\* number before the wrap-around.
THEOREM SecondDeliveryIsDuplicate ==
  ASSUME MaxLost <= Window
  PROVE  SequenceSpec => []DuplicatesAreNoticed
<1>1. SequenceInit => DuplicatesAreNoticed
  BY DEF SequenceInit, DuplicatesAreNoticed
<1>2. SequenceInv /\ DuplicatesAreNoticed /\ [SequenceNext]_sequenceVars
        => DuplicatesAreNoticed'
  BY Delivery DEF SequenceNext, Send, Lose, Reset,
     sequenceVars, validator, history, DuplicatesAreNoticed
<1> QED
  BY <1>1, <1>2, ValidatorAlways, PTL DEF SequenceSpec

\* Under the same bound losses are reported at the next frame, and a gap has the
\* size of the loss.
THEOREM LossIsReported ==
  ASSUME MaxLost <= Window
  PROVE  SequenceSpec => LossesAreReported
<1> DEFINE A == (truth' = "skip" /\ lost > 0 /\ lost' = 0) =>
                   IF last' >= Inc(last) THEN result' = "Gap" /\ gap' = lost
                                        ELSE result' = "WrapAround"
<1>1. SequenceInv /\ [SequenceNext]_sequenceVars => [A]_sequenceVars
  <2> SUFFICES ASSUME SequenceInv, SequenceNext PROVE A
    OBVIOUS
  <2>1. CASE Send
    BY <2>1 DEF Send, history
  <2>2. CASE Deliver
    BY <2>2, Delivery
  <2>3. CASE Lose
    BY <2>3 DEF Lose, SequenceInv, SequenceTypeOK
  <2>4. CASE Reset
    BY <2>4 DEF Reset
  <2> QED
    BY <2>1, <2>2, <2>3, <2>4 DEF SequenceNext
<1>2. [][A]_sequenceVars => LossesAreReported
  BY PTL DEF LossesAreReported
<1> QED
  BY <1>1, <1>2, ValidatorAlways, PTL DEF SequenceSpec
=============================================================================
