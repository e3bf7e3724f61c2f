----------------------------- MODULE MCAlgorithms -----------------------------
(***************************************************************************)
(* The four utilities that no transport state enters, checked in one run:  *)
(* the initial state chooses which of them is exercised, the others rest.  *)
(***************************************************************************)
EXTENDS FixedBuffer, Crc, SafeMath, Sequence

VARIABLE subject

FewSources == {[i \in 0..3 |-> 1], [i \in 0..3 |-> i % 3]}
Payload(n, bytes) == [length |-> n, data |-> [i \in 0..n - 1 |-> bytes[i + 1]]]
FewPayloads == {Payload(0, <<>>), Payload(1, <<{0, 3}>>), Payload(3, <<{}, {1, 7}, Byte>>)}

FiveBits == -16

Init ==
    /\ subject \in {"buffer", "frame", "operands", "sequence"}
    /\ BufferInit
    /\ SequenceInit
    /\ IF subject = "frame"
         THEN FrameInit
         ELSE sent = Payload(0, <<>>) /\ received = 0 /\ flipped = {} /\ verdict = "none"
    /\ IF subject = "operands" THEN OperandsInit ELSE x = 0 /\ y = 0

BufferStep ==
    /\ subject = "buffer" /\ BufferNext
    /\ UNCHANGED <<frameVars, sequenceVars, x, y, subject>>
FrameStep ==
    /\ subject = "frame" /\ FrameNext
    /\ UNCHANGED <<bufferVars, sequenceVars, x, y, subject>>
SequenceStep ==
    /\ subject = "sequence" /\ SequenceNext
    /\ UNCHANGED <<bufferVars, frameVars, x, y, subject>>

Next == BufferStep \/ FrameStep \/ SequenceStep
Spec == Init /\ [][Next]_<<bufferVars, frameVars, sequenceVars, x, y, subject>>
=============================================================================
