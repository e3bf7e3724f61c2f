\* A buffer of three elements; payloads of up to three bytes; signed
\* integers of five bits; a four-bit sequence counter with wrap-around zones
\* of three numbers.
CONSTANTS
    Capacity = 3
    Values = {0, 1, 2}
    Zero = 0
    Sources <- FewSources
    Counts = {0, 1, 2, 3, 4}
    Payloads <- FewPayloads
    MaxFlips = 3
    Burst = 8
    MinInt <- FiveBits
    MaxInt = 15
    M = 16
    Window = 3
    LinkCapacity = 3
    MaxLost = 3
SPECIFICATION Spec
INVARIANTS DamageIsNoticed ChainingComplements ArithmeticIsExact NoFalseAlarm DuplicatesAreNoticed
PROPERTIES ImplementsSequence LossesAreReported
CHECK_DEADLOCK FALSE
