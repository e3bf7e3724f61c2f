--------------------------------- MODULE Crc ---------------------------------
(***************************************************************************)
(* The frame check of safety.hpp: appendCrc32() writes a CRC-32 behind the *)
(* payload, the frame crosses a channel that damages it, and verifyCrc32() *)
(* decides whether to accept it.                                           *)
(*                                                                         *)
(* A word is the set of its bits that are 1, bit 0 the least significant:  *)
(* exclusive or is the symmetric difference, a shift is a renumbering.     *)
(***************************************************************************)
EXTENDS Integers, FiniteSets

CONSTANTS
    Payloads,   \* what is sent: arrays of bytes with their lengths
    MaxFlips,   \* bound on the bits that noise flips independently
    Burst       \* bound on the length of a burst, in bits

Byte == 0..7
Ones == 0..31           \* 0xFFFFFFFF

ASSUME ChannelAssumption ==
    /\ MaxFlips \in Nat /\ Burst \in Nat
    /\ \A p \in Payloads :
          p.length \in Nat /\ p.data \in [0..p.length - 1 -> SUBSET Byte]

VARIABLES
    sent,       \* the frame, the payload with its checksum
    received,       \* how many of its bytes arrive
    flipped,    \* the bits the channel changes, counted from the first
    verdict     \* of verifyCrc32(): "none", "accepted", "rejected"

frameVars == <<sent, received, flipped, verdict>>

-----------------------------------------------------------------------------
(* Words. *)

Xor(u, w) == (u \ w) \cup (w \ u)
ShiftRight(u, n) == {b - n : b \in {c \in u : c >= n}}
ShiftLeft(u, n) == {b + n : b \in u}

\* 0xEDB88320
kCrc32Polynomial ==
    {31, 30, 29, 27, 26, 24, 23, 21, 20, 19, 15, 9, 8, 5}

-----------------------------------------------------------------------------
(* The checksum. *)

\* One of the eight rounds that build a table entry.
Round(crc) ==
    Xor(ShiftRight(crc, 1), IF 0 \in crc THEN kCrc32Polynomial ELSE {})

kCrc32Table ==
    LET twice(u) == Round(Round(u))
        fourTimes(u) == twice(twice(u))
    IN [i \in SUBSET Byte |-> fourTimes(fourTimes(i))]

Update(crc, byte) ==
    Xor(ShiftRight(crc, 8), kCrc32Table[Xor(crc, byte) \cap Byte])

\* crc before the loop of calculateCrc32() and after each of its rounds.
Registers(data, length, initialCrc) ==
    LET crc[k \in 0..length] ==
            IF k = 0 THEN initialCrc ELSE Update(crc[k - 1], data[k - 1])
    IN crc

\* Mutant: the early return for no bytes forgets the complement.
BugEmptyUnchanged(data, length, initialCrc) ==
    IF length = 0 THEN initialCrc
                  ELSE Xor(Registers(data, length, initialCrc)[length], Ones)

\* The final complement is applied to the result for no bytes too.
calculateCrc32(data, length, initialCrc) ==
    Xor(Registers(data, length, initialCrc)[length], Ones)

\* Mutant: the stored checksum is read with its high byte first.
BugBigEndian(data, length) ==
    UNION {ShiftLeft(data[length - 4 + k], 8 * (3 - k)) : k \in 0..3}

StoredCrc(data, length) ==
    UNION {ShiftLeft(data[length - 4 + k], 8 * k) : k \in 0..3}

verifyCrc32(data, length) ==
    length >= 4 /\ calculateCrc32(data, length - 4, Ones) = StoredCrc(data, length)

\* The bytes and the length that the caller sends.
appendCrc32(payload) ==
    LET n == payload.length
        crc == calculateCrc32(payload.data, n, Ones)
    IN [length |-> n + 4,
        data |-> [i \in 0..n + 3 |->
            IF i < n THEN payload.data[i] ELSE ShiftRight(crc, 8 * (i - n)) \cap Byte]]

-----------------------------------------------------------------------------

FrameInit ==
    /\ \E payload \in Payloads : sent = appendCrc32(payload)
    /\ received = sent.length /\ flipped = {} /\ verdict = "none"

\* What arrives.
Errors(i) == {b \in Byte : 8 * i + b \in flipped}
Arrived == [i \in 0..received - 1 |-> Xor(sent.data[i], Errors(i))]

\* The channel flips one more bit (of several, the last one last): independent
\* errors, or errors that lie together in a burst.
Flip(b) ==
    /\ verdict = "none" /\ received = sent.length
    /\ \A c \in flipped : c < b
    /\ \/ Cardinality(flipped) < MaxFlips
       \/ \A c \in flipped : b - c < Burst
    /\ flipped' = flipped \cup {b}
    /\ UNCHANGED <<sent, received, verdict>>

\* The channel delivers less than a checksum.  What a longer remainder of a
\* frame holds in the place of the checksum is payload, which may match.
Truncate(n) ==
    /\ verdict = "none" /\ flipped = {} /\ n < received
    /\ received' = n
    /\ UNCHANGED <<sent, flipped, verdict>>

Receive ==
    /\ verdict = "none"
    /\ verdict' = IF verifyCrc32(Arrived, received) THEN "accepted" ELSE "rejected"
    /\ UNCHANGED <<sent, received, flipped>>

FrameNext ==
    \/ \E b \in 0..8 * received - 1 : Flip(b)
    \/ \E n \in 0..3 : Truncate(n)
    \/ Receive

FrameSpec == FrameInit /\ [][FrameNext]_frameVars

-----------------------------------------------------------------------------

\* A frame is accepted exactly when it arrives as appendCrc32() wrote it:
\* neither a few flipped bits nor a burst, in the payload or in the checksum
\* itself, goes unnoticed, nor does an arrival too short to hold a checksum.
DamageIsNoticed ==
    verdict # "none" => (verdict = "accepted") = (flipped = {} /\ received >= 4)

\* A checksum can be continued over a second part of the data from the
\* complement of the checksum of the first, wherever the data is divided, and
\* also when a part is empty (initialCrc, "for chained calculations").
Rest(data, k, length) == [i \in 0..length - k - 1 |-> data[k + i]]
ChainingComplements ==
    flipped = {} => \A k \in 0..received :
        calculateCrc32(Rest(sent.data, k, received), received - k,
                       Xor(calculateCrc32(sent.data, k, Ones), Ones))
            = calculateCrc32(sent.data, received, Ones)
=============================================================================
