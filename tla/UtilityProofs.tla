--------------------------- MODULE UtilityProofs ---------------------------
(***************************************************************************)
(* Theorems about the utilities that no transport state enters: Crc, for   *)
(* payloads of every length, FixedBuffer, for every capacity, and          *)
(* SafeMath, for integer types of every width, signed and unsigned.        *)
(***************************************************************************)
EXTENDS Crc, FixedBuffer, SafeMath, FiniteSetTheorems, WellFoundedInduction, TLAPS

\* Every set of naturals has a least element: the form in which the proofs below
\* use induction.
LEMMA Minimum ==
  ASSUME NEW T, T \subseteq Nat, T # {}
  PROVE  \E m \in T : \A k \in T : m <= k
<1> DEFINE R == OpToRel(<, Nat)
<1>1. IsWellFoundedOn(R, Nat)
  BY NatLessThanWellFounded
<1>2. \A a, b \in Nat : a < b => <<a, b>> \in R
  BY DEF OpToRel
<1> HIDE DEF R
<1>3. PICK m \in T : \A k \in T : ~(<<k, m>> \in R)
  BY <1>1, WFMin
<1>4. \A k \in T : ~(k < m)
  BY <1>2, <1>3
<1>5. \A k \in T : m <= k
  BY <1>4
<1> QED
  BY <1>5

LEMMA Induction ==
  ASSUME NEW n \in Nat, NEW T, 0 \in T, \A k \in 1..n : k - 1 \in T => k \in T
  PROVE  0..n \subseteq T
<1> SUFFICES ASSUME (0..n) \ T # {} PROVE FALSE
  OBVIOUS
<1>1. PICK m \in (0..n) \ T : \A k \in (0..n) \ T : m <= k
  <2>1. (0..n) \ T \subseteq Nat
    OBVIOUS
  <2> QED
    BY <2>1, Minimum
<1>2. m \in 1..n /\ m - 1 \in 0..n /\ ~(m <= m - 1)
  BY <1>1
<1> QED
  BY <1>1, <1>2

-----------------------------------------------------------------------------
(* Words. *)

Words == SUBSET Ones

LEMMA RoundBits ==
  ASSUME NEW u \in Words
  PROVE  /\ Round(u) \in Words
         /\ \A b \in Ones : b \in Round(u) <=>
               ((b + 1 \in u) # (0 \in u /\ b \in kCrc32Polynomial))
<1>1. \A b \in Int : b \in ShiftRight(u, 1) <=> b \in Nat /\ b + 1 \in u
  BY DEF ShiftRight, Words, Ones
<1>2. ShiftRight(u, 1) \in Words
  BY DEF ShiftRight, Words, Ones
<1>3. kCrc32Polynomial \in Words
  BY DEF kCrc32Polynomial, Words, Ones
<1>4. Round(u) \in Words
  BY <1>2, <1>3 DEF Round, Xor, Words
<1>5. ASSUME NEW b \in Ones
      PROVE  b \in Round(u) <=> ((b + 1 \in u) # (0 \in u /\ b \in kCrc32Polynomial))
  <2>1. b \in ShiftRight(u, 1) <=> b + 1 \in u
    BY <1>1 DEF Ones
  <2> QED
    BY <2>1 DEF Round, Xor
<1> QED
  BY <1>4, <1>5

LEMMA XorWord ==
  ASSUME NEW u \in Words, NEW w \in Words
  PROVE  /\ Xor(u, w) \in Words
         /\ \A b : b \in Xor(u, w) <=> ((b \in u) # (b \in w))
  BY DEF Xor, Words

\* The division is linear: this is what makes damage independent of the data.
LEMMA RoundLinear ==
  ASSUME NEW u \in Words, NEW w \in Words
  PROVE  Round(Xor(u, w)) = Xor(Round(u), Round(w))
<1>1. Round(Xor(u, w)) \in Words /\ Xor(Round(u), Round(w)) \in Words
  BY RoundBits, XorWord
<1>2. ASSUME NEW b \in Ones
      PROVE  b \in Round(Xor(u, w)) <=> b \in Xor(Round(u), Round(w))
  <2>1. b \in Round(Xor(u, w)) <=>
          ((b + 1 \in Xor(u, w)) # (0 \in Xor(u, w) /\ b \in kCrc32Polynomial))
    BY RoundBits, XorWord
  <2>2. /\ b + 1 \in Xor(u, w) <=> ((b + 1 \in u) # (b + 1 \in w))
        /\ 0 \in Xor(u, w) <=> ((0 \in u) # (0 \in w))
        /\ b \in Xor(Round(u), Round(w)) <=> ((b \in Round(u)) # (b \in Round(w)))
    BY RoundBits, XorWord
  <2>3. /\ b \in Round(u) <=> ((b + 1 \in u) # (0 \in u /\ b \in kCrc32Polynomial))
        /\ b \in Round(w) <=> ((b + 1 \in w) # (0 \in w /\ b \in kCrc32Polynomial))
    BY RoundBits
  <2> QED
    BY <2>1, <2>2, <2>3
<1> QED
  BY <1>1, <1>2 DEF Words

\* Where the first flipped bit shows in a word of differences, j bits after it
\* entered the register: among the j highest bits, or as the lowest one set when
\* it is still to come.
Shows(u, j) ==
    IF j <= 0 THEN -j \in u /\ \A b \in u : b >= -j
              ELSE \E b \in u : b + j >= 32

LEMMA RoundShows ==
  ASSUME NEW u \in Words, NEW j \in Int, j >= -31, Shows(u, j)
  PROVE  Shows(Round(u), j + 1)
<1>0. \A b \in Ones : b \in Round(u) <=>
         ((b + 1 \in u) # (0 \in u /\ b \in kCrc32Polynomial))
  BY RoundBits
<1>1. CASE j < 0
  <2>1. 0 \notin u /\ -j \in u /\ \A b \in u : b >= -j
    BY <1>1 DEF Shows
  <2>2. \A b \in Ones : b \in Round(u) <=> b + 1 \in u
    BY <1>0, <2>1
  <2>3. -j - 1 \in Ones /\ -j - 1 + 1 = -j
    BY <1>1 DEF Ones
  <2>4. -(j + 1) \in Round(u)
    BY <2>1, <2>2, <2>3
  <2>5. \A b \in Round(u) : b >= -(j + 1)
    <3>1. Round(u) \subseteq Ones
      BY RoundBits DEF Words
    <3> QED
      BY <2>1, <2>2, <3>1 DEF Ones
  <2> QED
    BY <1>1, <2>4, <2>5 DEF Shows
<1>2. CASE 0 \in u /\ j >= 0
  <2>1. 31 \in Round(u)
    <3>1. 31 \in Ones /\ 31 \in kCrc32Polynomial /\ 31 + 1 \notin u
      BY DEF Ones, kCrc32Polynomial, Words
    <3> QED
      BY <1>0, <1>2, <3>1
  <2> QED
    BY <1>2, <2>1 DEF Shows
<1>3. CASE 0 \notin u /\ j >= 0
  <2>1. j > 0
    BY <1>3 DEF Shows
  <2>2. PICK b \in u : b + j >= 32
    BY <2>1 DEF Shows
  <2>3. b - 1 \in Ones /\ b - 1 + 1 = b
    BY <1>3, <2>2 DEF Words, Ones
  <2>4. b - 1 \in Round(u)
    BY <1>0, <1>3, <2>2, <2>3
  <2> QED
    BY <2>1, <2>2, <2>3, <2>4 DEF Shows, Ones
<1> QED
  BY <1>1, <1>2, <1>3

-----------------------------------------------------------------------------
(* A byte: eight rounds. *)

Rounds(u) == Round(Round(Round(Round(Round(Round(Round(Round(u))))))))

LEMMA RoundsLinear ==
  /\ \A u \in Words : Rounds(u) \in Words
  /\ \A u, w \in Words : Rounds(Xor(u, w)) = Xor(Rounds(u), Rounds(w))
<1>1. \A u \in Words : Round(u) \in Words
  BY RoundBits
<1>2. \A u, w \in Words : Round(Xor(u, w)) = Xor(Round(u), Round(w))
  BY RoundLinear
<1> QED
  BY <1>1, <1>2 DEF Rounds

LEMMA RoundsShow ==
  ASSUME NEW u \in Words, NEW j \in Int, j >= -31, Shows(u, j)
  PROVE  Shows(Rounds(u), j + 8)
<1>1. \A w \in Words : Round(w) \in Words
  BY RoundBits
<1>2. \A w \in Words, i \in Int : i >= -31 /\ Shows(w, i) => Shows(Round(w), i + 1)
  BY RoundShows
<1>3. Shows(Round(Round(u)), j + 1 + 1)
  BY <1>1, <1>2
<1>4. Shows(Round(Round(Round(Round(u)))), j + 2 + 1 + 1)
  <2>1. j + 1 + 1 = j + 2
    OBVIOUS
  <2> QED
    BY <1>1, <1>2, <1>3, <2>1
<1>5. Shows(Round(Round(Round(Round(Round(Round(u)))))), j + 4 + 1 + 1)
  <2>1. j + 2 + 1 + 1 = j + 4
    OBVIOUS
  <2> QED
    BY <1>1, <1>2, <1>4, <2>1
<1>6. Shows(Rounds(u), j + 6 + 1 + 1)
  <2>1. j + 4 + 1 + 1 = j + 6
    OBVIOUS
  <2> QED
    BY <1>1, <1>2, <1>5, <2>1 DEF Rounds
<1>7. j + 6 + 1 + 1 = j + 8
  OBVIOUS
<1> QED
  BY <1>6, <1>7

LEMMA ShiftBits ==
  ASSUME NEW u \in Words, NEW n \in Nat
  PROVE  /\ ShiftRight(u, n) \in Words
         /\ \A b \in Int : b \in ShiftRight(u, n) <=> b \in Nat /\ b + n \in u
<1>1. \A b \in Int : b \in ShiftRight(u, n) <=> b \in Nat /\ b + n \in u
  BY DEF ShiftRight, Words, Ones
<1>2. ShiftRight(u, n) \in Words
  BY DEF ShiftRight, Words, Ones
<1> QED
  BY <1>1, <1>2

\* The bits above the byte are only shifted, ...
LEMMA HighBits ==
  ASSUME NEW u \in Words, u \cap Byte = {}
  PROVE  Rounds(u) = ShiftRight(u, 8)
<1> DEFINE S(n) == ShiftRight(u, n)
<1>1. \A n \in 0..7 : Round(S(n)) = S(n + 1)
  <2> SUFFICES ASSUME NEW n \in 0..7 PROVE Round(S(n)) = S(n + 1)
    OBVIOUS
  <2>1. n \in Nat /\ n + 1 \in Nat /\ 0 + n \notin u
    BY DEF Byte
  <2>2. 0 \notin S(n)
    BY <2>1, ShiftBits
  <2>3. S(n) \in Words /\ S(n + 1) \in Words
    BY <2>1, ShiftBits
  <2>4. Round(S(n)) = ShiftRight(S(n), 1)
    BY <2>2 DEF Round, Xor
  <2>5. ASSUME NEW b \in Ones
        PROVE  b \in ShiftRight(S(n), 1) <=> b \in S(n + 1)
    <3>1. /\ \A a \in Int : a \in ShiftRight(S(n), 1) <=> a \in Nat /\ a + 1 \in S(n)
          /\ \A a \in Int : a \in S(n) <=> a \in Nat /\ a + n \in u
          /\ \A a \in Int : a \in S(n + 1) <=> a \in Nat /\ a + (n + 1) \in u
      BY <2>1, <2>3, ShiftBits
    <3>2. b \in Nat /\ b \in Int /\ b + 1 \in Nat /\ b + 1 \in Int
          /\ b + 1 + n = b + (n + 1)
      BY <2>1 DEF Ones
    <3> HIDE DEF S
    <3> QED
      BY <3>1, <3>2
  <2>6. ShiftRight(S(n), 1) \in Words
    BY <2>3, ShiftBits
  <2> QED
    BY <2>3, <2>4, <2>5, <2>6 DEF Words
<1>2. S(0) = u
  <2>1. \A b \in Ones : b \in S(0) <=> b \in u
    BY ShiftBits DEF Ones
  <2> QED
    BY <2>1, ShiftBits DEF Words
<1> HIDE DEF S
<1>3. /\ Round(S(0)) = S(1) /\ Round(S(1)) = S(2) /\ Round(S(2)) = S(3)
      /\ Round(S(3)) = S(4) /\ Round(S(4)) = S(5) /\ Round(S(5)) = S(6)
      /\ Round(S(6)) = S(7) /\ Round(S(7)) = S(8)
  BY <1>1
<1>4. Rounds(u) = S(8)
  BY <1>2, <1>3 DEF Rounds
<1> QED
  BY <1>4 DEF S

\* ... so that the table look-up of a byte is the division of its eight bits.
LEMMA UpdateRounds ==
  ASSUME NEW crc \in Words, NEW byte \in SUBSET Byte
  PROVE  Update(crc, byte) = Rounds(Xor(crc, byte))
<1> DEFINE high == crc \ Byte
           low == Xor(crc, byte) \cap Byte
<1>0. Byte \subseteq Ones /\ byte \in Words /\ low \in SUBSET Byte /\ low \in Words
      /\ high \in Words /\ high \cap Byte = {}
  BY DEF Byte, Ones, Words
<1>1. Xor(crc, byte) = Xor(high, low)
  BY <1>0 DEF Xor
<1>2. kCrc32Table[low] = Rounds(low)
  BY <1>0 DEF kCrc32Table, Rounds
<1>3. ShiftRight(crc, 8) = ShiftRight(high, 8)
  <2>1. \A b \in Ones : b \in ShiftRight(crc, 8) <=> b \in ShiftRight(high, 8)
    <3>1. \A b \in Ones : b + 8 \notin Byte
      BY DEF Ones, Byte
    <3>2. \A b \in Int : b \in ShiftRight(crc, 8) <=> b \in Nat /\ b + 8 \in crc
      BY ShiftBits
    <3>3. \A b \in Int : b \in ShiftRight(high, 8) <=> b \in Nat /\ b + 8 \in high
      BY <1>0, ShiftBits
    <3>4. Ones \subseteq Int
      BY DEF Ones
    <3> QED
      BY <3>1, <3>2, <3>3, <3>4
  <2>2. ShiftRight(crc, 8) \in Words /\ ShiftRight(high, 8) \in Words
    BY <1>0, ShiftBits
  <2> QED
    BY <2>1, <2>2 DEF Words
<1>4. Rounds(high) = ShiftRight(high, 8)
  BY <1>0, HighBits
<1>5. Rounds(Xor(high, low)) = Xor(Rounds(high), Rounds(low))
  BY <1>0, RoundsLinear
<1> QED
  BY <1>1, <1>2, <1>3, <1>4, <1>5 DEF Update

LEMMA UpdateType ==
  ASSUME NEW crc \in Words, NEW byte \in SUBSET Byte
  PROVE  Update(crc, byte) \in Words
<1>1. byte \in Words
  BY DEF Words, Byte, Ones
<1>2. Xor(crc, byte) \in Words
  BY <1>1, XorWord
<1> QED
  BY <1>2, UpdateRounds, RoundsLinear

-----------------------------------------------------------------------------
(* The loop of calculateCrc32(). *)

\* What the recursion means: the registers are those of the loop.
Computes(r, bytes, n, c) ==
    r = [k \in 0..n |-> IF k = 0 THEN c ELSE Update(r[k - 1], bytes[k - 1])]

LEMMA LoopEnds ==
  ASSUME NEW bytes, NEW n \in Nat, NEW c
  PROVE  \E r : Computes(r, bytes, n, c)
<1> DEFINE T == {m \in Nat : ~ \E r : Computes(r, bytes, m, c)}
<1> SUFFICES ASSUME T # {} PROVE FALSE
  OBVIOUS
<1>1. PICK m \in T : \A k \in T : m <= k
  BY Minimum, T \subseteq Nat
<1>2. CASE m = 0
  <2>1. Computes([k \in 0..0 |-> c], bytes, 0, c)
    BY DEF Computes
  <2> QED
    BY <1>2, <2>1
<1>3. CASE m > 0
  <2>1. m - 1 \in Nat /\ m - 1 \notin T
    BY <1>1, <1>3
  <2>2. PICK r : Computes(r, bytes, m - 1, c)
    BY <2>1
  <2> DEFINE s == [k \in 0..m |-> IF k = 0 THEN c ELSE Update(r[k - 1], bytes[k - 1])]
  <2>3. \A k \in 0..m - 1 : r[k] = IF k = 0 THEN c ELSE Update(r[k - 1], bytes[k - 1])
    BY <2>2 DEF Computes
  <2>4. \A k \in 0..m - 1 : k \in 0..m /\ s[k] = r[k]
    BY <2>1, <2>3
  <2>5. \A k \in 0..m : k = 0 \/ k - 1 \in 0..m - 1
    BY <2>1
  <2>6. s = [k \in 0..m |-> IF k = 0 THEN c ELSE Update(s[k - 1], bytes[k - 1])]
    BY <2>4, <2>5
  <2> QED
    BY <2>6 DEF Computes
<1> QED
  BY <1>2, <1>3

LEMMA RegistersLoop ==
  ASSUME NEW bytes, NEW n \in Nat, NEW c
  PROVE  /\ Registers(bytes, n, c)[0] = c
         /\ \A k \in 1..n : Registers(bytes, n, c)[k] =
                               Update(Registers(bytes, n, c)[k - 1], bytes[k - 1])
<1>1. Computes(Registers(bytes, n, c), bytes, n, c)
  BY LoopEnds DEF Registers, Computes
<1> HIDE DEF Registers
<1> DEFINE r == Registers(bytes, n, c)
<1>2. \A k \in 0..n : r[k] = IF k = 0 THEN c ELSE Update(r[k - 1], bytes[k - 1])
  BY <1>1 DEF Computes
<1>3. 0 \in 0..n /\ \A k \in 1..n : k \in 0..n /\ k # 0
  OBVIOUS
<1> QED
  BY <1>2, <1>3

Bytes(bytes, n) == \A i \in 0..n - 1 : bytes[i] \in SUBSET Byte

LEMMA RegistersType ==
  ASSUME NEW bytes, NEW n \in Nat, Bytes(bytes, n), NEW c \in Words
  PROVE  \A k \in 0..n : Registers(bytes, n, c)[k] \in Words
<1> DEFINE r == Registers(bytes, n, c)
           T == {k \in 0..n : r[k] \in Words}
<1>1. 0 \in T
  <2>1. r[0] = c
    BY RegistersLoop
  <2> HIDE DEF r
  <2> QED
    BY <2>1
<1>2. \A k \in 1..n : k - 1 \in T => k \in T
  <2> SUFFICES ASSUME NEW k \in 1..n, r[k - 1] \in Words PROVE r[k] \in Words
    OBVIOUS
  <2>1. k - 1 \in 0..n - 1
    OBVIOUS
  <2>2. bytes[k - 1] \in SUBSET Byte
    BY <2>1 DEF Bytes
  <2>3. r[k] = Update(r[k - 1], bytes[k - 1])
    BY RegistersLoop
  <2> HIDE DEF r
  <2> QED
    BY <2>2, <2>3, UpdateType
<1>3. 0..n \subseteq T
  <2> HIDE DEF T
  <2> QED
    BY <1>1, <1>2, Induction
<1> QED
  BY <1>3

\* Two loops over the same bytes, from their registers i and j on.
Runs(r, i, bytes, n) ==
    \A k \in 1..n : r[i + k] = Update(r[i + (k - 1)], bytes[k - 1])

LEMMA RegistersRun ==
  ASSUME NEW bytes, NEW n \in Nat, NEW c
  PROVE  Registers(bytes, n, c)[0] = c /\ Runs(Registers(bytes, n, c), 0, bytes, n)
<1> DEFINE r == Registers(bytes, n, c)
<1>1. r[0] = c /\ \A k \in 1..n : r[k] = Update(r[k - 1], bytes[k - 1])
  BY RegistersLoop
<1> HIDE DEF r
<1>2. \A k \in 1..n : 0 + k = k /\ 0 + (k - 1) = k - 1
  OBVIOUS
<1>3. Runs(r, 0, bytes, n)
  BY <1>1, <1>2 DEF Runs
<1> QED
  BY <1>1, <1>3 DEF r

LEMMA LoopsAgree ==
  ASSUME NEW r, NEW i \in Nat, NEW s, NEW j \in Nat, NEW bytes, NEW n \in Nat,
         r[i] = s[j], Runs(r, i, bytes, n), Runs(s, j, bytes, n)
  PROVE  r[i + n] = s[j + n]
<1> DEFINE T == {k \in 0..n : r[i + k] = s[j + k]}
<1>1. 0 \in T
  OBVIOUS
<1>2. \A k \in 1..n : k - 1 \in T => k \in T
  BY DEF Runs
<1>3. 0..n \subseteq T
  <2> HIDE DEF T
  <2> QED
    BY <1>1, <1>2, Induction
<1> QED
  BY <1>3

LEMMA ComplementTwice == \A u \in Words : Xor(Xor(u, Ones), Ones) = u
  BY DEF Xor, Words

\* The checksum of the whole is that of the second part, continued from the
\* complement of that of the first.
LEMMA Chaining ==
  ASSUME NEW bytes, NEW n \in Nat, Bytes(bytes, n), NEW k \in 0..n
  PROVE  calculateCrc32(Rest(bytes, k, n), n - k, Xor(calculateCrc32(bytes, k, Ones), Ones))
           = calculateCrc32(bytes, n, Ones)
<1> DEFINE m == n - k
           rest == Rest(bytes, k, n)
           r == Registers(bytes, n, Ones)
           f == Registers(bytes, k, Ones)
           s == Registers(rest, m, f[k])
<1>0. k \in Nat /\ m \in Nat /\ k + m = n /\ 0 + k = k /\ 0 + m = m /\ Ones \in Words
  BY DEF Words
<1>1. r[0] = Ones /\ Runs(r, 0, bytes, n)
  BY RegistersRun
<1>2. f[0] = Ones /\ Runs(f, 0, bytes, k)
  BY <1>0, RegistersRun
<1>3. s[0] = f[k] /\ Runs(s, 0, rest, m)
  BY <1>0, RegistersRun
<1>4. f[k] \in Words
  <2>1. Bytes(bytes, k)
    BY DEF Bytes
  <2> QED
    BY <1>0, <2>1, RegistersType
<1>5. Xor(calculateCrc32(bytes, k, Ones), Ones) = f[k]
  BY <1>4, ComplementTwice DEF calculateCrc32
<1>6. \A i \in 1..m : rest[i - 1] = bytes[k + i - 1]
  BY <1>0 DEF Rest
<1> HIDE DEF m, rest, r, f, s
<1>7. f[k] = r[k]
  <2>1. Runs(r, 0, bytes, k)
    BY <1>1 DEF Runs
  <2>2. f[0 + k] = r[0 + k]
    BY <1>0, <1>1, <1>2, <2>1, LoopsAgree
  <2> QED
    BY <1>0, <2>2
<1>8. s[m] = r[n]
  <2>1. Runs(r, k, rest, m)
    <3> SUFFICES ASSUME NEW i \in 1..m
                 PROVE  r[k + i] = Update(r[k + (i - 1)], rest[i - 1])
      BY DEF Runs
    <3>1. k + i \in 1..n /\ 0 + (k + i) = k + i /\ 0 + (k + i - 1) = k + (i - 1)
      BY <1>0
    <3> QED
      BY <1>1, <1>6, <3>1 DEF Runs
  <2>2. s[0 + m] = r[k + m]
    BY <1>0, <1>3, <1>7, <2>1, LoopsAgree
  <2> QED
    BY <1>0, <2>2
<1> QED
  BY <1>5, <1>8 DEF calculateCrc32, m, rest, r, s

-----------------------------------------------------------------------------
(* The stored checksum. *)

LEMMA StoredBits ==
  ASSUME NEW bytes, NEW n \in Nat, n >= 4, Bytes(bytes, n)
  PROVE  /\ StoredCrc(bytes, n) \in Words
         /\ \A k \in 0..3, i \in Byte :
               8 * k + i \in StoredCrc(bytes, n) <=> i \in bytes[n - 4 + k]
<1>1. \A k \in 0..3 : bytes[n - 4 + k] \in SUBSET Byte
  BY DEF Bytes
<1>2. ASSUME NEW w \in SUBSET Byte, NEW k \in 0..3
      PROVE  /\ ShiftLeft(w, 8 * k) \in Words
             /\ \A i \in Byte : 8 * k + i \in ShiftLeft(w, 8 * k) <=> i \in w
             /\ \A b \in ShiftLeft(w, 8 * k) : 8 * k <= b /\ b <= 8 * k + 7
  BY DEF ShiftLeft, Words, Ones, Byte
<1> DEFINE part(k) == ShiftLeft(bytes[n - 4 + k], 8 * k)
<1>3. \A k \in 0..3 :
        /\ part(k) \in Words
        /\ \A i \in Byte : 8 * k + i \in part(k) <=> i \in bytes[n - 4 + k]
        /\ \A b \in part(k) : 8 * k <= b /\ b <= 8 * k + 7
  BY <1>1, <1>2
<1>4. StoredCrc(bytes, n) = UNION {part(k) : k \in 0..3}
  BY DEF StoredCrc
<1> HIDE DEF part
<1>5. StoredCrc(bytes, n) \in Words
  BY <1>3, <1>4 DEF Words
<1>6. ASSUME NEW k \in 0..3, NEW i \in Byte
      PROVE  8 * k + i \in StoredCrc(bytes, n) <=> i \in bytes[n - 4 + k]
  <2>1. ASSUME NEW j \in 0..3, 8 * k + i \in part(j)
        PROVE  j = k
    BY <1>3, <2>1 DEF Byte
  <2>2. 8 * k + i \in StoredCrc(bytes, n) <=> 8 * k + i \in part(k)
    BY <1>4, <2>1
  <2> QED
    BY <1>3, <2>2
<1> QED
  BY <1>5, <1>6

LEMMA BytesOfWords == \A b \in Ones : \E k \in 0..3, i \in Byte : b = 8 * k + i
<1> SUFFICES ASSUME NEW b \in Ones PROVE \E k \in 0..3, i \in Byte : b = 8 * k + i
  OBVIOUS
<1>1. CASE b < 8
  BY <1>1, b = 8 * 0 + b DEF Ones, Byte
<1>2. CASE 8 <= b /\ b < 16
  BY <1>2, b - 8 \in Byte, b = 8 * 1 + (b - 8) DEF Ones, Byte
<1>3. CASE 16 <= b /\ b < 24
  BY <1>3, b - 16 \in Byte, b = 8 * 2 + (b - 16) DEF Ones, Byte
<1>4. CASE 24 <= b
  BY <1>4, b - 24 \in Byte, b = 8 * 3 + (b - 24) DEF Ones, Byte
<1> QED
  BY <1>1, <1>2, <1>3, <1>4 DEF Ones

\* A frame as appendCrc32() leaves it.
Intact(frame) ==
    /\ frame.length \in Nat /\ frame.length >= 4
    /\ frame.data \in [0..frame.length - 1 -> SUBSET Byte]
    /\ verifyCrc32(frame.data, frame.length)

LEMMA AppendedIsIntact ==
  ASSUME NEW payload, payload.length \in Nat,
         payload.data \in [0..payload.length - 1 -> SUBSET Byte]
  PROVE  Intact(appendCrc32(payload))
<1> DEFINE n == payload.length
           old == payload.data
           crc == calculateCrc32(old, n, Ones)
           bytes == [i \in 0..n + 3 |-> IF i < n THEN old[i]
                                        ELSE ShiftRight(crc, 8 * (i - n)) \cap Byte]
<1>1. appendCrc32(payload).length = n + 4 /\ appendCrc32(payload).data = bytes
  BY DEF appendCrc32
<1>2. Ones \in Words /\ Bytes(old, n)
  BY DEF Words, Bytes
<1>3. crc \in Words
  BY <1>2, RegistersType, XorWord DEF calculateCrc32
<1> HIDE DEF crc
<1>4. bytes \in [0..n + 3 -> SUBSET Byte]
  BY DEF Bytes
<1>5. \A i \in 0..n - 1 : bytes[i] = old[i]
  OBVIOUS
<1>6. \A k \in 0..3 : bytes[n + k] = ShiftRight(crc, 8 * k) \cap Byte
  OBVIOUS
<1> HIDE DEF bytes
<1>7. calculateCrc32(bytes, n, Ones) = crc
  <2> DEFINE r == Registers(bytes, n, Ones)
             s == Registers(old, n, Ones)
  <2>1. r[0] = Ones /\ Runs(r, 0, bytes, n) /\ s[0] = Ones /\ Runs(s, 0, old, n)
    BY RegistersRun
  <2> HIDE DEF r, s
  <2>2. Runs(s, 0, bytes, n)
    BY <1>5, <2>1 DEF Runs
  <2>3. r[0 + n] = s[0 + n]
    BY <2>1, <2>2, LoopsAgree
  <2> QED
    BY <2>3 DEF calculateCrc32, crc, r, s
<1>8. StoredCrc(bytes, n + 4) = crc
  <2>1. Bytes(bytes, n + 4) /\ n + 4 \in Nat /\ n + 4 >= 4
    BY <1>4 DEF Bytes
  <2>2. /\ StoredCrc(bytes, n + 4) \in Words
        /\ \A k \in 0..3, i \in Byte :
             8 * k + i \in StoredCrc(bytes, n + 4) <=> i \in bytes[n + 4 - 4 + k]
    BY <2>1, StoredBits
  <2>3. ASSUME NEW k \in 0..3, NEW i \in Byte
        PROVE  8 * k + i \in StoredCrc(bytes, n + 4) <=> 8 * k + i \in crc
    <3>1. n + 4 - 4 + k = n + k /\ 8 * k \in Nat /\ i \in Int /\ i \in Nat
      BY DEF Byte
    <3>2. i \in ShiftRight(crc, 8 * k) <=> i + 8 * k \in crc
      BY <1>3, <3>1, ShiftBits
    <3>3. i + 8 * k = 8 * k + i
      BY <3>1
    <3> QED
      BY <1>6, <2>2, <3>1, <3>2, <3>3
  <2>4. \A b \in Ones : b \in StoredCrc(bytes, n + 4) <=> b \in crc
    BY <2>3, BytesOfWords
  <2> QED
    BY <1>3, <2>2, <2>4 DEF Words
<1>9. verifyCrc32(bytes, n + 4)
  <2>1. n + 4 >= 4 /\ n + 4 - 4 = n
    OBVIOUS
  <2> QED
    BY <1>7, <1>8, <2>1 DEF verifyCrc32
<1>10. n + 4 \in Nat /\ n + 4 >= 4 /\ n + 4 - 1 = n + 3
  OBVIOUS
<1> QED
  BY <1>1, <1>4, <1>9, <1>10 DEF Intact

-----------------------------------------------------------------------------
(* The channel. *)

LEMMA XorExchange ==
  ASSUME NEW t \in Words, NEW u \in Words, NEW v \in Words, NEW w \in Words
  PROVE  Xor(Xor(t, u), Xor(v, w)) = Xor(Xor(t, v), Xor(u, w))
<1>1. Xor(t, u) \in Words /\ Xor(v, w) \in Words /\ Xor(t, v) \in Words /\ Xor(u, w) \in Words
  BY XorWord
<1>2. Xor(Xor(t, u), Xor(v, w)) \in Words /\ Xor(Xor(t, v), Xor(u, w)) \in Words
  BY <1>1, XorWord
<1>3. ASSUME NEW b \in Ones
      PROVE  b \in Xor(Xor(t, u), Xor(v, w)) <=> b \in Xor(Xor(t, v), Xor(u, w))
  BY DEF Xor
<1> QED
  BY <1>2, <1>3 DEF Words

LEMMA XorAgain ==
  ASSUME NEW u \in Words, NEW w \in Words
  PROVE  Xor(u, Xor(u, w)) = w
  BY DEF Xor, Words

\* What the receiver computes differs from what the sender computed by the
\* division of the damage alone.
Difference(k) ==
    Xor(Registers(sent.data, sent.length - 4, Ones)[k],
        Registers(Arrived, sent.length - 4, Ones)[k])

LEMMA ArrivedBytes ==
  ASSUME Intact(sent), received = sent.length
  PROVE  /\ Bytes(Arrived, sent.length) /\ Bytes(sent.data, sent.length)
         /\ \A i \in 0..sent.length - 1 : Arrived[i] = Xor(sent.data[i], Errors(i))
<1>1. \A i \in 0..sent.length - 1 : Arrived[i] = Xor(sent.data[i], Errors(i))
  BY DEF Arrived
<1>2. \A i \in 0..sent.length - 1 : sent.data[i] \in SUBSET Byte /\ Errors(i) \in SUBSET Byte
  BY DEF Intact, Errors
<1>3. \A u, w \in SUBSET Byte : Xor(u, w) \in SUBSET Byte
  BY DEF Xor
<1> QED
  BY <1>1, <1>2, <1>3 DEF Bytes

LEMMA DifferenceLoop ==
  ASSUME Intact(sent), received = sent.length
  PROVE  /\ Difference(0) = {}
         /\ \A k \in 1..sent.length - 4 :
               /\ Difference(k - 1) \in Words
               /\ Difference(k) = Rounds(Xor(Difference(k - 1), Errors(k - 1)))
<1> DEFINE n == sent.length - 4
           r == Registers(sent.data, n, Ones)
           s == Registers(Arrived, n, Ones)
<1>1. n \in Nat /\ \A i \in 0..n - 1 : i \in 0..sent.length - 1
  BY DEF Intact
<1>2. Bytes(Arrived, n) /\ Bytes(sent.data, n) /\ Ones \in Words
  BY <1>1, ArrivedBytes DEF Bytes, Words
<1>3. \A k \in 0..n : r[k] \in Words /\ s[k] \in Words
  BY <1>1, <1>2, RegistersType
<1>4. /\ r[0] = Ones /\ s[0] = Ones
      /\ \A k \in 1..n : r[k] = Update(r[k - 1], sent.data[k - 1])
      /\ \A k \in 1..n : s[k] = Update(s[k - 1], Arrived[k - 1])
  <2>1. r[0] = Ones /\ \A k \in 1..n : r[k] = Update(r[k - 1], sent.data[k - 1])
    BY <1>1, RegistersLoop
  <2>2. s[0] = Ones /\ \A k \in 1..n : s[k] = Update(s[k - 1], Arrived[k - 1])
    BY <1>1, RegistersLoop
  <2> HIDE DEF r, s, n
  <2> QED
    BY <2>1, <2>2
<1>5. \A k : Difference(k) = Xor(r[k], s[k])
  BY DEF Difference
<1> HIDE DEF r, s
<1>6. Difference(0) = {}
  BY <1>4, <1>5 DEF Xor
<1>7. ASSUME NEW k \in 1..n
      PROVE  /\ Difference(k - 1) \in Words
             /\ Difference(k) = Rounds(Xor(Difference(k - 1), Errors(k - 1)))
  <2> DEFINE a == r[k - 1]
             b == s[k - 1]
             v == sent.data[k - 1]
             e == Errors(k - 1)
  <2>1. k - 1 \in 0..n /\ k - 1 \in 0..n - 1 /\ k - 1 \in 0..sent.length - 1
    BY <1>1
  <2>2. a \in Words /\ b \in Words
    BY <1>3, <2>1
  <2>3. v \in SUBSET Byte /\ e \in SUBSET Byte /\ Arrived[k - 1] = Xor(v, e)
        /\ Xor(v, e) \in SUBSET Byte
    BY <1>2, <2>1, ArrivedBytes DEF Bytes, Errors
  <2>4. SUBSET Byte \subseteq Words
    BY DEF Words, Byte, Ones
  <2>5. r[k] = Update(a, v) /\ s[k] = Update(b, Xor(v, e))
    BY <1>4, <2>3
  <2>6. Difference(k - 1) = Xor(a, b) /\ Difference(k) = Xor(r[k], s[k])
    BY <1>5
  <2> HIDE DEF a, b, v, e
  <2>7. r[k] = Rounds(Xor(a, v)) /\ s[k] = Rounds(Xor(b, Xor(v, e)))
    BY <2>2, <2>3, <2>5, UpdateRounds
  <2>8. Xor(a, v) \in Words /\ Xor(b, Xor(v, e)) \in Words /\ Xor(a, b) \in Words
    BY <2>2, <2>3, <2>4, XorWord
  <2>9. Xor(r[k], s[k]) = Rounds(Xor(Xor(a, v), Xor(b, Xor(v, e))))
    BY <2>7, <2>8, RoundsLinear
  <2>10. Xor(Xor(a, v), Xor(b, Xor(v, e))) = Xor(Xor(a, b), Xor(v, Xor(v, e)))
    BY <2>2, <2>3, <2>4, XorExchange
  <2>11. Xor(v, Xor(v, e)) = e
    BY <2>3, <2>4, XorAgain
  <2> QED
    BY <2>6, <2>8, <2>9, <2>10, <2>11 DEF e
<1> QED
  BY <1>6, <1>7

\* A burst of at most 32 bits leaves the registers different.
LEMMA BurstShows ==
  ASSUME Intact(sent), received = sent.length,
         NEW first \in flipped, flipped \subseteq Nat,
         \A c \in flipped : first <= c /\ c <= first + 31
  PROVE  \A k \in 0..sent.length - 4 :
           IF 8 * k <= first THEN Difference(k) = {} ELSE Shows(Difference(k), 8 * k - first)
<1> DEFINE P(k) == IF 8 * k <= first THEN Difference(k) = {}
                                     ELSE Shows(Difference(k), 8 * k - first)
           n == sent.length - 4
           T == {k \in 0..n : P(k)}
<1>0. n \in Nat /\ first \in Nat
  BY DEF Intact
<1>1. 0 \in T
  <2>1. Difference(0) = {} /\ 8 * 0 <= first /\ 0 \in 0..n
    BY <1>0, DifferenceLoop
  <2> QED
    BY <2>1
<1>2. \A k \in 1..n : k - 1 \in T => k \in T
  <2> SUFFICES ASSUME NEW k \in 1..n, P(k - 1) PROVE P(k)
    OBVIOUS
  <2> DEFINE d == Difference(k - 1)
             e == Errors(k - 1)
             j == 8 * (k - 1) - first
             mixed == Xor(d, e)
  <2>1. /\ d \in Words /\ Difference(k) = Rounds(mixed)
        /\ e = {b \in Byte : 8 * (k - 1) + b \in flipped}
    BY DifferenceLoop DEF Errors
  <2>2. j \in Int /\ j + 8 = 8 * k - first
    BY <1>0
  <2>3. IF j <= 0 THEN d = {} ELSE Shows(d, j)
    BY <1>0
  <2> HIDE DEF d, mixed
  <2>4. e \in Words
    BY <2>1 DEF Words, Byte, Ones
  <2>5. mixed \in Words
    BY <2>1, <2>4, XorWord DEF mixed
  <2>6. CASE j <= -8
    <3>1. e = {}
      BY <1>0, <2>1, <2>6 DEF Byte
    <3>2. mixed = {}
      BY <2>3, <2>6, <3>1 DEF mixed, Xor
    <3>3. Rounds({}) = {}
      <4>1. Round({}) = {}
        BY DEF Round, Xor, ShiftRight
      <4> QED
        BY <4>1 DEF Rounds
    <3> QED
      BY <1>0, <2>1, <2>2, <2>6, <3>2, <3>3
  <2>7. CASE -8 < j /\ j <= 0
    <3>1. mixed = e
      BY <2>3, <2>7 DEF mixed, Xor
    <3>2. -j \in e /\ \A b \in e : b >= -j
      BY <1>0, <2>1, <2>7 DEF Byte
    <3>3. Shows(mixed, j)
      BY <2>7, <3>1, <3>2 DEF Shows
    <3>4. Shows(Rounds(mixed), j + 8)
      BY <2>2, <2>5, <2>7, <3>3, RoundsShow
    <3> QED
      BY <1>0, <2>1, <2>2, <2>7, <3>4
  <2>8. CASE j > 0
    <3>1. PICK b \in d : b + j >= 32
      BY <2>3, <2>8 DEF Shows
    <3>2. b \notin e
      BY <1>0, <2>1, <2>8, <3>1 DEF Byte
    <3>3. b \in mixed
      BY <3>1, <3>2 DEF mixed, Xor
    <3>4. Shows(mixed, j)
      BY <2>8, <3>1, <3>3 DEF Shows
    <3>5. Shows(Rounds(mixed), j + 8)
      BY <2>2, <2>5, <2>8, <3>4, RoundsShow
    <3> QED
      BY <1>0, <2>1, <2>2, <2>8, <3>5
  <2> QED
    BY <2>2, <2>6, <2>7, <2>8
<1>3. 0..n \subseteq T
  <2> HIDE DEF T
  <2> QED
    BY <1>0, <1>1, <1>2, Induction
<1> QED
  BY <1>3

LEMMA BurstIsRejected ==
  ASSUME Intact(sent), received = sent.length, NEW first \in flipped,
         flipped \subseteq 0..8 * sent.length - 1,
         \A c \in flipped : first <= c /\ c <= first + 31
  PROVE  ~verifyCrc32(Arrived, received)
<1> DEFINE n == sent.length - 4
           r == Registers(sent.data, n, Ones)[n]
           s == Registers(Arrived, n, Ones)[n]
           old == StoredCrc(sent.data, sent.length)
           new == StoredCrc(Arrived, sent.length)
           e == {b \in Ones : 8 * n + b \in flipped}
<1>0. n \in Nat /\ sent.length \in Nat /\ sent.length >= 4 /\ n + 4 = sent.length
      /\ first \in Nat /\ flipped \subseteq Nat
  BY DEF Intact
<1>1. Bytes(Arrived, sent.length) /\ Bytes(sent.data, sent.length)
  BY ArrivedBytes
<1>2. r \in Words /\ s \in Words
  <2>1. Bytes(Arrived, n) /\ Bytes(sent.data, n) /\ Ones \in Words /\ n \in 0..n
    BY <1>0, <1>1 DEF Bytes, Words
  <2> QED
    BY <1>0, <2>1, RegistersType
<1>3. old \in Words /\ new \in Words /\ e \in Words
  BY <1>0, <1>1, StoredBits DEF Words
<1>4. new = Xor(old, e)
  <2>1. ASSUME NEW k \in 0..3, NEW i \in Byte
        PROVE  8 * k + i \in new <=> ((8 * k + i \in old) # (8 * k + i \in e))
    <3>1. /\ 8 * k + i \in new <=> i \in Arrived[sent.length - 4 + k]
          /\ 8 * k + i \in old <=> i \in sent.data[sent.length - 4 + k]
      BY <1>0, <1>1, StoredBits
    <3>2. n + k \in 0..sent.length - 1 /\ sent.length - 4 + k = n + k
          /\ 8 * (n + k) + i = 8 * n + (8 * k + i) /\ 8 * k + i \in Ones
      BY <1>0 DEF Byte, Ones
    <3>3. Arrived[n + k] = Xor(sent.data[n + k], Errors(n + k))
      BY <3>2, ArrivedBytes
    <3>4. i \in Errors(n + k) <=> 8 * k + i \in e
      BY <3>2 DEF Errors
    <3> HIDE DEF e, new, old, n
    <3> QED
      BY <3>1, <3>2, <3>3, <3>4 DEF Xor
  <2> HIDE DEF e, new, old, n
  <2>2. \A b \in Ones : b \in new <=> b \in Xor(old, e)
    <3>1. \A b \in Ones : b \in new <=> ((b \in old) # (b \in e))
      BY <2>1, BytesOfWords
    <3> QED
      BY <3>1 DEF Xor
  <2>3. Xor(old, e) \in Words
    BY <1>3, XorWord
  <2> QED
    BY <1>3, <2>2, <2>3 DEF Words
<1>5. Difference(n) # e
  <2>1. IF 8 * n <= first THEN Difference(n) = {} ELSE Shows(Difference(n), 8 * n - first)
    BY <1>0, BurstShows
  <2>2. CASE 8 * n <= first
    <3>1. first - 8 * n \in e
      <4>1. first - 8 * n \in Ones
        BY <1>0, <2>2 DEF Ones
      <4>2. 8 * n + (first - 8 * n) = first
        BY <1>0
      <4> QED
        BY <4>1, <4>2
    <3> QED
      BY <2>1, <2>2, <3>1
  <2>3. CASE ~(8 * n <= first)
    <3>1. PICK b \in Difference(n) : b + (8 * n - first) >= 32
      BY <1>0, <2>1, <2>3 DEF Shows
    <3>2. b \notin e
      BY <1>0, <3>1 DEF Ones
    <3> QED
      BY <3>1, <3>2
  <2> QED
    BY <2>2, <2>3
<1>6. Difference(n) = Xor(r, s)
  BY DEF Difference
<1>7. Xor(r, Ones) = old
  BY DEF Intact, verifyCrc32, calculateCrc32
<1>8. verifyCrc32(Arrived, received) => Xor(s, Ones) = new
  BY DEF verifyCrc32, calculateCrc32
<1> HIDE DEF r, s, old, new, e, n
<1>9. ASSUME Xor(s, Ones) = Xor(Xor(r, Ones), e)
      PROVE  Xor(r, s) = e
  <2>1. \A b \in Ones : b \in Xor(s, Ones) <=> b \in Xor(Xor(r, Ones), e)
    BY <1>9
  <2>2. \A b \in Ones : b \in Xor(r, s) <=> b \in e
    BY <2>1 DEF Xor
  <2> QED
    BY <1>2, <1>3, <2>2, XorWord DEF Words
<1> QED
  BY <1>4, <1>5, <1>6, <1>7, <1>8, <1>9

LEMMA IntactIsAccepted ==
  ASSUME Intact(sent), received = sent.length, flipped = {}
  PROVE  Arrived = sent.data /\ verifyCrc32(Arrived, received)
<1>1. \A i \in 0..received - 1 : Xor(sent.data[i], Errors(i)) = sent.data[i]
  BY DEF Xor, Errors, Intact
<1>2. Arrived = sent.data
  BY <1>1 DEF Arrived, Intact
<1> QED
  BY <1>2 DEF Intact

-----------------------------------------------------------------------------

\* The inductive invariant: what is sent is intact, only its checksum can be cut
\* off, and a channel that starts no second error before the first is 32 bits
\* old leaves all damage within 32 bits.
FrameInv ==
    /\ Intact(sent)
    /\ received = sent.length \/ (received \in 0..3 /\ flipped = {})
    /\ flipped \subseteq 0..8 * sent.length - 1 /\ IsFiniteSet(flipped)
    /\ \A c, d \in flipped : d <= c + 31

LEMMA FrameStep ==
  ASSUME FrameInv, [FrameNext]_frameVars, MaxFlips <= 1, Burst <= 32
  PROVE  FrameInv'
<1>1. CASE \E b \in 0..8 * received - 1 : Flip(b)
  <2>1. PICK b \in 0..8 * received - 1 : Flip(b)
    BY <1>1
  <2>2. received = sent.length /\ flipped' = flipped \cup {b} /\ UNCHANGED <<sent, received>>
    BY <2>1 DEF Flip
  <2>3. flipped' \subseteq 0..8 * sent.length - 1 /\ IsFiniteSet(flipped')
    BY <2>1, <2>2, FS_AddElement DEF FrameInv
  <2>4. b \in Nat /\ flipped \subseteq Nat
    BY <2>1, <2>2 DEF FrameInv, Intact
  <2>5. \A c \in flipped : c < b /\ b <= c + 31
    <3>1. CASE Cardinality(flipped) < MaxFlips
      <4>1. Cardinality(flipped) \in Nat
        BY FS_CardinalityType DEF FrameInv
      <4>2. Cardinality(flipped) = 0
        BY <3>1, <4>1, ChannelAssumption
      <4>3. flipped = {}
        BY <4>2, FS_EmptySet DEF FrameInv
      <4> QED
        BY <4>3
    <3>2. CASE \A c \in flipped : b - c < Burst
      BY <2>1, <2>4, <3>2, ChannelAssumption DEF Flip
    <3> QED
      BY <2>1, <3>1, <3>2 DEF Flip
  <2>6. \A c, d \in flipped' : d <= c + 31
    BY <2>2, <2>4, <2>5 DEF FrameInv
  <2> QED
    BY <2>2, <2>3, <2>6 DEF FrameInv, Intact
<1>2. CASE \E n \in 0..3 : Truncate(n)
  BY <1>2 DEF Truncate, FrameInv, Intact
<1>3. CASE Receive \/ UNCHANGED frameVars
  BY <1>3 DEF Receive, frameVars, FrameInv, Intact
<1> QED
  BY <1>1, <1>2, <1>3 DEF FrameNext

LEMMA FrameStarts == FrameInit => FrameInv
<1> SUFFICES ASSUME FrameInit PROVE FrameInv
  OBVIOUS
<1>1. Intact(sent)
  BY AppendedIsIntact, ChannelAssumption DEF FrameInit
<1> QED
  BY <1>1, FS_EmptySet DEF FrameInit, FrameInv

LEMMA VerdictIsRight ==
  ASSUME FrameInv
  PROVE  verifyCrc32(Arrived, received) <=> flipped = {} /\ received >= 4
<1>0. sent.length \in Nat /\ sent.length >= 4
  BY DEF FrameInv, Intact
<1>1. CASE received \in 0..3
  BY <1>1 DEF verifyCrc32
<1>2. CASE received = sent.length /\ flipped = {}
  BY <1>0, <1>2, IntactIsAccepted DEF FrameInv
<1>3. CASE received = sent.length /\ flipped # {}
  <2>1. flipped \subseteq Nat
    BY <1>0 DEF FrameInv
  <2>2. PICK first \in flipped : \A c \in flipped : first <= c
    BY <1>3, <2>1, Minimum
  <2> QED
    BY <1>3, <2>2, BurstIsRejected DEF FrameInv
<1> QED
  BY <1>1, <1>2, <1>3 DEF FrameInv

\* For payloads of every length: a frame is accepted when nothing is damaged, and
\* rejected when a burst of up to 32 bits hits it anywhere, or its checksum is
\* cut off.
THEOREM BurstsAreNoticed ==
  ASSUME MaxFlips <= 1, Burst <= 32
  PROVE  FrameSpec => []DamageIsNoticed
<1>1. FrameInit => DamageIsNoticed
  BY DEF FrameInit, DamageIsNoticed
<1>2. FrameInv /\ DamageIsNoticed /\ [FrameNext]_frameVars => DamageIsNoticed'
  <2> SUFFICES ASSUME FrameInv, DamageIsNoticed, [FrameNext]_frameVars
               PROVE  DamageIsNoticed'
    OBVIOUS
  <2>1. CASE Receive
    BY <2>1, VerdictIsRight DEF Receive, DamageIsNoticed
  <2>2. CASE \E b \in 0..8 * received - 1 : Flip(b)
    BY <2>2 DEF Flip, DamageIsNoticed
  <2>3. CASE \E n \in 0..3 : Truncate(n)
    BY <2>3 DEF Truncate, DamageIsNoticed
  <2>4. CASE UNCHANGED frameVars
    BY <2>4 DEF frameVars, DamageIsNoticed
  <2> QED
    BY <2>1, <2>2, <2>3, <2>4 DEF FrameNext
<1> QED
  BY <1>1, <1>2, FrameStarts, FrameStep, PTL DEF FrameSpec

\* For payloads of every length, divided anywhere, whatever the channel does.
THEOREM ChecksumsChain == FrameSpec => []ChainingComplements
<1> DEFINE I == Intact(sent) /\ (flipped = {} => received \in 0..sent.length)
<1>1. FrameInit => I
  BY FrameStarts DEF FrameInv, FrameInit, Intact
<1>2. I /\ [FrameNext]_frameVars => I'
  BY DEF FrameNext, Flip, Truncate, Receive, frameVars, Intact
<1>3. I => ChainingComplements
  <2> SUFFICES ASSUME I, flipped = {}, NEW k \in 0..received
               PROVE  calculateCrc32(Rest(sent.data, k, received), received - k,
                                     Xor(calculateCrc32(sent.data, k, Ones), Ones))
                        = calculateCrc32(sent.data, received, Ones)
    BY DEF ChainingComplements
  <2>1. received \in Nat /\ Bytes(sent.data, received)
    BY DEF Intact, Bytes
  <2> QED
    BY <2>1, Chaining
<1> QED
  BY <1>1, <1>2, <1>3, PTL DEF FrameSpec

-----------------------------------------------------------------------------
(* FixedBuffer. *)

LEMMA Below ==
  ASSUME NEW m \in Nat, NEW n \in 0..m
  PROVE  \A i \in 0..n - 1 : i \in 0..m - 1
  OBVIOUS

USE BufferAssumption

LEMMA ClippedCount ==
  ASSUME NEW n \in Nat
  PROVE  /\ Clipped(n, Capacity) \in 0..Capacity /\ Clipped(n, Capacity) <= n
         /\ Clipped(n, Capacity) \in {n, Capacity}
  BY DEF Clipped

LEMMA TypeStep ==
  ASSUME BufferTypeOK, [BufferNext]_bufferVars
  PROVE  BufferTypeOK'
<1> USE DEF BufferTypeOK
<1>1. CASE \E v \in Values : push_back(v)
  BY <1>1 DEF push_back
<1>2. CASE pop_back
  BY <1>2 DEF pop_back
<1>3. CASE clear
  BY <1>3 DEF clear
<1>4. CASE \E n \in Counts : resize(n)
  BY <1>4 DEF resize
<1>5. CASE \E src \in Sources, n \in Counts : assign(src, n)
  <2>1. PICK src \in Sources, n \in Counts : assign(src, n)
    BY <1>5
  <2>2. \A i \in 0..Capacity - 1 : i < Clipped(n, Capacity) => src[i] \in Values
    <3>1. \A i \in 0..n - 1 : src[i] \in Values
      OBVIOUS
    <3> QED
      BY <3>1, ClippedCount
  <2> QED
    BY <2>1, <2>2, ClippedCount DEF assign
<1>6. CASE UNCHANGED bufferVars
  BY <1>6 DEF bufferVars
<1> QED
  BY <1>1, <1>2, <1>3, <1>4, <1>5, <1>6 DEF BufferNext

\* No sequence of calls moves the size beyond the array or stores anything
\* but elements in it.
THEOREM BufferTypeCorrect == BufferSpec => []BufferTypeOK
<1>1. BufferInit => BufferTypeOK
  BY DEF BufferInit, BufferTypeOK
<1> QED
  BY <1>1, TypeStep, PTL DEF BufferSpec

\* What a step that keeps the first k elements means for the sequence.
LEMMA ContentsBecome ==
  ASSUME BufferTypeOK, BufferTypeOK', NEW k \in 0..size,
         \A i \in 0..size' - 1 : i < k => data'[i] = data[i]
  PROVE  Promised!Becomes(size', k)
<1>1. Contents' \in [0..size' - 1 -> Values]
  <2>1. size' \in 0..Capacity /\ data' \in [0..Capacity - 1 -> Values]
    BY DEF BufferTypeOK
  <2>2. \A i \in 0..size' - 1 : i \in 0..Capacity - 1
    BY <2>1, Below
  <2>3. \A i \in 0..size' - 1 : data'[i] \in Values
    BY <2>1, <2>2
  <2> QED
    BY <2>3 DEF Contents
<1>2. \A i \in 0..size' - 1 : Contents'[i] = data'[i]
  BY DEF Contents, BufferTypeOK
<1>3. \A i \in 0..size - 1 : Contents[i] = data[i]
  BY DEF Contents, BufferTypeOK
<1>4. \A i \in 0..size' - 1 : i < k => i \in 0..size - 1
  BY DEF BufferTypeOK
<1> QED
  BY <1>1, <1>2, <1>3, <1>4 DEF Promised!Becomes

LEMMA PushImplements ==
  ASSUME BufferTypeOK, BufferTypeOK', NEW v \in Values, push_back(v)
  PROVE  Promised!PushBack(v)
<1>1. CASE size >= Capacity
  BY <1>1 DEF push_back, Promised!PushBack, Promised!Refused, BufferTypeOK, Contents
<1>2. CASE size < Capacity
  <2>1. /\ answer' = 1 /\ size' = size + 1 /\ data'[size] = v
        /\ \A i \in 0..size' - 1 : i < size => data'[i] = data[i]
    <3>1. answer' = 1 /\ size' = size + 1 /\ data' = [data EXCEPT ![size] = v]
      BY <1>2 DEF push_back, BufferTypeOK
    <3>2. size \in DOMAIN data /\ DOMAIN data = 0..Capacity - 1
      BY <1>2 DEF BufferTypeOK
    <3>3. \A i \in 0..size' - 1 : i \in DOMAIN data
      BY <1>2, <3>1, <3>2 DEF BufferTypeOK
    <3> QED
      BY <3>1, <3>2, <3>3 DEF BufferTypeOK
  <2>2. Promised!Becomes(size + 1, size)
    BY <2>1, ContentsBecome DEF BufferTypeOK
  <2>3. Contents'[size] = v
    BY <2>1 DEF Contents, BufferTypeOK
  <2> QED
    BY <1>2, <2>1, <2>2, <2>3 DEF Promised!PushBack
<1> QED
  BY <1>1, <1>2 DEF BufferTypeOK

LEMMA PopImplements ==
  ASSUME BufferTypeOK, BufferTypeOK', pop_back
  PROVE  Promised!PopBack
<1>1. CASE size = 0
  BY <1>1 DEF pop_back, Promised!PopBack, Promised!Refused, Contents
<1>2. CASE size # 0
  <2>1. answer' = 1 /\ size' = size - 1 /\ data' = data
    BY <1>2 DEF pop_back
  <2>2. size \in 0..size
    BY DEF BufferTypeOK
  <2>3. Promised!Becomes(size - 1, size)
    BY <2>1, <2>2, ContentsBecome
  <2> QED
    BY <1>2, <2>1, <2>3 DEF Promised!PopBack, BufferTypeOK
<1> QED
  BY <1>1, <1>2

LEMMA ClearImplements ==
  ASSUME BufferTypeOK, BufferTypeOK', clear
  PROVE  Promised!Clear
<1>1. size' = 0 /\ data' = data /\ answer' = answer
  BY DEF clear
<1>2. 0 \in 0..size
  BY DEF BufferTypeOK
<1>3. Promised!Becomes(size', 0)
  BY <1>1, <1>2, ContentsBecome
<1> QED
  BY <1>1, <1>3 DEF Promised!Clear

LEMMA ResizeImplements ==
  ASSUME BufferTypeOK, BufferTypeOK', NEW n \in Counts, resize(n)
  PROVE  Promised!Resize(n)
<1>1. CASE n > Capacity
  BY <1>1 DEF resize, Promised!Resize, Promised!Refused, Contents
<1>2. CASE n <= Capacity
  <2>1. answer' = 1 /\ size' = n /\ data' = data
    BY <1>2 DEF resize
  <2>2. size \in 0..size
    BY DEF BufferTypeOK
  <2>3. Promised!Becomes(n, size)
    BY <2>1, <2>2, ContentsBecome
  <2> QED
    BY <1>2, <2>1, <2>3 DEF Promised!Resize
<1> QED
  BY <1>1, <1>2

LEMMA AssignImplements ==
  ASSUME BufferTypeOK, BufferTypeOK', NEW src \in Sources, NEW n \in Counts, assign(src, n)
  PROVE  Promised!Assign(src, n)
<1> DEFINE k == Clipped(n, Capacity)
<1>1. k \in 0..Capacity /\ k <= n /\ k \in {n, Capacity}
  BY ClippedCount
<1>2. /\ answer' = k /\ size' = k
      /\ data' = [i \in DOMAIN data |-> IF i < k THEN src[i] ELSE data[i]]
  BY DEF assign
<1> HIDE DEF k
<1>3. \A i \in 0..size' - 1 : data'[i] = src[i]
  BY <1>1, <1>2 DEF BufferTypeOK
<1>4. \A i \in 0..size' - 1 : Contents'[i] = src[i]
  BY <1>3 DEF Contents
<1>5. 0 \in 0..size /\ \A i \in 0..size' - 1 : ~(i < 0)
  BY <1>1, <1>2 DEF BufferTypeOK
<1>6. Promised!Becomes(size', 0)
  BY <1>5, ContentsBecome
<1> QED
  BY <1>1, <1>2, <1>4, <1>6 DEF Promised!Assign

\* Every call of the fixed buffer is the corresponding one of a bounded
\* sequence: a refused call changes nothing, assign() copies what fits, and
\* resize() keeps the elements it does not add.
THEOREM BufferImplementsSequence == BufferSpec => ImplementsSequence
<1>1. BufferInit => Promised!Init
  BY DEF BufferInit, Promised!Init, Contents
<1>2. BufferTypeOK /\ BufferTypeOK' /\ [BufferNext]_bufferVars
        => [Promised!Next]_Promised!vars
  <2> SUFFICES ASSUME BufferTypeOK, BufferTypeOK', [BufferNext]_bufferVars
               PROVE  [Promised!Next]_Promised!vars
    OBVIOUS
  <2>1. CASE UNCHANGED bufferVars
    BY <2>1 DEF bufferVars, Contents, Promised!vars
  <2> QED
    BY <2>1, PushImplements, PopImplements, ClearImplements, ResizeImplements,
       AssignImplements DEF BufferNext, Promised!Next
<1> QED
  BY <1>1, <1>2, BufferTypeCorrect, PTL DEF BufferSpec, ImplementsSequence, Promised!Spec

HIDE BufferAssumption

-----------------------------------------------------------------------------
(* SafeMath. *)

USE IntegerAssumption

\* A quotient of naturals is the last multiple that fits.
LEMMA QuotientBounds ==
  ASSUME NEW m \in Nat, NEW d \in Nat \ {0}
  PROVE  /\ m \div d \in Nat
         /\ d * (m \div d) <= m /\ m < d * (m \div d) + d
  OBVIOUS

LEMMA ProductFits ==
  ASSUME NEW m \in Nat, NEW p \in Nat \ {0}, NEW q \in Nat \ {0}
  PROVE  p > m \div q <=> p * q > m
<1> DEFINE r == m \div q
<1>1. r \in Nat /\ q * r <= m /\ m < q * r + q
  BY QuotientBounds
<1> HIDE DEF r
<1>2. CASE p > r
  <2>1. PICK k \in Nat : p = r + 1 + k
    <3>1. p - r - 1 \in Nat
      BY <1>1, <1>2
    <3> QED
      BY <1>1, <3>1
  <2>2. p * q = q * r + q + k * q
    BY <1>1, <2>1
  <2>3. k * q \in Nat
    BY <2>1
  <2> QED
    BY <1>1, <1>2, <2>2, <2>3 DEF r
<1>3. CASE p <= r
  <2>1. PICK k \in Nat : r = p + k
    <3>1. r - p \in Nat
      BY <1>1, <1>3
    <3> QED
      BY <1>1, <3>1
  <2>2. q * r = p * q + k * q
    BY <1>1, <2>1
  <2>3. k * q \in Nat /\ p * q \in Nat /\ q * r \in Nat
    BY <1>1, <2>1
  <2>4. ~(p * q > m)
    BY <1>1, <2>2, <2>3
  <2> QED
    BY <1>1, <1>3, <2>4 DEF r
<1> QED
  BY <1>1, <1>2, <1>3

LEMMA QuotientShrinks ==
  ASSUME NEW m \in Nat, NEW d \in Nat \ {0}
  PROVE  /\ m \div d \in Nat /\ m \div d <= m
         /\ d = 1 => m \div d = m
         /\ d # 1 /\ m # 0 => m \div d < m
<1> DEFINE r == m \div d
<1>1. r \in Nat /\ d * r <= m /\ m < d * r + d
  BY QuotientBounds
<1> HIDE DEF r
<1>2. PICK k \in Nat : d = 1 + k
  <2>1. d - 1 \in Nat
    OBVIOUS
  <2> QED
    BY <2>1
<1>3. d * r = r + k * r /\ k * r \in Nat
  BY <1>1, <1>2
<1>4. k # 0 /\ r # 0 => k * r > 0
  BY <1>1
<1>5. k = 0 => k * r = 0
  BY <1>1
<1> QED
  BY <1>1, <1>2, <1>3, <1>4, <1>5 DEF r

\* safeAdd() and safeSub() succeed exactly when the result fits, and return it.
THEOREM SumsFit ==
  ASSUME x \in Word, y \in Word
  PROVE  SumsAreExact
  BY DEF SumsAreExact, Word, Signed, safeAdd, safeSub, AddOverflows, SubOverflows,
         Representable, Intermediates

\* The test of safeMul() tells whether the product leaves the type.
LEMMA MulTest ==
  ASSUME NEW a \in Word \ {0}, NEW b \in Word \ {0}
  PROVE  MulOverflows(a, b) <=> a * b \notin Word
<1>1. CASE a > 0 /\ b > 0
  <2>1. a > MaxInt \div b <=> a * b > MaxInt
    BY <1>1, ProductFits DEF Word
  <2>2. a * b \in Nat /\ Quotient(MaxInt, b) = MaxInt \div b
    BY <1>1 DEF Quotient, Abs, Word
  <2> QED
    BY <1>1, <2>1, <2>2 DEF MulOverflows, Word
<1>2. CASE a < 0 /\ b < 0
  <2>1. -a \in Nat \ {0} /\ -b \in Nat \ {0}
    BY <1>2 DEF Word
  <2>2. (-b) > MaxInt \div (-a) <=> (-b) * (-a) > MaxInt
    BY <2>1, ProductFits
  <2>3. (-b) * (-a) = a * b /\ (-b) * (-a) \in Nat
    BY <2>1 DEF Word
  <2>4. Quotient(MaxInt, a) = -(MaxInt \div (-a)) /\ MaxInt \div (-a) \in Nat
    BY <1>2, <2>1, QuotientBounds DEF Quotient, Abs, Word
  <2> QED
    BY <1>2, <2>1, <2>2, <2>3, <2>4 DEF MulOverflows, Word
<1>3. CASE a < 0 /\ b > 0
  <2>1. -a \in Nat \ {0} /\ b \in Nat \ {0} /\ -MinInt \in Nat /\ MinInt < 0
    BY <1>3 DEF Word
  <2>2. (-a) > (-MinInt) \div b <=> (-a) * b > -MinInt
    BY <2>1, ProductFits
  <2>3. (-a) * b = -(a * b) /\ a * b \in Int /\ (-a) * b \in Nat
    BY <2>1 DEF Word
  <2>4. Quotient(MinInt, b) = -((-MinInt) \div b) /\ (-MinInt) \div b \in Nat
    BY <1>3, <2>1, QuotientBounds DEF Quotient, Abs, Word
  <2> QED
    BY <1>3, <2>1, <2>2, <2>3, <2>4 DEF MulOverflows, Word
<1>4. CASE a > 0 /\ b < 0
  <2>1. -b \in Nat \ {0} /\ a \in Nat \ {0} /\ -MinInt \in Nat /\ MinInt < 0
    BY <1>4 DEF Word
  <2>2. (-b) > (-MinInt) \div a <=> (-b) * a > -MinInt
    BY <2>1, ProductFits
  <2>3. (-b) * a = -(a * b) /\ a * b \in Int /\ (-b) * a \in Nat
    BY <2>1 DEF Word
  <2>4. Quotient(MinInt, a) = -((-MinInt) \div a) /\ (-MinInt) \div a \in Nat
    BY <1>4, <2>1, QuotientBounds DEF Quotient, Abs, Word
  <2> QED
    BY <1>4, <2>1, <2>2, <2>3, <2>4 DEF MulOverflows, Word
<1> QED
  BY <1>1, <1>2, <1>3, <1>4 DEF Word

\* The only quotient that does not fit is the one safeDiv() refuses.
LEMMA DivTest ==
  ASSUME NEW a \in Word, NEW b \in Word \ {0}
  PROVE  Quotient(a, b) \notin Word <=> Signed /\ a = MinInt /\ b = -1
<1>1. Abs(a) \in Nat /\ Abs(b) \in Nat \ {0}
  BY DEF Abs, Word
<1> DEFINE q == Abs(a) \div Abs(b)
<1>2. /\ q \in Nat /\ q <= Abs(a)
      /\ Abs(b) = 1 => q = Abs(a)
      /\ Abs(b) # 1 /\ Abs(a) # 0 => q < Abs(a)
  BY <1>1, QuotientShrinks
<1>3. Quotient(a, b) = IF (a < 0) = (b < 0) THEN q ELSE -q
  BY DEF Quotient
<1> HIDE DEF q
<1> QED
  BY <1>2, <1>3 DEF Abs, Word, Signed

\* safeMul() and safeDiv() succeed exactly when the result fits, and return it.
THEOREM ProductsFit ==
  ASSUME x \in Word, y \in Word
  PROVE  ProductsAreExact
<1>1. x = 0 \/ y = 0 => x * y = 0
  BY DEF Word
<1>2. x # 0 /\ y # 0 => (MulOverflows(x, y) <=> x * y \notin Word)
  BY MulTest
<1>3. y # 0 => (Quotient(x, y) \notin Word <=> Signed /\ x = MinInt /\ y = -1)
  BY DivTest
<1>4. 0 \in Word
  BY DEF Word
<1> QED
  BY <1>1, <1>2, <1>3, <1>4 DEF ProductsAreExact, safeMul, safeDiv, Representable

\* The checked arithmetic is exact for all operands of every integer type.
THEOREM ArithmeticCorrect ==
  ASSUME x \in Word, y \in Word
  PROVE  ArithmeticIsExact
  BY SumsFit, ProductsFit DEF ArithmeticIsExact
=============================================================================
