------------------------------ MODULE SafeMath ------------------------------
(***************************************************************************)
(* The overflow-checked arithmetic of do178c.hpp, for a C++ integer type   *)
(* with the values MinInt..MaxInt: each function tests with arithmetic of  *)
(* the same type whether the operation it is about to do would overflow.   *)
(*                                                                         *)
(* A function is the set of results it may leave: the value it stores, or  *)
(* nothing when it returns false.                                          *)
(***************************************************************************)
EXTENDS Integers

CONSTANTS MinInt, MaxInt

ASSUME IntegerAssumption ==
    /\ MinInt \in Int /\ MaxInt \in Int
    /\ MaxInt > 0 /\ MinInt \in {0, -MaxInt - 1}

Word == MinInt..MaxInt
Signed == MinInt < 0

Abs(a) == IF a < 0 THEN -a ELSE a

\* C++ division rounds towards zero.
Quotient(a, b) ==
    IF (a < 0) = (b < 0) THEN Abs(a) \div Abs(b) ELSE -(Abs(a) \div Abs(b))

-----------------------------------------------------------------------------
(* The tests of the functions, and what they store. *)

\* Mutant: refuses the largest value.
BugAddOverflows(a, b) ==
    (b > 0 /\ a >= MaxInt - b) \/ (b < 0 /\ a < MinInt - b)

AddOverflows(a, b) ==
    \/ Signed /\ b > 0 /\ a > MaxInt - b
    \/ Signed /\ b < 0 /\ a < MinInt - b
    \/ ~Signed /\ a > MaxInt - b

SubOverflows(a, b) ==
    \/ Signed /\ b < 0 /\ a > MaxInt + b
    \/ Signed /\ b > 0 /\ a < MinInt + b
    \/ ~Signed /\ a < b

\* Only of operands other than 0.
MulOverflows(a, b) ==
    \/ a > 0 /\ b > 0 /\ a > Quotient(MaxInt, b)
    \/ a < 0 /\ b < 0 /\ b < Quotient(MaxInt, a)
    \/ a < 0 /\ b > 0 /\ a < Quotient(MinInt, b)
    \/ a > 0 /\ b < 0 /\ b < Quotient(MinInt, a)

safeAdd(a, b) == IF AddOverflows(a, b) THEN {} ELSE {a + b}
safeSub(a, b) == IF SubOverflows(a, b) THEN {} ELSE {a - b}
safeMul(a, b) ==
    IF a = 0 \/ b = 0 THEN {0} ELSE IF MulOverflows(a, b) THEN {} ELSE {a * b}
safeDiv(a, b) ==
    IF b = 0 \/ (Signed /\ a = MinInt /\ b = -1) THEN {} ELSE {Quotient(a, b)}

\* What the tests of safeAdd() and safeSub() compute on the way.
Intermediates(a, b) ==
    IF b < 0 THEN {MinInt - b, MaxInt + b}
    ELSE IF Signed /\ b > 0 THEN {MaxInt - b, MinInt + b}
    ELSE IF Signed THEN {} ELSE {MaxInt - b}

-----------------------------------------------------------------------------

VARIABLES x, y      \* the operands of a call

OperandsInit == x \in Word /\ y \in Word

\* The reference: a result that the type can hold, or none.
Representable(v) == {v} \cap Word

\* safeAdd() and safeSub() succeed exactly when the mathematical result fits,
\* and return it; their own tests never overflow.
SumsAreExact ==
    /\ safeAdd(x, y) = Representable(x + y)
    /\ safeSub(x, y) = Representable(x - y)
    /\ Intermediates(x, y) \subseteq Word

\* The same of safeMul() and safeDiv(), whose tests divide in the type itself.
ProductsAreExact ==
    /\ safeMul(x, y) = Representable(x * y)
    /\ y # 0 => safeDiv(x, y) = Representable(Quotient(x, y))
    /\ y = 0 => safeDiv(x, y) = {}

\* No checked operation refuses a result the type can hold or returns one that
\* wrapped around.
ArithmeticIsExact == SumsAreExact /\ ProductsAreExact
=============================================================================
