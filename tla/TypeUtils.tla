----------------------------- MODULE TypeUtils -----------------------------
(***************************************************************************)
(* type-utils.h: limits of integer types, and assignments, products and    *)
(* sums that notice when the result does not fit.                          *)
(*                                                                         *)
(* A type is its width and whether it is signed.  The compiler computes    *)
(* with what is narrower than int as int, and with everything else in the  *)
(* type itself; what does not fit is cut off.                              *)
(***************************************************************************)
EXTENDS Integers

CONSTANTS
  INT_BITS,    \* the width of int
  Builtins     \* does the compiler have __builtin_mul_overflow() and its kin?

ASSUME TypeAssumption == INT_BITS \in Nat \ {0, 1} /\ Builtins \subseteq BOOLEAN

Unsigned(bits) == [bits |-> bits, signed |-> FALSE]
Signed(bits) == [bits |-> bits, signed |-> TRUE]

variable_max_value(T) == IF T.signed THEN 2 ^ (T.bits - 1) - 1 ELSE 2 ^ T.bits - 1
variable_min_value(T) == IF T.signed THEN - 2 ^ (T.bits - 1) ELSE 0

Values(T) == variable_min_value(T) .. variable_max_value(T)

Cast(T, v) == ((v - variable_min_value(T)) % 2 ^ T.bits) + variable_min_value(T)

Promoted(T) == IF T.bits < INT_BITS THEN Signed(INT_BITS) ELSE T

(* Seeded fault: the value is compared with the upper limit only.          *)
assign_below_max(dst, src, v) == v <= variable_max_value(dst)

(* Casts v of type src there and back; Cast(dst, v) is what is assigned.   *)
integer_safe_assign(dst, src, v) == Cast(src, Cast(dst, v)) = v

(* The results are [overflow, value].  The fallback for compilers without  *)
(* the builtins is for types without a sign: for the others it leaves its  *)
(* result undefined, so that the compiler warns.                           *)
Exactly(T, exact) == [overflow |-> exact \notin Values(T), value |-> Cast(T, exact)]

Computed(T, early, exact) ==
  LET P == Promoted(T)
      p == Cast(P, exact)
  IN  [overflow |-> early \/ ~ integer_safe_assign(T, P, p), value |-> Cast(T, p)]

(* Seeded fault: the product is computed first and looked at then.         *)
mul_then_check(builtin, T, a, b) ==
  IF builtin THEN Exactly(T, a * b) ELSE Computed(T, FALSE, a * b)

_mul_overflow(builtin, T, a, b) ==
  IF builtin THEN Exactly(T, a * b)
  ELSE Computed(T, a # 0 /\ variable_max_value(T) \div a < b, a * b)

_add_overflow(builtin, T, a, b) ==
  IF builtin THEN Exactly(T, a + b)
  ELSE Computed(T, variable_max_value(T) - a < b, a + b)

=============================================================================
