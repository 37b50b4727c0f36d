----------------------------- MODULE SafeCalloc -----------------------------
(***************************************************************************)
(* safe_calloc.h: sizes of arrays, and of structures with an array at the  *)
(* end, that are refused when they do not fit into size_t.                 *)
(***************************************************************************)
EXTENDS TypeUtils

CONSTANTS
  SIZE_BITS,    \* the width of size_t
  Sizes         \* of what is allocated, and numbers of elements

ASSUME SizeAssumption ==
  /\ SIZE_BITS \in Nat /\ SIZE_BITS >= INT_BITS
  /\ Sizes \subseteq Values(Unsigned(SIZE_BITS))

size_t == Unsigned(SIZE_BITS)
SIZE_MAX == variable_max_value(size_t)

VARIABLE sized   \* the last computation: what it was, whether it was refused, the result

Refused == [ok |-> FALSE, size |-> 0]
Sized(r) == IF r.overflow THEN Refused ELSE [ok |-> TRUE, size |-> r.value]

_safe_calloc_check_mul(builtin, a, b) == Sized(_mul_overflow(builtin, size_t, a, b))
_safe_calloc_check_add(builtin, a, b) == Sized(_add_overflow(builtin, size_t, a, b))

(* safe_calloc(); with HAVE_SAFE_CALLOC it is calloc() that checks.        *)
safe_calloc(builtin, num, sz) == _safe_calloc_check_mul(builtin, num, sz)

recalloc(builtin, num, sz) == _safe_calloc_check_mul(builtin, num, sz)

(* Seeded fault: the sum is not looked at.                                 *)
sizeof_flexarr_wrapping(builtin, sz0, cnt, sz1) ==
  LET flex == _safe_calloc_check_mul(builtin, sz1, cnt) IN
  IF flex.ok THEN [ok |-> TRUE, size |-> Cast(size_t, sz0 + flex.size)] ELSE Refused

(* _malloc_, _zalloc_ and _realloc_flexarr() allocate what this returns.   *)
_sizeof_flexarr(builtin, sz0, cnt, sz1) ==
  LET flex == _safe_calloc_check_mul(builtin, sz1, cnt) IN
  IF flex.ok THEN _safe_calloc_check_add(builtin, sz0, flex.size) ELSE Refused

-----------------------------------------------------------------------------
Allocate(num, sz) ==
  \E builtin \in Builtins :
    \/ sized' = [call |-> "safe_calloc", exact |-> num * sz, max |-> SIZE_MAX,
                 res |-> safe_calloc(builtin, num, sz)]
    \/ sized' = [call |-> "recalloc", exact |-> num * sz, max |-> SIZE_MAX,
                 res |-> recalloc(builtin, num, sz)]

(* The sizes of structures and elements are not 0: BUG_ON().               *)
AllocateFlexarr(sz0, cnt, sz1) ==
  /\ sz0 # 0 /\ sz1 # 0
  /\ \E builtin \in Builtins :
       sized' = [call |-> "flexarr", exact |-> sz0 + cnt * sz1, max |-> SIZE_MAX,
                 res |-> _sizeof_flexarr(builtin, sz0, cnt, sz1)]

(* The macros with types narrower than int, as wide and wider.             *)
Multiply(T, a, b) ==
  \E builtin \in Builtins :
    sized' = [call |-> "mul", exact |-> a * b, max |-> variable_max_value(T),
              res |-> Sized(_mul_overflow(builtin, T, a, b))]

Add(T, a, b) ==
  \E builtin \in Builtins :
    sized' = [call |-> "add", exact |-> a + b, max |-> variable_max_value(T),
              res |-> Sized(_add_overflow(builtin, T, a, b))]

Assign(dst, src, v) ==
  sized' = [call |-> "assign", exact |-> v, dst |-> dst, src |-> src,
            ok |-> integer_safe_assign(dst, src, v), stored |-> Cast(dst, v)]

Widths == {INT_BITS - 1, INT_BITS, INT_BITS + 1}

SafeCallocInit == sized = [call |-> "none"]

(* One computation each: the next does not depend on it.                   *)
SafeCallocNext ==
  /\ sized.call = "none"
  /\ \/ \E num, sz \in Sizes : Allocate(num, sz)
     \/ \E sz0, cnt, sz1 \in Sizes : AllocateFlexarr(sz0, cnt, sz1)
     \/ \E w \in Widths : \E a, b \in Values(Unsigned(w)) :
          Multiply(Unsigned(w), a, b) \/ Add(Unsigned(w), a, b)
     \/ \E dst, src \in {Unsigned(w) : w \in Widths} \cup {Signed(w) : w \in Widths} :
          \E v \in Values(src) : Assign(dst, src, v)

-----------------------------------------------------------------------------
(* A size is exact or refused, whichever way the compiler computes it, and *)
(* nothing is refused that fits; an assignment keeps the value or fails.   *)
(* It does not see that only the sign has changed: between types with and  *)
(* without a sign the value may come out different by 2^bits of the source. *)
ExactOrRefused ==
  /\ sized.call \notin {"none", "assign"} =>
       sized.res = IF sized.exact <= sized.max THEN [ok |-> TRUE, size |-> sized.exact] ELSE Refused
  /\ sized.call = "assign" =>
       /\ sized.exact \in Values(sized.dst) => sized.ok
       /\ sized.ok =>
            \/ sized.stored = sized.exact
            \/ sized.dst.signed # sized.src.signed /\ (sized.stored < 0) # (sized.exact < 0)

=============================================================================
