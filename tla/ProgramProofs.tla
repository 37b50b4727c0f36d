--------------------------- MODULE ProgramProofs ---------------------------
(***************************************************************************)
(* Proofs about Program, for integer types of any width, for any texts,    *)
(* languages and addresses, and for a heap and a pool of any size.         *)
(***************************************************************************)
EXTENDS Program, FiniteSetTheorems, TLAPS

-----------------------------------------------------------------------------
(* Powers of 2, which the provers know only as the numbers of subsets      *)

LEMMA SubsetsOfInterval ==
  ASSUME NEW n \in Nat
  PROVE  /\ IsFiniteSet(SUBSET (1 .. n)) /\ Cardinality(SUBSET (1 .. n)) = 2 ^ n
         /\ 2 ^ n \in Nat \ {0}
<1>1. IsFiniteSet(1 .. n) /\ Cardinality(1 .. n) = n
  BY FS_Interval
<1>2. IsFiniteSet(SUBSET (1 .. n)) /\ Cardinality(SUBSET (1 .. n)) = 2 ^ n
  BY <1>1, FS_SUBSET
<1>3. SUBSET (1 .. n) # {}
  OBVIOUS
<1>4. Cardinality(SUBSET (1 .. n)) \in Nat /\ Cardinality(SUBSET (1 .. n)) # 0
  BY <1>2, <1>3, FS_CardinalityType, FS_EmptySet
<1> QED
  BY <1>2, <1>4

LEMMA PowersGrow ==
  ASSUME NEW m \in Nat, NEW n \in Nat, m <= n
  PROVE  2 ^ m <= 2 ^ n
<1>1. SUBSET (1 .. m) \in SUBSET (SUBSET (1 .. n))
  <2>1. 1 .. m \subseteq 1 .. n
    OBVIOUS
  <2> QED
    BY <2>1
<1>2. IsFiniteSet(SUBSET (1 .. n)) /\ Cardinality(SUBSET (1 .. n)) = 2 ^ n /\ Cardinality(SUBSET (1 .. m)) = 2 ^ m
  BY SubsetsOfInterval
<1>3. Cardinality(SUBSET (1 .. m)) <= Cardinality(SUBSET (1 .. n))
  BY <1>1, <1>2, FS_Subset
<1> QED
  BY <1>2, <1>3

LEMMA PowerDoubles ==
  ASSUME NEW n \in Nat
  PROVE  2 ^ (n + 1) = 2 * 2 ^ n
<1> DEFINE low == SUBSET (1 .. n)   high == {B \cup {n + 1} : B \in low}   f == [B \in low |-> B \cup {n + 1}]
<1>1. IsFiniteSet(low) /\ Cardinality(low) = 2 ^ n /\ 2 ^ n \in Nat
  BY SubsetsOfInterval
<1>2. Cardinality(SUBSET (1 .. n + 1)) = 2 ^ (n + 1)
  BY SubsetsOfInterval
<1>3. ExistsBijection(low, high)
  <2>1. f \in [low -> high]
    OBVIOUS
  <2>2. ASSUME NEW B \in low, NEW C \in low, f[B] = f[C]
        PROVE  B = C
    <3>1. n + 1 \notin B /\ n + 1 \notin C
      OBVIOUS
    <3>2. B \cup {n + 1} = C \cup {n + 1}
      BY <2>2
    <3> QED
      BY <3>1, <3>2
  <2>3. \A t \in high : \E B \in low : f[B] = t
    OBVIOUS
  <2> HIDE DEF f, low, high
  <2>4. f \in Injection(low, high)
    BY <2>1, <2>2 DEF Injection, IsInjective
  <2>5. f \in Surjection(low, high)
    BY <2>1, <2>3 DEF Surjection
  <2> QED
    BY <2>4, <2>5 DEF Bijection, ExistsBijection
<1>4. IsFiniteSet(high) /\ Cardinality(high) = Cardinality(low)
  <2> HIDE DEF low, high, f
  <2>1. IsFiniteSet(low)
    BY <1>1
  <2> QED
    BY <1>3, <2>1, FS_Bijection, Zenon
<1>5. SUBSET (1 .. n + 1) = low \cup high
  <2>1. ASSUME NEW A \in SUBSET (1 .. n + 1), n + 1 \in A
        PROVE  A \in high
    <3>1. A \ {n + 1} \in low /\ A = (A \ {n + 1}) \cup {n + 1}
      <4>1. \A x \in A \ {n + 1} : x \in 1 .. n
        OBVIOUS
      <4> QED
        BY <2>1, <4>1
    <3> QED
      BY <3>1
  <2>2. ASSUME NEW A \in SUBSET (1 .. n + 1), n + 1 \notin A
        PROVE  A \in low
    <3>1. \A x \in A : x \in 1 .. n
      BY <2>2
    <3> QED
      BY <3>1
  <2>3. low \subseteq SUBSET (1 .. n + 1) /\ high \subseteq SUBSET (1 .. n + 1)
    <3>1. 1 .. n \subseteq 1 .. n + 1 /\ n + 1 \in 1 .. n + 1
      OBVIOUS
    <3> QED
      BY <3>1
  <2> QED
    BY <2>1, <2>2, <2>3
<1>6. low \cap high = {}
  <2>1. \A B \in low : n + 1 \notin B
    OBVIOUS
  <2> QED
    BY <2>1
<1> HIDE DEF low, high
<1>7. Cardinality(low \cup high) = Cardinality(low) + Cardinality(high) - Cardinality(low \cap high)
  BY <1>1, <1>4, FS_Union
<1>8. Cardinality(low \cap high) = 0
  BY <1>6, FS_EmptySet
<1> DEFINE x == 2 ^ n   y == 2 ^ (n + 1)
<1>9. y = Cardinality(low) + Cardinality(low) /\ Cardinality(low) = x /\ x \in Nat
  <2>1. Cardinality(low) \in Nat /\ Cardinality(low) = x /\ x \in Nat
    BY <1>1
  <2>2. y = Cardinality(low \cup high)
    BY <1>2, <1>5
  <2>3. Cardinality(low \cup high) = Cardinality(low) + Cardinality(low) - 0
    BY <1>4, <1>7, <1>8
  <2> HIDE DEF x, y
  <2> QED
    BY <2>1, <2>2, <2>3
<1> HIDE DEF x, y
<1>10. y = 2 * x
  BY <1>9
<1> QED
  BY <1>10 DEF x, y

-----------------------------------------------------------------------------
(* Integer types                                                           *)

Least(T) == variable_min_value(T)
Greatest(T) == variable_max_value(T)

IntTypes == {Unsigned(b) : b \in Nat \ {0}} \cup {Signed(b) : b \in Nat \ {0}}

LEMMA TypeParts ==
  ASSUME NEW T \in IntTypes
  PROVE  /\ T.bits \in Nat \ {0} /\ T.signed \in BOOLEAN
         /\ T.signed => T = Signed(T.bits) /\ Least(T) = - 2 ^ (T.bits - 1) /\ Greatest(T) = 2 ^ (T.bits - 1) - 1
         /\ ~ T.signed => T = Unsigned(T.bits) /\ Least(T) = 0 /\ Greatest(T) = 2 ^ T.bits - 1
<1>1. PICK b \in Nat \ {0} : T = Unsigned(b) \/ T = Signed(b)
  BY DEF IntTypes
<1>2. CASE T = Unsigned(b)
  BY <1>2 DEF Unsigned, variable_min_value, variable_max_value, Least, Greatest
<1>3. CASE T = Signed(b)
  BY <1>3 DEF Signed, variable_min_value, variable_max_value, Least, Greatest
<1> QED
  BY <1>1, <1>2, <1>3

(* As many values as the width has patterns; without a sign, with it twice *)
(* as many that are not negative.                                          *)
LEMMA Limits ==
  ASSUME NEW T \in IntTypes
  PROVE  /\ Least(T) \in Int /\ Greatest(T) \in Nat /\ Least(T) <= 0 /\ 2 ^ T.bits \in Nat \ {0}
         /\ Greatest(T) - Least(T) + 1 = 2 ^ T.bits
         /\ Values(T) = Least(T) .. Greatest(T)
         /\ ~ T.signed => Least(T) = 0
<1> DEFINE x == 2 ^ (T.bits - 1)   y == 2 ^ T.bits
<1>1. T.bits \in Nat \ {0} /\ T.bits - 1 \in Nat /\ (T.bits - 1) + 1 = T.bits
  BY TypeParts
<1>2. x \in Nat \ {0} /\ y \in Nat \ {0}
  BY <1>1, SubsetsOfInterval
<1>3. y = 2 * x
  <2> DEFINE b == T.bits - 1
  <2>1. b \in Nat /\ b + 1 = T.bits
    BY <1>1
  <2> HIDE DEF b
  <2>2. 2 ^ (b + 1) = 2 * 2 ^ b
    BY <2>1, PowerDoubles
  <2> QED
    BY <2>1, <2>2 DEF b
<1>4. T.signed => Least(T) = - x /\ Greatest(T) = x - 1
  BY TypeParts
<1>5. ~ T.signed => Least(T) = 0 /\ Greatest(T) = y - 1
  BY TypeParts
<1>6. Values(T) = Least(T) .. Greatest(T)
  BY DEF Values, Least, Greatest
<1> HIDE DEF x, y
<1>7. /\ Least(T) \in Int /\ Greatest(T) \in Nat /\ Least(T) <= 0
      /\ Greatest(T) - Least(T) + 1 = y
      /\ ~ T.signed => Least(T) = 0
  <2>1. CASE T.signed
    BY <1>2, <1>3, <1>4, <2>1
  <2>2. CASE ~ T.signed
    BY <1>2, <1>5, <2>2
  <2> QED
    BY <2>1, <2>2
<1> QED
  BY <1>2, <1>6, <1>7 DEF y

LEMMA Remainders ==
  /\ \A a, m \in Int : m > 0 => a % m \in 0 .. m - 1
  /\ \A a, m \in Int : 0 <= a /\ a < m => a % m = a
OBVIOUS

(* A conversion keeps what the type can hold, and gives what it can hold.  *)
LEMMA CastFacts ==
  ASSUME NEW T \in IntTypes, NEW v \in Int
  PROVE  /\ Cast(T, v) \in Values(T) /\ Cast(T, v) \in Int
         /\ v \in Values(T) => Cast(T, v) = v
<1> DEFINE l == Least(T)   m == 2 ^ T.bits   h == Greatest(T)   c == Cast(T, v)
<1>1. l \in Int /\ h \in Nat /\ m \in Nat \ {0} /\ h - l + 1 = m /\ Values(T) = l .. h
  BY Limits
<1>2. c = ((v - l) % m) + l
  BY DEF Cast, Least
<1> HIDE DEF l, m, h, c
<1>3. c \in l .. h
  <2>1. v - l \in Int /\ m \in Int /\ m > 0
    BY <1>1
  <2>2. (v - l) % m \in 0 .. m - 1
    BY <2>1, Remainders
  <2> QED
    BY <1>1, <1>2, <2>2
<1>4. v \in l .. h => c = v
  <2> SUFFICES ASSUME v \in l .. h PROVE c = v
    OBVIOUS
  <2>1. v - l \in Int /\ m \in Int /\ 0 <= v - l /\ v - l < m
    BY <1>1
  <2>2. (v - l) % m = v - l
    BY <2>1, Remainders
  <2> QED
    BY <1>1, <1>2, <2>2
<1> QED
  BY <1>1, <1>3, <1>4 DEF c

LEMMA Products ==
  /\ \A a, x, y \in Nat : x <= y => a * x <= a * y
  /\ \A a, m \in Nat : a # 0 => (m \div a) \in Nat /\ a * (m \div a) <= m /\ m < a * ((m \div a) + 1)
OBVIOUS

(* The test before the product.                                            *)
LEMMA DivisionTells ==
  ASSUME NEW a \in Nat, NEW b \in Nat, NEW m \in Nat
  PROVE  (a # 0 /\ m \div a < b) <=> a * b > m
<1>1. CASE a = 0
  BY <1>1
<1>2. CASE a # 0
  <2> DEFINE q == m \div a
  <2>1. q \in Nat /\ a * q <= m /\ m < a * (q + 1)
    BY <1>2, Products
  <2> HIDE DEF q
  <2>2. ASSUME q < b PROVE a * b > m
    <3>1. q + 1 \in Nat /\ q + 1 <= b
      BY <2>1, <2>2
    <3>2. a * (q + 1) <= a * b
      BY <3>1, Products
    <3> DEFINE x == a * (q + 1)   y == a * b
    <3>3. x \in Nat /\ y \in Nat /\ x <= y /\ m < x
      BY <2>1, <3>1, <3>2
    <3> HIDE DEF x, y
    <3>4. y > m
      BY <3>3
    <3> QED
      BY <3>4 DEF y
  <2>3. ASSUME b <= q PROVE ~ (a * b > m)
    <3>1. a * b <= a * q
      BY <2>1, <2>3, Products
    <3> DEFINE x == a * q   y == a * b
    <3>2. x \in Nat /\ y \in Nat /\ y <= x /\ x <= m
      BY <2>1, <3>1
    <3> HIDE DEF x, y
    <3>3. ~ (y > m)
      BY <3>2
    <3> QED
      BY <3>3 DEF y
  <2>4. q < b \/ b <= q
    BY <2>1
  <2>5. ~ (q < b /\ b <= q)
    BY <2>1
  <2> QED
    BY <1>2, <2>2, <2>3, <2>4, <2>5 DEF q
<1> QED
  BY <1>1, <1>2

ExactSize(exact, max) == IF exact <= max THEN [ok |-> TRUE, size |-> exact] ELSE Refused

(* What is narrower than int keeps its value as an int.                    *)
LEMMA Promotion ==
  ASSUME NEW b \in Nat \ {0}, NEW v \in Values(Unsigned(b))
  PROVE  Promoted(Unsigned(b)) \in IntTypes /\ v \in Values(Promoted(Unsigned(b)))
<1> DEFINE T == Unsigned(b)   P == Promoted(T)
<1>1. T \in IntTypes /\ T.bits = b /\ ~ T.signed
  BY DEF IntTypes, Unsigned
<1>2. INT_BITS \in Nat \ {0}
  BY TypeAssumption
<1>3. CASE b < INT_BITS
  <2> DEFINE n == INT_BITS - 1
  <2>1. P = Signed(INT_BITS) /\ P \in IntTypes /\ P.bits = INT_BITS /\ P.signed
    BY <1>1, <1>2, <1>3 DEF Promoted, IntTypes, Signed
  <2>2. n \in Nat /\ b <= n
    BY <1>2, <1>3
  <2>3. Greatest(P) = 2 ^ n - 1 /\ Greatest(T) = 2 ^ b - 1 /\ Least(T) = 0
    BY <1>1, <2>1, TypeParts
  <2> HIDE DEF n, P, T
  <2>4. 2 ^ b <= 2 ^ n /\ 2 ^ b \in Nat /\ 2 ^ n \in Nat
    BY <2>2, PowersGrow, SubsetsOfInterval
  <2>5. Greatest(T) <= Greatest(P)
    <3> DEFINE x == 2 ^ b   y == 2 ^ n
    <3>1. x \in Nat /\ y \in Nat /\ x <= y /\ Greatest(P) = y - 1 /\ Greatest(T) = x - 1
      BY <2>3, <2>4
    <3> HIDE DEF x, y
    <3> QED
      BY <3>1
  <2>6. Values(T) = Least(T) .. Greatest(T) /\ Values(P) = Least(P) .. Greatest(P)
    BY <1>1, <2>1, Limits
  <2>7. Least(P) \in Int /\ Least(P) <= 0 /\ Greatest(P) \in Int /\ Greatest(T) \in Int
    BY <1>1, <2>1, Limits
  <2>8. v \in Least(T) .. Greatest(T)
    BY <2>6 DEF T
  <2>9. v \in Least(P) .. Greatest(P)
    BY <2>3, <2>5, <2>7, <2>8
  <2> QED
    BY <2>1, <2>6, <2>9 DEF P, T
<1>4. CASE ~ (b < INT_BITS)
  BY <1>1, <1>4 DEF Promoted
<1> QED
  BY <1>3, <1>4

LEMMA ExactOrOverflow ==
  ASSUME NEW b \in Nat \ {0}, NEW exact \in Nat, NEW early \in BOOLEAN,
         early <=> exact > variable_max_value(Unsigned(b))
  PROVE  /\ Sized(Exactly(Unsigned(b), exact)) = ExactSize(exact, variable_max_value(Unsigned(b)))
         /\ Sized(Computed(Unsigned(b), early, exact)) = ExactSize(exact, variable_max_value(Unsigned(b)))
<1> DEFINE T == Unsigned(b)   P == Promoted(T)   max == variable_max_value(T)
<1>1. T \in IntTypes
  BY DEF IntTypes
<1>2. max \in Nat /\ Values(T) = 0 .. max
  BY <1>1, Limits DEF Unsigned, Greatest, Least
<1>3. exact \in Values(T) <=> exact <= max
  BY <1>2
<1> HIDE DEF T
<1>4. CASE exact <= max
  <2>1. exact \in Values(T) /\ ~ early
    BY <1>2, <1>3, <1>4 DEF T
  <2>2. Cast(T, exact) = exact
    BY <1>1, <2>1, CastFacts
  <2>3. P \in IntTypes /\ exact \in Values(P)
    BY <2>1, Promotion DEF T
  <2> HIDE DEF P
  <2>4. Cast(P, exact) = exact
    BY <2>3, CastFacts
  <2>5. Exactly(T, exact) = [overflow |-> FALSE, value |-> exact]
    BY <2>1, <2>2 DEF Exactly
  <2>6. Computed(T, early, exact) = [overflow |-> FALSE, value |-> exact]
    BY <2>1, <2>2, <2>4 DEF Computed, integer_safe_assign, P
  <2>7. Sized([overflow |-> FALSE, value |-> exact]) = [ok |-> TRUE, size |-> exact]
    BY DEF Sized
  <2> QED
    BY <1>4, <2>5, <2>6, <2>7 DEF ExactSize, T
<1>5. CASE ~ (exact <= max)
  <2>1. exact \notin Values(T) /\ early
    BY <1>2, <1>3, <1>5 DEF T
  <2>2. Exactly(T, exact).overflow /\ Computed(T, early, exact).overflow
    BY <2>1 DEF Exactly, Computed
  <2> QED
    BY <1>5, <2>2 DEF ExactSize, Sized, T
<1> QED
  BY <1>4, <1>5

LEMMA SizesExact ==
  ASSUME NEW b \in Nat \ {0}, NEW x \in Values(Unsigned(b)), NEW y \in Values(Unsigned(b)), NEW builtin \in BOOLEAN
  PROVE  /\ Sized(_mul_overflow(builtin, Unsigned(b), x, y)) = ExactSize(x * y, variable_max_value(Unsigned(b)))
         /\ Sized(_add_overflow(builtin, Unsigned(b), x, y)) = ExactSize(x + y, variable_max_value(Unsigned(b)))
         /\ x \in Nat /\ y \in Nat /\ x * y \in Nat
<1> DEFINE T == Unsigned(b)   max == variable_max_value(T)
<1>1. T \in IntTypes
  BY DEF IntTypes
<1>2. max \in Nat /\ Values(T) = 0 .. max
  BY <1>1, Limits DEF Unsigned, Greatest, Least
<1>3. x \in Nat /\ y \in Nat /\ x <= max /\ y <= max
  BY <1>2
<1> HIDE DEF T
<1>4. x * y \in Nat /\ x + y \in Nat
  BY <1>3
<1> DEFINE product == x * y
<1>5. (x # 0 /\ max \div x < y) <=> product > max
  BY <1>2, <1>3, DivisionTells
<1>6. (max - x < y) <=> x + y > max
  BY <1>2, <1>3
<1>7. Sized(_mul_overflow(builtin, T, x, y)) = ExactSize(x * y, max)
  <2> DEFINE early == x # 0 /\ max \div x < y
  <2>1. early \in BOOLEAN /\ (early <=> product > max) /\ product \in Nat
    BY <1>4, <1>5
  <2> HIDE DEF early, product
  <2>2. Sized(Exactly(T, product)) = ExactSize(product, max) /\ Sized(Computed(T, early, product)) = ExactSize(product, max)
    BY <2>1, ExactOrOverflow DEF T
  <2> QED
    BY <2>2 DEF _mul_overflow, early, product
<1>8. Sized(_add_overflow(builtin, T, x, y)) = ExactSize(x + y, max)
  <2> DEFINE early == max - x < y   sum == x + y
  <2>1. early \in BOOLEAN /\ (early <=> sum > max) /\ sum \in Nat
    BY <1>4, <1>6
  <2> HIDE DEF early, sum
  <2>2. Sized(Exactly(T, sum)) = ExactSize(sum, max) /\ Sized(Computed(T, early, sum)) = ExactSize(sum, max)
    BY <2>1, ExactOrOverflow DEF T
  <2> QED
    BY <2>2 DEF _add_overflow, early, sum
<1> QED
  BY <1>3, <1>4, <1>7, <1>8 DEF T

(* Of two types, the wider one has the values of both that have its sign.  *)
LEMMA AssignFacts ==
  ASSUME NEW dst \in IntTypes, NEW src \in IntTypes, NEW v \in Values(src)
  PROVE  /\ v \in Values(dst) => integer_safe_assign(dst, src, v)
         /\ integer_safe_assign(dst, src, v) =>
              \/ Cast(dst, v) = v
              \/ dst.signed # src.signed /\ (Cast(dst, v) < 0) # (v < 0)
<1> DEFINE c == Cast(dst, v)   l == Least(dst)   h == Greatest(dst)   m == Least(src)   k == Greatest(src)
<1>1. /\ l \in Int /\ h \in Nat /\ l <= 0 /\ Values(dst) = l .. h
      /\ m \in Int /\ k \in Nat /\ m <= 0 /\ Values(src) = m .. k
  BY Limits
<1>2. /\ dst.signed => l = - h - 1
      /\ ~ dst.signed => l = 0
  <2> DEFINE x == 2 ^ (dst.bits - 1)
  <2>0. dst.bits - 1 \in Nat
    BY TypeParts
  <2>1. dst.signed => l = - x /\ h = x - 1
    BY TypeParts
  <2>2. x \in Nat
    BY <2>0, SubsetsOfInterval
  <2> HIDE DEF x
  <2>3. ~ dst.signed => l = 0
    BY Limits
  <2> HIDE DEF l, h
  <2> QED
    BY <2>1, <2>2, <2>3
<1>3. /\ src.signed => m = - k - 1
      /\ ~ src.signed => m = 0
  <2> DEFINE x == 2 ^ (src.bits - 1)
  <2>0. src.bits - 1 \in Nat
    BY TypeParts
  <2>1. src.signed => m = - x /\ k = x - 1
    BY TypeParts
  <2>2. x \in Nat
    BY <2>0, SubsetsOfInterval
  <2> HIDE DEF x
  <2>3. ~ src.signed => m = 0
    BY Limits
  <2> HIDE DEF m, k
  <2> QED
    BY <2>1, <2>2, <2>3
<1>4. v \in Int /\ v \in m .. k
  BY <1>1
<1>5. c \in l .. h /\ c \in Int /\ (v \in l .. h => c = v)
  BY <1>1, <1>4, CastFacts
<1>6. c \in m .. k => Cast(src, c) = c
  BY <1>1, <1>5, CastFacts
<1>7. v \in m .. k => Cast(src, v) = v
  BY <1>1, <1>4, CastFacts
<1>8. dst.signed \in BOOLEAN /\ src.signed \in BOOLEAN
  BY TypeParts
<1>9. integer_safe_assign(dst, src, v) <=> Cast(src, c) = v
  BY DEF integer_safe_assign
<1> HIDE DEF c, l, h, m, k
<1>10. v \in l .. h => Cast(src, c) = v
  BY <1>4, <1>5, <1>7
<1>11. ASSUME Cast(src, c) = v, c # v
       PROVE  dst.signed # src.signed /\ (c < 0) # (v < 0)
  <2>1. c \notin m .. k /\ v \notin l .. h
    BY <1>5, <1>6, <1>11
  <2>2. (c < 0) # (v < 0)
    BY <1>1, <1>2, <1>3, <1>4, <1>5, <1>8, <2>1
  <2>3. ~ (dst.signed /\ src.signed) /\ ~ (~ dst.signed /\ ~ src.signed)
    BY <1>1, <1>2, <1>3, <1>4, <1>5, <2>1
  <2> QED
    BY <1>8, <2>2, <2>3
<1> QED
  BY <1>1, <1>9, <1>10, <1>11 DEF c

LEMMA SizeFacts ==
  /\ SIZE_BITS \in Nat \ {0} /\ Sizes \subseteq Values(size_t) /\ size_t = Unsigned(SIZE_BITS)
  /\ SIZE_MAX = variable_max_value(size_t) /\ SIZE_MAX \in Nat /\ Values(size_t) = 0 .. SIZE_MAX
<1>1. SIZE_BITS \in Nat \ {0} /\ size_t \in IntTypes
  BY SizeAssumption, TypeAssumption DEF size_t, IntTypes
<1> QED
  BY <1>1, SizeAssumption, Limits DEF size_t, SIZE_MAX, Unsigned, Least, Greatest

(* A step computes one size, which is exact or refused.                    *)
LEMMA SizesStep ==
  ASSUME SafeCallocNext
  PROVE  ExactOrRefused'
<1> DEFINE Fine(call, exact, max, res) ==
      sized' = [call |-> call, exact |-> exact, max |-> max, res |-> res] /\ call # "assign" /\ res = ExactSize(exact, max)
<1>1. ASSUME NEW call, NEW exact, NEW max, NEW res, Fine(call, exact, max, res)
      PROVE  ExactOrRefused'
  BY <1>1 DEF ExactOrRefused, ExactSize, Refused
<1> HIDE DEF Fine
<1>2. ASSUME NEW num \in Sizes, NEW sz \in Sizes, Allocate(num, sz)
      PROVE  ExactOrRefused'
  <2>1. PICK builtin \in Builtins :
          \/ sized' = [call |-> "safe_calloc", exact |-> num * sz, max |-> SIZE_MAX,
                       res |-> safe_calloc(builtin, num, sz)]
          \/ sized' = [call |-> "recalloc", exact |-> num * sz, max |-> SIZE_MAX,
                       res |-> recalloc(builtin, num, sz)]
    BY <1>2 DEF Allocate
  <2>2. builtin \in BOOLEAN /\ num \in Values(size_t) /\ sz \in Values(size_t)
    BY TypeAssumption, SizeFacts
  <2>3. _safe_calloc_check_mul(builtin, num, sz) = ExactSize(num * sz, SIZE_MAX)
    BY <2>2, SizeFacts, SizesExact DEF _safe_calloc_check_mul
  <2>4. /\ safe_calloc(builtin, num, sz) = ExactSize(num * sz, SIZE_MAX)
        /\ recalloc(builtin, num, sz) = ExactSize(num * sz, SIZE_MAX)
    BY <2>3 DEF safe_calloc, recalloc
  <2> QED
    BY <2>1, <2>4, <1>1 DEF Fine
<1>3. ASSUME NEW sz0 \in Sizes, NEW cnt \in Sizes, NEW sz1 \in Sizes, AllocateFlexarr(sz0, cnt, sz1)
      PROVE  ExactOrRefused'
  <2>1. PICK builtin \in Builtins :
          sized' = [call |-> "flexarr", exact |-> sz0 + cnt * sz1, max |-> SIZE_MAX,
                    res |-> _sizeof_flexarr(builtin, sz0, cnt, sz1)]
    BY <1>3 DEF AllocateFlexarr
  <2>2. builtin \in BOOLEAN /\ sz0 \in Values(size_t) /\ cnt \in Values(size_t) /\ sz1 \in Values(size_t)
    BY TypeAssumption, SizeFacts
  <2> DEFINE product == sz1 * cnt   flex == _safe_calloc_check_mul(builtin, sz1, cnt)
  <2>3. flex = ExactSize(product, SIZE_MAX) /\ product \in Nat /\ sz0 \in Nat
    BY <2>2, SizeFacts, SizesExact DEF _safe_calloc_check_mul
  <2>4. product = cnt * sz1
    <3>1. cnt \in Nat /\ sz1 \in Nat
      BY <2>2, SizeFacts
    <3> QED
      BY <3>1
  <2> HIDE DEF product
  <2>5. _sizeof_flexarr(builtin, sz0, cnt, sz1) =
          IF flex.ok THEN _safe_calloc_check_add(builtin, sz0, flex.size) ELSE Refused
    BY DEF _sizeof_flexarr
  <2> HIDE DEF flex
  <2>6. CASE product <= SIZE_MAX
    <3>1. flex.ok /\ flex.size = product /\ product \in Values(size_t)
      BY <2>3, <2>6, SizeFacts DEF ExactSize
    <3>2. _safe_calloc_check_add(builtin, sz0, product) = ExactSize(sz0 + product, SIZE_MAX)
      BY <2>2, <3>1, SizeFacts, SizesExact DEF _safe_calloc_check_add
    <3>3. _sizeof_flexarr(builtin, sz0, cnt, sz1) = ExactSize(sz0 + product, SIZE_MAX)
      BY <2>5, <3>1, <3>2
    <3> QED
      BY <1>1, <2>1, <2>4, <3>3 DEF Fine
  <2>7. CASE ~ (product <= SIZE_MAX)
    <3>1. ~ flex.ok
      BY <2>3, <2>7 DEF ExactSize, Refused
    <3>2. ~ (sz0 + product <= SIZE_MAX)
      BY <2>3, <2>7, SizeFacts
    <3>3. _sizeof_flexarr(builtin, sz0, cnt, sz1) = ExactSize(sz0 + product, SIZE_MAX)
      BY <2>5, <3>1, <3>2 DEF ExactSize
    <3> QED
      BY <1>1, <2>1, <2>4, <3>3 DEF Fine
  <2> QED
    BY <2>6, <2>7
<1>4. Widths \subseteq Nat \ {0}
  BY TypeAssumption DEF Widths
<1>5. ASSUME NEW b \in Widths, NEW x \in Values(Unsigned(b)), NEW y \in Values(Unsigned(b)),
             Multiply(Unsigned(b), x, y) \/ Add(Unsigned(b), x, y)
      PROVE  ExactOrRefused'
  <2> DEFINE max == variable_max_value(Unsigned(b))
  <2>1. ASSUME NEW builtin \in Builtins
        PROVE  /\ Sized(_mul_overflow(builtin, Unsigned(b), x, y)) = ExactSize(x * y, max)
               /\ Sized(_add_overflow(builtin, Unsigned(b), x, y)) = ExactSize(x + y, max)
    BY <1>4, TypeAssumption, SizesExact
  <2>2. PICK builtin \in Builtins :
          \/ sized' = [call |-> "mul", exact |-> x * y, max |-> max,
                       res |-> Sized(_mul_overflow(builtin, Unsigned(b), x, y))]
          \/ sized' = [call |-> "add", exact |-> x + y, max |-> max,
                       res |-> Sized(_add_overflow(builtin, Unsigned(b), x, y))]
    BY <1>5 DEF Multiply, Add
  <2> QED
    BY <1>1, <2>1, <2>2 DEF Fine
<1>6. ASSUME NEW dst \in IntTypes, NEW src \in IntTypes, NEW v \in Values(src), Assign(dst, src, v)
      PROVE  ExactOrRefused'
  <2>1. sized' = [call |-> "assign", exact |-> v, dst |-> dst, src |-> src,
                  ok |-> integer_safe_assign(dst, src, v), stored |-> Cast(dst, v)]
    BY <1>6 DEF Assign
  <2> DEFINE ok == integer_safe_assign(dst, src, v)   c == Cast(dst, v)
  <2>2. (v \in Values(dst) => ok) /\ (ok => c = v \/ (dst.signed # src.signed /\ (c < 0) # (v < 0)))
    BY AssignFacts
  <2> HIDE DEF ok, c
  <2>3. /\ sized'.call = "assign" /\ sized'.exact = v /\ sized'.dst = dst /\ sized'.src = src
        /\ sized'.ok = ok /\ sized'.stored = c
    BY <2>1 DEF ok, c
  <2> QED
    BY <2>2, <2>3 DEF ExactOrRefused
<1>7. {Unsigned(b) : b \in Widths} \cup {Signed(b) : b \in Widths} \subseteq IntTypes
  BY <1>4 DEF IntTypes
<1> QED
  BY <1>2, <1>3, <1>5, <1>6, <1>7 DEF SafeCallocNext

-----------------------------------------------------------------------------
(* The inductive invariant                                                 *)

(* What may be left behind when a call of the library has failed.          *)
Left == IF failed THEN {"res", "p"} ELSE {}

(* What a function that runs has allocated for itself.                     *)
Own(f) ==
  CASE f = "ldap_domain2hostlist" -> {"domain"}
    [] f = "uri" -> {"ldap_servers", "uri"}
    [] f = "init" -> {"uri", "ldap"}
    [] f = "bind" -> {"ldap"}
    [] f \in {"getstring", "wordexp"} -> {"key"}
    [] f = "strtol" -> {"tmp"}
    [] f = "http_set_locale" -> {"lcbuf"}
    [] OTHER -> {}

TempsInv == failed \in BOOLEAN /\ (doing # "stopped" => temps \subseteq Left \cup Own(doing))

(* The pool's array is as large as its number of entries says.             *)
PoolInv ==
  /\ DOMAIN pool = {"ready", "entries", "cnt_allocated", "room", "flags"}
  /\ pool.entries \in Seq(Blocks) /\ pool.cnt_allocated \in Nat /\ pool.room \in Nat
  /\ Len(pool.entries) <= pool.cnt_allocated /\ pool.cnt_allocated * ENTRY <= pool.room
  /\ missing \in BOOLEAN /\ FlagsTell
  /\ ~ pool.ready => pool.entries = <<>>

Different(s) == \A i, j \in DOMAIN s : s[i] = s[j] => i = j

OwnersInv ==
  /\ abused = FALSE
  /\ doing # "stopped" =>
       /\ live = held \cup Entries /\ held \cap Entries = {} /\ held \subseteq Blocks
       /\ Different(pool.entries)

Connecting == {"ldap_dn2domain", "ldap_domain2hostlist", "uri", "init", "bind"}

(* Nothing is said of a connection before it is made or has failed.        *)
ConnInv ==
  /\ DOMAIN conn = {"gives", "ctx", "told", "handle", "hosts", "len", "room"}
  /\ conn.len \in Nat /\ conn.room \in Nat /\ conn.hosts \in Seq(Nat)
  /\ doing \in Connecting => conn.gives = "none" /\ conn.handle = "none" /\ conn.told = "no"
  /\ "uri" \in temps => conn.len + 1 <= conn.room
  /\ ConnectReports

Getting == {"create_lookup_key", "getstring", "wordexp", "strtol"}

(* What iniparser_getsecint_exp() does; AsConfigured for it follows,       *)
(* because a cast keeps an int.                                            *)
IntConfigured ==
  /\ got.res = "number" /\ IsLong(text) => got.value = Cast(int, text.n)
  /\ got.res = "number" => IsLong(text)
  /\ IsInt(text) /\ ~ failed => got.res = "number"

(* And for those of iniparser_getuser() and iniparser_getgroup().          *)
IdConfigured ==
  got.call \in {"getuser", "getgroup"} =>
    LET id == IF got.call = "getuser" THEN "uid" ELSE "gid"
        db == IF got.call = "getuser" THEN [u \in DOMAIN Users |-> Users[u].uid] ELSE Groups
    IN  /\ ~ got.done => ids = got.before
        /\ text.kind = "absent" => ids = got.before /\ got.done = ~ got.critical
        /\ IsId(text) => got.done /\ ids = [got.before EXCEPT ![id] = text.n]
        /\ text.kind = "word" /\ got.done => text.name \in DOMAIN db /\ ids[id] = db[text.name]
        /\ got.call = "getgroup" => ids.uid = got.before.uid

(* A number that fits is on its way to strtol(), unless something failed.  *)
IniInv ==
  /\ DOMAIN ids = {"uid", "gid"}
  /\ doing \in Getting => DOMAIN got = {"call", "dflt", "res", "value"} /\ got.call \notin {"getuser", "getgroup"}
  /\ doing = "getstring" => ~ Exp(got.call)
  /\ doing = "strtol" => got.call = "getsecint_exp" /\ (IsInt(text) /\ ~ failed => "tmp" \in temps)
  /\ got.call = "getsecint_exp" /\ doing \notin Getting \cup {"stopped"} => IntConfigured
  /\ IdConfigured

(* The languages that were looked at are not supported, and the loop is at *)
(* the others, which are lang; or it has ended.                            *)
Looking ==
  /\ Len(lang) <= Len(request)
  /\ \A i \in 1 .. Len(lang) : lang[i] = request[Len(request) - Len(lang) + i]
  /\ \A i \in 1 .. Len(request) - Len(lang) : ~ Supported(request[i])

Is(l) == locale = Chosen(l)

Chose ==
  \E i \in DOMAIN request :
    /\ Supported(request[i]) /\ \A j \in 1 .. i - 1 : ~ Supported(request[j])
    /\ Is(request[i])

NotChosen ==
  locale = before \/ \E i \in DOMAIN request : is_valid_lang(request[i]) /\ Is(request[i])

Served == Chose \/ ((\A i \in DOMAIN request : ~ Supported(request[i])) /\ NotChosen)

HttpInv ==
  /\ lang \in Seq(DOMAIN Languages) /\ request \in Seq(DOMAIN Languages)
  /\ doing = "http_set_locale" =>
       \/ lang = <<>> /\ Chose
       \/ Looking /\ NotChosen
  /\ doing \notin {"http_set_locale", "stopped"} => Served

AddressInv ==
  /\ AddressParts
  /\ address.gives = "none" => address.uri \in Addresses

IInv == TempsInv /\ PoolInv /\ OwnersInv /\ ConnInv /\ IniInv /\ HttpInv /\ AddressInv /\ ExactOrRefused

-----------------------------------------------------------------------------
(* The heap and the pool                                                   *)

LEMMA EntriesFacts ==
  ASSUME PoolInv
  PROVE  /\ Entries \subseteq Blocks /\ Len(pool.entries) \in Nat /\ DOMAIN pool.entries = 1 .. Len(pool.entries)
         /\ \A b : b \in Entries <=> \E i \in DOMAIN pool.entries : pool.entries[i] = b
BY DEF PoolInv, Entries

LEMMA FreshFacts ==
  ASSUME live \subseteq Blocks, HasRoom
  PROVE  Fresh \in Blocks /\ Fresh \notin live /\ Fresh # NULL
<1> DEFINE free == Blocks \ live   below == OpToRel(<, Nat)
<1>1. free \subseteq Nat /\ free # {} /\ \A b \in Blocks : b # NULL /\ b \in Nat
  <2>1. \A b \in Blocks : b # NULL /\ b \in Nat
    BY DEF Blocks, NULL
  <2>2. free # {}
    BY DEF HasRoom
  <2> QED
    BY <2>1, <2>2
<1>2. IsWellFoundedOn(below, Nat)
  BY NatLessThanWellFounded
<1>3. ASSUME NEW x \in Nat, NEW y \in Nat, x < y
      PROVE  <<x, y>> \in below
  BY <1>3 DEF OpToRel
<1> HIDE DEF below, free
<1>4. PICK x \in free : \A y \in free : ~ (<<y, x>> \in below)
  BY <1>1, <1>2, WFMin
<1>5. ASSUME NEW y \in free
      PROVE  x <= y
  <2>1. x \in Nat /\ y \in Nat
    BY <1>1
  <2>2. ~ (<<y, x>> \in below)
    BY <1>4
  <2>3. ~ (y < x)
    BY <1>3, <2>1, <2>2
  <2> QED
    BY <2>1, <2>3
<1>6. Fresh \in free
  BY <1>5 DEF Fresh, free
<1> QED
  BY <1>1, <1>6 DEF free

LEMMA LiveBlocks ==
  ASSUME PoolInv, OwnersInv, doing # "stopped"
  PROVE  live \subseteq Blocks
BY EntriesFacts DEF OwnersInv

(* A block comes or goes, and its owner is the program.                    *)
LEMMA OwnersStay ==
  ASSUME PoolInv, OwnersInv, doing # "stopped", pool'.entries = pool.entries,
         Keeps \/ Gives \/ \E b \in held : freec(b) /\ held' = held \ {b}
  PROVE  OwnersInv'
<1>1. Entries' = Entries /\ (Different(pool.entries) => Different(pool'.entries))
  BY DEF Entries, Different
<1>2. CASE Keeps
  BY <1>1, <1>2 DEF Keeps, OwnersInv
<1>3. CASE Gives
  <2>1. Fresh \in Blocks /\ Fresh \notin live
    BY <1>3, LiveBlocks, FreshFacts DEF Gives, New
  <2>2. live' = live \cup {Fresh} /\ held' = held \cup {Fresh} /\ abused' = abused
    BY <1>3 DEF Gives, New
  <2> HIDE DEF Fresh
  <2> QED
    BY <1>1, <2>1, <2>2 DEF OwnersInv
<1>4. ASSUME NEW b \in held, freec(b), held' = held \ {b}
      PROVE  OwnersInv'
  <2>1. b \in live /\ live' = live \ {b} /\ abused' = abused
    BY <1>4 DEF freec, OwnersInv
  <2> QED
    BY <1>1, <1>4, <2>1 DEF OwnersInv
<1> QED
  BY <1>2, <1>3, <1>4

(* Its array is large enough for one more.                                 *)
LEMMA ArrayGrows ==
  ASSUME PoolInv, MayGrow(Len(pool.entries)), NEW builtin \in Builtins,
         recalloc(builtin, new_cnt, ENTRY).ok
  PROVE  /\ new_cnt \in Nat /\ new_cnt >= Len(pool.entries) + 1
         /\ recalloc(builtin, new_cnt, ENTRY).size = new_cnt * ENTRY
<1> DEFINE n == Len(pool.entries)   max == SIZE_MAX
<1>1. n \in Nat /\ max \in Nat /\ 8 <= max /\ Values(size_t) = 0 .. max
  BY EntriesFacts, SizeFacts, EntryAssumption DEF ENTRY
<1>2. n <= max \div 150
  BY DEF MayGrow
<1> HIDE DEF n, max
<1>3. n * 150 \in 0 .. max
  BY <1>1, <1>2
<1>4. Cast(size_t, n * 150) = n * 150
  <2>1. size_t \in IntTypes
    BY SizeFacts DEF IntTypes
  <2>2. n * 150 \in Int /\ n * 150 \in Values(size_t)
    BY <1>1, <1>3
  <2> QED
    BY <2>1, <2>2, CastFacts
<1>5. new_cnt = (n * 150) \div 100 + 2
  BY <1>4 DEF new_cnt, n
<1>6. new_cnt \in Nat /\ new_cnt >= n + 1 /\ new_cnt <= max
  BY <1>1, <1>3, <1>5
<1> DEFINE c == new_cnt   r == recalloc(builtin, c, ENTRY)
<1>7. c \in Values(size_t) /\ ENTRY \in Values(size_t) /\ builtin \in BOOLEAN
  BY <1>1, <1>6, TypeAssumption DEF ENTRY
<1> HIDE DEF c
<1>8. r = ExactSize(c * ENTRY, max)
  BY <1>7, SizeFacts, SizesExact DEF recalloc, _safe_calloc_check_mul, max
<1>9. r.ok
  BY DEF c
<1>10. r.size = c * ENTRY
  BY <1>8, <1>9 DEF ExactSize, Refused
<1> QED
  BY <1>6, <1>10 DEF c, n

(* What becomes of a block that is handed to the pool.                     *)
LEMMA PoolTakes ==
  ASSUME PoolInv, pool.ready, NEW b, b \in Blocks \cup {NULL}, _mgmmem_xfer(b)
  PROVE  /\ PoolInv' /\ doing' \in {"nothing", "stopped"}
         /\ doing' # "stopped" =>
              IF b = NULL THEN pool'.entries = pool.entries ELSE pool'.entries = Append(pool.entries, b)
<1> DEFINE n == Len(pool.entries)
<1>1. n \in Nat /\ pool.entries \in Seq(Blocks) /\ NULL \notin Blocks /\ pool.cnt_allocated \in Nat
  BY EntriesFacts DEF PoolInv, Blocks, NULL
<1>2. CASE b = NULL /\ pool' = [pool EXCEPT !.flags = @ \cup {"NULL_PTR"}] /\ missing' = TRUE /\ Returns
  <2>1. /\ DOMAIN pool' = DOMAIN pool /\ pool'.entries = pool.entries /\ pool'.ready = pool.ready
        /\ pool'.cnt_allocated = pool.cnt_allocated /\ pool'.room = pool.room
        /\ pool'.flags = pool.flags \cup {"NULL_PTR"}
    BY <1>2 DEF PoolInv
  <2> QED
    BY <1>2, <2>1 DEF PoolInv, FlagsTell, Returns, Goes
<1>3. ASSUME NEW p, Store(p, b), b # NULL, p.entries = pool.entries, p.ready = pool.ready, p.flags = pool.flags,
             DOMAIN p = DOMAIN pool, p.cnt_allocated \in Nat, p.room \in Nat,
             n + 1 <= p.cnt_allocated, p.cnt_allocated * ENTRY <= p.room
      PROVE  PoolInv' /\ doing' = "nothing" /\ pool'.entries = Append(pool.entries, b)
  <2>1. /\ DOMAIN pool' = DOMAIN pool /\ pool'.entries = Append(pool.entries, b) /\ pool'.ready = pool.ready
        /\ pool'.cnt_allocated = p.cnt_allocated /\ pool'.room = p.room /\ pool'.flags = pool.flags
        /\ missing' = missing /\ doing' = "nothing"
    BY <1>3 DEF Store, PoolInv, Returns, Goes
  <2>2. pool'.entries \in Seq(Blocks) /\ Len(pool'.entries) = n + 1
    BY <1>1, <1>3, <2>1
  <2> QED
    BY <1>3, <2>1, <2>2 DEF PoolInv, FlagsTell
<1>4. CASE b # NULL /\ n < pool.cnt_allocated /\ Store(pool, b)
  <2>1. n + 1 <= pool.cnt_allocated
    BY <1>1, <1>4
  <2> QED
    BY <1>3, <1>4, <2>1 DEF PoolInv
<1>5. ASSUME b # NULL, MayGrow(n), NEW builtin \in Builtins, NEW r, r = recalloc(builtin, new_cnt, ENTRY),
             r.ok, Store([pool EXCEPT !.cnt_allocated = new_cnt, !.room = r.size], b)
      PROVE  PoolInv' /\ doing' = "nothing" /\ pool'.entries = Append(pool.entries, b)
  <2> DEFINE p == [pool EXCEPT !.cnt_allocated = new_cnt, !.room = r.size]   c == new_cnt
  <2>1. c \in Nat /\ n + 1 <= c /\ r.size = c * ENTRY
    BY <1>1, <1>5, ArrayGrows
  <2> HIDE DEF c
  <2>2. c * ENTRY \in Nat
    BY <2>1 DEF ENTRY
  <2>3. /\ p.entries = pool.entries /\ p.ready = pool.ready /\ p.flags = pool.flags
        /\ DOMAIN p = DOMAIN pool /\ p.cnt_allocated = c /\ p.room = r.size
    BY DEF PoolInv, c
  <2>4. Store(p, b)
    BY <1>5
  <2> HIDE DEF p
  <2>5. p.cnt_allocated * ENTRY <= p.room
    BY <2>1, <2>2, <2>3
  <2> QED
    BY <1>3, <1>5, <2>1, <2>2, <2>3, <2>4, <2>5
<1>6. CASE UNCHANGED mgmmemVars /\ Goes("stopped")
  BY <1>6 DEF mgmmemVars, Goes, PoolInv, FlagsTell
<1>7. \/ b = NULL /\ pool' = [pool EXCEPT !.flags = @ \cup {"NULL_PTR"}] /\ missing' = TRUE /\ Returns
      \/ b # NULL /\ n < pool.cnt_allocated /\ Store(pool, b)
      \/ /\ b # NULL /\ MayGrow(n)
         /\ \E builtin \in Builtins :
              LET r == recalloc(builtin, new_cnt, ENTRY) IN
              r.ok /\ Store([pool EXCEPT !.cnt_allocated = new_cnt, !.room = r.size], b)
      \/ UNCHANGED mgmmemVars /\ Goes("stopped")
  BY DEF _mgmmem_xfer
<1> QED
  BY <1>2, <1>4, <1>5, <1>6, <1>7

-----------------------------------------------------------------------------
(* What a step leaves alone                                                *)

LEMMA OwnFacts ==
  /\ Own("nothing") = {} /\ Own("ldap_dn2domain") = {} /\ Own("ldap_domain2hostlist") = {"domain"}
  /\ Own("uri") = {"ldap_servers", "uri"} /\ Own("init") = {"uri", "ldap"} /\ Own("bind") = {"ldap"}
  /\ Own("create_lookup_key") = {} /\ Own("getstring") = {"key"} /\ Own("wordexp") = {"key"}
  /\ Own("strtol") = {"tmp"} /\ Own("http_set_locale") = {"lcbuf"}
BY DEF Own

LEMMA LeftFacts ==
  ASSUME failed \in BOOLEAN, Succeeds \/ Fails
  PROVE  /\ failed' \in BOOLEAN /\ (failed => failed') /\ Left \subseteq Left'
         /\ Left \subseteq {"res", "p"} /\ (Fails => Left' = {"res", "p"})
BY DEF Succeeds, Fails, Left

LEMMA IniFrame ==
  ASSUME IniInv, UNCHANGED iniVars, doing \notin Getting \cup {"stopped"}, doing' \notin Getting,
         failed => failed'
  PROVE  IniInv'
<1>1. text' = text /\ got' = got /\ ids' = ids
  BY DEF iniVars
<1>2. IdConfigured'
  BY <1>1 DEF IniInv, IdConfigured
<1>3. IntConfigured => IntConfigured'
  BY <1>1 DEF IntConfigured, IsInt, IsLong
<1> QED
  BY <1>1, <1>2, <1>3 DEF IniInv, Getting

LEMMA HttpFrame ==
  ASSUME HttpInv, UNCHANGED httpVars, doing \notin {"http_set_locale", "stopped"}, doing' # "http_set_locale"
  PROVE  HttpInv'
<1>1. lang' = lang /\ request' = request /\ locale' = locale /\ before' = before
  BY DEF httpVars
<1>2. Served => Served'
  BY <1>1 DEF Served, Chose, NotChosen, Is
<1> QED
  BY <1>1, <1>2 DEF HttpInv

LEMMA ConnFrame ==
  ASSUME ConnInv, UNCHANGED conn, doing' \notin Connecting, "uri" \in temps' => "uri" \in temps
  PROVE  ConnInv'
<1>1. ConnectReports'
  BY DEF ConnInv, ConnectReports
<1> QED
  BY <1>1 DEF ConnInv

LEMMA PoolFrame ==
  ASSUME PoolInv, UNCHANGED mgmmemVars
  PROVE  PoolInv' /\ pool' = pool
BY DEF PoolInv, mgmmemVars, FlagsTell

LEMMA AddressFrame ==
  ASSUME AddressInv, UNCHANGED address, failed => failed'
  PROVE  AddressInv'
<1>1. AddressParts'
  BY ZenonT(60) DEF AddressInv, AddressParts
<1> QED
  BY <1>1 DEF AddressInv

LEMMA SizedFrame ==
  ASSUME ExactOrRefused, UNCHANGED sized
  PROVE  ExactOrRefused'
BY DEF ExactOrRefused

-----------------------------------------------------------------------------
LEMMA EmptyPoolFacts ==
  /\ DOMAIN EmptyPool = {"ready", "entries", "cnt_allocated", "room", "flags"}
  /\ EmptyPool.ready /\ EmptyPool.entries = <<>> /\ EmptyPool.entries \in Seq(Blocks) /\ Len(EmptyPool.entries) = 0
  /\ EmptyPool.cnt_allocated = 0 /\ EmptyPool.room = 0 /\ 0 * ENTRY = 0 /\ EmptyPool.flags = {}
BY DEF EmptyPool, ENTRY

LEMMA InitIInv == Init => IInv
<1> SUFFICES ASSUME Init PROVE IInv
  OBVIOUS
<1> USE DEF Init
<1>1. TempsInv
  BY OwnFacts DEF TempsInv, HeapInit, Left
<1>2. PoolInv
  <2>1. pool = EmptyPool /\ missing = FALSE
    BY DEF MgmMemInit
  <2>2. FlagsTell /\ missing \in BOOLEAN
    BY <2>1, EmptyPoolFacts, Zenon DEF FlagsTell
  <2>3. /\ pool.cnt_allocated \in Nat /\ pool.room \in Nat
        /\ Len(pool.entries) <= pool.cnt_allocated /\ pool.cnt_allocated * ENTRY <= pool.room
    BY <2>1, EmptyPoolFacts
  <2> QED
    BY <2>1, <2>2, <2>3, EmptyPoolFacts DEF PoolInv
<1>3. OwnersInv
  BY DEF OwnersInv, HeapInit, MgmMemInit, EmptyPool, Entries, Different
<1>4. ConnInv
  BY DEF ConnInv, LdapInit, HeapInit, Connecting, ConnectReports
<1>5. IniInv
  BY DEF IniInv, IniInit, HeapInit, Getting, IdConfigured
<1>6. HttpInv
  BY DEF HttpInv, HttpInit, HeapInit, Served, NotChosen
<1>7. AddressInv
  BY DEF AddressInv, AddressInit, AddressParts
<1>8. ExactOrRefused
  BY DEF ExactOrRefused, SafeCallocInit
<1> QED
  BY <1>1, <1>2, <1>3, <1>4, <1>5, <1>6, <1>7, <1>8 DEF IInv

-----------------------------------------------------------------------------
(* What the program does about the directory                               *)

LEMMA OutsideDirectory ==
  ASSUME IInv, UNCHANGED <<sized, iniVars, httpVars, address>>, Succeeds \/ Fails,
         doing \in Connecting \cup {"nothing"}, doing' \in Connecting \cup {"nothing", "stopped"}
  PROVE  IniInv' /\ HttpInv' /\ AddressInv' /\ ExactOrRefused'
<1>1. failed => failed'
  BY LeftFacts DEF IInv, TempsInv
<1>2. doing \notin Getting \cup {"stopped", "http_set_locale"} /\ doing' \notin Getting \cup {"http_set_locale"}
  BY DEF Getting, Connecting
<1> QED
  BY <1>1, <1>2, IniFrame, HttpFrame, AddressFrame, SizedFrame DEF IInv

LEMMA TempsSame ==
  ASSUME TempsInv, Idle, doing' \in {"nothing", "stopped"}, Succeeds \/ Fails, UNCHANGED temps
  PROVE  TempsInv'
BY LeftFacts, OwnFacts DEF TempsInv, Idle

(* The program frees or allocates a block of its own.                      *)
LEMMA OwnerStep ==
  ASSUME IInv, Owner, UNCHANGED <<sized, mgmmemVars, ldapVars, iniVars, httpVars, address>>
  PROVE  IInv'
<1>1. Idle /\ UNCHANGED <<temps, doing, failed>>
  BY DEF Owner, Strdup, Free
<1>2. Keeps \/ Gives \/ \E b \in held : freec(b) /\ held' = held \ {b}
  BY DEF Owner, Strdup, Free
<1>3. doing = "nothing" /\ doing' = "nothing" /\ Succeeds
  BY <1>1 DEF Idle, Succeeds
<1>4. IniInv' /\ HttpInv' /\ AddressInv' /\ ExactOrRefused'
  BY <1>3, OutsideDirectory
<1>5. TempsInv' /\ PoolInv' /\ ConnInv'
  BY <1>1, <1>3, TempsSame, PoolFrame, ConnFrame DEF IInv, ldapVars, Connecting
<1>6. OwnersInv'
  BY <1>2, <1>3, PoolFrame, OwnersStay DEF IInv
<1> QED
  BY <1>4, <1>5, <1>6 DEF IInv

LEMMA DifferentCounts ==
  ASSUME PoolInv, Different(pool.entries)
  PROVE  Cardinality(Entries) = Len(pool.entries)
<1> DEFINE s == pool.entries   n == Len(s)
<1>1. n \in Nat /\ DOMAIN s = 1 .. n /\ (\A b : b \in Entries <=> \E i \in 1 .. n : s[i] = b)
  BY EntriesFacts
<1>2. s \in [1 .. n -> Entries]
  BY <1>1 DEF PoolInv
<1>3. \A i, j \in 1 .. n : s[i] = s[j] => i = j
  BY <1>1 DEF Different
<1> HIDE DEF n, s
<1>4. s \in Bijection(1 .. n, Entries)
  BY <1>1, <1>2, <1>3 DEF Bijection, Injection, Surjection, IsInjective
<1>5. ExistsBijection(1 .. n, Entries)
  BY <1>4 DEF ExistsBijection
<1> QED
  BY <1>1, <1>5, FS_CountingElements DEF n, s

LEMMA DestroyStep ==
  ASSUME IInv, mgmmem_destroy \/ mgmmem_init
  PROVE  PoolInv' /\ OwnersInv' /\ doing' = "nothing" /\ Succeeds
<1>1. CASE mgmmem_init
  <2>1. Entries = {} /\ doing = "nothing" /\ doing' = "nothing" /\ Keeps /\ Succeeds
    BY <1>1, EntriesFacts DEF mgmmem_init, IInv, PoolInv, Entries, heapVars, Keeps, Succeeds, Idle
  <2>2. pool' = EmptyPool /\ missing' = FALSE
    BY <1>1 DEF mgmmem_init
  <2>3. FlagsTell' /\ missing' \in BOOLEAN
    BY <2>2, EmptyPoolFacts, Zenon DEF FlagsTell
  <2>4. /\ pool'.cnt_allocated \in Nat /\ pool'.room \in Nat
        /\ Len(pool'.entries) <= pool'.cnt_allocated /\ pool'.cnt_allocated * ENTRY <= pool'.room
    BY <2>2, EmptyPoolFacts
  <2>5. PoolInv'
    BY <2>2, <2>3, <2>4, EmptyPoolFacts DEF PoolInv
  <2>6. Entries' = {} /\ Different(pool'.entries)
    BY <2>2, EmptyPoolFacts DEF Entries, Different
  <2> QED
    BY <2>1, <2>5, <2>6 DEF IInv, OwnersInv, Keeps
<1>2. CASE mgmmem_destroy
  <2>1. doing = "nothing" /\ doing' = "nothing" /\ held' = held /\ live' = live \ Entries /\ missing' = missing /\ Succeeds
    BY <1>2 DEF mgmmem_destroy, Succeeds, Idle
  <2>2. Entries \subseteq live /\ Cardinality(Entries) = Len(pool.entries)
    BY <2>1, DifferentCounts DEF IInv, OwnersInv
  <2>3. abused' = FALSE
    BY <1>2, <2>2 DEF mgmmem_destroy, IInv, OwnersInv
  <2>4. /\ DOMAIN pool' = DOMAIN pool /\ pool'.ready = FALSE /\ pool'.entries = <<>> /\ pool'.room = pool.room
        /\ pool'.cnt_allocated = pool.cnt_allocated /\ pool'.flags = pool.flags
    BY <1>2 DEF mgmmem_destroy, IInv, PoolInv
  <2>5. PoolInv'
    <3>1. 0 <= pool.cnt_allocated /\ Len(<<>>) = 0 /\ <<>> \in Seq(Blocks)
      BY DEF IInv, PoolInv
    <3> QED
      BY <2>1, <2>4, <3>1 DEF IInv, PoolInv, FlagsTell
  <2>6. Entries' = {} /\ Different(pool'.entries)
    BY <2>4 DEF Entries, Different
  <2> QED
    BY <2>1, <2>2, <2>3, <2>5, <2>6 DEF IInv, OwnersInv
<1> QED
  BY <1>1, <1>2

LEMMA AppendEntries ==
  ASSUME PoolInv, Different(pool.entries), NEW b \in Blocks, b \notin Entries,
         pool'.entries = Append(pool.entries, b)
  PROVE  Entries' = Entries \cup {b} /\ Different(pool'.entries)
<1> DEFINE s == pool.entries   n == Len(s)   t == Append(s, b)
<1>1. s \in Seq(Blocks) /\ n \in Nat /\ DOMAIN s = 1 .. n /\ (\A i \in 1 .. n : s[i] \in Entries)
  BY EntriesFacts DEF PoolInv
<1>2. Entries = {s[i] : i \in 1 .. n} /\ Entries' = {t[i] : i \in DOMAIN t}
  BY <1>1 DEF Entries
<1>3. DOMAIN t = 1 .. n + 1 /\ (\A i \in 1 .. n : t[i] = s[i]) /\ t[n + 1] = b
  BY <1>1
<1>4. 1 .. n + 1 = 1 .. n \cup {n + 1}
  BY <1>1
<1>5. \A i, j \in 1 .. n : s[i] = s[j] => i = j
  BY <1>1 DEF Different
<1> HIDE DEF s, t, n
<1>6. Entries' = Entries \cup {b}
  BY <1>2, <1>3, <1>4
<1>7. Different(t)
  BY <1>1, <1>3, <1>4, <1>5 DEF Different
<1> QED
  BY <1>6, <1>7 DEF t, s

(* A new block, or one of the program, or NULL.                            *)
LEMMA HandsOver ==
  ASSUME IInv, Idle, pool.ready, NEW b \in Blocks \cup {NULL}, _mgmmem_xfer(b), UNCHANGED abused,
         \/ b = NULL /\ live' = live /\ held' = held
         \/ b \in held /\ live' = live /\ held' = held \ {b}
         \/ b \in Blocks \ live /\ live' = live \cup {b} /\ held' = held
  PROVE  PoolInv' /\ OwnersInv' /\ doing' \in {"nothing", "stopped"}
<1>1. PoolInv' /\ doing' \in {"nothing", "stopped"}
  BY PoolTakes DEF IInv
<1>2. SUFFICES ASSUME doing' # "stopped" PROVE OwnersInv'
  BY <1>1 DEF OwnersInv, IInv
<1>3. /\ PoolInv /\ abused' = FALSE /\ live = held \cup Entries /\ held \cap Entries = {} /\ held \subseteq Blocks
      /\ Different(pool.entries)
  BY DEF IInv, OwnersInv, Idle
<1>4. CASE b = NULL
  <2>1. pool'.entries = pool.entries
    BY <1>2, <1>4, PoolTakes DEF IInv
  <2>2. Entries' = Entries /\ Different(pool'.entries)
    BY <1>3, <2>1 DEF Entries
  <2>3. live' = live /\ held' = held
    BY <1>3, <1>4 DEF Blocks, NULL
  <2> QED
    BY <1>3, <2>2, <2>3 DEF OwnersInv
<1>5. CASE b # NULL
  <2>1. b \in Blocks /\ b \notin Entries /\ pool'.entries = Append(pool.entries, b)
    BY <1>2, <1>3, <1>5, PoolTakes
  <2>2. Entries' = Entries \cup {b} /\ Different(pool'.entries)
    BY <1>3, <2>1, AppendEntries
  <2> QED
    BY <1>3, <1>5, <2>1, <2>2 DEF OwnersInv
<1> QED
  BY <1>4, <1>5

LEMMA PrintStep ==
  ASSUME IInv, mgmmem_printf
  PROVE  PoolInv' /\ OwnersInv' /\ doing = "nothing" /\ doing' \in {"nothing", "stopped"} /\ (Succeeds \/ Fails)
<1>1. doing = "nothing" /\ Idle /\ pool.ready
  BY DEF mgmmem_printf, Idle
<1>2. CASE pool' = [pool EXCEPT !.flags = @ \cup {"BAD_ALLOC"}] /\ missing' = TRUE /\ Fails /\ Keeps /\ Returns
  <2>1. /\ DOMAIN pool' = DOMAIN pool /\ pool'.entries = pool.entries /\ pool'.ready = pool.ready
        /\ pool'.cnt_allocated = pool.cnt_allocated /\ pool'.room = pool.room
        /\ pool'.flags = pool.flags \cup {"BAD_ALLOC"}
    BY <1>2 DEF PoolInv, IInv
  <2>2. PoolInv'
    BY <1>2, <2>1 DEF IInv, PoolInv, FlagsTell
  <2>3. OwnersInv'
    BY <1>1, <1>2, <2>1, OwnersStay DEF IInv
  <2> QED
    BY <1>1, <1>2, <2>2, <2>3 DEF Returns, Goes
<1>3. CASE New /\ _mgmmem_xfer(Fresh) /\ Succeeds /\ UNCHANGED held
  <2>1. Fresh \in Blocks \ live /\ live' = live \cup {Fresh} /\ held' = held /\ abused' = abused
    BY <1>1, <1>3, LiveBlocks, FreshFacts DEF IInv, New
  <2> HIDE DEF Fresh
  <2> QED
    BY <1>1, <1>3, <2>1, HandsOver
<1> QED
  BY <1>2, <1>3 DEF mgmmem_printf

LEMMA XferStep ==
  ASSUME IInv, NEW b \in Blocks \cup {NULL}, mgmmem_xfer(b)
  PROVE  PoolInv' /\ OwnersInv' /\ doing = "nothing" /\ doing' \in {"nothing", "stopped"} /\ Succeeds
<1>1. /\ doing = "nothing" /\ Idle /\ pool.ready /\ b \in held \cup {NULL} /\ _mgmmem_xfer(b) /\ held' = held \ {b}
      /\ live' = live /\ abused' = abused /\ Succeeds
  BY DEF mgmmem_xfer, Idle, Succeeds
<1>2. NULL \notin held
  BY <1>1 DEF IInv, OwnersInv, Blocks, NULL
<1>3. b = NULL => held' = held
  BY <1>1, <1>2
<1> QED
  BY <1>1, <1>3, HandsOver

LEMMA PoolStep ==
  ASSUME IInv, MgmMemNext, UNCHANGED <<sized, ldapVars, iniVars, httpVars, address>>
  PROVE  IInv'
<1>1. /\ PoolInv' /\ OwnersInv' /\ doing = "nothing" /\ doing' \in {"nothing", "stopped"}
      /\ (Succeeds \/ Fails) /\ UNCHANGED temps
  <2>1. CASE mgmmem_init \/ mgmmem_destroy
    BY <2>1, DestroyStep DEF mgmmem_init, mgmmem_destroy, heapVars, Idle
  <2>2. CASE mgmmem_printf
    BY <2>2, PrintStep DEF mgmmem_printf
  <2>3. ASSUME NEW b \in Blocks \cup {NULL}, mgmmem_xfer(b)
        PROVE  /\ PoolInv' /\ OwnersInv' /\ doing = "nothing" /\ doing' \in {"nothing", "stopped"}
              /\ (Succeeds \/ Fails) /\ UNCHANGED temps
    BY <2>3, XferStep DEF mgmmem_xfer
  <2> QED
    BY <2>1, <2>2, <2>3 DEF MgmMemNext
<1>2. IniInv' /\ HttpInv' /\ AddressInv' /\ ExactOrRefused'
  BY <1>1, OutsideDirectory
<1>3. TempsInv' /\ ConnInv'
  BY <1>1, TempsSame, ConnFrame DEF IInv, ldapVars, Connecting, Idle
<1> QED
  BY <1>1, <1>2, <1>3 DEF IInv

-----------------------------------------------------------------------------
(* Connections                                                             *)

(* What is left to show of a step of ensc_ldap_connect().                  *)
LEMMA ConnStep ==
  ASSUME IInv, UNCHANGED <<sized, iniVars, httpVars, address>>, UNCHANGED mgmmemVars,
         Succeeds \/ Fails, Keeps \/ Gives,
         doing \in Connecting \cup {"nothing"}, doing' \in Connecting \cup {"nothing", "stopped"},
         TempsInv', ConnInv'
  PROVE  IInv'
<1>1. doing # "stopped"
  BY DEF Connecting
<1>2. PoolInv' /\ OwnersInv'
  BY <1>1, PoolFrame, OwnersStay DEF IInv
<1> QED
  BY <1>2, OutsideDirectory DEF IInv

LEMMA ProceedFacts ==
  ASSUME NEW f, NEW owned, Proceed(f, owned), TempsInv
  PROVE  /\ doing' = f /\ temps' = owned /\ Succeeds /\ Keeps
         /\ owned \subseteq Left \cup Own(f) => TempsInv'
BY DEF Proceed, Goes, Succeeds, TempsInv, Left

LEMMA ConnFields ==
  ASSUME ConnInv, NEW c, c = [conn EXCEPT !.gives = "NULL"], xasprintf(c)
  PROVE  /\ DOMAIN conn' = DOMAIN conn /\ conn'.gives = "NULL" /\ conn'.ctx = conn.ctx
         /\ conn'.handle = conn.handle /\ conn'.hosts = conn.hosts /\ conn'.len = conn.len /\ conn'.room = conn.room
         /\ (conn.ctx /\ conn'.told \in {"yes", "failed"}) \/ (~ conn.ctx /\ conn'.told = conn.told)
         /\ (Gives \/ Keeps)
<1>1. /\ DOMAIN c = DOMAIN conn /\ c.gives = "NULL" /\ c.ctx = conn.ctx /\ c.told = conn.told
      /\ c.handle = conn.handle /\ c.hosts = conn.hosts /\ c.len = conn.len /\ c.room = conn.room
      /\ DOMAIN conn = {"gives", "ctx", "told", "handle", "hosts", "len", "room"}
  BY DEF ConnInv
<1>2. ASSUME NEW t \in {"yes", "failed"}, conn' = [c EXCEPT !.told = t]
      PROVE  /\ DOMAIN conn' = DOMAIN c /\ conn'.gives = c.gives /\ conn'.ctx = c.ctx /\ conn'.told = t
             /\ conn'.handle = c.handle /\ conn'.hosts = c.hosts /\ conn'.len = c.len /\ conn'.room = c.room
  BY <1>1, <1>2
<1>3. CASE c.ctx /\ Gives /\ conn' = [c EXCEPT !.told = "yes"]
  BY <1>1, <1>2, <1>3
<1>4. CASE c.ctx /\ Keeps /\ conn' = [c EXCEPT !.told = "failed"]
  BY <1>1, <1>2, <1>4
<1>5. CASE ~ c.ctx /\ Keeps /\ conn' = c
  BY <1>1, <1>5
<1> QED
  BY <1>3, <1>4, <1>5 DEF xasprintf

(* The way out when a call fails.                                          *)
LEMMA ReturnsNULLStep ==
  ASSUME IInv, UNCHANGED <<sized, iniVars, httpVars, address>>, UNCHANGED mgmmemVars,
         doing \in Connecting, NEW owned, owned \subseteq temps, owned \subseteq Left, ReturnsNULL(owned)
  PROVE  IInv'
<1> DEFINE c == [conn EXCEPT !.gives = "NULL"]
<1>1. xasprintf(c) /\ temps' = owned /\ doing' = "nothing" /\ Fails
  BY DEF ReturnsNULL, Returns, Goes
<1>2. /\ DOMAIN conn' = DOMAIN conn /\ conn'.gives = "NULL" /\ conn'.ctx = conn.ctx
      /\ conn'.handle = conn.handle /\ conn'.hosts = conn.hosts /\ conn'.len = conn.len /\ conn'.room = conn.room
      /\ (conn.ctx /\ conn'.told \in {"yes", "failed"}) \/ (~ conn.ctx /\ conn'.told = conn.told)
      /\ (Gives \/ Keeps)
  BY <1>1, ConnFields DEF IInv
<1> HIDE DEF c
<1>3. conn.handle = "none" /\ conn.told = "no"
  BY DEF IInv, ConnInv
<1>4. ConnectReports'
  BY <1>2, <1>3 DEF ConnectReports
<1>5. ConnInv'
  BY <1>1, <1>2, <1>4 DEF IInv, ConnInv, Connecting
<1>6. TempsInv'
  <2>1. failed' \in BOOLEAN /\ Left \subseteq Left'
    BY <1>1, LeftFacts DEF IInv, TempsInv
  <2> QED
    BY <1>1, <2>1 DEF TempsInv
<1> QED
  BY <1>1, <1>2, <1>5, <1>6, ConnStep

(* Memory is out.                                                          *)
LEMMA StopStep ==
  ASSUME IInv, UNCHANGED <<sized, iniVars, httpVars, address>>, UNCHANGED mgmmemVars, UNCHANGED conn,
         doing \in Connecting \cup {"nothing"}, alloc_error
  PROVE  IInv'
<1>1. doing' = "stopped" /\ Succeeds /\ Keeps /\ UNCHANGED temps
  BY DEF alloc_error, Goes
<1>2. TempsInv' /\ ConnInv'
  BY <1>1, ConnFrame, LeftFacts DEF IInv, TempsInv, Connecting
<1> QED
  BY <1>1, <1>2, ConnStep

(* It goes on, and conn says about itself what ConnInv does.               *)
LEMMA GoesOn ==
  ASSUME IInv, UNCHANGED <<sized, iniVars, httpVars, address>>, UNCHANGED mgmmemVars,
         doing \in Connecting \cup {"nothing"},
         NEW f \in Connecting \cup {"nothing"}, NEW owned, Proceed(f, owned),
         owned \subseteq Left \cup Own(f), ConnInv'
  PROVE  IInv'
<1>1. doing' = f /\ Succeeds /\ Keeps /\ TempsInv'
  BY ProceedFacts DEF IInv
<1> QED
  BY <1>1, ConnStep

LEMMA ConnectSteps ==
  ASSUME IInv, UNCHANGED <<sized, iniVars, httpVars, address>>,
         \/ \E ctx \in BOOLEAN : ensc_ldap_connect(ctx)
         \/ ldap_dn2domain \/ ldap_domain2hostlist \/ ldap_initialize \/ init_ldap
  PROVE  IInv'
<1> USE DEF At
<1>0. "uri" \notin Left /\ TempsInv /\ ConnInv /\ "nothing" \notin Connecting
  BY DEF IInv, Left, Connecting
<1>1. ASSUME NEW ctx \in BOOLEAN, ensc_ldap_connect(ctx)
      PROVE  IInv'
  <2>1. doing = "nothing" /\ conn.handle = "none" /\ UNCHANGED mgmmemVars /\ Proceed("ldap_dn2domain", temps)
    BY <1>1 DEF ensc_ldap_connect
  <2>2. /\ DOMAIN conn' = DOMAIN conn /\ conn'.gives = "none" /\ conn'.told = "no" /\ conn'.handle = conn.handle
        /\ conn'.hosts = conn.hosts /\ conn'.len = 0 /\ conn'.room = 0
    BY <1>0, <1>1 DEF ensc_ldap_connect, ConnInv
  <2>3. temps \subseteq Left /\ temps' = temps
    BY <1>0, <2>1, OwnFacts, ProceedFacts DEF TempsInv
  <2>4. ConnInv'
    BY <1>0, <2>1, <2>2, <2>3 DEF ConnInv, ConnectReports
  <2> QED
    BY <2>1, <2>3, <2>4, GoesOn DEF Connecting
<1>2. ASSUME NEW f \in Connecting, NEW owned, Proceed(f, owned), doing \in Connecting,
             UNCHANGED conn, "uri" \in owned => "uri" \in temps
      PROVE  ConnInv'
  <2>1. ConnectReports'
    BY <1>0, <1>2 DEF ConnInv, ConnectReports
  <2> QED
    BY <1>0, <1>2, <2>1, ProceedFacts DEF ConnInv
<1>3. CASE ldap_dn2domain
  <2>1. doing = "ldap_dn2domain" /\ temps \subseteq Left /\ UNCHANGED mgmmemVars /\ doing \in Connecting
    BY <1>0, <1>3, OwnFacts DEF ldap_dn2domain, TempsInv, Connecting
  <2>2. CASE Proceed("ldap_domain2hostlist", temps \cup {"domain"}) /\ UNCHANGED conn
    <3>1. temps \cup {"domain"} \subseteq Left \cup Own("ldap_domain2hostlist")
      BY <2>1, OwnFacts
    <3>2. ConnInv'
      BY <1>2, <2>1, <2>2 DEF Connecting
    <3> QED
      BY <2>1, <2>2, <3>1, <3>2, GoesOn DEF Connecting
  <2>3. CASE ReturnsNULL(temps)
    BY <2>1, <2>3, ReturnsNULLStep
  <2> QED
    BY <1>3, <2>2, <2>3 DEF ldap_dn2domain
<1>4. CASE ldap_domain2hostlist
  <2>1. doing = "ldap_domain2hostlist" /\ temps \subseteq Left \cup {"domain"} /\ UNCHANGED mgmmemVars /\ doing \in Connecting
    BY <1>0, <1>4, OwnFacts DEF ldap_domain2hostlist, TempsInv, Connecting
  <2>2. ASSUME NEW hosts \in HostLists, Proceed("uri", (temps \ {"domain"}) \cup {"ldap_servers"}),
               conn' = [conn EXCEPT !.hosts = hosts]
        PROVE  IInv'
    <3>1. (temps \ {"domain"}) \cup {"ldap_servers"} \subseteq Left \cup Own("uri")
      BY <2>1, OwnFacts
    <3>2. /\ DOMAIN conn' = DOMAIN conn /\ conn'.gives = conn.gives /\ conn'.told = conn.told /\ conn'.ctx = conn.ctx
          /\ conn'.handle = conn.handle /\ conn'.hosts = hosts /\ conn'.len = conn.len /\ conn'.room = conn.room
      BY <1>0, <2>2 DEF ConnInv
    <3>3. hosts \in Seq(Nat) /\ "uri" \notin temps'
      BY <1>0, <2>1, <2>2, HostAssumption, ProceedFacts
    <3>4. ConnInv'
      BY <1>0, <2>1, <3>2, <3>3 DEF ConnInv, ConnectReports
    <3> QED
      BY <2>1, <2>2, <3>1, <3>4, GoesOn DEF Connecting
  <2>3. CASE ReturnsNULL(temps \ {"domain"})
    <3>1. temps \ {"domain"} \subseteq temps /\ temps \ {"domain"} \subseteq Left
      BY <2>1
    <3> QED
      BY <2>1, <2>3, <3>1, ReturnsNULLStep
  <2> QED
    BY <1>4, <2>2, <2>3 DEF ldap_domain2hostlist
<1>5. CASE ldap_initialize
  <2>1. doing = "uri" /\ temps \subseteq Left \cup {"ldap_servers", "uri"} /\ UNCHANGED mgmmemVars /\ doing \in Connecting
    BY <1>0, <1>5, OwnFacts DEF ldap_initialize, TempsInv, Connecting
  <2>2. CASE Proceed("init", (temps \ {"ldap_servers"}) \cup {"ldap"}) /\ UNCHANGED conn
    <3>1. (temps \ {"ldap_servers"}) \cup {"ldap"} \subseteq Left \cup Own("init")
      BY <2>1, OwnFacts
    <3>2. ConnInv'
      BY <1>2, <2>1, <2>2 DEF Connecting
    <3> QED
      BY <2>1, <2>2, <3>1, <3>2, GoesOn DEF Connecting
  <2>3. CASE ReturnsNULL(temps \ {"ldap_servers", "uri"})
    <3> DEFINE owned == temps \ {"ldap_servers", "uri"}
    <3>1. owned \subseteq temps /\ owned \subseteq Left
      BY <2>1
    <3> QED
      BY <2>1, <2>3, <3>1, ReturnsNULLStep
  <2> QED
    BY <1>5, <2>2, <2>3 DEF ldap_initialize
<1>6. CASE init_ldap
  <2>1. doing = "init" /\ temps \subseteq Left \cup {"uri", "ldap"} /\ UNCHANGED mgmmemVars /\ doing \in Connecting
    BY <1>0, <1>6, OwnFacts DEF init_ldap, TempsInv, Connecting
  <2>2. CASE Proceed("bind", temps \ {"uri"}) /\ UNCHANGED conn
    <3>1. temps \ {"uri"} \subseteq Left \cup Own("bind")
      BY <2>1, OwnFacts
    <3>2. ConnInv'
      BY <1>2, <2>1, <2>2 DEF Connecting
    <3> QED
      BY <2>1, <2>2, <3>1, <3>2, GoesOn DEF Connecting
  <2>3. CASE ReturnsNULL(temps \ {"uri", "ldap"})
    <3> DEFINE owned == temps \ {"uri", "ldap"}
    <3>1. owned \subseteq temps /\ owned \subseteq Left
      BY <2>1
    <3> QED
      BY <2>1, <2>3, <3>1, ReturnsNULLStep
  <2> QED
    BY <1>6, <2>2, <2>3 DEF init_ldap
<1> QED
  BY <1>1, <1>3, <1>4, <1>5, <1>6

(* The uri with one more host, its blank and its NUL byte fits.            *)
LEMMA AddHostStep ==
  ASSUME IInv, UNCHANGED <<sized, iniVars, httpVars, address>>, AddHost
  PROVE  IInv'
<1>1. /\ doing = "uri" /\ doing \in Connecting /\ UNCHANGED mgmmemVars /\ conn.hosts # <<>>
      /\ TempsInv /\ ConnInv /\ temps \subseteq Left \cup {"ldap_servers", "uri"}
  BY OwnFacts DEF AddHost, At, IInv, TempsInv, Connecting
<1> DEFINE h == Head(conn.hosts)   more == IF "uri" \in temps THEN 1 ELSE 0
<1>2. CASE Proceed("uri", temps \cup {"uri"})
           /\ conn' = [conn EXCEPT !.hosts = Tail(@), !.room = conn.len + h + sizeof_prefix,
                                   !.len = @ + more + 7 + h]
  <2>1. /\ DOMAIN conn' = DOMAIN conn /\ conn'.gives = conn.gives /\ conn'.told = conn.told
        /\ conn'.handle = conn.handle /\ conn'.hosts = Tail(conn.hosts)
        /\ conn'.room = conn.len + h + 9 /\ conn'.len = conn.len + more + 7 + h
    BY <1>1, <1>2 DEF ConnInv, sizeof_prefix
  <2>2. h \in Nat /\ more \in {0, 1} /\ Tail(conn.hosts) \in Seq(Nat) /\ conn.len \in Nat
    BY <1>1 DEF ConnInv
  <2> HIDE DEF h, more
  <2>3. conn'.len \in Nat /\ conn'.room \in Nat /\ conn'.len + 1 <= conn'.room
    BY <2>1, <2>2, SMTT(60)
  <2>4. ConnInv'
    BY <1>1, <2>1, <2>2, <2>3 DEF ConnInv, ConnectReports
  <2>5. temps \cup {"uri"} \subseteq Left \cup Own("uri")
    BY <1>1, OwnFacts
  <2> QED
    BY <1>1, <1>2, <2>4, <2>5, GoesOn
<1>3. CASE alloc_error /\ UNCHANGED conn
  BY <1>1, <1>3, StopStep
<1> QED
  BY <1>2, <1>3 DEF AddHost

LEMMA BindSteps ==
  ASSUME IInv, UNCHANGED <<sized, iniVars, httpVars, address>>, bind \/ ldap_destroy
  PROVE  IInv'
<1> USE DEF At
<1>0. "uri" \notin Left /\ TempsInv /\ ConnInv /\ "nothing" \notin Connecting /\ UNCHANGED mgmmemVars
  BY DEF IInv, Left, Connecting, bind, ldap_destroy
<1>1. ASSUME NEW owned, owned \subseteq Left, Proceed("nothing", owned), NEW gives, NEW handle,
             doing \in Connecting \cup {"nothing"},
             conn' = [conn EXCEPT !.gives = gives, !.handle = handle],
             gives = "none" \/ (gives = "LDAP" /\ handle \in {"bound", "refused"} /\ conn.told = "no")
      PROVE  IInv'
  <2>1. /\ DOMAIN conn' = DOMAIN conn /\ conn'.gives = gives /\ conn'.told = conn.told
        /\ conn'.handle = handle /\ conn'.hosts = conn.hosts /\ conn'.len = conn.len /\ conn'.room = conn.room
    BY <1>0, <1>1 DEF ConnInv
  <2>2. doing' = "nothing" /\ "uri" \notin temps'
    BY <1>0, <1>1, ProceedFacts
  <2>3. ConnInv'
    BY <1>0, <1>1, <2>1, <2>2 DEF ConnInv, ConnectReports
  <2> QED
    BY <1>0, <1>1, <2>3, OwnFacts, GoesOn
<1>2. CASE bind
  <2>1. doing = "bind" /\ doing \in Connecting /\ temps \subseteq Left \cup {"ldap"} /\ conn.told = "no"
    BY <1>0, <1>2, OwnFacts DEF bind, TempsInv, Connecting, ConnInv
  <2>2. temps \ {"ldap"} \subseteq Left /\ temps \ {"ldap"} \subseteq temps
    BY <2>1
  <2>3. ASSUME NEW handle \in {"bound", "refused"}, Proceed("nothing", temps \ {"ldap"}),
               conn' = [conn EXCEPT !.gives = "LDAP", !.handle = handle]
        PROVE  IInv'
    BY <1>1, <2>1, <2>2, <2>3
  <2>4. CASE ReturnsNULL(temps \ {"ldap"})
    BY <1>0, <2>1, <2>2, <2>4, ReturnsNULLStep
  <2> QED
    BY <1>2, <2>3, <2>4 DEF bind
<1>3. CASE ldap_destroy
  <2>1. doing = "nothing" /\ temps \subseteq Left /\ Proceed("nothing", temps)
    BY <1>0, <1>3, OwnFacts DEF ldap_destroy, TempsInv
  <2> QED
    BY <1>1, <1>3, <2>1 DEF ldap_destroy
<1> QED
  BY <1>2, <1>3

-----------------------------------------------------------------------------
(* Texts from the directory, to the caller or to the pool                  *)

LEMMA HandsStep ==
  ASSUME IInv, Idle, NEW to \in {"caller", "pool"}, NEW b, Hands(to, b),
         (b = NULL /\ UNCHANGED <<live, abused>>) \/ (b = Fresh /\ New)
  PROVE  PoolInv' /\ OwnersInv' /\ doing' \in {"nothing", "stopped"}
<1>1. abused' = abused /\ doing # "stopped"
  BY DEF New, Idle
<1>2. b # NULL => b = Fresh /\ b \in Blocks \ live /\ live' = live \cup {b}
  BY <1>1, LiveBlocks, FreshFacts DEF New, IInv
<1>3. CASE to = "caller"
  <2>1. MayHold /\ held' = held \cup ({b} \ {NULL}) /\ doing' = "nothing" /\ UNCHANGED mgmmemVars
    BY <1>3 DEF Hands, Returns, Goes
  <2>2. Keeps \/ Gives
    <3>1. CASE b = NULL
      <4>1. held' = held /\ NULL \notin Blocks
        BY <2>1, <3>1 DEF Blocks, NULL
      <4>2. live' = live
        BY <1>1, <3>1, <4>1, LiveBlocks, FreshFacts DEF New, IInv
      <4> QED
        BY <1>1, <4>1, <4>2 DEF Keeps
    <3>2. CASE b # NULL
      <4>1. held' = held \cup {b} /\ b = Fresh /\ New
        BY <1>2, <2>1, <3>2
      <4> QED
        BY <2>1, <4>1 DEF Gives
    <3> QED
      BY <3>1, <3>2
  <2> QED
    BY <1>1, <2>1, <2>2, PoolFrame, OwnersStay DEF IInv
<1>4. CASE to = "pool"
  <2>1. pool.ready /\ _mgmmem_xfer(b) /\ held' = held
    BY <1>4 DEF Hands
  <2>2. b \in Blocks \cup {NULL}
    BY <1>2
  <2>3. b = NULL => live' = live
    BY <1>1, LiveBlocks, FreshFacts DEF New, IInv
  <2> QED
    BY <1>1, <1>2, <2>1, <2>2, <2>3, HandsOver
<1> QED
  BY <1>3, <1>4

LEMMA TextSteps ==
  ASSUME IInv, UNCHANGED <<sized, iniVars, httpVars, address>>, NEW to \in {"caller", "pool"},
         \/ ldap_error_string(to)
         \/ \E text_ \in Queries, behind \in Behind : ldap_escape_query(text_, behind, to)
  PROVE  IInv'
<1>1. CASE /\ Idle /\ UNCHANGED <<temps, conn>>
           /\ \/ New /\ Hands(to, Fresh) /\ Succeeds
              \/ alloc_error /\ UNCHANGED mgmmemVars
  <2>1. CASE New /\ Hands(to, Fresh) /\ Succeeds
    <3>1. PoolInv' /\ OwnersInv' /\ doing' \in {"nothing", "stopped"}
      BY <1>1, <2>1, HandsStep
    <3>2. IniInv' /\ HttpInv' /\ AddressInv' /\ ExactOrRefused'
      BY <1>1, <2>1, <3>1, OutsideDirectory DEF Idle
    <3>3. TempsInv' /\ ConnInv'
      BY <1>1, <2>1, <3>1, TempsSame, ConnFrame DEF IInv, Connecting
    <3> QED
      BY <3>1, <3>2, <3>3 DEF IInv
  <2>2. CASE alloc_error /\ UNCHANGED mgmmemVars
    BY <1>1, <2>2, StopStep DEF Idle
  <2> QED
    BY <1>1, <2>1, <2>2
<1>2. CASE /\ Idle /\ UNCHANGED conn /\ temps' \in {temps, temps \cup {"res"}}
           /\ Hands(to, NULL) /\ Fails /\ UNCHANGED <<live, abused>>
  <2>1. PoolInv' /\ OwnersInv' /\ doing' \in {"nothing", "stopped"}
    BY <1>2, HandsStep
  <2>2. IniInv' /\ HttpInv' /\ AddressInv' /\ ExactOrRefused'
    BY <1>2, <2>1, OutsideDirectory DEF Idle
  <2>3. ConnInv'
    BY <1>2, <2>1, ConnFrame DEF IInv, Connecting
  <2>4. TempsInv'
    BY <1>2, <2>1, LeftFacts, OwnFacts DEF IInv, TempsInv, Idle
  <2> QED
    BY <2>1, <2>2, <2>3, <2>4 DEF IInv
<1>3. CASE ldap_error_string(to)
  BY <1>1, <1>2, <1>3 DEF ldap_error_string
<1>4. ASSUME NEW text_ \in Queries, NEW behind \in Behind, ldap_escape_query(text_, behind, to)
      PROVE  IInv'
  <2>1. /\ Idle /\ UNCHANGED <<temps, conn>>
        /\ (New /\ Hands(to, Fresh) /\ Succeeds) \/ (alloc_error /\ UNCHANGED mgmmemVars)
    BY <1>4 DEF ldap_escape_query
  <2> QED
    BY <1>1, <2>1
<1> QED
  BY <1>3, <1>4

LEMMA DirectoryStep == IInv /\ Directory => IInv'
<1> SUFFICES ASSUME IInv, Directory PROVE IInv'
  OBVIOUS
<1>1. UNCHANGED <<sized, iniVars, httpVars, address>>
  BY DEF Directory
<1>2. CASE MgmMemNext /\ UNCHANGED ldapVars
  BY <1>1, <1>2, PoolStep
<1>3. CASE LdapNext
  BY <1>1, <1>3, ConnectSteps, AddHostStep, BindSteps, TextSteps DEF LdapNext
<1>4. CASE Owner /\ UNCHANGED <<mgmmemVars, ldapVars>>
  BY <1>1, <1>4, OwnerStep
<1> QED
  BY <1>2, <1>3, <1>4 DEF Directory

-----------------------------------------------------------------------------
(* What the program does about its configuration                           *)

LEMMA OutsideConfiguration ==
  ASSUME IInv, UNCHANGED <<sized, mgmmemVars, ldapVars, httpVars, address>>,
         Succeeds \/ Fails, Keeps \/ Gives, "uri" \in temps' => "uri" \in temps,
         doing \in Getting \cup {"nothing"}, doing' \in Getting \cup {"nothing", "stopped"},
         TempsInv', IniInv'
  PROVE  IInv'
<1>1. failed => failed'
  BY LeftFacts DEF IInv, TempsInv
<1>2. doing \notin {"stopped", "http_set_locale"} /\ doing' # "http_set_locale" /\ doing' \notin Connecting
  BY DEF Getting, Connecting
<1>3. PoolInv' /\ pool' = pool /\ OwnersInv'
  BY <1>2, PoolFrame, OwnersStay DEF IInv
<1> QED
  BY <1>1, <1>2, <1>3, ConnFrame, HttpFrame, AddressFrame, SizedFrame DEF IInv, ldapVars

LEMMA IniTypes ==
  /\ int \in IntTypes /\ long \in IntTypes /\ ulong \in IntTypes /\ uid_t \in IntTypes
  /\ Values(int) \subseteq Values(long) /\ Values(uid_t) \subseteq Values(ulong)
  /\ Least(ulong) = 0 /\ Values(ulong) \subseteq Nat
<1>1. INT_BITS \in Nat \ {0} /\ LONG_BITS \in Nat \ {0} /\ INT_BITS <= LONG_BITS
  BY TypeAssumption, LongAssumption
<1>2. int \in IntTypes /\ long \in IntTypes /\ ulong \in IntTypes /\ uid_t \in IntTypes
  BY <1>1 DEF int, long, ulong, uid_t, IntTypes
<1>3. /\ int.bits = INT_BITS /\ int.signed /\ long.bits = LONG_BITS /\ long.signed
      /\ ulong.bits = LONG_BITS /\ ~ ulong.signed /\ uid_t.bits = INT_BITS /\ ~ uid_t.signed
  BY DEF int, long, ulong, uid_t, Signed, Unsigned
<1> DEFINE p == 2 ^ (INT_BITS - 1)   q == 2 ^ (LONG_BITS - 1)   r == 2 ^ INT_BITS   s == 2 ^ LONG_BITS
<1>4. p \in Nat /\ q \in Nat /\ p <= q
  <2> DEFINE m == INT_BITS - 1   n == LONG_BITS - 1
  <2>1. m \in Nat /\ n \in Nat /\ m <= n
    BY <1>1
  <2> HIDE DEF m, n
  <2>2. 2 ^ m <= 2 ^ n /\ 2 ^ m \in Nat /\ 2 ^ n \in Nat
    BY <2>1, PowersGrow, SubsetsOfInterval
  <2> QED
    BY <2>2 DEF m, n
<1>5. r \in Nat /\ s \in Nat /\ r <= s
  BY <1>1, PowersGrow, SubsetsOfInterval
<1>6. Least(int) = - p /\ Greatest(int) = p - 1 /\ Least(long) = - q /\ Greatest(long) = q - 1
  BY <1>2, <1>3, TypeParts
<1>7. Least(uid_t) = 0 /\ Greatest(uid_t) = r - 1 /\ Least(ulong) = 0 /\ Greatest(ulong) = s - 1
  BY <1>2, <1>3, TypeParts
<1>8. \A T \in {int, long, ulong, uid_t} : Values(T) = Least(T) .. Greatest(T)
  BY <1>2, Limits
<1> HIDE DEF p, q, r, s
<1>9. - p .. p - 1 \subseteq - q .. q - 1 /\ 0 .. r - 1 \subseteq 0 .. s - 1 /\ 0 .. s - 1 \subseteq Nat
  BY <1>4, <1>5
<1> QED
  BY <1>2, <1>6, <1>7, <1>8, <1>9

(* What strtol() and strtoul() make of numbers that fit.                   *)
LEMMA Numbers ==
  ASSUME NEW t, t.kind = "number"
  PROVE  /\ ~ strtol(t).none /\ strtol(t).rest = t.rest
         /\ strtol(t).erange <=> t.n \notin Values(long)
         /\ t.n \in Values(long) => strtol(t).value = t.n
         /\ strtoul(t).rest = t.rest
         /\ t.n \in Values(uid_t) => ~ strtoul(t).erange /\ Cast(uid_t, strtoul(t).value) = t.n
<1>1. /\ ~ strtol(t).none /\ strtol(t).rest = t.rest /\ strtoul(t).rest = t.rest
      /\ (strtol(t).erange <=> t.n \notin Values(long)) /\ strtol(t).value = Clamp(long, t.n)
  BY DEF strtol, strtoul
<1>2. ASSUME t.n \in Values(long)
      PROVE  Clamp(long, t.n) = t.n
  <2> DEFINE n == t.n   l == Least(long)   h == Greatest(long)
  <2>1. l \in Int /\ h \in Nat /\ n \in l .. h
    BY <1>2, IniTypes, Limits
  <2>2. Clamp(long, n) = IF n > h THEN h ELSE IF n < l THEN l ELSE n
    BY DEF Clamp, Least, Greatest
  <2> HIDE DEF n, l, h
  <2>3. ~ (n > h) /\ ~ (n < l)
    BY <2>1
  <2>4. Clamp(long, n) = n
    BY <2>2, <2>3
  <2> QED
    BY <2>4 DEF n
<1>3. ASSUME t.n \in Values(uid_t)
      PROVE  ~ strtoul(t).erange /\ Cast(uid_t, strtoul(t).value) = t.n
  <2> DEFINE n == t.n   h == Greatest(ulong)
  <2>1. n \in Values(ulong) /\ n \in Nat /\ h \in Nat /\ n \in 0 .. h
    BY <1>3, IniTypes, Limits
  <2>2. Cast(ulong, n) = n /\ Cast(uid_t, n) = n
    BY <1>3, <2>1, IniTypes, CastFacts
  <2>3. /\ strtoul(t).erange <=> (n > h \/ -n > h)
        /\ ~ strtoul(t).erange => strtoul(t).value = Cast(ulong, n)
    BY DEF strtoul, Greatest
  <2> HIDE DEF n, h
  <2>4. ~ (n > h \/ -n > h)
    BY <2>1
  <2> QED
    BY <2>2, <2>3, <2>4 DEF n
<1> QED
  BY <1>1, <1>2, <1>3

(* The steps of iniparser_getsec...() and iniparser_getstring_exp().       *)
LEMMA GetStep ==
  ASSUME IInv, NEW call, call \notin {"getuser", "getgroup"}, NEW dflt, Get(call, dflt)
  PROVE  /\ TempsInv' /\ IniInv' /\ doing = "nothing" /\ doing' \in Getting /\ Succeeds /\ Keeps
         /\ temps' = temps
<1>1. /\ doing = "nothing" /\ doing' \in {"wordexp", "create_lookup_key"} /\ Succeeds /\ Keeps /\ temps' = temps
      /\ ids' = ids
  BY DEF Get, Idle, Goes, Succeeds, Keeps
<1>2. DOMAIN got' = {"call", "dflt", "res", "value"} /\ got'.call = call
  BY DEF Get
<1>3. TempsInv'
  <2>1. Left' = Left /\ temps \subseteq Left /\ failed' \in BOOLEAN
    BY <1>1, OwnFacts DEF IInv, TempsInv, Succeeds, Left
  <2> QED
    BY <1>1, <2>1 DEF TempsInv
<1>4. IniInv'
  BY <1>1, <1>2 DEF IInv, IniInv, IdConfigured, Getting
<1> QED
  BY <1>1, <1>3, <1>4 DEF Getting

(* An inner step's Result() ends the call, but for the numbers.            *)
LEMMA ResultStep ==
  ASSUME IniInv, doing \in Getting, NEW res, NEW owned, Result(res, owned),
         IsInt(text) /\ ~ failed' /\ got.call = "getsecint_exp" => "tmp" \in owned
  PROVE  /\ IniInv' /\ temps' = owned
         /\ doing' = IF got.call = "getsecint_exp" THEN "strtol" ELSE "nothing"
<1>1. /\ temps' = owned /\ doing' = (IF got.call = "getsecint_exp" THEN "strtol" ELSE "nothing")
      /\ text' = text /\ ids' = ids /\ got' = [got EXCEPT !.res = res]
  BY DEF Result, Goes
<1>2. DOMAIN got' = DOMAIN got /\ got'.call = got.call
  BY <1>1 DEF IniInv
<1>3. IdConfigured'
  BY <1>2 DEF IniInv, IdConfigured
<1>4. IsInt(text)' <=> IsInt(text)
  BY <1>1 DEF IsInt
<1>5. CASE got.call = "getsecint_exp"
  BY <1>1, <1>2, <1>3, <1>4, <1>5 DEF IniInv, Getting
<1>6. CASE got.call # "getsecint_exp"
  BY <1>1, <1>2, <1>3, <1>6 DEF IniInv, Getting
<1> QED
  BY <1>1, <1>5, <1>6

LEMMA LookupSteps ==
  ASSUME IInv, create_lookup_key \/ _iniparser_getstring
  PROVE  /\ TempsInv' /\ IniInv' /\ doing \in Getting /\ doing' \in Getting \cup {"nothing"}
         /\ (Succeeds \/ Fails) /\ Keeps /\ ("uri" \in temps' => "uri" \in temps)
<1>1. CASE create_lookup_key
  <2>1. doing = "create_lookup_key" /\ doing \in Getting /\ Keeps /\ temps \subseteq Left /\ failed \in BOOLEAN /\ IniInv
    BY <1>1, OwnFacts DEF create_lookup_key, IInv, TempsInv, Getting
  <2>2. CASE /\ temps' = temps \cup {"key"} /\ Succeeds
             /\ Goes(IF Exp(got.call) THEN "wordexp" ELSE "getstring") /\ UNCHANGED iniVars
    <3>1. doing' \in {"wordexp", "getstring"} /\ (doing' = "getstring" => ~ Exp(got.call))
      BY <2>2 DEF Goes
    <3>2. Left' = Left /\ failed' \in BOOLEAN
      BY <2>1, <2>2 DEF Succeeds, Left
    <3>3. TempsInv'
      BY <2>1, <2>2, <3>1, <3>2, OwnFacts DEF TempsInv
    <3>4. text' = text /\ got' = got /\ ids' = ids
      BY <2>2 DEF iniVars
    <3>5. IniInv'
      BY <2>1, <3>1, <3>4 DEF IniInv, IdConfigured, Getting, Exp
    <3> QED
      BY <2>1, <2>2, <3>1, <3>3, <3>5 DEF Getting
  <2>3. CASE Result("dflt", temps) /\ Fails
    <3>1. failed' = TRUE
      BY <2>3 DEF Fails
    <3>2. IniInv' /\ temps' = temps /\ doing' \in {"strtol", "nothing"}
      BY <2>1, <2>3, <3>1, ResultStep
    <3>3. TempsInv'
      BY <2>1, <2>3, <3>2, LeftFacts DEF TempsInv
    <3> QED
      BY <2>1, <2>3, <3>2, <3>3 DEF Getting
  <2> QED
    BY <1>1, <2>2, <2>3 DEF create_lookup_key
<1>2. CASE _iniparser_getstring
  <2>1. /\ doing = "getstring" /\ doing \in Getting /\ Keeps /\ Succeeds /\ temps \subseteq Left \cup {"key"}
        /\ failed \in BOOLEAN /\ IniInv /\ got.call # "getsecint_exp"
    BY <1>2, OwnFacts DEF _iniparser_getstring, IInv, TempsInv, IniInv, Exp, Getting
  <2> DEFINE res == IF text.kind = "absent" THEN "dflt" ELSE "entry"
  <2>2. Result(res, temps \ {"key"})
    BY <1>2 DEF _iniparser_getstring
  <2> HIDE DEF res
  <2>3. IniInv' /\ temps' = temps \ {"key"} /\ doing' = "nothing"
    BY <2>1, <2>2, ResultStep
  <2>4. TempsInv'
    BY <2>1, <2>3, LeftFacts DEF TempsInv
  <2> QED
    BY <2>1, <2>3, <2>4
<1> QED
  BY <1>1, <1>2

(* A number is one word, so that only a call that fails keeps it from      *)
(* strtol().                                                               *)
LEMMA ExpandStep ==
  ASSUME IInv, iniparser_getstring_exp
  PROVE  /\ TempsInv' /\ IniInv' /\ doing \in Getting /\ doing' \in Getting \cup {"nothing", "stopped"}
         /\ (Succeeds \/ Fails) /\ (Keeps \/ Gives) /\ ("uri" \in temps' => "uri" \in temps)
<1>1. /\ doing = "wordexp" /\ doing \in Getting /\ temps \subseteq Left \cup {"key"}
      /\ failed \in BOOLEAN /\ IniInv /\ Left \subseteq {"res", "p"}
  BY OwnFacts DEF iniparser_getstring_exp, IInv, TempsInv, Getting, Left
<1>2. got.call = "getsecint_exp" /\ IsInt(text) => Wanted.kind # "absent" /\ Words(Wanted) = 1
  BY DEF Wanted, IsInt, Words
<1>3. ASSUME NEW res, NEW owned, Result(res, owned), Succeeds \/ Fails,
             IsInt(text) /\ ~ failed' /\ got.call = "getsecint_exp" => "tmp" \in owned,
             owned \subseteq Left' \cup {"tmp"}, "tmp" \in owned => got.call = "getsecint_exp"
      PROVE  TempsInv' /\ IniInv' /\ doing' \in Getting \cup {"nothing"} /\ ("uri" \in temps' => "uri" \in temps)
  <2>1. /\ IniInv' /\ temps' = owned
        /\ doing' = IF got.call = "getsecint_exp" THEN "strtol" ELSE "nothing"
    BY <1>1, <1>3, ResultStep
  <2>2. failed' \in BOOLEAN /\ Left' \subseteq {"res", "p"}
    BY <1>1, <1>3, LeftFacts DEF Left
  <2>3. CASE got.call = "getsecint_exp"
    BY <1>3, <2>1, <2>2, <2>3, OwnFacts DEF TempsInv, Getting
  <2>4. CASE got.call # "getsecint_exp"
    BY <1>3, <2>1, <2>2, <2>4, OwnFacts DEF TempsInv
  <2> QED
    BY <2>1, <2>3, <2>4
<1>4. temps \ {"key"} \subseteq Left /\ "tmp" \notin temps \ {"key"} /\ (Succeeds => Left' = Left)
  BY <1>1 DEF Succeeds, Left
<1>5. CASE (Wanted.kind = "absent" \/ Words(Wanted) # 1) /\ Result("NULL", temps \ {"key"}) /\ Succeeds /\ Keeps
  BY <1>1, <1>2, <1>3, <1>4, <1>5
<1>6. ASSUME NEW words \in {{}, {"p"}}, Result("NULL", (temps \ {"key"}) \cup words), Fails
      PROVE  TempsInv' /\ IniInv' /\ doing' \in Getting \cup {"nothing"} /\ ("uri" \in temps' => "uri" \in temps)
  <2> DEFINE owned == (temps \ {"key"}) \cup words
  <2>1. failed' = TRUE /\ Left' = {"res", "p"}
    BY <1>6 DEF Fails, Left
  <2>2. owned \subseteq Left' /\ "tmp" \notin owned
    BY <1>1, <1>4, <2>1
  <2>3. Result("NULL", owned)
    BY <1>6
  <2> HIDE DEF owned
  <2>4. IsInt(text) /\ ~ failed' /\ got.call = "getsecint_exp" => "tmp" \in owned
    BY <2>1
  <2> QED
    BY <1>3, <1>6, <2>2, <2>3, <2>4
<1>7. CASE got.call # "getsecint_exp" /\ Result("copy", temps \ {"key"}) /\ Succeeds /\ Gives
  BY <1>1, <1>3, <1>4, <1>7
<1>8. CASE got.call = "getsecint_exp" /\ Result("copy", (temps \ {"key"}) \cup {"tmp"}) /\ Succeeds /\ Keeps
  <2> DEFINE owned == (temps \ {"key"}) \cup {"tmp"}
  <2>1. owned \subseteq Left' \cup {"tmp"} /\ "tmp" \in owned /\ Result("copy", owned)
    BY <1>4, <1>8
  <2> HIDE DEF owned
  <2> QED
    BY <1>1, <1>3, <1>8, <2>1
<1>9. CASE alloc_error /\ UNCHANGED iniVars
  <2>1. doing' = "stopped" /\ Succeeds /\ Keeps /\ temps' = temps
    BY <1>9 DEF alloc_error, Goes
  <2>2. text' = text /\ got' = got /\ ids' = ids
    BY <1>9 DEF iniVars
  <2>3. IniInv'
    BY <1>1, <2>1, <2>2 DEF IniInv, IdConfigured, Getting
  <2>4. TempsInv'
    BY <1>1, <2>1 DEF TempsInv, Succeeds
  <2> QED
    BY <1>1, <2>1, <2>3, <2>4
<1>10. \/ (Wanted.kind = "absent" \/ Words(Wanted) # 1) /\ Result("NULL", temps \ {"key"}) /\ Succeeds /\ Keeps
       \/ Fails /\ Keeps /\ \E words \in {{}, {"p"}} : Result("NULL", (temps \ {"key"}) \cup words)
       \/ got.call # "getsecint_exp" /\ Result("copy", temps \ {"key"}) /\ Succeeds /\ Gives
       \/ got.call = "getsecint_exp" /\ Result("copy", (temps \ {"key"}) \cup {"tmp"}) /\ Succeeds /\ Keeps
       \/ alloc_error /\ UNCHANGED iniVars
  BY DEF iniparser_getstring_exp
<1> QED
  BY <1>1, <1>5, <1>6, <1>7, <1>8, <1>9, <1>10

(* The number, as an int, if strtol() has read all of it.                  *)
LEMMA NumberStep ==
  ASSUME IInv, iniparser_getsecint_exp
  PROVE  /\ TempsInv' /\ IniInv' /\ doing \in Getting /\ doing' = "nothing"
         /\ Succeeds /\ Keeps /\ ("uri" \in temps' => "uri" \in temps)
<1>1. /\ doing = "strtol" /\ doing \in Getting /\ temps \subseteq Left \cup {"tmp"} /\ failed \in BOOLEAN
      /\ IniInv /\ Succeeds /\ Keeps /\ doing' = "nothing" /\ temps' = temps \ {"tmp"} /\ text' = text /\ ids' = ids
      /\ got.call = "getsecint_exp" /\ (IsInt(text) /\ ~ failed => "tmp" \in temps)
  BY OwnFacts DEF iniparser_getsecint_exp, IInv, TempsInv, IniInv, Getting, Returns, Goes
<1>2. TempsInv'
  BY <1>1, LeftFacts DEF TempsInv
<1> DEFINE r == strtol(text)
           bad == "tmp" \notin temps \/ r.erange \/ r.none \/ r.rest # "end"
<1>3. got' = [got EXCEPT !.res = IF bad THEN "dflt" ELSE "number", !.value = IF bad THEN 0 ELSE Cast(int, r.value)]
  BY DEF iniparser_getsecint_exp
<1>4. /\ DOMAIN got' = DOMAIN got /\ got'.call = got.call
      /\ got'.res = (IF bad THEN "dflt" ELSE "number") /\ got'.value = (IF bad THEN 0 ELSE Cast(int, r.value))
  <2> HIDE DEF bad, r
  <2> QED
    BY <1>1, <1>3 DEF IniInv
<1>5. ~ bad => IsLong(text) /\ got'.value = Cast(int, text.n)
  <2>1. SUFFICES ASSUME ~ bad PROVE IsLong(text) /\ got'.value = Cast(int, text.n)
    OBVIOUS
  <2>2. text.kind = "number"
    BY <2>1 DEF strtol
  <2>3. text.rest = "end" /\ text.n \in Values(long) /\ r.value = text.n
    BY <2>1, <2>2, Numbers
  <2> QED
    BY <1>4, <2>1, <2>2, <2>3 DEF IsLong
<1>6. IsInt(text) /\ ~ failed => ~ bad
  <2>1. SUFFICES ASSUME IsInt(text), ~ failed PROVE ~ bad
    OBVIOUS
  <2>2. text.kind = "number" /\ text.rest = "end" /\ text.n \in Values(long) /\ "tmp" \in temps
    BY <1>1, <2>1, IniTypes DEF IsInt
  <2> QED
    BY <2>2, Numbers
<1> HIDE DEF bad, r
<1>7. got'.res = "number" <=> ~ bad
  BY <1>4
<1>8. IntConfigured'
  <2>1. failed' = failed
    BY <1>1 DEF Succeeds
  <2> QED
    BY <1>1, <1>5, <1>6, <1>7, <2>1 DEF IntConfigured, IsInt, IsLong
<1>9. IniInv'
  BY <1>1, <1>4, <1>8 DEF IniInv, IdConfigured, Getting
<1> QED
  BY <1>1, <1>2, <1>9

(* What is a number and what is a name.                                    *)
LEMMA NumberOrName ==
  /\ is_number(text) => text.kind # "absent" /\ text.kind # "word"
  /\ IsId(text) => is_number(text) /\ Number = text.n /\ text.kind = "number"
<1>1. ASSUME is_number(text)
      PROVE  text.kind # "absent" /\ text.kind # "word"
  BY <1>1 DEF is_number, strtoul
<1>2. ASSUME IsId(text)
      PROVE  is_number(text) /\ Number = text.n /\ text.kind = "number"
  <2>1. text.kind = "number" /\ text.rest \in {"end", "space"} /\ text.n \in Values(uid_t)
    BY <1>2 DEF IsId
  <2>2. strtoul(text).rest = text.rest /\ ~ strtoul(text).erange /\ Cast(uid_t, strtoul(text).value) = text.n
    BY <2>1, Numbers
  <2>3. is_number(text)
    BY <2>1, <2>2 DEF is_number
  <2> QED
    BY <2>1, <2>2, <2>3 DEF Number
<1> QED
  BY <1>1, <1>2

LEMMA AskedFacts ==
  ASSUME NEW call, NEW critical, NEW gid, NEW done, Asked(call, critical, gid, done)
  PROVE  got'.call = call /\ got'.critical = critical /\ got'.done = done /\ got'.before = ids
BY DEF Asked

LEMMA UserStep ==
  ASSUME IInv, NEW critical \in BOOLEAN, NEW gid \in BOOLEAN, iniparser_getuser(critical, gid)
  PROVE  IdConfigured' /\ DOMAIN ids' = {"uid", "gid"} /\ got'.call = "getuser"
<1>1. DOMAIN ids = {"uid", "gid"} /\ text' = text
  BY DEF IInv, IniInv, iniparser_getuser
<1>2. CASE text.kind = "absent" /\ Asked("getuser", critical, gid, ~ critical) /\ ids' = ids
  <2>1. got'.call = "getuser" /\ got'.critical = critical /\ got'.done = ~ critical /\ got'.before = ids
    BY <1>2, AskedFacts
  <2>2. ~ IsId(text)' /\ text'.kind = "absent"
    BY <1>1, <1>2 DEF IsId
  <2> QED
    BY <1>1, <1>2, <2>1, <2>2 DEF IdConfigured
<1>3. CASE is_number(text) /\ Asked("getuser", critical, gid, TRUE) /\ ids' = [ids EXCEPT !.uid = Number]
  <2>1. got'.call = "getuser" /\ got'.done = TRUE /\ got'.before = ids
    BY <1>3, AskedFacts
  <2>2. text'.kind # "absent" /\ text'.kind # "word" /\ (IsId(text)' => Number = text'.n)
    BY <1>1, <1>3, NumberOrName DEF IsId
  <2> HIDE DEF Number
  <2> QED
    BY <1>1, <1>3, <2>1, <2>2 DEF IdConfigured
<1>4. CASE /\ text.kind = "word" /\ text.name \in DOMAIN Users /\ Asked("getuser", critical, gid, TRUE)
           /\ ids' = [uid |-> Users[text.name].uid, gid |-> IF gid THEN Users[text.name].gid ELSE ids.gid]
  <2>1. got'.call = "getuser" /\ got'.done = TRUE /\ got'.before = ids
    BY <1>4, AskedFacts
  <2>2. text'.kind = "word" /\ ~ IsId(text)'
    BY <1>1, <1>4 DEF IsId
  <2>3. DOMAIN ids' = {"uid", "gid"} /\ ids'.uid = Users[text.name].uid
    BY <1>4
  <2> QED
    BY <1>1, <1>4, <2>1, <2>2, <2>3 DEF IdConfigured
<1>5. CASE text.kind # "absent" /\ ~ is_number(text) /\ Asked("getuser", critical, gid, FALSE) /\ ids' = ids
  <2>1. got'.call = "getuser" /\ got'.done = FALSE /\ got'.before = ids
    BY <1>5, AskedFacts
  <2>2. text'.kind # "absent" /\ ~ IsId(text)'
    BY <1>1, <1>5, NumberOrName DEF IsId
  <2> QED
    BY <1>1, <1>5, <2>1, <2>2 DEF IdConfigured
<1> QED
  BY <1>2, <1>3, <1>4, <1>5 DEF iniparser_getuser

LEMMA GroupStep ==
  ASSUME IInv, NEW critical \in BOOLEAN, iniparser_getgroup(critical)
  PROVE  IdConfigured' /\ DOMAIN ids' = {"uid", "gid"} /\ got'.call = "getgroup"
<1>1. DOMAIN ids = {"uid", "gid"} /\ text' = text
  BY DEF IInv, IniInv, iniparser_getgroup
<1>2. CASE text.kind = "absent" /\ Asked("getgroup", critical, TRUE, ~ critical) /\ ids' = ids
  <2>1. got'.call = "getgroup" /\ got'.critical = critical /\ got'.done = ~ critical /\ got'.before = ids
    BY <1>2, AskedFacts
  <2>2. ~ IsId(text)' /\ text'.kind = "absent"
    BY <1>1, <1>2 DEF IsId
  <2> QED
    BY <1>1, <1>2, <2>1, <2>2 DEF IdConfigured
<1>3. CASE is_number(text) /\ Asked("getgroup", critical, TRUE, TRUE) /\ ids' = [ids EXCEPT !.gid = Number]
  <2>1. got'.call = "getgroup" /\ got'.done = TRUE /\ got'.before = ids
    BY <1>3, AskedFacts
  <2>2. text'.kind # "absent" /\ text'.kind # "word" /\ (IsId(text)' => Number = text'.n)
    BY <1>1, <1>3, NumberOrName DEF IsId
  <2> HIDE DEF Number
  <2> QED
    BY <1>1, <1>3, <2>1, <2>2 DEF IdConfigured
<1>4. CASE /\ text.kind = "word" /\ text.name \in DOMAIN Groups /\ Asked("getgroup", critical, TRUE, TRUE)
           /\ ids' = [ids EXCEPT !.gid = Groups[text.name]]
  <2>1. got'.call = "getgroup" /\ got'.done = TRUE /\ got'.before = ids
    BY <1>4, AskedFacts
  <2>2. text'.kind = "word" /\ ~ IsId(text)'
    BY <1>1, <1>4 DEF IsId
  <2>3. DOMAIN ids' = {"uid", "gid"} /\ ids'.gid = Groups[text.name] /\ ids'.uid = ids.uid
    BY <1>1, <1>4
  <2> QED
    BY <1>1, <1>4, <2>1, <2>2, <2>3 DEF IdConfigured
<1>5. CASE text.kind # "absent" /\ ~ is_number(text) /\ Asked("getgroup", critical, TRUE, FALSE) /\ ids' = ids
  <2>1. got'.call = "getgroup" /\ got'.done = FALSE /\ got'.before = ids
    BY <1>5, AskedFacts
  <2>2. text'.kind # "absent" /\ ~ IsId(text)'
    BY <1>1, <1>5, NumberOrName DEF IsId
  <2> QED
    BY <1>1, <1>5, <2>1, <2>2 DEF IdConfigured
<1> QED
  BY <1>2, <1>3, <1>4, <1>5 DEF iniparser_getgroup

LEMMA ConfigurationStep == IInv /\ Configuration => IInv'
<1> SUFFICES ASSUME IInv, Configuration PROVE IInv'
  OBVIOUS
<1>1. UNCHANGED <<sized, mgmmemVars, ldapVars, httpVars, address>>
  BY DEF Configuration
<1>2. CASE Owner /\ UNCHANGED iniVars
  BY <1>1, <1>2, OwnerStep
<1>3. ASSUME NEW call \in {"getsecstring", "getsecboolean", "getsecint", "getstring_exp", "getsecstring_exp", "getsecint_exp"},
             NEW dflt \in {"NULL", "default"}, Get(call, dflt)
      PROVE  IInv'
  <2>1. call \notin {"getuser", "getgroup"}
    OBVIOUS
  <2> QED
    BY <1>1, <1>3, <2>1, GetStep, OutsideConfiguration
<1>4. CASE create_lookup_key \/ _iniparser_getstring \/ iniparser_getstring_exp \/ iniparser_getsecint_exp
  BY <1>1, <1>4, LookupSteps, ExpandStep, NumberStep, OutsideConfiguration
<1>5. ASSUME \/ \E critical, gid \in BOOLEAN : iniparser_getuser(critical, gid)
             \/ \E critical \in BOOLEAN : iniparser_getgroup(critical)
      PROVE  IInv'
  <2>1. doing = "nothing" /\ UNCHANGED heapVars
    BY <1>5 DEF iniparser_getuser, iniparser_getgroup, Idle
  <2>2. IdConfigured' /\ DOMAIN ids' = {"uid", "gid"} /\ got'.call \in {"getuser", "getgroup"}
    BY <1>5, UserStep, GroupStep
  <2>3. doing' = "nothing" /\ temps' = temps /\ Succeeds /\ Keeps
    BY <2>1 DEF heapVars, Succeeds, Keeps
  <2>4. IniInv'
    BY <2>2, <2>3 DEF IniInv, Getting
  <2>5. TempsInv'
    BY <2>1, <2>3, TempsSame DEF IInv, Idle
  <2> QED
    BY <1>1, <2>1, <2>3, <2>4, <2>5, OutsideConfiguration
<1> QED
  BY <1>2, <1>3, <1>4, <1>5 DEF Configuration, IniNext

-----------------------------------------------------------------------------
(* What the program does for a request                                     *)

LEMMA OutsideRequest ==
  ASSUME IInv, UNCHANGED <<sized, mgmmemVars, ldapVars, iniVars, address>>,
         Succeeds, Keeps, "uri" \in temps' => "uri" \in temps,
         doing \in {"nothing", "http_set_locale"}, doing' \in {"nothing", "http_set_locale", "stopped"},
         TempsInv', HttpInv'
  PROVE  IInv'
<1>1. failed => failed'
  BY DEF Succeeds
<1>2. doing \notin Getting \cup {"stopped"} /\ doing' \notin Connecting \cup Getting
  BY DEF Getting, Connecting
<1>3. PoolInv' /\ pool' = pool /\ OwnersInv'
  BY <1>2, PoolFrame, OwnersStay DEF IInv
<1> QED
  BY <1>1, <1>2, <1>3, ConnFrame, IniFrame, AddressFrame, SizedFrame DEF IInv, ldapVars

(* The loop goes on behind a language that is not supported, and may end   *)
(* with one that is.                                                       *)
LEMMA LookFurther ==
  ASSUME lang \in Seq(DOMAIN Languages), request \in Seq(DOMAIN Languages), Looking, lang # <<>>,
         request' = request
  PROVE  /\ Head(lang) \in DOMAIN Languages /\ Tail(lang) \in Seq(DOMAIN Languages)
         /\ \E i \in DOMAIN request : Head(lang) = request[i] /\ \A j \in 1 .. i - 1 : ~ Supported(request[j])
         /\ ~ Supported(Head(lang)) /\ lang' = Tail(lang) => Looking'
<1> DEFINE m == Len(request)   n == Len(lang)   at == m - n + 1   rest == Tail(lang)
<1>1. m \in Nat /\ n \in Nat \ {0} /\ n <= m /\ DOMAIN request = 1 .. m
  BY DEF Looking
<1>2. Len(rest) = n - 1 /\ (\A i \in 1 .. n - 1 : rest[i] = lang[i + 1]) /\ rest \in Seq(DOMAIN Languages)
  BY <1>1
<1>3. Head(lang) = lang[1] /\ Head(lang) \in DOMAIN Languages
  OBVIOUS
<1>4. (\A i \in 1 .. n : lang[i] = request[m - n + i]) /\ (\A i \in 1 .. m - n : ~ Supported(request[i]))
  BY DEF Looking
<1>5. Len(request') = m
  OBVIOUS
<1> HIDE DEF m, n, rest
<1>6. at \in 1 .. m /\ at - 1 = m - n /\ 1 \in 1 .. n
  BY <1>1
<1>7. lang[1] = request[at]
  BY <1>4, <1>6
<1>8. ASSUME ~ Supported(Head(lang)), lang' = rest
      PROVE  Looking'
  <2>1. Len(lang') = n - 1 /\ n - 1 <= m
    BY <1>1, <1>2, <1>8
  <2>2. ASSUME NEW i \in 1 .. n - 1
        PROVE  rest[i] = request[m - (n - 1) + i]
    <3>1. i + 1 \in 1 .. n /\ m - n + (i + 1) = m - (n - 1) + i
      BY <1>1
    <3>2. rest[i] = lang[i + 1] /\ lang[i + 1] = request[m - n + (i + 1)]
      BY <1>2, <1>4, <3>1
    <3> QED
      BY <3>1, <3>2
  <2>3. ASSUME NEW i \in 1 .. m - (n - 1)
        PROVE  ~ Supported(request[i])
    <3>1. i \in 1 .. m - n \/ i = at
      BY <1>1
    <3> QED
      BY <1>3, <1>4, <1>7, <1>8, <3>1
  <2> QED
    BY <1>5, <1>8, <2>1, <2>2, <2>3 DEF Looking
<1> QED
  BY <1>1, <1>2, <1>3, <1>4, <1>6, <1>7, <1>8 DEF rest

LEMMA RequestSteps ==
  ASSUME IInv, UNCHANGED <<sized, mgmmemVars, ldapVars, iniVars, address>>, http_set_locale \/ Skip
  PROVE  IInv'
<1>0. TempsInv /\ HttpInv /\ "uri" \notin Left
  BY DEF IInv, Left
<1>1. CASE http_set_locale
  <2>1. /\ doing = "nothing" /\ doing' = "http_set_locale" /\ Succeeds /\ Keeps /\ temps' = temps
        /\ locale' = locale /\ before' = locale
    BY <1>1 DEF http_set_locale, Idle, Goes
  <2>2. PICK n \in 0 .. MaxLanguages : \E r \in [1 .. n -> DOMAIN Languages] : request' = r /\ lang' = r
    BY <1>1 DEF http_set_locale
  <2>3. PICK r \in [1 .. n -> DOMAIN Languages] : request' = r /\ lang' = r
    BY <2>2
  <2>4. n \in Nat /\ r \in Seq(DOMAIN Languages) /\ Len(r) = n
    BY <2>2, RequestAssumption
  <2>5. Looking'
    BY <2>3, <2>4 DEF Looking
  <2>6. HttpInv'
    BY <2>1, <2>3, <2>4, <2>5 DEF HttpInv, NotChosen
  <2>7. TempsInv'
    BY <1>0, <2>1, LeftFacts, OwnFacts DEF TempsInv
  <2> QED
    BY <2>1, <2>6, <2>7, OutsideRequest
<1>2. CASE Skip
  <2>1. /\ doing = "http_set_locale" /\ UNCHANGED heapVars /\ lang # <<>> /\ ~ is_valid_lang(Head(lang))
        /\ lang' = Tail(lang) /\ request' = request /\ locale' = locale /\ before' = before
    BY <1>2 DEF Skip
  <2>2. doing' = "http_set_locale" /\ Succeeds /\ Keeps /\ temps' = temps
    BY <2>1 DEF heapVars, Succeeds, Keeps
  <2>3. Looking /\ NotChosen /\ lang \in Seq(DOMAIN Languages) /\ request \in Seq(DOMAIN Languages)
    BY <1>0, <2>1 DEF HttpInv
  <2>4. Looking' /\ lang' \in Seq(DOMAIN Languages)
    BY <2>1, <2>3, LookFurther DEF Supported
  <2>5. NotChosen'
    BY <2>1, <2>3 DEF NotChosen, Is
  <2>6. HttpInv'
    BY <2>1, <2>2, <2>3, <2>4, <2>5 DEF HttpInv
  <2>7. TempsInv'
    BY <1>0, <2>1, <2>2, LeftFacts DEF TempsInv
  <2> QED
    BY <2>1, <2>2, <2>6, <2>7, OutsideRequest
<1> QED
  BY <1>1, <1>2

LEMMA TryStep ==
  ASSUME IInv, UNCHANGED <<sized, mgmmemVars, ldapVars, iniVars, address>>, Try
  PROVE  IInv'
<1> DEFINE l == Head(lang)
<1>1. /\ doing = "http_set_locale" /\ lang # <<>> /\ is_valid_lang(l) /\ request' = request /\ before' = before
      /\ TempsInv /\ HttpInv /\ "uri" \notin Left
  BY DEF Try, IInv, Left
<1>2. Looking /\ NotChosen /\ lang \in Seq(DOMAIN Languages) /\ request \in Seq(DOMAIN Languages)
  BY <1>1 DEF HttpInv
<1>3. CASE alloc_error /\ UNCHANGED <<lang, locale>>
  <2>1. doing' = "stopped" /\ Succeeds /\ Keeps /\ temps' = temps
    BY <1>3 DEF alloc_error, Goes
  <2>2. HttpInv' /\ TempsInv'
    BY <1>1, <1>2, <1>3, <2>1, LeftFacts DEF HttpInv, TempsInv
  <2> QED
    BY <1>1, <2>1, <2>2, OutsideRequest
<1>4. CASE /\ temps' = temps \cup {"lcbuf"} /\ Goes("http_set_locale") /\ Succeeds /\ Keeps
           /\ locale' = IF Chosen(l) \in Installed THEN Chosen(l) ELSE locale
           /\ lang' = IF Chosen(l) \in Installed \cap Translated THEN <<>> ELSE Tail(lang)
  <2>1. doing' = "http_set_locale"
    BY <1>4 DEF Goes
  <2>2. TempsInv'
    BY <1>1, <1>4, <2>1, LeftFacts, OwnFacts DEF TempsInv
  <2>3. PICK i \in DOMAIN request : l = request[i] /\ \A j \in 1 .. i - 1 : ~ Supported(request[j])
    BY <1>1, <1>2, LookFurther
  <2>4. ASSUME Supported(l) PROVE HttpInv'
    <3>1. lang' = <<>> /\ locale' = Chosen(l)
      BY <1>4, <2>4 DEF Supported
    <3>2. Chose'
      <4>1. Is(request[i])'
        BY <1>1, <2>3, <3>1 DEF Is
      <4> HIDE DEF l
      <4> QED
        BY <1>1, <2>3, <2>4, <4>1 DEF Chose
    <3>3. lang' \in Seq(DOMAIN Languages) /\ request' \in Seq(DOMAIN Languages)
      BY <1>1, <1>2, <3>1
    <3> QED
      BY <2>1, <3>1, <3>2, <3>3 DEF HttpInv
  <2>5. ASSUME ~ Supported(l) PROVE HttpInv'
    <3>1. lang' = Tail(lang)
      BY <1>1, <1>4, <2>5 DEF Supported
    <3>2. Looking' /\ lang' \in Seq(DOMAIN Languages)
      BY <1>1, <1>2, <2>5, <3>1, LookFurther
    <3>3. locale' = locale \/ locale' = Chosen(request[i])
      BY <1>4, <2>3
    <3>4. NotChosen'
      <4>1. CASE locale' = locale
        BY <1>1, <1>2, <4>1 DEF NotChosen, Is
      <4>2. CASE locale' = Chosen(request[i])
        BY <1>1, <2>3, <4>2 DEF NotChosen, Is
      <4> QED
        BY <3>3, <4>1, <4>2
    <3>5. request' \in Seq(DOMAIN Languages)
      BY <1>1, <1>2
    <3> QED
      BY <2>1, <3>2, <3>4, <3>5 DEF HttpInv
  <2> HIDE DEF l
  <2>6. HttpInv'
    BY <2>4, <2>5
  <2> QED
    BY <1>1, <1>4, <2>1, <2>2, <2>6, OutsideRequest
<1> QED
  BY <1>3, <1>4 DEF Try

LEMMA RequestStep == IInv /\ Request => IInv'
<1> SUFFICES ASSUME IInv, Request PROVE IInv'
  OBVIOUS
<1>1. UNCHANGED <<sized, mgmmemVars, ldapVars, iniVars, address>>
  BY DEF Request
<1>2. CASE Done
  <2>1. /\ doing = "http_set_locale" /\ doing' = "nothing" /\ lang = <<>> /\ Succeeds /\ Keeps
        /\ temps' = temps \ {"lcbuf"} /\ lang' = lang /\ request' = request /\ locale' = locale /\ before' = before
    BY <1>2 DEF Done, Returns, Goes, httpVars
  <2>2. TempsInv'
    BY <2>1, LeftFacts, OwnFacts DEF IInv, TempsInv
  <2>3. HttpInv /\ request \in Seq(DOMAIN Languages)
    BY DEF IInv, HttpInv
  <2>4. Served
    <3>1. CASE Chose
      BY <3>1 DEF Served
    <3>2. CASE Looking /\ NotChosen
      <4>1. DOMAIN request = 1 .. Len(request) - Len(lang)
        BY <2>1, <2>3
      <4> QED
        BY <3>2, <4>1 DEF Served, Looking
    <3> QED
      BY <2>1, <2>3, <3>1, <3>2 DEF HttpInv
  <2>5. Served'
    BY <2>1, <2>4 DEF Served, Chose, NotChosen, Is
  <2>6. HttpInv'
    BY <2>1, <2>3, <2>5 DEF HttpInv
  <2> QED
    BY <1>1, <2>1, <2>2, <2>6, OutsideRequest
<1>3. CASE http_set_locale \/ Skip \/ Try
  BY <1>1, <1>3, RequestSteps, TryStep
<1> QED
  BY <1>2, <1>3 DEF Request, HttpNext

(* Only sized may change.                                                  *)
LEMMA NothingStep ==
  ASSUME IInv, ExactOrRefused', UNCHANGED <<live, held, temps, doing, abused, failed>>,
         UNCHANGED <<mgmmemVars, ldapVars, iniVars, httpVars, address>>
  PROVE  IInv'
<1>1. TempsInv'
  BY DEF IInv, TempsInv, Left
<1>2. PoolInv' /\ AddressInv'
  BY PoolFrame, AddressFrame DEF IInv
<1>3. OwnersInv'
  <2>1. pool' = pool
    BY DEF mgmmemVars
  <2> QED
    BY <2>1 DEF IInv, OwnersInv, Entries, Different
<1>4. ConnInv'
  <2>1. conn' = conn
    BY DEF ldapVars
  <2> QED
    BY <2>1 DEF IInv, ConnInv, ConnectReports
<1>5. IniInv'
  <2>1. text' = text /\ got' = got /\ ids' = ids
    BY DEF iniVars
  <2>2. IdConfigured' /\ (IntConfigured => IntConfigured') /\ (IsInt(text)' <=> IsInt(text))
    BY <2>1 DEF IInv, IniInv, IdConfigured, IntConfigured, IsInt, IsLong
  <2> QED
    BY <2>1, <2>2 DEF IInv, IniInv
<1>6. HttpInv'
  <2>1. lang' = lang /\ request' = request /\ locale' = locale /\ before' = before
    BY DEF httpVars
  <2>2. (Looking => Looking') /\ (Chose => Chose') /\ (NotChosen => NotChosen') /\ (Served => Served')
    BY <2>1 DEF Looking, Chose, NotChosen, Served, Is
  <2> QED
    BY <2>1, <2>2 DEF IInv, HttpInv
<1> QED
  BY <1>1, <1>2, <1>3, <1>4, <1>5, <1>6 DEF IInv

LEMMA SizeStep == IInv /\ Size => IInv'
<1> SUFFICES ASSUME IInv, Size PROVE IInv'
  OBVIOUS
<1>1. /\ ExactOrRefused' /\ UNCHANGED <<live, held, temps, doing, abused, failed>>
      /\ UNCHANGED <<mgmmemVars, ldapVars, iniVars, httpVars, address>>
  BY SizesStep DEF Size, heapVars
<1> QED
  BY <1>1, NothingStep

-----------------------------------------------------------------------------
(* Parts of sequences, and where strchr() finds something                  *)

LEMMA Slices ==
  ASSUME NEW S, NEW s \in Seq(S), NEW a \in 1 .. Len(s) + 1, NEW b \in a - 1 .. Len(s)
  PROVE  /\ SubSeq(s, a, b) \in Seq(S) /\ Len(SubSeq(s, a, b)) = b - a + 1
         /\ \A k \in 1 .. b - a + 1 : SubSeq(s, a, b)[k] = s[a + k - 1]
OBVIOUS

LEMMA SameSequence ==
  ASSUME NEW S, NEW s \in Seq(S), NEW t \in Seq(S), Len(s) = Len(t), \A k \in 1 .. Len(s) : s[k] = t[k]
  PROVE  s = t
OBVIOUS

LEMMA SliceOfSlice ==
  ASSUME NEW S, NEW s \in Seq(S), NEW a \in 1 .. Len(s) + 1, NEW b \in a - 1 .. Len(s),
         NEW c \in 1 .. b - a + 2, NEW d \in c - 1 .. b - a + 1
  PROVE  SubSeq(SubSeq(s, a, b), c, d) = SubSeq(s, a + c - 1, a + d - 1)
<1> DEFINE t == SubSeq(s, a, b)   u == SubSeq(t, c, d)   v == SubSeq(s, a + c - 1, a + d - 1)   n == Len(s)
<1>1. n \in Nat /\ a \in Nat /\ b \in Nat /\ c \in Nat /\ d \in Nat
  OBVIOUS
<1>2. t \in Seq(S) /\ Len(t) = b - a + 1 /\ \A k \in 1 .. b - a + 1 : t[k] = s[a + k - 1]
  BY Slices
<1> HIDE DEF t, n
<1>3. u \in Seq(S) /\ Len(u) = d - c + 1 /\ \A k \in 1 .. d - c + 1 : u[k] = t[c + k - 1]
  <2>1. c \in 1 .. Len(t) + 1 /\ d \in c - 1 .. Len(t)
    BY <1>1, <1>2
  <2> QED
    BY <1>2, <2>1, Slices
<1>4. v \in Seq(S) /\ Len(v) = d - c + 1 /\ \A k \in 1 .. d - c + 1 : v[k] = s[a + c + k - 2]
  <2> DEFINE x == a + c - 1   y == a + d - 1
  <2>1. x \in 1 .. n + 1 /\ y \in x - 1 .. n /\ y - x + 1 = d - c + 1
    BY <1>1 DEF n
  <2>2. \A k \in 1 .. d - c + 1 : x + k - 1 = a + c + k - 2
    BY <1>1
  <2> HIDE DEF x, y
  <2>3. /\ SubSeq(s, x, y) \in Seq(S) /\ Len(SubSeq(s, x, y)) = y - x + 1
        /\ \A k \in 1 .. y - x + 1 : SubSeq(s, x, y)[k] = s[x + k - 1]
    BY <2>1, Slices DEF n
  <2> QED
    BY <2>1, <2>2, <2>3 DEF x, y
<1> HIDE DEF u, v
<1>5. ASSUME NEW k \in 1 .. d - c + 1
      PROVE  u[k] = v[k]
  <2>1. c + k - 1 \in 1 .. b - a + 1 /\ a + (c + k - 1) - 1 = a + c + k - 2
    BY <1>1
  <2> QED
    BY <1>2, <1>3, <1>4, <2>1
<1>6. u = v
  BY <1>3, <1>4, <1>5, SameSequence
<1> QED
  BY <1>6 DEF u, v, t

LEMMA WholeSlice ==
  ASSUME NEW S, NEW s \in Seq(S)
  PROVE  /\ Len(s) \in Nat /\ SubSeq(s, 1, Len(s)) = s
         /\ s # <<>> => Tail(s) = SubSeq(s, 2, Len(s))
<1>1. SubSeq(s, 1, Len(s)) = s
  BY SameSequence
<1>2. ASSUME s # <<>>
      PROVE  Tail(s) = SubSeq(s, 2, Len(s))
  BY <1>2, SameSequence
<1> QED
  BY <1>1, <1>2

(* strchr() finds the one before which there is none.                      *)
LEMMA Found ==
  ASSUME NEW S, NEW s \in Seq(S), NEW c, NEW k \in 1 .. Len(s), s[k] = c, \A j \in 1 .. k - 1 : s[j] # c
  PROVE  Has(s, c) /\ First(s, c) = k
<1> DEFINE n == Len(s)   f == First(s, c)
<1>1. n \in Nat /\ DOMAIN s = 1 .. n /\ k \in 1 .. n
  OBVIOUS
<1>2. f \in 1 .. n /\ s[f] = c /\ \A j \in 1 .. f - 1 : s[j] # c
  <2>1. \E i \in DOMAIN s : s[i] = c /\ \A j \in 1 .. i - 1 : s[j] # c
    BY <1>1
  <2> QED
    BY <1>1, <2>1 DEF First
<1> HIDE DEF n, f
<1>3. ~ (f < k) /\ ~ (k < f)
  <2>1. f < k => f \in 1 .. k - 1
    BY <1>1, <1>2
  <2>2. k < f => k \in 1 .. f - 1
    BY <1>1, <1>2
  <2> QED
    BY <1>2, <2>1, <2>2
<1>4. f = k
  BY <1>1, <1>2, <1>3
<1> QED
  BY <1>1, <1>4 DEF Has, f, n

LEMMA FirstFacts ==
  ASSUME NEW S, NEW s \in Seq(S), NEW c, Has(s, c)
  PROVE  First(s, c) \in 1 .. Len(s) /\ s[First(s, c)] = c /\ \A j \in 1 .. First(s, c) - 1 : s[j] # c
<1> DEFINE at == {i \in DOMAIN s : s[i] = c}   below == OpToRel(<, Nat)
<1>1. DOMAIN s = 1 .. Len(s) /\ Len(s) \in Nat /\ at \subseteq Nat /\ at # {}
  BY DEF Has
<1>2. ASSUME NEW x \in Nat, NEW y \in Nat, x < y
      PROVE  <<x, y>> \in below
  BY <1>2 DEF OpToRel
<1>3. IsWellFoundedOn(below, Nat)
  BY NatLessThanWellFounded
<1> HIDE DEF at, below
<1>4. PICK x \in at : \A y \in at : ~ (<<y, x>> \in below)
  BY <1>1, <1>3, WFMin
<1>5. x \in DOMAIN s /\ s[x] = c /\ x \in Nat
  BY <1>1 DEF at
<1>6. ASSUME NEW j \in 1 .. x - 1, s[j] = c
      PROVE  FALSE
  <2>1. j \in DOMAIN s /\ j \in Nat /\ j < x
    BY <1>1, <1>5
  <2>2. j \in at
    BY <1>6, <2>1 DEF at
  <2> QED
    BY <1>2, <1>4, <1>5, <2>1, <2>2
<1>7. \E i \in DOMAIN s : s[i] = c /\ \A j \in 1 .. i - 1 : s[j] # c
  BY <1>5, <1>6
<1> QED
  BY <1>1, <1>7 DEF First

(* s[a .. b] is cut at the first c, which is s[e + 1]; or there is none,   *)
(* and e = b.                                                              *)
CutAt(s, c, a, b, e) ==
  /\ a \in Nat /\ b \in Nat /\ e \in Nat /\ 1 <= a /\ a <= e + 1 /\ e <= b /\ b <= Len(s)
  /\ e = b \/ s[e + 1] = c
  /\ \A k \in a .. e : s[k] # c

LEMMA Cut ==
  ASSUME NEW S, NEW s \in Seq(S), NEW c, NEW a, NEW b, NEW e, CutAt(s, c, a, b, e)
  PROVE  /\ Has(SubSeq(s, a, b), c) <=> e < b
         /\ Before(SubSeq(s, a, b), c) = SubSeq(s, a, e)
         /\ e < b => BehindFirst(SubSeq(s, a, b), c) = SubSeq(s, e + 2, b)
<1> DEFINE t == SubSeq(s, a, b)   m == b - a + 1   n == Len(s)
<1>0. /\ n \in Nat /\ a \in Nat /\ b \in Nat /\ e \in Nat /\ 1 <= a /\ a <= e + 1 /\ e <= b /\ b <= n
      /\ e = b \/ s[e + 1] = c
      /\ \A k \in a .. e : s[k] # c
  BY DEF CutAt
<1>1. /\ n \in Nat /\ a \in Nat /\ b \in Nat /\ e \in Nat /\ m \in Nat /\ a <= e + 1 /\ e <= b
      /\ a \in 1 .. n + 1 /\ b \in a - 1 .. n
  BY <1>0
<1>2. t \in Seq(S) /\ Len(t) = m /\ DOMAIN t = 1 .. m /\ \A k \in 1 .. m : t[k] = s[a + k - 1]
  BY <1>1, Slices
<1>3. CASE e < b
  <2> DEFINE f == e - a + 2
  <2>1. f \in 1 .. m /\ a + f - 1 = e + 1 /\ f \in Nat
    BY <1>1, <1>3
  <2>2. t[f] = c
    BY <1>0, <1>2, <1>3, <2>1
  <2>3. ASSUME NEW j \in 1 .. f - 1
        PROVE  t[j] # c
    <3>1. j \in 1 .. m /\ a + j - 1 \in a .. e
      BY <1>1, <1>3
    <3> QED
      BY <1>0, <1>2, <3>1
  <2> HIDE DEF t
  <2>4. Has(t, c) /\ First(t, c) = f
    <3> HIDE DEF f
    <3> QED
      BY <1>2, <2>1, <2>2, <2>3, Found
  <2>5. Before(t, c) = SubSeq(t, 1, e - a + 1) /\ BehindFirst(t, c) = SubSeq(t, e - a + 3, m)
    BY <1>1, <1>2, <2>4, SMTT(60) DEF Before, BehindFirst
  <2>6. SubSeq(t, 1, e - a + 1) = SubSeq(s, a, e)
    <3>1. 1 \in 1 .. b - a + 2 /\ e - a + 1 \in 1 - 1 .. b - a + 1 /\ a + 1 - 1 = a /\ a + (e - a + 1) - 1 = e
      BY <1>1, <1>3
    <3> QED
      BY <1>1, <3>1, SliceOfSlice DEF t
  <2>7. SubSeq(t, e - a + 3, m) = SubSeq(s, e + 2, b)
    <3> DEFINE x == e - a + 3
    <3>1. x \in 1 .. b - a + 2 /\ m \in x - 1 .. b - a + 1 /\ a + x - 1 = e + 2 /\ a + m - 1 = b
      BY <1>1, <1>3
    <3> HIDE DEF x, m
    <3>2. SubSeq(SubSeq(s, a, b), x, m) = SubSeq(s, a + x - 1, a + m - 1)
      BY <1>1, <3>1, SliceOfSlice
    <3> QED
      BY <3>1, <3>2 DEF t, x
  <2> QED
    BY <1>3, <2>4, <2>5, <2>6, <2>7 DEF t
<1>4. CASE e = b
  <2>1. ~ Has(t, c)
    <3>1. ASSUME NEW k \in 1 .. m
          PROVE  t[k] # c
      <4>1. a + k - 1 \in a .. e
        BY <1>1, <1>4
      <4> QED
        BY <1>0, <1>2, <4>1
    <3> QED
      BY <1>2, <3>1 DEF Has
  <2>2. Before(t, c) = t
    BY <2>1 DEF Before
  <2> QED
    BY <1>1, <1>4, <2>1, <2>2
<1> QED
  BY <1>1, <1>3, <1>4

(* s is a host s[1 .. i], a service s[i+1 .. j] and a path.                *)
PartsAt(family, s, i, j) ==
  /\ i \in Nat /\ j \in Nat /\ i <= j /\ j <= Len(s)
  /\ j = Len(s) \/ s[j + 1] = "/"
  /\ IF i = j THEN \A k \in j + 1 .. Len(s) : s[k] # ":"
     ELSE s[i + 1] = ":" /\ \A k \in i + 1 .. j : s[k] # "/"
  /\ \A k \in 1 .. i : s[k] # "/"
  /\ IF Bracket(family, s) THEN i >= 2 /\ s[i] = "]" /\ \A k \in 1 .. i - 1 : s[k] # "]"
     ELSE \A k \in 1 .. i : s[k] # ":"

LEMMA PartsFound ==
  ASSUME NEW S, NEW s \in Seq(S), NEW family, family # "unix", NEW i, NEW j, PartsAt(family, s, i, j)
  PROVE  Parts(family, s) = [node |-> IF Bracket(family, s) THEN SubSeq(s, 2, i - 1) ELSE SubSeq(s, 1, i),
                             service |-> IF i = j THEN None ELSE SubSeq(s, i + 2, j)]
<1> DEFINE n == Len(s)   open == Bracket(family, s)
           rest == IF open THEN BehindFirst(s, "]") ELSE s
           node == IF open THEN Before(Tail(s), "]") ELSE Before(s, ":")
           service == IF Has(rest, ":") THEN Before(BehindFirst(rest, ":"), "/") ELSE None
           from == IF open THEN i + 1 ELSE 1
<1>1. s = SubSeq(s, 1, n)
  BY WholeSlice
<1>2. ASSUME NEW c, NEW a, NEW b, NEW e, CutAt(s, c, a, b, e)
      PROVE  /\ Has(SubSeq(s, a, b), c) <=> e < b
             /\ Before(SubSeq(s, a, b), c) = SubSeq(s, a, e)
             /\ e < b => BehindFirst(SubSeq(s, a, b), c) = SubSeq(s, e + 2, b)
  <2> HIDE DEF open, rest, node, service, from
  <2> QED
    BY <1>2, Cut
<1>3. ASSUME NEW c, NEW b, CutAt(s, c, 1, b, b)
      PROVE  Before(SubSeq(s, 1, b), c) = SubSeq(s, 1, b)
  <2> HIDE DEF open, rest, node, service, from
  <2> QED
    BY <1>2, <1>3
<1>4. n = Len(s) /\ n \in Nat /\ i \in Nat /\ j \in Nat /\ i <= j /\ j <= n
  BY DEF PartsAt
<1>5. /\ j = n \/ s[j + 1] = "/"
      /\ i = j => \A k \in j + 1 .. n : s[k] # ":"
      /\ i # j => s[i + 1] = ":" /\ \A k \in i + 1 .. j : s[k] # "/"
      /\ \A k \in 1 .. i : s[k] # "/"
      /\ open => i >= 2 /\ s[i] = "]" /\ \A k \in 1 .. i - 1 : s[k] # "]"
      /\ ~ open => \A k \in 1 .. i : s[k] # ":"
  BY DEF PartsAt
<1>6. Parts(family, s) = [node |-> Before(node, "/"), service |-> service]
  BY DEF Parts
<1> HIDE DEF n, open
<1>7. /\ rest = SubSeq(s, from, n)
      /\ \A k \in from .. i : s[k] # ":"
  <2>1. CASE open
    <3>1. /\ i >= 2 /\ 1 \in 1 .. n + 1 /\ n \in 1 - 1 .. n /\ i - 1 \in 1 - 1 .. n /\ i - 1 < n /\ (i - 1) + 2 = i + 1
          /\ (i - 1) + 1 = i
      BY <1>4, <1>5, <2>1
    <3> DEFINE x == i - 1
    <3>2. CutAt(s, "]", 1, n, x) /\ x < n /\ x + 2 = i + 1
      BY <1>4, <1>5, <2>1, <3>1 DEF CutAt
    <3> HIDE DEF x
    <3>3. BehindFirst(SubSeq(s, 1, n), "]") = SubSeq(s, x + 2, n)
      BY <3>2, <1>2
    <3>4. rest = SubSeq(s, i + 1, n)
      BY <1>1, <2>1, <3>2, <3>3
    <3>5. from = i + 1 /\ \A k \in i + 1 .. i : FALSE
      BY <1>4, <1>5, <2>1
    <3> QED
      BY <2>1, <3>4, <3>5
  <2>2. CASE ~ open
    BY <1>1, <1>5, <2>2
  <2> QED
    BY <2>1, <2>2
<1>8. from \in 1 .. i + 1
  BY <1>4, <1>5
<1>9. service = IF i = j THEN None ELSE SubSeq(s, i + 2, j)
  <2> HIDE DEF from, rest
  <2>1. CASE i = j
    <3>1. \A k \in from .. n : s[k] # ":"
      <4>1. \A k \in from .. n : k \in from .. i \/ k \in j + 1 .. n
        BY <1>4, <1>5, <1>8, <2>1
      <4> QED
        BY <1>7, <1>5, <2>1, <4>1
    <3>2. CutAt(s, ":", from, n, n)
      BY <1>4, <1>8, <3>1 DEF CutAt
    <3>3. Has(SubSeq(s, from, n), ":") <=> n < n
      BY <3>2, <1>2
    <3>4. ~ Has(rest, ":")
      BY <1>4, <1>5, <1>7, <3>3
    <3> QED
      BY <2>1, <3>4
  <2>2. CASE i # j
    <3>1. s[i + 1] = ":" /\ \A k \in i + 1 .. j : s[k] # "/"
      BY <1>5, <2>2
    <3>2. CutAt(s, ":", from, n, i) /\ i < n
      BY <1>4, <1>5, <1>7, <1>8, <2>2, <3>1 DEF CutAt
    <3>3. Has(SubSeq(s, from, n), ":") /\ BehindFirst(SubSeq(s, from, n), ":") = SubSeq(s, i + 2, n)
      BY <3>2, <1>2
    <3> DEFINE y == i + 2
    <3>4. y \in Nat /\ 1 <= y /\ y <= j + 1 /\ (\A k \in y .. j : k \in i + 1 .. j)
      BY <1>4, <1>5, <2>2
    <3> HIDE DEF y
    <3>5. CutAt(s, "/", y, n, j)
      BY <1>4, <1>5, <3>1, <3>4 DEF CutAt
    <3>6. Before(SubSeq(s, y, n), "/") = SubSeq(s, y, j)
      BY <3>5, <1>2
    <3> QED
      BY <1>7, <2>2, <3>3, <3>6 DEF y
  <2> QED
    BY <2>1, <2>2
<1>10. Before(node, "/") = IF open THEN SubSeq(s, 2, i - 1) ELSE SubSeq(s, 1, i)
  <2>1. CASE open
    <3> DEFINE x == i - 1
    <3>1. /\ x \in Nat /\ 1 <= x /\ x < n /\ s # <<>>
          /\ x + 1 = i /\ (\A k \in 2 .. x : k \in 1 .. x /\ k \in 1 .. i)
      BY <1>4, <1>5, <2>1
    <3>2. s[x + 1] = "]" /\ (\A k \in 1 .. x : s[k] # "]")
      BY <1>5, <2>1, <3>1
    <3> HIDE DEF x
    <3>3. CutAt(s, "]", 2, n, x) /\ CutAt(s, "/", 2, x, x)
      BY <1>4, <1>5, <3>1, <3>2 DEF CutAt
    <3>4. Before(SubSeq(s, 2, n), "]") = SubSeq(s, 2, x) /\ Before(SubSeq(s, 2, x), "/") = SubSeq(s, 2, x)
      BY <3>3, <1>2
    <3>5. node = SubSeq(s, 2, x)
      BY <1>4, <2>1, <3>1, <3>4, WholeSlice
    <3> QED
      BY <2>1, <3>4, <3>5 DEF x
  <2>2. CASE ~ open /\ i = j
    <3>1. \A k \in 1 .. n : s[k] # ":"
      <4>1. \A k \in 1 .. n : k \in 1 .. i \/ k \in j + 1 .. n
        BY <1>4, <1>5, <2>2
      <4> QED
        BY <1>5, <2>2, <4>1
    <3>2. CutAt(s, ":", 1, n, n)
      BY <1>4, <1>5, <2>2, <3>1 DEF CutAt
    <3>3. CutAt(s, "/", 1, n, i)
      BY <1>4, <1>5, <2>2 DEF CutAt
    <3>4. Before(SubSeq(s, 1, n), ":") = SubSeq(s, 1, n)
      BY <3>2, <1>3
    <3>5. Before(SubSeq(s, 1, n), "/") = SubSeq(s, 1, i)
      BY <3>3, <1>2
    <3> QED
      BY <1>1, <2>2, <3>4, <3>5
  <2>3. CASE ~ open /\ i # j
    <3>1. CutAt(s, ":", 1, n, i)
      BY <1>4, <1>5, <2>3 DEF CutAt
    <3>2. CutAt(s, "/", 1, i, i)
      BY <1>4, <1>5 DEF CutAt
    <3>3. Before(SubSeq(s, 1, n), ":") = SubSeq(s, 1, i)
      BY <3>1, <1>2
    <3>4. Before(SubSeq(s, 1, i), "/") = SubSeq(s, 1, i)
      BY <3>2, <1>3
    <3> QED
      BY <1>1, <2>3, <3>3, <3>4
  <2> QED
    BY <2>1, <2>2, <2>3
<1> HIDE DEF node, service, rest, from
<1> QED
  BY <1>6, <1>9, <1>10 DEF open

(* The same, of an address that is written as AddressParts has it.         *)
Divided(s, i, j, host, port, path) ==
  host = SubSeq(s, 1, i) /\ port = SubSeq(s, i + 1, j) /\ path = SubSeq(s, j + 1, Len(s))

WrittenAs(family, host, port, path) ==
  /\ path = <<>> \/ path[1] = "/"
  /\ IF port = <<>> THEN ~ Has(path, ":") ELSE port[1] = ":" /\ ~ Has(port, "/")
  /\ BareHost(family, host) \/ BracketedHost(family, host)

FoundIn(family, i, host, port) ==
  [node |-> IF Bracket(family, host) THEN SubSeq(host, 2, i - 1) ELSE host,
   service |-> IF port = <<>> THEN None ELSE Tail(port)]

LEMMA WrittenParts ==
  ASSUME NEW S, NEW s \in Seq(S), NEW family, family # "unix", NEW i \in 0 .. Len(s), NEW j \in i .. Len(s),
         NEW host, NEW port, NEW path, Divided(s, i, j, host, port, path), WrittenAs(family, host, port, path)
  PROVE  Parts(family, s) = FoundIn(family, i, host, port)
<1> DEFINE n == Len(s)
<1>1. /\ path = <<>> \/ path[1] = "/"
      /\ IF port = <<>> THEN ~ Has(path, ":") ELSE port[1] = ":" /\ ~ Has(port, "/")
      /\ BareHost(family, host) \/ BracketedHost(family, host)
  BY DEF WrittenAs
<1>2. n = Len(s) /\ n \in Nat /\ i \in Nat /\ j \in Nat /\ i <= j /\ j <= n
  OBVIOUS
<1> HIDE DEF n
<1>3. /\ host \in Seq(S) /\ Len(host) = i /\ DOMAIN host = 1 .. i /\ (\A k \in 1 .. i : host[k] = s[k])
      /\ port \in Seq(S) /\ Len(port) = j - i /\ DOMAIN port = 1 .. j - i /\ (\A k \in 1 .. j - i : port[k] = s[i + k])
      /\ path \in Seq(S) /\ Len(path) = n - j /\ DOMAIN path = 1 .. n - j /\ (\A k \in 1 .. n - j : path[k] = s[j + k])
  <2>1. host \in Seq(S) /\ Len(host) = i /\ DOMAIN host = 1 .. i /\ (\A k \in 1 .. i : host[k] = s[k])
    BY <1>2 DEF Divided
  <2>2. port \in Seq(S) /\ Len(port) = j - i /\ DOMAIN port = 1 .. j - i /\ (\A k \in 1 .. j - i : port[k] = s[i + k])
    BY <1>2 DEF Divided
  <2>3. path \in Seq(S) /\ Len(path) = n - j /\ DOMAIN path = 1 .. n - j /\ (\A k \in 1 .. n - j : path[k] = s[j + k])
    BY <1>2 DEF Divided
  <2> QED
    BY <2>1, <2>2, <2>3
<1>4. /\ \A k \in i + 1 .. j : k - i \in 1 .. j - i /\ i + (k - i) = k
      /\ \A k \in j + 1 .. n : k - j \in 1 .. n - j /\ j + (k - j) = k
      /\ (j # n => 1 \in 1 .. n - j) /\ (i # j => 1 \in 1 .. j - i) /\ (i # 0 => 1 \in 1 .. i)
      /\ (port = <<>> <=> i = j) /\ (path = <<>> <=> j = n) /\ (host = <<>> <=> i = 0)
  <2>1. \A k \in i + 1 .. j : k - i \in 1 .. j - i /\ i + (k - i) = k
    BY <1>2
  <2>2. \A k \in j + 1 .. n : k - j \in 1 .. n - j /\ j + (k - j) = k
    BY <1>2
  <2>3. (j # n => 1 \in 1 .. n - j) /\ (i # j => 1 \in 1 .. j - i) /\ (i # 0 => 1 \in 1 .. i)
    BY <1>2
  <2>4. (port = <<>> <=> i = j) /\ (path = <<>> <=> j = n) /\ (host = <<>> <=> i = 0)
    <3>1. ASSUME NEW t \in Seq(S) PROVE t = <<>> <=> Len(t) = 0
      OBVIOUS
    <3>2. (port = <<>> <=> j - i = 0) /\ (path = <<>> <=> n - j = 0) /\ (host = <<>> <=> i = 0)
      BY <1>3, <3>1
    <3> QED
      BY <1>2, <3>2
  <2> QED
    BY <2>1, <2>2, <2>3, <2>4
<1>5. j = n \/ s[j + 1] = "/"
  BY <1>1, <1>3, <1>4
<1>6. IF i = j THEN \A k \in j + 1 .. n : s[k] # ":"
      ELSE s[i + 1] = ":" /\ \A k \in i + 1 .. j : s[k] # "/"
  <2>1. ASSUME i = j, NEW k \in j + 1 .. n PROVE s[k] # ":"
    <3>1. k - j \in DOMAIN path /\ path[k - j] = s[k] /\ ~ Has(path, ":")
      BY <1>1, <1>3, <1>4, <2>1
    <3> QED
      BY <3>1 DEF Has
  <2>2. ASSUME i # j PROVE s[i + 1] = ":"
    BY <1>1, <1>3, <1>4, <2>2
  <2>3. ASSUME i # j, NEW k \in i + 1 .. j PROVE s[k] # "/"
    <3>1. k - i \in DOMAIN port /\ port[k - i] = s[k] /\ ~ Has(port, "/")
      BY <1>1, <1>3, <1>4, <2>3
    <3> QED
      BY <3>1 DEF Has
  <2> QED
    BY <2>1, <2>2, <2>3
<1>7. \A k \in 1 .. i : s[k] # "/"
  BY <1>1, <1>3 DEF BareHost, BracketedHost, Has
<1>8. i # j => Tail(port) = SubSeq(s, i + 2, j)
  <2> DEFINE a == i + 1   b == j - i
  <2>1. SUFFICES ASSUME i # j PROVE Tail(port) = SubSeq(s, i + 2, j)
    OBVIOUS
  <2>2. Tail(port) = SubSeq(port, 2, b)
    BY <1>3, <1>4, <2>1, WholeSlice, ZenonT(60)
  <2>3. /\ a \in 1 .. n + 1 /\ j \in a - 1 .. n /\ 2 \in 1 .. j - a + 2 /\ b \in 2 - 1 .. j - a + 1
        /\ a + 2 - 1 = i + 2 /\ a + b - 1 = j
    BY <1>2, <2>1
  <2> HIDE DEF a, b
  <2>4. SubSeq(SubSeq(s, a, j), 2, b) = SubSeq(s, a + 2 - 1, a + b - 1)
    BY <2>3, SliceOfSlice
  <2> QED
    BY <2>2, <2>3, <2>4 DEF a, Divided
<1>9. i > 1 => SubSeq(host, 2, i - 1) = SubSeq(s, 2, i - 1)
  <2> DEFINE x == i - 1
  <2>1. SUFFICES ASSUME i > 1 PROVE SubSeq(host, 2, x) = SubSeq(s, 2, x)
    OBVIOUS
  <2>2. /\ 1 \in 1 .. n + 1 /\ i \in 1 - 1 .. n /\ 2 \in 1 .. i - 1 + 2 /\ x \in 2 - 1 .. i - 1 + 1
        /\ 1 + 2 - 1 = 2 /\ 1 + x - 1 = x
    BY <1>2, <2>1
  <2> HIDE DEF x
  <2>3. SubSeq(SubSeq(s, 1, i), 2, x) = SubSeq(s, 1 + 2 - 1, 1 + x - 1)
    BY <2>2, SliceOfSlice
  <2> QED
    BY <2>2, <2>3 DEF Divided
<1>10. CASE BareHost(family, host)
  <2>1. ~ Bracket(family, s)
    <3>1. CASE i = 0
      <4>1. s # <<>> => s[1] \in {":", "/"}
        <5>1. CASE j = 0
          BY <1>2, <1>5, <3>1, <5>1
        <5>2. CASE j # 0
          BY <1>2, <1>6, <3>1, <5>2
        <5> QED
          BY <5>1, <5>2
      <4> QED
        BY <4>1 DEF Bracket
    <3>2. CASE i # 0
      <4>1. host # <<>> /\ host[1] = s[1]
        BY <1>3, <1>4, <3>2
      <4> QED
        BY <1>10, <4>1 DEF BareHost, Bracket
    <3> QED
      BY <3>1, <3>2
  <2>2. \A k \in 1 .. i : s[k] # ":"
    BY <1>3, <1>10 DEF BareHost, Has
  <2>3. Parts(family, s) = [node |-> SubSeq(s, 1, i), service |-> IF i = j THEN None ELSE SubSeq(s, i + 2, j)]
    <3>1. PartsAt(family, s, i, j)
      BY <1>2, <1>5, <1>6, <1>7, <2>1, <2>2 DEF PartsAt
    <3> QED
      BY <2>1, <3>1, PartsFound
  <2>5. ~ Bracket(family, host)
    BY <1>10 DEF BareHost
  <2> QED
    BY <1>4, <1>8, <2>3, <2>5 DEF Divided, FoundIn
<1>11. CASE BracketedHost(family, host)
  <2>1. /\ Bracket(family, host) /\ Has(host, "]") /\ First(host, "]") = i /\ i # 0 /\ host[1] = "[" /\ family = "ip6"
    BY <1>3, <1>4, <1>11 DEF BracketedHost, Bracket
  <2>2. i \in 1 .. i /\ host[i] = "]" /\ \A k \in 1 .. i - 1 : host[k] # "]"
    <3>1. /\ First(host, "]") \in 1 .. Len(host) /\ host[First(host, "]")] = "]"
          /\ \A k \in 1 .. First(host, "]") - 1 : host[k] # "]"
      BY <1>3, <2>1, FirstFacts
    <3> QED
      BY <1>3, <2>1, <3>1
  <2>3. i >= 2 /\ s[i] = "]" /\ s[1] = "[" /\ (\A k \in 1 .. i - 1 : s[k] # "]") /\ s # <<>>
    <3>1. i # 1
      BY <2>1, <2>2
    <3>2. i >= 2 /\ 1 \in 1 .. i /\ \A k \in 1 .. i - 1 : k \in 1 .. i
      BY <1>2, <2>1, <3>1
    <3> QED
      BY <1>2, <1>3, <2>1, <2>2, <3>2
  <2>4. Bracket(family, s)
    BY <2>1, <2>3 DEF Bracket
  <2>5. Parts(family, s) = [node |-> SubSeq(s, 2, i - 1), service |-> IF i = j THEN None ELSE SubSeq(s, i + 2, j)]
    <3>1. PartsAt(family, s, i, j)
      BY <1>2, <1>5, <1>6, <1>7, <2>3, <2>4 DEF PartsAt
    <3> QED
      BY <2>4, <3>1, PartsFound
  <2>6. SubSeq(host, 2, i - 1) = SubSeq(s, 2, i - 1)
    BY <1>2, <1>9, <2>3
  <2> QED
    BY <1>2, <1>4, <1>8, <2>1, <2>5, <2>6 DEF FoundIn
<1> QED
  BY <1>1, <1>10, <1>11

LEMMA ParseStep ==
  ASSUME AddressInv, ipaddress_parse
  PROVE  AddressInv' /\ (Succeeds \/ Fails) /\ (Keeps \/ Gives)
<1> DEFINE family == address.family   s == address.uri
<1>1. address.gives = "none" /\ s \in Addresses
  BY DEF ipaddress_parse, AddressInv
<1>2. CASE Fails /\ Keeps /\ address' = [address EXCEPT !.gives = "NULL"]
  <2>1. failed' /\ (address'.gives = "NULL" \/ address' = address)
    BY <1>2 DEF Fails
  <2> QED
    BY <1>1, <1>2, <2>1 DEF AddressInv, AddressParts
<1>3. CASE Unparsable(family, s) /\ Succeeds /\ Keeps /\ address' = [address EXCEPT !.gives = "NULL"]
  <2>1. /\ address'.gives = "NULL" \/ address' = address
        /\ address'.family = family /\ address'.uri = s
    BY <1>3
  <2>2. AddressParts'
    BY <1>1, <1>3, <2>1 DEF AddressParts, Unparsable
  <2> QED
    BY <1>1, <1>3, <2>1, <2>2 DEF AddressInv
<1>4. CASE /\ ~ Unparsable(family, s) /\ Succeeds /\ Gives
           /\ address' = [gives |-> "parts", family |-> family, uri |-> s, found |-> Parts(family, s)]
  <2>1. /\ address'.gives = "parts" /\ address'.family = family /\ address'.uri = s
        /\ address'.found = Parts(family, s)
    BY <1>4
  <2>2. s \in Seq(Characters) /\ Len(s) \in Nat
    BY <1>1, LengthAssumption DEF Addresses
  <2> HIDE DEF family, s
  <2>3. family = "unix" => Parts(family, s) = [node |-> s, service |-> None]
    BY DEF Parts
  <2>4. ASSUME family # "unix", NEW i \in 0 .. Len(s), NEW j \in i .. Len(s),
               WrittenAs(family, SubSeq(s, 1, i), SubSeq(s, i + 1, j), SubSeq(s, j + 1, Len(s)))
        PROVE  Parts(family, s) = FoundIn(family, i, SubSeq(s, 1, i), SubSeq(s, i + 1, j))
    <3> DEFINE host == SubSeq(s, 1, i)   port == SubSeq(s, i + 1, j)   path == SubSeq(s, j + 1, Len(s))
    <3>1. Divided(s, i, j, host, port, path)
      BY DEF Divided
    <3>2. WrittenAs(family, host, port, path)
      BY <2>4
    <3> HIDE DEF host, port, path
    <3>3. Parts(family, s) = FoundIn(family, i, host, port)
      BY <2>2, <2>4, <3>1, <3>2, WrittenParts
    <3> QED
      BY <3>3 DEF host, port
  <2>5. AddressParts'
    <3>1. address'.gives # "NULL"
      BY <2>1
    <3>2. family # "unix" => \A i \in 0 .. Len(s) : \A j \in i .. Len(s) :
            WrittenAs(family, SubSeq(s, 1, i), SubSeq(s, i + 1, j), SubSeq(s, j + 1, Len(s)))
            => Parts(family, s) = FoundIn(family, i, SubSeq(s, 1, i), SubSeq(s, i + 1, j))
      BY <2>4
    <3> QED
      BY <2>1, <2>3, <3>1, <3>2, ZenonT(60) DEF AddressParts, WrittenAs, FoundIn
  <2> QED
    BY <1>4, <2>1, <2>5 DEF AddressInv
<1> QED
  BY <1>2, <1>3, <1>4 DEF ipaddress_parse

LEMMA AddressStep == IInv /\ Address => IInv'
<1> SUFFICES ASSUME IInv, Address PROVE IInv'
  OBVIOUS
<1>1. UNCHANGED <<sized, mgmmemVars, ldapVars, iniVars, httpVars>>
  BY DEF Address
<1>2. ASSUME UNCHANGED address, NEW b \in held, Free(b)
      PROVE  IInv'
  BY <1>1, <1>2, OwnerStep DEF Owner
<1>3. CASE ipaddress_parse
  <2>1. doing = "nothing" /\ doing' = "nothing" /\ temps' = temps
    BY <1>3 DEF ipaddress_parse, Idle
  <2>2. AddressInv' /\ (Succeeds \/ Fails) /\ (Keeps \/ Gives)
    BY <1>3, ParseStep DEF IInv
  <2>3. failed => failed'
    BY <2>2, LeftFacts DEF IInv, TempsInv
  <2>4. TempsInv'
    BY <2>1, <2>2, TempsSame DEF IInv, Idle
  <2>5. PoolInv' /\ OwnersInv'
    BY <1>1, <2>1, <2>2, PoolFrame, OwnersStay DEF IInv
  <2>6. doing \notin Getting \cup {"stopped", "http_set_locale"} /\ doing' \notin Connecting \cup Getting \cup {"http_set_locale"}
    BY <2>1 DEF Getting, Connecting
  <2>7. ConnInv' /\ IniInv' /\ HttpInv' /\ ExactOrRefused'
    BY <1>1, <2>1, <2>3, <2>6, ConnFrame, IniFrame, HttpFrame, SizedFrame DEF IInv, ldapVars
  <2> QED
    BY <2>2, <2>4, <2>5, <2>7 DEF IInv
<1> QED
  BY <1>2, <1>3 DEF Address

-----------------------------------------------------------------------------
(* All of it                                                               *)

LEMMA StutterStep == IInv /\ UNCHANGED vars => IInv'
<1> SUFFICES ASSUME IInv, UNCHANGED vars PROVE IInv'
  OBVIOUS
<1>1. /\ UNCHANGED <<live, held, temps, doing, abused, failed>> /\ UNCHANGED sized
      /\ UNCHANGED <<mgmmemVars, ldapVars, iniVars, httpVars, address>>
  BY DEF vars, heapVars
<1>2. ExactOrRefused'
  BY <1>1, SizedFrame DEF IInv
<1> QED
  BY <1>1, <1>2, NothingStep

LEMMA NextIInv == IInv /\ [Next]_vars => IInv'
BY DirectoryStep, ConfigurationStep, RequestStep, AddressStep, SizeStep, StutterStep DEF Next

LEMMA Invariance == Spec => []IInv
<1>1. Init => IInv
  BY InitIInv
<1>2. IInv /\ [Next]_vars => IInv'
  BY NextIInv
<1> QED
  BY <1>1, <1>2, PTL DEF Spec

(* Every block belongs to the pool or to the program, once; nothing is     *)
(* freed twice; a function that returns has freed what it allocated for    *)
(* itself, unless a call of the library failed: for a heap and a pool of   *)
(* any size.                                                               *)
THEOREM OwnedOnce == Spec => []HeapSound
<1>1. IInv => HeapSound
  <2> SUFFICES ASSUME IInv PROVE HeapSound
    OBVIOUS
  <2>1. ~ abused
    BY DEF IInv, OwnersInv
  <2>2. doing # "stopped" => Cardinality(Entries) = Len(pool.entries)
    BY DifferentCounts DEF IInv, OwnersInv
  <2>3. Idle => temps \subseteq Left
    BY OwnFacts DEF IInv, TempsInv, Idle
  <2> QED
    BY <2>1, <2>2, <2>3 DEF HeapSound, IInv, OwnersInv, Left
<1> QED
  BY <1>1, Invariance, PTL

(* The pool writes within its array, whose size is computed with products  *)
(* that may overflow, and ensc_ldap_connect() within the uri, whatever the *)
(* numbers and the lengths of the servers' names.                          *)
THEOREM WithinBlocks == Spec => []WritesFit
<1>1. IInv => WritesFit
  <2> SUFFICES ASSUME IInv PROVE WritesFit
    OBVIOUS
  <2> DEFINE n == Len(pool.entries)   c == pool.cnt_allocated   r == pool.room
  <2>1. n \in Nat /\ c \in Nat /\ r \in Nat /\ n <= c /\ c * 8 <= r
    BY EntriesFacts DEF IInv, PoolInv, ENTRY
  <2> HIDE DEF n, c, r
  <2>2. n * 8 <= r /\ n <= c
    BY <2>1
  <2>3. "uri" \in temps => conn.len + 1 <= conn.room
    BY DEF IInv, ConnInv
  <2> QED
    BY <2>2, <2>3 DEF WritesFit, ENTRY, n, c, r
<1> QED
  BY <1>1, Invariance, PTL

(* The flags of a pool tell whether a call on it has returned NULL since   *)
(* mgmmem_init().                                                          *)
THEOREM FlagsAreRight == Spec => []FlagsTell
<1>1. IInv => FlagsTell
  BY DEF IInv, PoolInv
<1> QED
  BY <1>1, Invariance, PTL

(* A computed size is exact or refused, with the builtins of the compiler  *)
(* and without, for types of any width, and an assignment keeps the value  *)
(* or fails, but for the sign.                                             *)
THEOREM SizesRight == Spec => []ExactOrRefused
<1>1. IInv => ExactOrRefused
  BY DEF IInv
<1> QED
  BY <1>1, Invariance, PTL

(* Whichever step of ensc_ldap_connect() fails, a caller with a context    *)
(* learns why, and nobody else is told anything.                           *)
THEOREM FailuresReported == Spec => []ConnectReports
<1>1. IInv => ConnectReports
  BY DEF IInv, ConnInv
<1> QED
  BY <1>1, Invariance, PTL

(* The program gets an entry that is an int as it is in the file, and the  *)
(* default, or a long that was cut off, for any other; and the user and    *)
(* the group that the file names or numbers, for ids that a uid_t holds,   *)
(* or those from before.  This goes through conversions between int, long, *)
(* unsigned long and uid_t, of any widths.                                 *)
THEOREM Configured == Spec => []AsConfigured
<1>1. IInv => AsConfigured
  <2> SUFFICES ASSUME IInv PROVE AsConfigured
    OBVIOUS
  <2>1. got.call = "getsecint_exp" /\ Idle => IntConfigured
    BY DEF IInv, IniInv, Idle, Getting
  <2>2. IdConfigured
    BY DEF IInv, IniInv
  <2>3. ASSUME IsInt(text)
        PROVE  Cast(int, text.n) = text.n
    <3>1. text.n \in Values(int) /\ int \in IntTypes
      BY <2>3, IniTypes DEF IsInt
    <3>2. text.n \in Int
      BY <3>1, Limits
    <3> QED
      BY <3>1, <3>2, CastFacts
  <2> QED
    BY <2>1, <2>2, <2>3 DEF AsConfigured, IntConfigured, IdConfigured
<1> QED
  BY <1>1, Invariance, PTL

(* A request gets the first of its languages that is supported, however    *)
(* many it lists and whatever setlocale() did on the way.                  *)
THEOREM FirstIsChosen == Spec => []FirstSupported
<1>1. IInv => FirstSupported
  BY DEF IInv, HttpInv, FirstSupported, Idle, Served, Chose, NotChosen, Is
<1> QED
  BY <1>1, Invariance, PTL

(* ipaddress_parse() finds the host and the service of every address that  *)
(* is written correctly, of any length.                                    *)
THEOREM AddressesParsed == Spec => []AddressParts
<1>1. IInv => AddressParts
  BY DEF IInv, AddressInv
<1> QED
  BY <1>1, Invariance, PTL

=============================================================================
