----------------------- MODULE PreciseUnitMathProofs -----------------------
(***************************************************************************)
(* How the operations of PreciseUnitMath round: each is the integer on one *)
(* side of the exact quotient, less than one away from it.  These facts    *)
(* are the only ones about division that the proofs of the components use. *)
(***************************************************************************)
EXTENDS PreciseUnitMath, TLAPS

\* Products keep naturals and their order.
LEMMA ProductIsNat == ASSUME NEW a \in Nat, NEW b \in Nat PROVE a * b \in Nat
OBVIOUS

LEMMA ProductIsMonotone ==
  ASSUME NEW a \in Nat, NEW b \in Nat, NEW c \in Nat, a <= b
  PROVE  a * c <= b * c /\ c * a <= c * b
OBVIOUS

\* A positive factor can be cancelled.
LEMMA CancelFactor ==
  ASSUME NEW a \in Int, NEW b \in Int, NEW c \in Nat \ {0}
  PROVE  /\ c * a <= c * b => a <= b
         /\ a * c <= b * c => a <= b
         /\ c * a < c * b => a < b
         /\ a * c < b * c => a < b
OBVIOUS

\* The quotient of naturals is the largest whose product with the divisor does
\* not exceed the dividend.
LEMMA DivRoundsDown ==
  ASSUME NEW a \in Nat, NEW b \in Nat \ {0}
  PROVE  /\ a \div b \in Nat
         /\ (a \div b) * b <= a
         /\ a < (a \div b) * b + b
OBVIOUS

LEMMA DivAtLeast ==
  ASSUME NEW a \in Nat, NEW b \in Nat \ {0}, NEW q \in Nat, q * b <= a
  PROVE  q <= a \div b
<1> DEFINE d == a \div b
<1>1. d \in Nat /\ a < d * b + b
  BY DivRoundsDown
<1>2. q * b < (d + 1) * b
  <2>1. (d + 1) * b = d * b + b
    <3> HIDE DEF d
    <3> QED
      BY <1>1
  <2>2. q * b \in Nat /\ d * b \in Nat
    <3> HIDE DEF d
    <3> QED
      BY <1>1, ProductIsNat
  <2> HIDE DEF d
  <2> QED
    BY <1>1, <2>1, <2>2
<1>3. q < d + 1
  <2> HIDE DEF d
  <2> QED
    BY <1>1, <1>2, CancelFactor
<1> QED
  BY <1>1, <1>3

LEMMA DivAtMost ==
  ASSUME NEW a \in Nat, NEW b \in Nat \ {0}, NEW q \in Nat, a <= q * b
  PROVE  a \div b <= q
<1> DEFINE d == a \div b
<1>1. d \in Nat /\ d * b <= a
  BY DivRoundsDown
<1>2. d * b <= q * b
  <2> HIDE DEF d
  <2>1. d * b \in Nat /\ q * b \in Nat
    BY <1>1, ProductIsNat
  <2> QED
    BY <1>1, <2>1
<1> HIDE DEF d
<1> QED
  BY <1>1, <1>2, CancelFactor

\* preciseMul and preciseDiv round down, and the Ceil variants up.
LEMMA PreciseMulRoundsDown ==
  ASSUME NEW a \in Nat, NEW b \in Nat
  PROVE  /\ preciseMul(a, b) \in Nat
         /\ PRECISE_UNIT * preciseMul(a, b) <= a * b
         /\ a * b < PRECISE_UNIT * preciseMul(a, b) + PRECISE_UNIT
<1>1. a * b \in Nat
  BY ProductIsNat
<1> QED
  BY <1>1, PreciseUnitAssumption, DivRoundsDown DEF preciseMul

LEMMA PreciseMulCeilRoundsUp ==
  ASSUME NEW a \in Nat, NEW b \in Nat
  PROVE  /\ preciseMulCeil(a, b) \in Nat
         /\ a * b <= PRECISE_UNIT * preciseMulCeil(a, b)
         /\ PRECISE_UNIT * preciseMulCeil(a, b) < a * b + PRECISE_UNIT
<1> DEFINE p == a * b
           d == (p - 1) \div PRECISE_UNIT
<1>0. PRECISE_UNIT \in Nat \ {0}
  BY PreciseUnitAssumption
<1>1. CASE a = 0 \/ b = 0
  <2>1. p = 0 /\ preciseMulCeil(a, b) = 0
    BY <1>1 DEF preciseMulCeil
  <2> QED
    BY <1>0, <2>1
<1>2. CASE ~(a = 0 \/ b = 0)
  <2>1. p \in Nat \ {0}
    BY <1>2
  <2>2. d \in Nat /\ d * PRECISE_UNIT <= p - 1 /\ p - 1 < d * PRECISE_UNIT + PRECISE_UNIT
    <3> HIDE DEF p
    <3>1. p - 1 \in Nat
      BY <2>1
    <3> QED
      BY <1>0, <3>1, DivRoundsDown
  <2>3. preciseMulCeil(a, b) = d + 1
    BY <1>2 DEF preciseMulCeil
  <2>4. PRECISE_UNIT * (d + 1) = d * PRECISE_UNIT + PRECISE_UNIT
    <3> HIDE DEF d
    <3> QED
      BY <1>0, <2>2
  <2>5. d * PRECISE_UNIT \in Nat
    <3> HIDE DEF d
    <3> QED
      BY <1>0, <2>2, ProductIsNat
  <2> HIDE DEF p, d
  <2>6. p <= PRECISE_UNIT * (d + 1) /\ PRECISE_UNIT * (d + 1) < p + PRECISE_UNIT
    BY <1>0, <2>1, <2>2, <2>4, <2>5
  <2> QED
    BY <2>2, <2>3, <2>6 DEF p
<1> QED
  BY <1>1, <1>2

LEMMA PreciseDivRoundsDown ==
  ASSUME NEW a \in Nat, NEW b \in Nat \ {0}
  PROVE  /\ preciseDiv(a, b) \in Nat
         /\ b * preciseDiv(a, b) <= a * PRECISE_UNIT
         /\ a * PRECISE_UNIT < b * preciseDiv(a, b) + b
<1> DEFINE p == a * PRECISE_UNIT
           d == p \div b
<1>1. p \in Nat
  BY PreciseUnitAssumption, ProductIsNat
<1>2. d \in Nat /\ d * b <= p /\ p < d * b + b
  <2> HIDE DEF p
  <2> QED
    BY <1>1, DivRoundsDown
<1>3. d * b = b * d
  <2> HIDE DEF d
  <2> QED
    BY <1>2
<1>4. preciseDiv(a, b) = d
  BY DEF preciseDiv
<1> HIDE DEF d
<1> QED
  BY <1>2, <1>3, <1>4

LEMMA PreciseDivCeilRoundsUp ==
  ASSUME NEW a \in Nat, NEW b \in Nat \ {0}
  PROVE  /\ preciseDivCeil(a, b) \in Nat
         /\ a * PRECISE_UNIT <= b * preciseDivCeil(a, b)
         /\ b * preciseDivCeil(a, b) < a * PRECISE_UNIT + b
<1> DEFINE p == a * PRECISE_UNIT
           d == (p - 1) \div b
<1>0. PRECISE_UNIT \in Nat \ {0}
  BY PreciseUnitAssumption
<1>1. CASE a = 0
  <2>1. p = 0 /\ preciseDivCeil(a, b) = 0
    BY <1>0, <1>1 DEF preciseDivCeil
  <2> QED
    BY <2>1
<1>2. CASE a # 0
  <2>1. p \in Nat \ {0}
    BY <1>0, <1>2
  <2>2. d \in Nat /\ d * b <= p - 1 /\ p - 1 < d * b + b
    <3> HIDE DEF p
    <3>1. p - 1 \in Nat
      BY <2>1
    <3> QED
      BY <3>1, DivRoundsDown
  <2>3. preciseDivCeil(a, b) = d + 1
    BY <1>2 DEF preciseDivCeil
  <2>4. b * (d + 1) = d * b + b /\ d * b \in Nat
    <3> HIDE DEF d
    <3> QED
      BY <2>2, ProductIsNat
  <2> HIDE DEF p, d
  <2>5. p <= b * (d + 1) /\ b * (d + 1) < p + b
    BY <2>1, <2>2, <2>4
  <2> QED
    BY <2>2, <2>3, <2>5 DEF p
<1> QED
  BY <1>1, <1>2

\* A part of a whole is at most the whole, rounded either way.
LEMMA PreciseMulOfPart ==
  ASSUME NEW a \in Nat, NEW b \in Nat, b <= PRECISE_UNIT
  PROVE  preciseMul(a, b) <= a /\ preciseMul(b, a) <= a /\ preciseMulCeil(a, b) <= a
<1> DEFINE U == PRECISE_UNIT
<1>0. U \in Nat \ {0}
  BY PreciseUnitAssumption
<1>1. a * b <= U * a /\ b * a <= U * a /\ a * b \in Nat /\ b * a \in Nat /\ U * a \in Nat
  BY <1>0
<1>2. ASSUME NEW m \in Nat, U * m <= U * a PROVE m <= a
  <2> HIDE DEF U
  <2> QED
    BY <1>0, <1>2, CancelFactor
<1>3. preciseMul(a, b) <= a
  <2>1. preciseMul(a, b) \in Nat /\ U * preciseMul(a, b) <= a * b
    BY PreciseMulRoundsDown
  <2>2. U * preciseMul(a, b) \in Nat
    BY <1>0, <2>1, ProductIsNat
  <2> HIDE DEF U
  <2> QED
    BY <1>1, <1>2, <2>1, <2>2
<1>4. preciseMul(b, a) <= a
  <2>1. preciseMul(b, a) \in Nat /\ U * preciseMul(b, a) <= b * a
    BY PreciseMulRoundsDown
  <2>2. U * preciseMul(b, a) \in Nat
    BY <1>0, <2>1, ProductIsNat
  <2> HIDE DEF U
  <2> QED
    BY <1>1, <1>2, <2>1, <2>2
<1>5. preciseMulCeil(a, b) <= a
  <2> DEFINE m == preciseMulCeil(a, b)
  <2>1. m \in Nat /\ U * m < a * b + U
    BY PreciseMulCeilRoundsUp
  <2>2. U * m < U * (a + 1)
    <3>1. U * (a + 1) = U * a + U
      BY <1>0
    <3>2. U * m \in Nat
      <4> HIDE DEF m
      <4> QED
        BY <1>0, <2>1, ProductIsNat
    <3> HIDE DEF U, m
    <3> QED
      BY <1>0, <1>1, <2>1, <3>1, <3>2
  <2>3. m < a + 1
    <3> HIDE DEF U, m
    <3> QED
      BY <1>0, <2>1, <2>2, CancelFactor
  <2> QED
    BY <2>1, <2>3
<1> QED
  BY <1>3, <1>4, <1>5

\* A larger dividend has no smaller quotient.
LEMMA PreciseDivIsMonotone ==
  ASSUME NEW a \in Nat, NEW b \in Nat, NEW c \in Nat \ {0}, a <= b
  PROVE  preciseDiv(a, c) <= preciseDiv(b, c)
<1> DEFINE d == preciseDiv(a, c)
<1>1. d \in Nat /\ c * d <= a * PRECISE_UNIT
  BY PreciseDivRoundsDown
<1>2. a * PRECISE_UNIT <= b * PRECISE_UNIT
      /\ a * PRECISE_UNIT \in Nat /\ b * PRECISE_UNIT \in Nat
  BY PreciseUnitAssumption, ProductIsNat, ProductIsMonotone
<1>3. d * c <= b * PRECISE_UNIT
  <2> HIDE DEF d
  <2>1. d * c = c * d /\ c * d \in Nat
    BY <1>1
  <2> QED
    BY <1>1, <1>2, <2>1
<1> QED
  BY <1>1, <1>2, <1>3, DivAtLeast DEF preciseDiv

\* The rounded-up product is the least that covers the exact one.
LEMMA PreciseMulCeilIsLeast ==
  ASSUME NEW a \in Nat, NEW b \in Nat, NEW x \in Nat, a * b <= PRECISE_UNIT * x
  PROVE  preciseMulCeil(a, b) <= x
<1> DEFINE U == PRECISE_UNIT
           c == preciseMulCeil(a, b)
<1>0. U \in Nat \ {0}
  BY PreciseUnitAssumption
<1>1. c \in Nat /\ U * c < a * b + U
  BY PreciseMulCeilRoundsUp
<1> HIDE DEF c
<1>2. a * b \in Nat /\ U * x \in Nat /\ U * c \in Nat /\ a * b <= U * x
  BY <1>0, <1>1, ProductIsNat
<1>3. U * (x + 1) = U * x + U
  BY <1>0
<1>4. U * c < U * (x + 1)
  <2> HIDE DEF U
  <2> QED
    BY <1>0, <1>1, <1>2, <1>3
<1>5. c < x + 1
  BY <1>0, <1>1, <1>4, CancelFactor
<1> QED
  BY <1>1, <1>5 DEF c

LEMMA PreciseMulIsMonotone ==
  ASSUME NEW a \in Nat, NEW b \in Nat, NEW c \in Nat, a <= b
  PROVE  /\ preciseMul(a, c) <= preciseMul(b, c)
         /\ preciseMulCeil(a, c) <= preciseMulCeil(b, c)
         /\ preciseMul(a, c) <= preciseMulCeil(a, c)
<1> DEFINE U == PRECISE_UNIT
<1>0. U \in Nat \ {0}
  BY PreciseUnitAssumption
<1>1. a * c <= b * c /\ a * c \in Nat /\ b * c \in Nat
  BY ProductIsNat, ProductIsMonotone
<1>2. preciseMul(a, c) <= preciseMul(b, c)
  <2> DEFINE d == preciseMul(a, c)
  <2>1. d \in Nat /\ U * d <= a * c
    BY PreciseMulRoundsDown
  <2>2. d * U <= b * c
    <3> HIDE DEF d
    <3>1. d * U = U * d /\ U * d \in Nat
      BY <1>0, <2>1
    <3> HIDE DEF U
    <3> QED
      BY <1>1, <2>1, <3>1
  <2>3. d <= (b * c) \div U
    <3> HIDE DEF d
    <3> QED
      BY <1>0, <1>1, <2>1, <2>2, DivAtLeast
  <2> QED
    BY <2>3 DEF preciseMul
<1>3. preciseMulCeil(a, c) <= preciseMulCeil(b, c)
  <2> DEFINE d == preciseMulCeil(b, c)
  <2>1. d \in Nat /\ b * c <= U * d
    BY PreciseMulCeilRoundsUp
  <2> HIDE DEF d
  <2>2. U * d \in Nat
    BY <1>0, <2>1, ProductIsNat
  <2>3. a * c <= U * d
    BY <1>1, <2>1, <2>2
  <2>4. preciseMulCeil(a, c) <= d
    BY <2>1, <2>3, PreciseMulCeilIsLeast
  <2> QED
    BY <2>4 DEF d
<1>4. preciseMul(a, c) <= preciseMulCeil(a, c)
  <2> DEFINE d == preciseMul(a, c)
             e == preciseMulCeil(a, c)
  <2>1. d \in Nat /\ U * d <= a * c
    BY PreciseMulRoundsDown
  <2>2. e \in Nat /\ a * c <= U * e
    BY PreciseMulCeilRoundsUp
  <2> HIDE DEF d, e
  <2>3. U * d \in Nat /\ U * e \in Nat
    BY <1>0, <2>1, <2>2, ProductIsNat
  <2>4. U * d <= U * e
    BY <1>1, <2>1, <2>2, <2>3
  <2>5. d <= e
    BY <1>0, <2>1, <2>2, <2>4, CancelFactor
  <2> QED
    BY <2>5 DEF d, e
<1> QED
  BY <1>2, <1>3, <1>4

=============================================================================
