---------------------------- MODULE BaselineProofs ----------------------------
(***************************************************************************)
(* Proofs about BehavioralBaseline for every finite set of values and      *)
(* every cap.  Euclid's algorithm terminates and reduces a fraction without      *)
(* changing its value, so that two results of one value are one pair and   *)
(* the fractions can be replaced by what they stand for (Stands); the sums *)
(* the properties take over the values learned do not depend on the order  *)
(* of the terms, and change by one term when one event is learned.  With   *)
(* both, update keeps the statistics those of the events learned.  What    *)
(* deviates strongly is then an inequality between natural numbers.        *)
(***************************************************************************)
EXTENDS BehavioralBaseline, BoundedSeqProofs

\* Counts and denominators that may be divided by.
Positive == Nat \ {0}

-------------------------------------------------------------------------------
(* Products *)

(* A common positive factor cancels, in an equation and in an inequality. *)
LEMMA Cancels ==
  ASSUME NEW x \in Int, NEW y \in Int, NEW k \in Positive
  PROVE  (x * k = y * k <=> x = y) /\ (x * k <= y * k <=> x <= y)
<1>1. x < y => x * k < y * k
  BY DEF Positive
<1>2. y < x => y * k < x * k
  BY DEF Positive
<1>3. x * k \in Int /\ y * k \in Int
  BY DEF Positive
<1> QED
  BY <1>1, <1>2, <1>3

(* Products of positive numbers are positive. *)
LEMMA PositiveProduct ==
  ASSUME NEW x \in Positive, NEW y \in Positive
  PROVE  x * y \in Positive
<1> QED
  BY DEF Positive

(* A multiple is divided exactly. *)
LEMMA ExactQuotient ==
  ASSUME NEW k \in Int, NEW g \in Positive
  PROVE  (k * g) \div g = k
<1> QED
  BY DEF Positive

-------------------------------------------------------------------------------
(* The greatest common divisor *)

\* The divisors of a natural number, zero having every natural.
Divides(e, a) == \E k \in Nat : a = k * e
CommonDivisors(a, b) == {e \in Nat : Divides(e, a) /\ Divides(e, b)}

(* A natural number is known by its divisors. *)
LEMMA KnownByDivisors ==
  ASSUME NEW a \in Nat, NEW b \in Nat, \A e \in Nat : Divides(e, a) <=> Divides(e, b)
  PROVE  a = b
<1>1. Divides(a, a) /\ Divides(b, b)
  BY DEF Divides
<1>2. PICK j \in Nat, k \in Nat : b = j * a /\ a = k * b
  BY <1>1 DEF Divides
<1>3. CASE a = 0 \/ b = 0
  BY <1>2, <1>3
<1>4. CASE a # 0 /\ b # 0
  <2>1. j # 0 /\ k # 0
    BY <1>2, <1>4
  <2>2. j * a >= a /\ k * b >= b
    BY <2>1
  <2> QED
    BY <1>2, <2>2
<1> QED
  BY <1>3, <1>4

(* The step of Euclid's algorithm: a number divides a and b when it divides b and *)
(* the remainder of a.                                                            *)
LEMMA EuclidStep ==
  ASSUME NEW a \in Nat, NEW b \in Positive
  PROVE  /\ a % b \in Nat /\ a % b < b
         /\ CommonDivisors(a, b) = CommonDivisors(b, a % b)
<1>1. PICK q, r : q = a \div b /\ r = a % b
  OBVIOUS
<1>2. q \in Nat /\ r \in Nat /\ r < b /\ a = b * q + r
  BY <1>1 DEF Positive
<1>3. ASSUME NEW e \in Nat, Divides(e, b), Divides(e, a)
      PROVE  Divides(e, r)
  <2>1. PICK j \in Nat, k \in Nat : b = j * e /\ a = k * e
    BY <1>3 DEF Divides
  <2>2. r = k * e - (j * e) * q
    BY <1>2, <2>1
  <2>3. (j * e) * q = (j * q) * e
    BY <1>2
  <2>4. r = (k - j * q) * e
    BY <1>2, <2>2, <2>3
  <2>5. CASE k - j * q \in Nat
    BY <2>4, <2>5 DEF Divides
  <2>6. CASE k - j * q \notin Nat
    <3>1. PICK d : d = j * q - k
      OBVIOUS
    <3>2. d \in Nat /\ r = -(d * e) /\ d * e \in Nat
      BY <1>2, <2>4, <2>6, <3>1
    <3>3. r = 0 * e
      BY <1>2, <3>2
    <3> QED
      BY <3>3 DEF Divides
  <2> QED
    BY <2>5, <2>6
<1>4. ASSUME NEW e \in Nat, Divides(e, b), Divides(e, r)
      PROVE  Divides(e, a)
  <2>1. PICK j \in Nat, k \in Nat : b = j * e /\ r = k * e
    BY <1>4 DEF Divides
  <2>2. a = (j * e) * q + k * e
    BY <1>2, <2>1
  <2>3. (j * e) * q = (j * q) * e
    BY <1>2
  <2>4. a = (j * q + k) * e /\ j * q + k \in Nat
    BY <1>2, <2>2, <2>3
  <2> QED
    BY <2>4 DEF Divides
<1> QED
  BY <1>1, <1>2, <1>3, <1>4 DEF CommonDivisors

(* Euclid's recursion has a solution, the number whose divisors are the common ones, *)
(* so gcd obeys it.                                                                  *)
LEMMA GcdRecursion ==
  \A a, b \in Nat : gcd[<<a, b>>] = IF b = 0 THEN a ELSE gcd[<<b, a % b>>]
<1> DEFINE Step(f) == [p \in Nat \X Nat |->
                         IF p[2] = 0 THEN p[1] ELSE f[<<p[2], p[1] % p[2]>>]]
           Known(D) == CHOOSE d \in Nat : D = CommonDivisors(d, 0)
           known == [p \in Nat \X Nat |-> Known(CommonDivisors(p[1], p[2]))]
<1>1. ASSUME NEW a \in Nat
      PROVE  Known(CommonDivisors(a, 0)) = a
  <2>1. PICK d \in Nat : d = Known(CommonDivisors(a, 0))
                         /\ CommonDivisors(a, 0) = CommonDivisors(d, 0)
    OBVIOUS
  <2>2. \A e \in Nat : Divides(e, 0)
    BY DEF Divides
  <2>3. \A e \in Nat : Divides(e, a) <=> Divides(e, d)
    BY <2>1, <2>2 DEF CommonDivisors
  <2> QED
    BY <2>1, <2>3, KnownByDivisors
<1>2. ASSUME NEW p \in Nat \X Nat
      PROVE  known[p] = Step(known)[p]
  <2>1. PICK a \in Nat, b \in Nat : p = <<a, b>>
    OBVIOUS
  <2>2. CASE b = 0
    BY <1>1, <2>1, <2>2
  <2>3. CASE b # 0
    <3>1. a % b \in Nat /\ CommonDivisors(a, b) = CommonDivisors(b, a % b)
      BY <2>3, EuclidStep DEF Positive
    <3>2. <<b, a % b>> \in Nat \X Nat
      BY <3>1
    <3>3. known[<<b, a % b>>] = Known(CommonDivisors(b, a % b))
      BY <3>2
    <3>4. known[<<a, b>>] = Known(CommonDivisors(a, b))
      OBVIOUS
    <3>5. Step(known)[<<a, b>>] = known[<<b, a % b>>]
      BY <2>3
    <3> QED
      BY <2>1, <3>1, <3>3, <3>4, <3>5
  <2> QED
    BY <2>1, <2>2, <2>3
<1>3. known = Step(known)
  <2> DEFINE after == Step(known)
  <2>1. known = [p \in Nat \X Nat |-> known[p]]
    OBVIOUS
  <2>2. \A p \in Nat \X Nat : known[p] = after[p]
    BY <1>2
  <2>3. after = [p \in Nat \X Nat |-> after[p]]
    OBVIOUS
  <2> HIDE DEF after, known
  <2>4. known = after
    BY <2>1, <2>2, <2>3
  <2> QED
    BY <2>4 DEF after
<1> HIDE DEF known
<1>4. gcd = CHOOSE f : f = Step(f)
  BY DEF gcd
<1>5. gcd = Step(gcd)
  BY <1>3, <1>4
<1> QED
  BY <1>5

(* Whatever holds of gcd at second argument zero, and at <<a, b>> when it holds at *)
(* <<b, a % b>>, holds everywhere: the second argument cannot decrease for ever.   *)
LEMMA NoEuclidDescent ==
  ASSUME NEW F \in SUBSET (Nat \X Nat),
         \A a, b \in Nat : <<a, b>> \in F => b # 0 /\ <<b, a % b>> \in F
  PROVE  F = {}
<1> DEFINE Seconds == {b \in Nat : \E a \in Nat : <<a, b>> \in F}
<1>1. ASSUME NEW b \in Seconds, \A m \in Seconds : b <= m
      PROVE  FALSE
  <2>1. PICK a \in Nat : <<a, b>> \in F /\ b \in Nat
    BY <1>1
  <2>2. b # 0 /\ <<b, a % b>> \in F
    BY <2>1
  <2>3. a % b \in Nat /\ a % b < b
    BY <2>1, <2>2, EuclidStep DEF Positive
  <2>4. a % b \in Seconds
    BY <2>1, <2>2, <2>3
  <2> QED
    BY <1>1, <2>1, <2>3, <2>4
<1>2. Seconds = {}
  <2>1. Seconds \in SUBSET Nat
    OBVIOUS
  <2> HIDE DEF Seconds
  <2> QED
    BY <1>1, <2>1, LeastNat
<1>3. \A p \in F : p[2] \in Seconds
  <2>1. ASSUME NEW p \in F
        PROVE  p[2] \in Seconds
    <3>1. p = <<p[1], p[2]>> /\ p[1] \in Nat /\ p[2] \in Nat
      OBVIOUS
    <3>2. <<p[1], p[2]>> \in F
      BY <3>1
    <3> QED
      BY <3>1, <3>2
  <2> QED
    BY <2>1
<1> QED
  BY <1>2, <1>3

(* gcd divides both its arguments, and is zero for two zeros alone. *)
LEMMA GcdDivides ==
  ASSUME NEW a \in Nat, NEW b \in Nat
  PROVE  /\ gcd[<<a, b>>] \in Nat
         /\ b # 0 => gcd[<<a, b>>] # 0
         /\ Divides(gcd[<<a, b>>], a) /\ Divides(gcd[<<a, b>>], b)
<1> DEFINE Good(x, y) == /\ gcd[<<x, y>>] \in Nat
                         /\ x # 0 \/ y # 0 => gcd[<<x, y>>] # 0
                         /\ gcd[<<x, y>>] \in CommonDivisors(x, y)
           Bad == {p \in Nat \X Nat : ~Good(p[1], p[2])}
<1>1. ASSUME NEW x \in Nat, NEW y \in Nat, <<x, y>> \in Bad
      PROVE  y # 0 /\ <<y, x % y>> \in Bad
  <2>1. ~Good(x, y)
    BY <1>1
  <2>2. y # 0
    <3>1. Divides(x, x) /\ Divides(x, 0)
      BY DEF Divides
    <3>2. y = 0 => gcd[<<x, y>>] = x
      BY GcdRecursion
    <3> QED
      BY <2>1, <3>1, <3>2 DEF CommonDivisors
  <2>3. x % y \in Nat /\ CommonDivisors(x, y) = CommonDivisors(y, x % y)
    BY <2>2, EuclidStep DEF Positive
  <2>4. gcd[<<x, y>>] = gcd[<<y, x % y>>]
    BY <2>2, GcdRecursion
  <2>5. ~Good(y, x % y)
    BY <2>1, <2>2, <2>3, <2>4
  <2> HIDE DEF Good
  <2> QED
    BY <2>2, <2>3, <2>5
<1>2. Bad = {}
  <2>1. Bad \in SUBSET (Nat \X Nat)
    OBVIOUS
  <2> HIDE DEF Bad
  <2> QED
    BY <1>1, <2>1, NoEuclidDescent
<1>3. Good(a, b)
  <2> DEFINE p == <<a, b>>
  <2>1. p \in Nat \X Nat /\ p \notin Bad /\ p[1] = a /\ p[2] = b
    BY <1>2
  <2> HIDE DEF Good, p
  <2> QED
    BY <2>1
<1> QED
  BY <1>3 DEF CommonDivisors

(* The remainder of two multiples is the multiple of the remainder. *)
LEMMA RemainderOfMultiples ==
  ASSUME NEW a \in Nat, NEW b \in Positive, NEW k \in Positive
  PROVE  (k * a) % (k * b) = k * (a % b)
<1>1. PICK q, r : q = a \div b /\ r = a % b
  OBVIOUS
<1>2. q \in Nat /\ r \in Nat /\ r < b /\ a = b * q + r
  BY <1>1 DEF Positive
<1>3. PICK x, y, z : x = k * a /\ y = k * b /\ z = k * r
  OBVIOUS
<1>4. x \in Nat /\ y \in Positive /\ z \in Nat
  BY <1>2, <1>3 DEF Positive
<1>5. z < y
  BY <1>2, <1>3 DEF Positive
<1>6. x = y * q + z
  BY <1>2, <1>3 DEF Positive
<1>7. x % y = z
  <2>1. PICK s, t : s = x \div y /\ t = x % y
    OBVIOUS
  <2>2. s \in Nat /\ t \in Nat /\ t < y /\ x = y * s + t
    BY <1>4, <2>1 DEF Positive
  <2>3. y * s + t = y * q + z
    BY <1>6, <2>2
  <2>4. s < q => y * s + y <= y * q
    <3>1. s < q => y * (s + 1) <= y * q
      BY <1>2, <1>4, <2>2 DEF Positive
    <3>2. y * (s + 1) = y * s + y
      BY <1>4, <2>2 DEF Positive
    <3> QED
      BY <3>1, <3>2
  <2>5. q < s => y * q + y <= y * s
    <3>1. q < s => y * (q + 1) <= y * s
      BY <1>2, <1>4, <2>2 DEF Positive
    <3>2. y * (q + 1) = y * q + y
      BY <1>2, <1>4 DEF Positive
    <3> QED
      BY <3>1, <3>2
  <2>6. y * s \in Nat /\ y * q \in Nat
    BY <1>2, <1>4, <2>2 DEF Positive
  <2>7. s = q
    BY <1>2, <1>4, <1>5, <2>2, <2>3, <2>4, <2>5, <2>6 DEF Positive
  <2> QED
    BY <1>4, <2>1, <2>2, <2>3, <2>6, <2>7 DEF Positive
<1> QED
  BY <1>1, <1>3, <1>7

(* The gcd of two multiples is the multiple of the gcd. *)
LEMMA GcdOfMultiples ==
  ASSUME NEW k \in Positive, NEW a \in Nat, NEW b \in Nat
  PROVE  gcd[<<k * a, k * b>>] = k * gcd[<<a, b>>]
<1> DEFINE Good(x, y) == gcd[<<k * x, k * y>>] = k * gcd[<<x, y>>]
           Bad == {p \in Nat \X Nat : ~Good(p[1], p[2])}
<1>1. ASSUME NEW x \in Nat, NEW y \in Nat, <<x, y>> \in Bad
      PROVE  y # 0 /\ <<y, x % y>> \in Bad
  <2>1. ~Good(x, y)
    BY <1>1
  <2>2. k * x \in Nat /\ k * y \in Nat /\ (y # 0 => k * y # 0) /\ k * 0 = 0
    BY DEF Positive
  <2>3. y # 0
    <3>1. SUFFICES ASSUME y = 0
                   PROVE  FALSE
      OBVIOUS
    <3>2. gcd[<<x, 0>>] = x /\ gcd[<<k * x, 0>>] = k * x
      BY <2>2, GcdRecursion
    <3> QED
      BY <2>1, <2>2, <3>1, <3>2
  <2>4. x % y \in Nat
    BY <2>3, EuclidStep DEF Positive
  <2>5. (k * x) % (k * y) = k * (x % y)
    BY <2>3, RemainderOfMultiples DEF Positive
  <2>6. gcd[<<x, y>>] = gcd[<<y, x % y>>]
    BY <2>3, GcdRecursion
  <2>7. gcd[<<k * x, k * y>>] = gcd[<<k * y, (k * x) % (k * y)>>]
    BY <2>2, <2>3, GcdRecursion
  <2>8. ~Good(y, x % y)
    BY <2>1, <2>5, <2>6, <2>7
  <2> HIDE DEF Good
  <2> QED
    BY <2>3, <2>4, <2>8
<1>2. Bad = {}
  <2>1. Bad \in SUBSET (Nat \X Nat)
    OBVIOUS
  <2> HIDE DEF Bad
  <2> QED
    BY <1>1, <2>1, NoEuclidDescent
<1>3. Good(a, b)
  <2> DEFINE p == <<a, b>>
  <2>1. p \in Nat \X Nat /\ p \notin Bad /\ p[1] = a /\ p[2] = b
    BY <1>2
  <2> HIDE DEF Good, p
  <2> QED
    BY <2>1
<1> QED
  BY <1>3

-------------------------------------------------------------------------------
(* Fractions *)

\* q has the value a / b.
Stands(q, a, b) == q[1] \in Int /\ q[2] \in Positive /\ q[1] * b = a * q[2]

\* q is what Frac returns for some fraction.
IsReduced(q) == \E n \in Int, d \in Positive : q = Frac(n, d)

(* What Frac divides by, and what it leaves of the numerator and the denominator. *)
LEMMA FracParts ==
  ASSUME NEW n \in Int, NEW d \in Positive
  PROVE  \E g \in Positive, k \in Int, m \in Positive :
           /\ g = gcd[<<AbsInt(n), d>>]
           /\ n = k * g /\ d = m * g
           /\ Frac(n, d) = <<k, m>>
<1>1. PICK g : g = gcd[<<AbsInt(n), d>>]
  OBVIOUS
<1>2. AbsInt(n) \in Nat /\ (n = AbsInt(n) \/ n = -AbsInt(n))
  BY DEF AbsInt
<1>3. g \in Positive /\ Divides(g, AbsInt(n)) /\ Divides(g, d)
  BY <1>1, <1>2, GcdDivides DEF Positive
<1>4. PICK j \in Nat, m \in Nat : AbsInt(n) = j * g /\ d = m * g
  BY <1>3 DEF Divides
<1>5. \E k \in Int : n = k * g
  <2>1. -(j * g) = (-j) * g /\ j \in Int /\ -j \in Int
    BY <1>3, <1>4 DEF Positive
  <2> QED
    BY <1>2, <1>4, <2>1
<1>6. PICK k \in Int : n = k * g
  BY <1>5
<1>7. m \in Positive
  BY <1>3, <1>4 DEF Positive
<1>8. n \div g = k /\ d \div g = m
  <2>1. m \in Int
    OBVIOUS
  <2> QED
    BY <1>3, <1>4, <1>6, <2>1, ExactQuotient
<1>9. Frac(n, d) = <<k, m>>
  BY <1>1, <1>8 DEF Frac
<1> QED
  BY <1>1, <1>3, <1>4, <1>6, <1>7, <1>9

(* Frac keeps the value of the fraction. *)
LEMMA FracStands ==
  ASSUME NEW n \in Int, NEW d \in Positive
  PROVE  Stands(Frac(n, d), n, d) /\ IsReduced(Frac(n, d))
<1>1. PICK g \in Positive, k \in Int, m \in Positive :
        /\ g = gcd[<<AbsInt(n), d>>]
        /\ n = k * g /\ d = m * g
        /\ Frac(n, d) = <<k, m>>
  BY FracParts
<1>2. k * (m * g) = (k * g) * m
  BY DEF Positive
<1> QED
  BY <1>1, <1>2 DEF Stands, IsReduced

(* Frac drops a common factor. *)
LEMMA FracOfMultiples ==
  ASSUME NEW n \in Int, NEW d \in Positive, NEW c \in Positive
  PROVE  Frac(n * c, d * c) = Frac(n, d)
<1>1. PICK g \in Positive, k \in Int, m \in Positive :
        /\ g = gcd[<<AbsInt(n), d>>]
        /\ n = k * g /\ d = m * g
        /\ Frac(n, d) = <<k, m>>
  BY FracParts
<1>2. AbsInt(n * c) = c * AbsInt(n) /\ AbsInt(n) \in Nat /\ d * c = c * d
  <2>1. CASE n < 0
    <3>1. n * c < 0 /\ -(n * c) = c * (-n)
      BY <2>1 DEF Positive
    <3> QED
      BY <2>1, <3>1 DEF AbsInt, Positive
  <2>2. CASE ~(n < 0)
    <3>1. ~(n * c < 0) /\ n * c = c * n
      BY <2>2 DEF Positive
    <3> QED
      BY <2>2, <3>1 DEF AbsInt, Positive
  <2> QED
    BY <2>1, <2>2
<1>3. gcd[<<AbsInt(n * c), d * c>>] = c * g
  BY <1>1, <1>2, GcdOfMultiples DEF Positive
<1>4. n * c = k * (c * g) /\ d * c = m * (c * g) /\ c * g \in Positive
  BY <1>1 DEF Positive
<1>5. (n * c) \div (c * g) = k /\ (d * c) \div (c * g) = m
  <2>1. m \in Int
    BY DEF Positive
  <2> QED
    BY <1>4, <2>1, ExactQuotient
<1> QED
  BY <1>1, <1>3, <1>5 DEF Frac

(* The order of what two pairs stand for. *)
LEMMA OrderOfValues ==
  ASSUME NEW p, NEW q, NEW a \in Int, NEW b \in Positive, NEW c \in Int, NEW d \in Positive,
         Stands(p, a, b), Stands(q, c, d)
  PROVE  LessEq(p, q) <=> a * d <= c * b
<1>1. PICK p1 \in Int, p2 \in Positive, q1 \in Int, q2 \in Positive :
        /\ p1 = p[1] /\ p2 = p[2] /\ q1 = q[1] /\ q2 = q[2]
        /\ p1 * b = a * p2 /\ q1 * d = c * q2
  BY DEF Stands
<1>2. (p1 * q2) * (b * d) = (a * d) * (p2 * q2)
  <2>1. (p1 * q2) * (b * d) = (p1 * b) * (q2 * d)
    BY DEF Positive
  <2>2. (a * p2) * (q2 * d) = (a * d) * (p2 * q2)
    BY DEF Positive
  <2> QED
    BY <1>1, <2>1, <2>2
<1>3. (q1 * p2) * (b * d) = (c * b) * (p2 * q2)
  <2>1. (q1 * p2) * (b * d) = (q1 * d) * (p2 * b)
    BY DEF Positive
  <2>2. (c * q2) * (p2 * b) = (c * b) * (p2 * q2)
    BY DEF Positive
  <2> QED
    BY <1>1, <2>1, <2>2
<1>4. b * d \in Positive /\ p2 * q2 \in Positive
  BY PositiveProduct
<1>5. p1 * q2 \in Int /\ q1 * p2 \in Int /\ a * d \in Int /\ c * b \in Int
  BY DEF Positive
<1>6. p1 * q2 <= q1 * p2 <=> a * d <= c * b
  BY <1>2, <1>3, <1>4, <1>5, Cancels
<1> QED
  BY <1>1, <1>6 DEF LessEq

(* Two fractions of one value are the same pair. *)
LEMMA SameFraction ==
  ASSUME NEW p, NEW q, IsReduced(p), IsReduced(q), NEW a \in Int, NEW b \in Positive,
         Stands(p, a, b), Stands(q, a, b)
  PROVE  p = q
<1>1. ASSUME NEW r, IsReduced(r), Stands(r, a, b)
      PROVE  r = Frac(a, b)
  <2>1. PICK n \in Int, d \in Positive : r = Frac(n, d)
    BY <1>1 DEF IsReduced
  <2>2. Stands(r, n, d)
    BY <2>1, FracStands
  <2>3. n * b = a * d
    <3>1. PICK x \in Int, y \in Positive : x * b = a * y /\ x * d = n * y
      BY <1>1, <2>2 DEF Stands
    <3>2. (n * b) * y = (n * y) * b /\ (a * d) * y = (a * y) * d /\ (x * d) * b = (x * b) * d
      BY DEF Positive
    <3>3. n * b \in Int /\ a * d \in Int
      BY DEF Positive
    <3> QED
      BY <3>1, <3>2, <3>3, Cancels
  <2>4. Frac(n * b, d * b) = Frac(n, d) /\ Frac(a * d, b * d) = Frac(a, b)
    BY FracOfMultiples
  <2>5. d * b = b * d
    BY DEF Positive
  <2> QED
    BY <2>1, <2>3, <2>4, <2>5
<1> QED
  BY <1>1

(* A pair stands for every fraction equal to one that it stands for. *)
LEMMA StandsForEqual ==
  ASSUME NEW q, NEW n \in Int, NEW m \in Positive, NEW a \in Int, NEW b \in Positive,
         Stands(q, n, m), n * b = a * m
  PROVE  Stands(q, a, b)
<1>1. PICK x \in Int, y \in Positive : x = q[1] /\ y = q[2] /\ x * m = n * y
  BY DEF Stands
<1>2. (x * b) * m = (a * y) * m
  <2>1. (x * b) * m = (x * m) * b
    BY DEF Positive
  <2>2. (n * y) * b = (n * b) * y
    BY DEF Positive
  <2>3. (a * m) * y = (a * y) * m
    BY DEF Positive
  <2> QED
    BY <1>1, <2>1, <2>2, <2>3
<1>3. x * b \in Int /\ a * y \in Int
  BY DEF Positive
<1>4. x * b = a * y
  BY <1>2, <1>3, Cancels
<1> QED
  BY <1>1, <1>4 DEF Stands

(* Whole numbers. *)
LEMMA WholeStands ==
  ASSUME NEW n \in Int
  PROVE  Stands(Whole(n), n, 1)
<1> QED
  BY DEF Stands, Whole, Positive

(* Plus, Minus, Times and Over are the operations of the rationals: a sum ... *)
LEMMA PlusStands ==
  ASSUME NEW p, NEW q, NEW a \in Int, NEW b \in Positive, NEW c \in Int, NEW d \in Positive,
         Stands(p, a, b), Stands(q, c, d)
  PROVE  Stands(Plus(p, q), a * d + c * b, b * d) /\ IsReduced(Plus(p, q))
<1>1. PICK p1 \in Int, p2 \in Positive, q1 \in Int, q2 \in Positive :
        /\ p1 = p[1] /\ p2 = p[2] /\ q1 = q[1] /\ q2 = q[2]
        /\ p1 * b = a * p2 /\ q1 * d = c * q2
  BY DEF Stands
<1>2. PICK n, m : n = p1 * q2 + q1 * p2 /\ m = p2 * q2
  OBVIOUS
<1>3. n \in Int /\ m \in Positive
  BY <1>2, PositiveProduct DEF Positive
<1>4. Plus(p, q) = Frac(n, m)
  BY <1>1, <1>2 DEF Plus
<1>5. Stands(Plus(p, q), n, m) /\ IsReduced(Plus(p, q))
  BY <1>3, <1>4, FracStands
<1>6. n * (b * d) = (a * d + c * b) * m
  <2>1. n * (b * d) = (p1 * b) * (q2 * d) + (q1 * d) * (p2 * b)
    BY <1>2 DEF Positive
  <2>2. (a * p2) * (q2 * d) + (c * q2) * (p2 * b) = (a * d + c * b) * m
    BY <1>2 DEF Positive
  <2> QED
    BY <1>1, <2>1, <2>2
<1>7. a * d + c * b \in Int /\ b * d \in Positive
  BY PositiveProduct DEF Positive
<1> QED
  BY <1>3, <1>5, <1>6, <1>7, StandsForEqual

(* ... a difference ... *)
LEMMA MinusStands ==
  ASSUME NEW p, NEW q, NEW a \in Int, NEW b \in Positive, NEW c \in Int, NEW d \in Positive,
         Stands(p, a, b), Stands(q, c, d)
  PROVE  Stands(Minus(p, q), a * d - c * b, b * d) /\ IsReduced(Minus(p, q))
<1>1. Stands(<<-q[1], q[2]>>, -c, d)
  <2>1. PICK q1 \in Int, q2 \in Positive : q1 = q[1] /\ q2 = q[2] /\ q1 * d = c * q2
    BY DEF Stands
  <2>2. (-q1) * d = -(q1 * d) /\ (-c) * q2 = -(c * q2) /\ -q1 \in Int
    BY DEF Positive
  <2> QED
    BY <2>1, <2>2 DEF Stands
<1>2. -c \in Int /\ a * d + (-c) * b = a * d - c * b
  BY DEF Positive
<1>3. /\ Stands(Plus(p, <<-q[1], q[2]>>), a * d + (-c) * b, b * d)
      /\ IsReduced(Plus(p, <<-q[1], q[2]>>))
  BY <1>1, <1>2, PlusStands, Zenon
<1> QED
  BY <1>2, <1>3 DEF Minus

(* ... a product ... *)
LEMMA TimesStands ==
  ASSUME NEW p, NEW q, NEW a \in Int, NEW b \in Positive, NEW c \in Int, NEW d \in Positive,
         Stands(p, a, b), Stands(q, c, d)
  PROVE  Stands(Times(p, q), a * c, b * d) /\ IsReduced(Times(p, q))
<1>1. PICK p1 \in Int, p2 \in Positive, q1 \in Int, q2 \in Positive :
        /\ p1 = p[1] /\ p2 = p[2] /\ q1 = q[1] /\ q2 = q[2]
        /\ p1 * b = a * p2 /\ q1 * d = c * q2
  BY DEF Stands
<1>2. PICK n, m : n = p1 * q1 /\ m = p2 * q2
  OBVIOUS
<1>3. n \in Int /\ m \in Positive
  BY <1>2, PositiveProduct
<1>4. Times(p, q) = Frac(n, m)
  BY <1>1, <1>2 DEF Times
<1>5. Stands(Times(p, q), n, m) /\ IsReduced(Times(p, q))
  BY <1>3, <1>4, FracStands
<1>6. n * (b * d) = (a * c) * m
  <2>1. n * (b * d) = (p1 * b) * (q1 * d)
    BY <1>2 DEF Positive
  <2>2. (a * p2) * (c * q2) = (a * c) * m
    BY <1>2 DEF Positive
  <2> QED
    BY <1>1, <2>1, <2>2
<1>7. a * c \in Int /\ b * d \in Positive
  BY PositiveProduct DEF Positive
<1> QED
  BY <1>3, <1>5, <1>6, <1>7, StandsForEqual

(* ... and a quotient by a count. *)
LEMMA OverStands ==
  ASSUME NEW p, NEW a \in Int, NEW b \in Positive, NEW n \in Positive, Stands(p, a, b)
  PROVE  Stands(Over(p, n), a, b * n) /\ IsReduced(Over(p, n))
<1>1. PICK p1 \in Int, p2 \in Positive : p1 = p[1] /\ p2 = p[2] /\ p1 * b = a * p2
  BY DEF Stands
<1>2. p2 * n \in Positive
  BY PositiveProduct
<1>3. Over(p, n) = Frac(p1, p2 * n)
  BY <1>1 DEF Over
<1>4. Stands(Over(p, n), p1, p2 * n) /\ IsReduced(Over(p, n))
  BY <1>2, <1>3, FracStands
<1>5. p1 * (b * n) = a * (p2 * n)
  <2>1. p1 * (b * n) = (p1 * b) * n /\ a * (p2 * n) = (a * p2) * n
    BY DEF Positive
  <2> QED
    BY <1>1, <2>1
<1>6. b * n \in Positive
  BY PositiveProduct
<1> QED
  BY <1>2, <1>4, <1>5, <1>6, StandsForEqual

-------------------------------------------------------------------------------
(* Sums over what was learned and over a window *)

\* Count, Sum and SumOfSquares of any f that says how often each value was learned,
\* and the sum of a window.
CountIn(f) == MapThenSumSet(LAMBDA v : f[v], Values)
SumIn(f) == MapThenSumSet(LAMBDA v : f[v] * v, Values)
SquaresIn(f) == MapThenSumSet(LAMBDA v : f[v] * v * v, Values)
WindowSum(w) == MapThenSumSet(LAMBDA i : w[i], DOMAIN w)

\* The three, as sums over the subsets of Values.
Moments(c, s, q, f) ==
  /\ Totals(c, [x \in Values |-> f[x]], Values)
  /\ Totals(s, [x \in Values |-> f[x] * x], Values)
  /\ Totals(q, [x \in Values |-> f[x] * x * x], Values)

(* They are sums. *)
LEMMA MomentsExist ==
  ASSUME NEW f \in [Values -> Nat]
  PROVE  \E c, s, q : /\ CountIn(f) = c[Values] /\ SumIn(f) = s[Values]
                      /\ SquaresIn(f) = q[Values]
                      /\ Moments(c, s, q, f)
<1> DEFINE once == [x \in Values |-> f[x]]
           times == [x \in Values |-> f[x] * x]
           squares == [x \in Values |-> f[x] * x * x]
<1>1. /\ IsFiniteSet(Values)
      /\ once \in [Values -> Nat] /\ times \in [Values -> Nat] /\ squares \in [Values -> Nat]
  <2>1. \A x \in Values : f[x] \in Nat /\ x \in Nat
    BY BaselineAssumption
  <2>2. \A x \in Values : f[x] * x \in Nat /\ f[x] * x * x \in Nat
    BY <2>1
  <2> QED
    BY <2>1, <2>2, BaselineAssumption
<1>2. PICK cs : CountIn(f) = cs[Values] /\ Totals(cs, once, Values)
  <2> DEFINE Rec(r) == [s \in SUBSET Values |->
                          IF s = {} THEN 0
                          ELSE LET x == CHOOSE x \in s : TRUE
                               IN  f[x] + r[s \ {x}]]
             fold == CHOOSE r : r = Rec(r)
  <2>1. CountIn(f) = fold[Values]
    BY DEF CountIn, MapThenSumSet, MapThenFoldSet
  <2>2. PICK sum \in [SUBSET Values -> Nat] : \A s \in SUBSET Values : Adds(sum, once, s)
    BY <1>1, SumExists
  <2>3. \A s \in SUBSET Values : s # {} => Pick(s) \in Values
    BY DEF Pick
  <2>4. sum = Rec(sum)
    BY <2>2, <2>3 DEF Adds, Pick
  <2>5. fold = Rec(fold)
    BY <2>4
  <2> HIDE DEF fold
  <2>6. \A s \in SUBSET Values : Adds(fold, once, s)
    BY <2>3, <2>5 DEF Adds, Pick
  <2> HIDE DEF Rec, once
  <2>7. Totals(fold, once, Values)
    BY <1>1, <2>6, OrderIrrelevant
  <2> QED
    BY <2>1, <2>7
<1>3. PICK ss : SumIn(f) = ss[Values] /\ Totals(ss, times, Values)
  <2> DEFINE Rec(r) == [s \in SUBSET Values |->
                          IF s = {} THEN 0
                          ELSE LET x == CHOOSE x \in s : TRUE
                               IN  f[x] * x + r[s \ {x}]]
             fold == CHOOSE r : r = Rec(r)
  <2>1. SumIn(f) = fold[Values]
    BY DEF SumIn, MapThenSumSet, MapThenFoldSet
  <2>2. PICK sum \in [SUBSET Values -> Nat] : \A s \in SUBSET Values : Adds(sum, times, s)
    BY <1>1, SumExists
  <2>3. \A s \in SUBSET Values : s # {} => Pick(s) \in Values
    BY DEF Pick
  <2>4. sum = Rec(sum)
    BY <2>2, <2>3 DEF Adds, Pick
  <2>5. fold = Rec(fold)
    BY <2>4
  <2> HIDE DEF fold
  <2>6. \A s \in SUBSET Values : Adds(fold, times, s)
    BY <2>3, <2>5 DEF Adds, Pick
  <2> HIDE DEF Rec, times
  <2>7. Totals(fold, times, Values)
    BY <1>1, <2>6, OrderIrrelevant
  <2> QED
    BY <2>1, <2>7
<1>4. PICK qs : SquaresIn(f) = qs[Values] /\ Totals(qs, squares, Values)
  <2> DEFINE Rec(r) == [s \in SUBSET Values |->
                          IF s = {} THEN 0
                          ELSE LET x == CHOOSE x \in s : TRUE
                               IN  f[x] * x * x + r[s \ {x}]]
             fold == CHOOSE r : r = Rec(r)
  <2>1. SquaresIn(f) = fold[Values]
    BY DEF SquaresIn, MapThenSumSet, MapThenFoldSet
  <2>2. PICK sum \in [SUBSET Values -> Nat] : \A s \in SUBSET Values : Adds(sum, squares, s)
    BY <1>1, SumExists
  <2>3. \A s \in SUBSET Values : s # {} => Pick(s) \in Values
    BY DEF Pick
  <2>4. sum = Rec(sum)
    BY <2>2, <2>3 DEF Adds, Pick
  <2>5. fold = Rec(fold)
    BY <2>4
  <2> HIDE DEF fold
  <2>6. \A s \in SUBSET Values : Adds(fold, squares, s)
    BY <2>3, <2>5 DEF Adds, Pick
  <2> HIDE DEF Rec, squares
  <2>7. Totals(fold, squares, Values)
    BY <1>1, <2>6, OrderIrrelevant
  <2> QED
    BY <2>1, <2>7
<1> QED
  BY <1>2, <1>3, <1>4 DEF Moments

(* So is the sum of a window. *)
LEMMA WindowSumExists ==
  ASSUME NEW w \in Seq(Nat)
  PROVE  \E h : WindowSum(w) = h[DOMAIN w] /\ Totals(h, w, DOMAIN w)
<1>1. IsFiniteSet(DOMAIN w) /\ w \in [DOMAIN w -> Nat]
  <2>1. DOMAIN w = 1..Len(w) /\ Len(w) \in Nat
    BY LenProperties
  <2>2. IsFiniteSet(1..Len(w))
    BY <2>1, FS_Interval
  <2> QED
    BY <2>1, <2>2, SeqDef, ElementOfSeq
<1>2. PICK h : WindowSum(w) = h[DOMAIN w] /\ Totals(h, w, DOMAIN w)
  <2> DEFINE Rec(r) == [s \in SUBSET DOMAIN w |->
                          IF s = {} THEN 0
                          ELSE LET x == CHOOSE x \in s : TRUE
                               IN  w[x] + r[s \ {x}]]
             fold == CHOOSE r : r = Rec(r)
  <2>1. WindowSum(w) = fold[DOMAIN w]
    BY DEF WindowSum, MapThenSumSet, MapThenFoldSet
  <2>2. PICK sum \in [SUBSET DOMAIN w -> Nat] : \A s \in SUBSET DOMAIN w : Adds(sum, w, s)
    BY <1>1, SumExists
  <2>3. \A s \in SUBSET DOMAIN w : s # {} => Pick(s) \in DOMAIN w
    BY DEF Pick
  <2>4. sum = Rec(sum)
    BY <2>2, <2>3 DEF Adds, Pick
  <2>5. fold = Rec(fold)
    BY <2>4
  <2> HIDE DEF fold
  <2>6. \A s \in SUBSET DOMAIN w : Adds(fold, w, s)
    BY <2>3, <2>5 DEF Adds, Pick
  <2> HIDE DEF Rec
  <2>7. Totals(fold, w, DOMAIN w)
    BY <1>1, <2>6, OrderIrrelevant
  <2> QED
    BY <2>1, <2>7
<1> QED
  BY <1>2

(* Two sums of the same terms are equal, whatever else they could sum. *)
LEMMA SameTotals ==
  ASSUME NEW S, NEW T, NEW A \in SUBSET S, A \in SUBSET T, IsFiniteSet(A),
         NEW u, NEW v, \A x \in A : u[x] = v[x],
         NEW h, Totals(h, u, S), NEW k, Totals(k, v, T)
  PROVE  h[A] = k[A]
<1> DEFINE Bad == {s \in SUBSET A : h[s] # k[s]}
<1>1. ASSUME NEW s \in Bad
      PROVE  \E y \in s : s \ {y} \in Bad
  <2>1. s # {}
    BY <1>1 DEF Totals
  <2>2. PICK y \in s : TRUE
    BY <2>1
  <2>3. s \in SUBSET S /\ s \in SUBSET T /\ u[y] = v[y]
    BY <1>1
  <2>4. h[s] = u[y] + h[s \ {y}] /\ k[s] = v[y] + k[s \ {y}]
    BY <2>2, <2>3 DEF Totals
  <2> QED
    BY <1>1, <2>2, <2>3, <2>4
<1>2. Bad = {}
  <2>1. Bad \in SUBSET (SUBSET A)
    OBVIOUS
  <2> HIDE DEF Bad
  <2> QED
    BY <1>1, <2>1, NoDescent
<1> QED
  BY <1>2

(* A sum grows by what one of its terms grows. *)
LEMMA TotalOfRaised ==
  ASSUME NEW S, IsFiniteSet(S), NEW y \in S,
         NEW u, NEW v, u[y] \in Nat, v[y] \in Nat, \A x \in S \ {y} : u[x] = v[x],
         NEW h, Totals(h, u, S), NEW k, Totals(k, v, S)
  PROVE  k[S] + u[y] = h[S] + v[y] /\ k[S] \in Nat /\ h[S] \in Nat
<1>1. S \ {y} \in SUBSET S /\ IsFiniteSet(S \ {y})
  BY FS_Subset
<1>2. h[S \ {y}] = k[S \ {y}]
  BY <1>1, SameTotals
<1>3. h[S] = u[y] + h[S \ {y}] /\ k[S] = v[y] + k[S \ {y}] /\ h[S \ {y}] \in Nat
  BY <1>1 DEF Totals
<1> QED
  BY <1>2, <1>3

(* A sum of equal terms is a product. *)
LEMMA TotalOfEqual ==
  ASSUME NEW S, NEW c \in Nat, NEW v, NEW h, Totals(h, v, S)
  PROVE  \A A \in SUBSET S :
           IsFiniteSet(A) /\ (\A x \in A : v[x] = c) => h[A] = Cardinality(A) * c
<1> SUFFICES ASSUME NEW A \in SUBSET S, IsFiniteSet(A), \A x \in A : v[x] = c
             PROVE  h[A] = Cardinality(A) * c
  OBVIOUS
<1> DEFINE Bad == {s \in SUBSET A : h[s] # Cardinality(s) * c}
<1>1. ASSUME NEW s \in Bad
      PROVE  \E y \in s : s \ {y} \in Bad
  <2>1. s \in SUBSET A /\ h[s] # Cardinality(s) * c /\ s \in SUBSET S
    BY <1>1
  <2>2. s # {}
    <3>1. Cardinality({}) * c = 0 /\ h[{}] = 0
      BY FS_EmptySet DEF Totals
    <3> QED
      BY <2>1, <3>1
  <2>3. PICK y \in s : TRUE
    BY <2>2
  <2>4. PICK m, n : m = Cardinality(s \ {y}) /\ n = Cardinality(s)
    OBVIOUS
  <2>5. m \in Nat /\ n = m + 1
    <3>1. IsFiniteSet(s) /\ IsFiniteSet(s \ {y})
      BY <2>1, FS_Subset
    <3>2. n \in Nat /\ m \in Nat /\ m = n - 1
      BY <2>4, <3>1, FS_CardinalityType, FS_RemoveElement
    <3> QED
      BY <3>2
  <2>6. h[s] = v[y] + h[s \ {y}] /\ v[y] = c /\ h[s \ {y}] \in Nat
    BY <2>1, <2>3 DEF Totals
  <2>7. (m + 1) * c = m * c + c
    BY <2>5
  <2>8. h[s \ {y}] # m * c
    BY <2>1, <2>4, <2>5, <2>6, <2>7
  <2> QED
    BY <2>1, <2>3, <2>4, <2>8
<1>2. Bad = {}
  <2>1. Bad \in SUBSET (SUBSET A)
    OBVIOUS
  <2> HIDE DEF Bad
  <2> QED
    BY <1>1, <2>1, NoDescent
<1> QED
  BY <1>2

(* A sum of zeros is zero. *)
LEMMA TotalOfZeros ==
  ASSUME NEW S, IsFiniteSet(S), NEW v, \A x \in S : v[x] = 0, NEW h, Totals(h, v, S)
  PROVE  h[S] = 0
<1> DEFINE Bad == {s \in SUBSET S : h[s] # 0}
<1>1. ASSUME NEW s \in Bad
      PROVE  \E y \in s : s \ {y} \in Bad
  <2>1. s # {}
    BY <1>1 DEF Totals
  <2>2. PICK y \in s : TRUE
    BY <2>1
  <2>3. h[s] = v[y] + h[s \ {y}] /\ v[y] = 0 /\ h[s \ {y}] \in Nat
    BY <1>1, <2>2 DEF Totals
  <2>4. s \ {y} \in SUBSET S /\ h[s \ {y}] # 0
    BY <1>1, <2>3
  <2> QED
    BY <2>2, <2>4
<1>2. Bad = {}
  <2>1. Bad \in SUBSET (SUBSET S)
    OBVIOUS
  <2> HIDE DEF Bad
  <2> QED
    BY <1>1, <2>1, NoDescent
<1> QED
  BY <1>2

\* g says what f says, and that y was learned once more.
LearnsOne(f, g, y) == g = [f EXCEPT ![y] = @ + 1]

(* Learning y adds one event, y to the sum and its square to the squares. *)
LEMMA MomentsOfLearning ==
  \A f, g \in [Values -> Nat], y \in Values :
    LearnsOne(f, g, y) =>
      /\ CountIn(f) \in Nat /\ CountIn(g) = CountIn(f) + 1
      /\ SumIn(f) \in Nat /\ SumIn(g) = SumIn(f) + y
      /\ SquaresIn(f) \in Nat /\ SquaresIn(g) = SquaresIn(f) + y * y
<1> SUFFICES ASSUME NEW f \in [Values -> Nat], NEW g \in [Values -> Nat], NEW y \in Values,
                    LearnsOne(f, g, y)
             PROVE  /\ CountIn(f) \in Nat /\ CountIn(g) = CountIn(f) + 1
                    /\ SumIn(f) \in Nat /\ SumIn(g) = SumIn(f) + y
                    /\ SquaresIn(f) \in Nat /\ SquaresIn(g) = SquaresIn(f) + y * y
  OBVIOUS
<1>1. y \in Nat /\ IsFiniteSet(Values)
  BY BaselineAssumption
<1>2. PICK c, s, q : /\ CountIn(f) = c[Values] /\ SumIn(f) = s[Values]
                     /\ SquaresIn(f) = q[Values] /\ Moments(c, s, q, f)
  BY MomentsExist
<1>3. PICK cc, ss, qq : /\ CountIn(g) = cc[Values] /\ SumIn(g) = ss[Values]
                        /\ SquaresIn(g) = qq[Values] /\ Moments(cc, ss, qq, g)
  BY <1>1, MomentsExist
<1>4. f[y] \in Nat /\ g[y] = f[y] + 1 /\ \A x \in Values \ {y} : f[x] = g[x]
  BY DEF LearnsOne
<1>5. CountIn(f) \in Nat /\ SumIn(f) \in Nat /\ SquaresIn(f) \in Nat
  BY <1>2 DEF Moments, Totals
<1>6. cc[Values] = c[Values] + 1
  <2> DEFINE u == [x \in Values |-> f[x]]
             v == [x \in Values |-> g[x]]
  <2>1. Totals(c, u, Values) /\ Totals(cc, v, Values)
    BY <1>2, <1>3 DEF Moments
  <2>2. /\ u[y] \in Nat /\ v[y] \in Nat /\ v[y] = u[y] + 1
        /\ \A x \in Values \ {y} : u[x] = v[x]
    BY <1>4
  <2> HIDE DEF u, v
  <2>3. /\ cc[Values] + u[y] = c[Values] + v[y]
        /\ cc[Values] \in Nat /\ c[Values] \in Nat
    <3>1. u[y] \in Nat /\ v[y] \in Nat /\ \A x \in Values \ {y} : u[x] = v[x]
      BY <2>2
    <3>2. IsFiniteSet(Values)
      BY <1>1
    <3> QED
      BY <2>1, <3>1, <3>2, TotalOfRaised
  <2> QED
    BY <1>1, <2>2, <2>3
<1>7. ss[Values] = s[Values] + y
  <2> DEFINE u == [x \in Values |-> f[x] * x]
             v == [x \in Values |-> g[x] * x]
  <2>1. Totals(s, u, Values) /\ Totals(ss, v, Values)
    BY <1>2, <1>3 DEF Moments
  <2>2. /\ u[y] \in Nat /\ v[y] \in Nat /\ v[y] = u[y] + y
        /\ \A x \in Values \ {y} : u[x] = v[x]
    <3>1. f[y] * y \in Nat /\ f[y] * y + y \in Nat /\ (f[y] + 1) * y = f[y] * y + y
      BY <1>1, <1>4
    <3> QED
      BY <1>4, <3>1
  <2> HIDE DEF u, v
  <2>3. /\ ss[Values] + u[y] = s[Values] + v[y]
        /\ ss[Values] \in Nat /\ s[Values] \in Nat
    <3>1. u[y] \in Nat /\ v[y] \in Nat /\ \A x \in Values \ {y} : u[x] = v[x]
      BY <2>2
    <3>2. IsFiniteSet(Values)
      BY <1>1
    <3> QED
      BY <2>1, <3>1, <3>2, TotalOfRaised
  <2> QED
    BY <1>1, <2>2, <2>3
<1>8. qq[Values] = q[Values] + y * y
  <2> DEFINE u == [x \in Values |-> f[x] * x * x]
             v == [x \in Values |-> g[x] * x * x]
  <2>1. Totals(q, u, Values) /\ Totals(qq, v, Values)
    BY <1>2, <1>3 DEF Moments
  <2>2. /\ u[y] \in Nat /\ v[y] \in Nat /\ v[y] = u[y] + y * y
        /\ \A x \in Values \ {y} : u[x] = v[x]
    <3>1. /\ f[y] * y * y \in Nat /\ f[y] * y * y + y * y \in Nat
          /\ (f[y] + 1) * y * y = f[y] * y * y + y * y
      BY <1>1, <1>4
    <3> QED
      BY <1>4, <3>1
  <2> HIDE DEF u, v
  <2>3. /\ qq[Values] + u[y] = q[Values] + v[y]
        /\ qq[Values] \in Nat /\ q[Values] \in Nat
    <3>1. u[y] \in Nat /\ v[y] \in Nat /\ \A x \in Values \ {y} : u[x] = v[x]
      BY <2>2
    <3>2. IsFiniteSet(Values)
      BY <1>1
    <3> QED
      BY <2>1, <3>1, <3>2, TotalOfRaised
  <2> QED
    BY <1>1, <2>2, <2>3
<1> QED
  BY <1>1, <1>2, <1>3, <1>5, <1>6, <1>7, <1>8

(* Where nothing was learned, there is nothing to sum. *)
LEMMA MomentsOfNothing ==
  ASSUME NEW f \in [Values -> Nat], \A x \in Values : f[x] = 0
  PROVE  CountIn(f) = 0 /\ SumIn(f) = 0 /\ SquaresIn(f) = 0
<1>1. PICK c, s, q : /\ CountIn(f) = c[Values] /\ SumIn(f) = s[Values]
                     /\ SquaresIn(f) = q[Values] /\ Moments(c, s, q, f)
  BY MomentsExist
<1>2. IsFiniteSet(Values) /\ \A x \in Values : f[x] * x = 0 /\ f[x] * x * x = 0
  BY BaselineAssumption
<1>3. c[Values] = 0 /\ s[Values] = 0 /\ q[Values] = 0
  <2> DEFINE u == [x \in Values |-> f[x]]
             v == [x \in Values |-> f[x] * x]
             w == [x \in Values |-> f[x] * x * x]
  <2>1. Totals(c, u, Values) /\ Totals(s, v, Values) /\ Totals(q, w, Values)
    BY <1>1 DEF Moments
  <2>2. \A x \in Values : u[x] = 0 /\ v[x] = 0 /\ w[x] = 0
    BY <1>2
  <2> HIDE DEF u, v, w
  <2>3. c[Values] = 0
    BY <1>2, <2>1, <2>2, TotalOfZeros
  <2>4. s[Values] = 0
    BY <1>2, <2>1, <2>2, TotalOfZeros
  <2>5. q[Values] = 0
    BY <1>2, <2>1, <2>2, TotalOfZeros
  <2> QED
    BY <2>3, <2>4, <2>5
<1> QED
  BY <1>1, <1>3

(* The squared distances of the values learned from a / b, summed: no distance is   *)
(* negative, and the sum is not below the distance of any one value that was learned. *)
LEMMA SpreadFromAnywhere ==
  ASSUME NEW f \in [Values -> Nat], NEW e \in Values, f[e] > 0, NEW a \in Int, NEW b \in Int
  PROVE  CountIn(f) * (a * a) - 2 * (SumIn(f) * (a * b)) + SquaresIn(f) * (b * b)
           >= (a - e * b) * (a - e * b)
<1>1. PICK c, s, q : /\ CountIn(f) = c[Values] /\ SumIn(f) = s[Values]
                     /\ SquaresIn(f) = q[Values] /\ Moments(c, s, q, f)
  BY MomentsExist
<1>2. \A t \in SUBSET Values : c[t] \in Nat /\ s[t] \in Nat /\ q[t] \in Nat
  BY <1>1 DEF Moments, Totals
<1>3. ASSUME NEW t \in SUBSET Values, NEW y \in t
      PROVE  /\ c[t] = f[y] + c[t \ {y}] /\ s[t] = f[y] * y + s[t \ {y}]
             /\ q[t] = f[y] * y * y + q[t \ {y}]
  BY <1>1 DEF Moments, Totals
<1>4. Values \subseteq Nat /\ IsFiniteSet(Values)
  BY BaselineAssumption
<1> DEFINE Spread(t) == c[t] * (a * a) - 2 * (s[t] * (a * b)) + q[t] * (b * b)
           Part(y) == f[y] * ((a - y * b) * (a - y * b))
           Least(t) == IF e \in t THEN (a - e * b) * (a - e * b) ELSE 0
           Bad == {t \in SUBSET Values : ~(Spread(t) >= Least(t))}
<1>5. ASSUME NEW t \in SUBSET Values, NEW y \in t
      PROVE  /\ Spread(t) = Spread(t \ {y}) + Part(y)
             /\ Spread(t \ {y}) \in Int /\ Part(y) \in Int
  <2>1. PICK n, x, cc, ss, qq : /\ n = f[y] /\ x = y /\ cc = c[t \ {y}]
                                /\ ss = s[t \ {y}] /\ qq = q[t \ {y}]
    OBVIOUS
  <2>2. n \in Nat /\ x \in Nat /\ cc \in Nat /\ ss \in Nat /\ qq \in Nat
    BY <1>2, <1>4, <2>1
  <2>3. (n + cc) * (a * a) - 2 * ((n * x + ss) * (a * b)) + (n * x * x + qq) * (b * b)
          = (cc * (a * a) - 2 * (ss * (a * b)) + qq * (b * b))
              + n * ((a - x * b) * (a - x * b))
    BY <2>2
  <2>4. /\ cc * (a * a) - 2 * (ss * (a * b)) + qq * (b * b) \in Int
        /\ n * ((a - x * b) * (a - x * b)) \in Int
    BY <2>2
  <2>5. c[t] = n + cc /\ s[t] = n * x + ss /\ q[t] = n * x * x + qq
    BY <1>3, <2>1
  <2> QED
    BY <2>1, <2>3, <2>4, <2>5
<1>6. ASSUME NEW y \in Values
      PROVE  Part(y) >= 0 /\ (y = e => Part(y) >= (a - e * b) * (a - e * b))
  <2>1. PICK d, n : d = a - y * b /\ n = f[y]
    OBVIOUS
  <2>2. d \in Int /\ n \in Nat
    BY <1>4, <2>1
  <2>3. d * d >= 0 /\ d * d \in Int
    BY <2>2
  <2>4. n * (d * d) >= 0 /\ (n > 0 => n * (d * d) >= d * d)
    BY <2>2, <2>3
  <2> QED
    BY <2>1, <2>4
<1>7. ASSUME NEW t \in Bad
      PROVE  \E y \in t : t \ {y} \in Bad
  <2>1. t \in SUBSET Values /\ ~(Spread(t) >= Least(t))
    BY <1>7
  <2>2. t # {}
    <3>1. c[{}] = 0 /\ s[{}] = 0 /\ q[{}] = 0
      BY <1>1 DEF Moments, Totals
    <3>2. Spread({}) = 0
      BY <3>1
    <3>3. Least({}) = 0
      OBVIOUS
    <3> HIDE DEF Spread, Least
    <3> QED
      BY <2>1, <3>2, <3>3
  <2>3. PICK y \in t : TRUE
    BY <2>2
  <2>4. /\ Spread(t) = Spread(t \ {y}) + Part(y)
        /\ Spread(t \ {y}) \in Int /\ Part(y) \in Int
    BY <1>5, <2>1, <2>3
  <2>5. Part(y) >= 0 /\ (y = e => Part(y) >= (a - e * b) * (a - e * b))
    BY <1>6, <2>1, <2>3
  <2>6. (a - e * b) * (a - e * b) \in Int
    BY <1>4
  <2>7. /\ Least(t \ {y}) = (IF y = e THEN 0 ELSE Least(t))
        /\ y = e => Least(t) = (a - e * b) * (a - e * b)
    BY <2>3
  <2>8. Least(t) \in Int
    BY <2>6
  <2> HIDE DEF Spread, Part, Least
  <2>9. ~(Spread(t \ {y}) >= Least(t \ {y}))
    BY <2>1, <2>4, <2>5, <2>6, <2>7, <2>8
  <2> QED
    BY <2>1, <2>3, <2>9
<1>8. Bad = {}
  <2>1. Bad \in SUBSET (SUBSET Values)
    OBVIOUS
  <2> HIDE DEF Bad
  <2> QED
    BY <1>4, <1>7, <2>1, NoDescent
<1>9. Spread(Values) >= Least(Values)
  <2> HIDE DEF Spread, Least
  <2> QED
    BY <1>8
<1> QED
  BY <1>1, <1>9

(* A sum over two disjoint sets is the sum over one and over the other. *)
LEMMA TotalOfUnion ==
  ASSUME NEW S, NEW A \in SUBSET S, NEW B \in SUBSET S, IsFiniteSet(B), A \cap B = {},
         NEW v, NEW h, Totals(h, v, S), \A x \in S : v[x] \in Nat
  PROVE  h[A \cup B] = h[A] + h[B]
<1> DEFINE Bad == {s \in SUBSET B : h[A \cup s] # h[A] + h[s]}
<1>1. ASSUME NEW s \in Bad
      PROVE  \E y \in s : s \ {y} \in Bad
  <2>1. s \in SUBSET B /\ s \in SUBSET S /\ A \cup s \in SUBSET S /\ h[A \cup s] # h[A] + h[s]
    BY <1>1
  <2>2. h[A] \in Nat /\ h[{}] = 0
    BY DEF Totals
  <2>3. s # {}
    <3>1. s = {} => A \cup s = A
      OBVIOUS
    <3> QED
      BY <2>1, <2>2, <3>1
  <2>4. PICK y \in s : TRUE
    BY <2>3
  <2>5. (A \cup s) \ {y} = A \cup (s \ {y}) /\ y \in A \cup s
    BY <2>1, <2>4
  <2>6. /\ h[s] = v[y] + h[s \ {y}] /\ h[A \cup s] = v[y] + h[A \cup (s \ {y})]
        /\ h[s \ {y}] \in Nat /\ h[A \cup (s \ {y})] \in Nat /\ v[y] \in Nat
    <3>1. s \ {y} \in SUBSET S /\ A \cup (s \ {y}) \in SUBSET S /\ y \in S
      BY <2>1, <2>4
    <3>2. h[s \ {y}] \in Nat /\ h[A \cup (s \ {y})] \in Nat /\ v[y] \in Nat
      BY <3>1 DEF Totals
    <3>3. h[s] = v[y] + h[s \ {y}]
      BY <2>1, <2>4 DEF Totals
    <3>4. h[A \cup s] = v[y] + h[(A \cup s) \ {y}]
      BY <2>1, <2>5 DEF Totals
    <3> QED
      BY <2>5, <3>2, <3>3, <3>4
  <2>7. h[A \cup (s \ {y})] # h[A] + h[s \ {y}]
    BY <2>1, <2>2, <2>6
  <2> QED
    BY <2>1, <2>4, <2>7
<1>2. Bad = {}
  <2>1. Bad \in SUBSET (SUBSET B)
    OBVIOUS
  <2> HIDE DEF Bad
  <2> QED
    BY <1>1, <2>1, NoDescent
<1> QED
  BY <1>2

(* An event more in the window adds its value to the sum of the window. *)
LEMMA WindowSumOfAppend ==
  ASSUME NEW w \in Seq(Nat), NEW y \in Nat
  PROVE  WindowSum(w) \in Nat /\ WindowSum(Append(w, y)) = WindowSum(w) + y
<1>1. PICK x, n : x = Append(w, y) /\ n = Len(w)
  OBVIOUS
<1>2. /\ x \in Seq(Nat) /\ n \in Nat /\ x[n + 1] = y
      /\ DOMAIN w = 1..n /\ DOMAIN x = 1..(n + 1)
      /\ \A i \in 1..n : w[i] = x[i]
  BY <1>1, AppendElements, LenProperties
<1>3. PICK h : WindowSum(w) = h[DOMAIN w] /\ Totals(h, w, DOMAIN w)
  BY WindowSumExists
<1>4. PICK k : WindowSum(x) = k[DOMAIN x] /\ Totals(k, x, DOMAIN x)
  BY <1>2, WindowSumExists
<1>5. PICK D, E : D = 1..n /\ E = 1..(n + 1)
  OBVIOUS
<1>6. D \in SUBSET D /\ D \in SUBSET E /\ n + 1 \in E /\ E \ {n + 1} = D
  BY <1>2, <1>5
<1>7. IsFiniteSet(D) /\ \A i \in D : w[i] = x[i]
  BY <1>2, <1>5, FS_Interval
<1>8. h[D] = k[D]
  <2>1. Totals(h, w, D) /\ Totals(k, x, E)
    BY <1>2, <1>3, <1>4, <1>5
  <2> QED
    BY <1>6, <1>7, <2>1, SameTotals
<1>9. k[E] = x[n + 1] + k[D] /\ h[D] \in Nat
  <2>1. Totals(h, w, D) /\ Totals(k, x, E)
    BY <1>2, <1>3, <1>4, <1>5
  <2>2. E \in SUBSET E /\ D \in SUBSET D
    OBVIOUS
  <2>3. k[E] = x[n + 1] + k[E \ {n + 1}]
    BY <1>6, <2>1, <2>2 DEF Totals
  <2> QED
    BY <1>6, <2>1, <2>2, <2>3 DEF Totals
<1> QED
  BY <1>1, <1>2, <1>3, <1>4, <1>5, <1>8, <1>9

(* A window that holds just the events learned has their number and their sum. *)
LEMMA MomentsOfWindow ==
  ASSUME NEW f \in [Values -> Nat], NEW w \in Seq(Values),
         \A v \in Values : Cardinality({i \in DOMAIN w : w[i] = v}) = f[v]
  PROVE  Len(w) = CountIn(f) /\ WindowSum(w) = SumIn(f)
<1>1. PICK c, s, q : /\ CountIn(f) = c[Values] /\ SumIn(f) = s[Values]
                     /\ SquaresIn(f) = q[Values] /\ Moments(c, s, q, f)
  BY MomentsExist
<1>2. Values \subseteq Nat /\ IsFiniteSet(Values)
  BY BaselineAssumption
<1>3. PICK h, D : D = DOMAIN w /\ WindowSum(w) = h[D] /\ Totals(h, w, D)
  <2>1. w \in Seq(Nat)
    <3>1. PICK n \in Nat : w \in [1..n -> Values]
      BY SeqDef
    <3>2. w \in [1..n -> Nat]
      BY <1>2, <3>1
    <3> QED
      BY <3>2, SeqDef
  <2> QED
    BY <2>1, WindowSumExists
<1>4. D = 1..Len(w) /\ Len(w) \in Nat /\ IsFiniteSet(D) /\ \A i \in D : w[i] \in Values
  BY <1>3, LenProperties, ElementOfSeq, FS_Interval
<1> DEFINE At(t) == {i \in D : w[i] \in t}
           Good(t) == h[At(t)] = s[t] /\ Cardinality(At(t)) = c[t]
           Bad == {t \in SUBSET Values : ~Good(t)}
<1>5. ASSUME NEW t \in SUBSET Values, NEW y \in t
      PROVE  /\ h[At(t)] = h[At(t \ {y})] + f[y] * y
             /\ Cardinality(At(t)) = Cardinality(At(t \ {y})) + f[y]
             /\ h[At(t \ {y})] \in Nat /\ Cardinality(At(t \ {y})) \in Nat
  <2>1. PICK A, B, C : A = At(t \ {y}) /\ B = {i \in D : w[i] = y} /\ C = At(t)
    OBVIOUS
  <2>2. /\ A \in SUBSET D /\ B \in SUBSET D /\ A \cap B = {} /\ C = A \cup B
        /\ \A i \in B : w[i] = y
    BY <2>1
  <2>3. IsFiniteSet(A) /\ IsFiniteSet(B) /\ Cardinality(A) \in Nat /\ y \in Nat
    BY <1>2, <1>4, <2>2, FS_Subset, FS_CardinalityType
  <2>4. Cardinality(B) = f[y]
    BY <1>3, <2>1
  <2>5. h[C] = h[A] + h[B] /\ h[A] \in Nat
    <3>1. \A i \in D : w[i] \in Nat
      BY <1>2, <1>4
    <3>2. Totals(h, w, D)
      BY <1>3
    <3>3. h[A \cup B] = h[A] + h[B]
      BY <2>2, <2>3, <3>1, <3>2, TotalOfUnion
    <3> QED
      BY <2>2, <3>2, <3>3 DEF Totals
  <2>6. h[B] = Cardinality(B) * y
    <3>1. Totals(h, w, D)
      BY <1>3
    <3>2. PICK z \in Nat : z = y
      BY <2>3
    <3>3. \A X \in SUBSET D :
            IsFiniteSet(X) /\ (\A i \in X : w[i] = z) => h[X] = Cardinality(X) * z
      BY <3>1, TotalOfEqual
    <3> QED
      BY <2>2, <2>3, <3>2, <3>3
  <2>7. Cardinality(C) = Cardinality(A) + Cardinality(B)
    <3>1. Cardinality(A \cap B) = 0
      BY <2>2, FS_EmptySet
    <3>2. Cardinality(A \cup B) = Cardinality(A) + Cardinality(B) - Cardinality(A \cap B)
      BY <2>3, FS_Union
    <3>3. Cardinality(B) \in Nat
      BY <2>3, FS_CardinalityType
    <3> QED
      BY <2>2, <2>3, <3>1, <3>2, <3>3
  <2> HIDE DEF At
  <2> QED
    BY <2>1, <2>3, <2>4, <2>5, <2>6, <2>7
<1>6. ASSUME NEW t \in Bad
      PROVE  \E y \in t : t \ {y} \in Bad
  <2>1. t \in SUBSET Values /\ ~Good(t)
    BY <1>6
  <2>2. t # {}
    <3>1. c[{}] = 0 /\ s[{}] = 0 /\ h[{}] = 0
      BY <1>1, <1>3 DEF Moments, Totals
    <3>2. At({}) = {} /\ Cardinality({}) = 0
      BY FS_EmptySet
    <3> HIDE DEF At
    <3> QED
      BY <2>1, <3>1, <3>2
  <2>3. PICK y \in t : TRUE
    BY <2>2
  <2>4. c[t] = f[y] + c[t \ {y}] /\ s[t] = f[y] * y + s[t \ {y}]
    BY <1>1, <2>1, <2>3 DEF Moments, Totals
  <2>5. /\ c[t \ {y}] \in Nat /\ s[t \ {y}] \in Nat /\ f[y] \in Nat /\ f[y] * y \in Nat
    <3>1. f[y] \in Nat /\ y \in Nat
      BY <1>2, <2>1, <2>3
    <3>2. t \ {y} \in SUBSET Values
      BY <2>1
    <3> QED
      BY <1>1, <3>1, <3>2 DEF Moments, Totals
  <2>6. /\ h[At(t)] = h[At(t \ {y})] + f[y] * y
        /\ Cardinality(At(t)) = Cardinality(At(t \ {y})) + f[y]
        /\ h[At(t \ {y})] \in Nat /\ Cardinality(At(t \ {y})) \in Nat
    BY <1>5, <2>1, <2>3
  <2> HIDE DEF At
  <2>7. ~Good(t \ {y})
    BY <2>1, <2>4, <2>5, <2>6
  <2> HIDE DEF Good
  <2> QED
    BY <2>1, <2>3, <2>7
<1>7. Bad = {}
  <2>1. Bad \in SUBSET (SUBSET Values)
    OBVIOUS
  <2> HIDE DEF Bad
  <2> QED
    BY <1>2, <1>6, <2>1, NoDescent
<1>8. Good(Values)
  <2> HIDE DEF Good
  <2> QED
    BY <1>7
<1>9. At(Values) = D /\ Cardinality(D) = Len(w)
  <2>1. At(Values) = D
    BY <1>4
  <2>2. Cardinality(1..Len(w)) = Len(w)
    <3>1. PICK n \in Nat : n = Len(w)
      BY <1>4
    <3>2. Cardinality(1..n) = IF 1 > n THEN 0 ELSE n - 1 + 1
      BY FS_Interval
    <3> QED
      BY <3>1, <3>2
  <2> QED
    BY <1>4, <2>1, <2>2
<1> HIDE DEF At
<1> QED
  BY <1>1, <1>3, <1>8, <1>9

-------------------------------------------------------------------------------
(* The statistics of one more event *)

(* The statistics of n > 0 events with sum s and squares q. *)
LEMMA MeanAndSpread ==
  ASSUME NEW n \in Positive, NEW s \in Int, NEW q \in Int
  PROVE  /\ Stands(Frac(s, n), s, n) /\ IsReduced(Frac(s, n))
         /\ Stands(Minus(Whole(q), Frac(s * s, n)), q * n - s * s, n)
         /\ IsReduced(Minus(Whole(q), Frac(s * s, n)))
<1>1. s * s \in Int /\ n \in Int /\ 1 \in Positive
  BY DEF Positive
<1>2. Stands(Frac(s * s, n), s * s, n) /\ Stands(Frac(s, n), s, n) /\ IsReduced(Frac(s, n))
  BY <1>1, FracStands
<1>3. /\ Stands(Minus(Whole(q), Frac(s * s, n)), q * n - (s * s) * 1, 1 * n)
      /\ IsReduced(Minus(Whole(q), Frac(s * s, n)))
  BY <1>1, <1>2, WholeStands, MinusStands, Zenon
<1>4. q * n - (s * s) * 1 = q * n - s * s /\ 1 * n = n
  BY <1>1
<1> QED
  BY <1>2, <1>3, <1>4

(* update keeps the statistics those of the events, n of them before. *)
LEMMA UpdatedLater ==
  ASSUME NEW st, NEW n \in Positive, NEW s \in Nat, NEW q \in Nat, NEW x \in Nat,
         st.count = n, st.mean = Frac(s, n),
         st.m2 = Minus(Whole(q), Frac(s * s, n))
  PROVE  /\ Updated(st, x).count = n + 1
         /\ Updated(st, x).mean = Frac(s + x, n + 1)
         /\ Updated(st, x).m2 = Minus(Whole(q + x * x), Frac((s + x) * (s + x), n + 1))
<1> DEFINE delta == Minus(Whole(x), st.mean)
           mean == Plus(st.mean, Over(delta, n + 1))
           rest == Minus(Whole(x), mean)
           m2 == Plus(st.m2, Times(delta, rest))
<1>0. Updated(st, x) = [count |-> n + 1, mean |-> mean, m2 |-> m2]
  BY DEF Updated
<1>1. PICK d : d = x * n - s
  OBVIOUS
<1>2. PICK k : k = n + 1
  OBVIOUS
<1>3. /\ d \in Int /\ k \in Positive /\ 1 \in Positive /\ n \in Int /\ k \in Int /\ x \in Int
      /\ s \in Int /\ n * k \in Positive /\ n * (n * k) \in Positive /\ s + x \in Int
      /\ d * d \in Int
  <2>1. d \in Int /\ k \in Positive /\ 1 \in Positive
    BY <1>1, <1>2 DEF Positive
  <2>2. n * k \in Positive
    BY <2>1, PositiveProduct
  <2> QED
    BY <2>1, <2>2, PositiveProduct DEF Positive
<1>4. Stands(st.mean, s, n)
  BY <1>3, MeanAndSpread
<1>5. Stands(st.m2, q * n - s * s, n)
  <2>1. q \in Int
    OBVIOUS
  <2>2. Stands(Minus(Whole(q), Frac(s * s, n)), q * n - s * s, n)
    BY <1>3, <2>1, MeanAndSpread
  <2> QED
    BY <2>2
<1>6. Stands(Whole(x), x, 1)
  BY WholeStands
<1>7. Stands(delta, d, n)
  <2>1. Stands(delta, x * n - s * 1, 1 * n)
    BY <1>3, <1>4, <1>6, MinusStands, Zenon
  <2>2. x * n - s * 1 = d /\ 1 * n = n
    BY <1>1, <1>3
  <2> HIDE DEF delta
  <2> QED
    BY <2>1, <2>2
<1> HIDE DEF delta
<1>8. Stands(Over(delta, n + 1), d, n * k)
  BY <1>2, <1>3, <1>7, OverStands
<1>9. Stands(mean, s + x, k) /\ IsReduced(mean)
  <2>1. Stands(mean, s * (n * k) + d * n, n * (n * k)) /\ IsReduced(mean)
    BY <1>3, <1>4, <1>8, PlusStands, Zenon
  <2>2. (s * (n * k) + d * n) * k = (s + x) * (n * (n * k))
    BY <1>1, <1>2 DEF Positive
  <2>3. s * (n * k) + d * n \in Int
    BY <1>3
  <2> HIDE DEF mean
  <2> QED
    BY <1>3, <2>1, <2>2, <2>3, StandsForEqual, Zenon
<1>10. mean = Frac(s + x, n + 1)
  <2> HIDE DEF mean
  <2> QED
    <3>1. Stands(Frac(s + x, k), s + x, k) /\ IsReduced(Frac(s + x, k))
      BY <1>3, FracStands
    <3> QED
      BY <1>2, <1>3, <1>9, <3>1, SameFraction
<1> HIDE DEF mean
<1>11. Stands(rest, d, k)
  <2>1. Stands(rest, x * k - (s + x) * 1, 1 * k)
    BY <1>3, <1>6, <1>9, MinusStands, Zenon
  <2>2. x * k - (s + x) * 1 = d /\ 1 * k = k
    BY <1>1, <1>2, <1>3
  <2> HIDE DEF rest
  <2> QED
    BY <2>1, <2>2
<1> HIDE DEF rest
<1>12. Stands(Times(delta, rest), d * d, n * k)
  BY <1>3, <1>7, <1>11, TimesStands
<1>13. PICK u, v, w : /\ u = q * n - s * s /\ v = (q + x * x) * k - (s + x) * (s + x)
                      /\ w = q + x * x
  OBVIOUS
<1>14. u \in Int /\ v \in Int /\ w \in Int
  BY <1>3, <1>13
<1>15. Stands(m2, v, k) /\ IsReduced(m2)
  <2>1. Stands(m2, u * (n * k) + (d * d) * n, n * (n * k)) /\ IsReduced(m2)
    <3>1. Stands(st.m2, u, n)
      BY <1>5, <1>13
    <3> QED
      BY <1>3, <1>12, <1>14, <3>1, PlusStands, Zenon
  <2>2. (u * (n * k) + (d * d) * n) * k = v * (n * (n * k))
    BY <1>1, <1>2, <1>13 DEF Positive
  <2>3. PICK a, c : a = u * (n * k) + (d * d) * n /\ c = n * (n * k)
    OBVIOUS
  <2>4. a \in Int /\ c \in Positive /\ a * k = v * c
    BY <1>3, <1>14, <2>2, <2>3
  <2> HIDE DEF m2
  <2> QED
    BY <1>3, <1>14, <2>1, <2>3, <2>4, StandsForEqual
<1>16. m2 = Minus(Whole(q + x * x), Frac((s + x) * (s + x), n + 1))
  <2> HIDE DEF m2
  <2>1. /\ Stands(Minus(Whole(w), Frac((s + x) * (s + x), k)), w * k - (s + x) * (s + x), k)
        /\ IsReduced(Minus(Whole(w), Frac((s + x) * (s + x), k)))
    BY <1>3, <1>14, MeanAndSpread, Zenon
  <2>2. w * k - (s + x) * (s + x) = v
    BY <1>13
  <2>3. m2 = Minus(Whole(w), Frac((s + x) * (s + x), k))
    BY <1>3, <1>14, <1>15, <2>1, <2>2, SameFraction
  <2> QED
    BY <1>2, <1>13, <2>3
<1> HIDE DEF m2
<1> QED
  BY <1>0, <1>10, <1>16

(* update of the first event. *)
LEMMA UpdatedFirst ==
  ASSUME NEW x \in Nat
  PROVE  /\ Updated(NoStat, x).count = 1
         /\ Updated(NoStat, x).mean = Frac(x, 1)
         /\ Updated(NoStat, x).m2 = Minus(Whole(x * x), Frac(x * x, 1))
<1> DEFINE delta == Minus(Whole(x), Whole(0))
           mean == Plus(Whole(0), Over(delta, 1))
           rest == Minus(Whole(x), mean)
           m2 == Plus(Whole(0), Times(delta, rest))
<1>0. Updated(NoStat, x) = [count |-> 1, mean |-> mean, m2 |-> m2]
  BY DEF Updated, NoStat
<1>1. 1 \in Positive /\ 0 \in Int /\ x \in Int /\ x * x \in Int /\ 1 * 1 = 1 /\ 1 \in Int
  BY DEF Positive
<1>2. Stands(Whole(x), x, 1) /\ Stands(Whole(0), 0, 1)
  BY <1>1, WholeStands
<1>3. Stands(delta, x, 1)
  <2>1. Stands(delta, x * 1 - 0 * 1, 1 * 1)
    BY <1>1, <1>2, MinusStands, Zenon
  <2>2. x * 1 - 0 * 1 = x
    OBVIOUS
  <2> HIDE DEF delta
  <2> QED
    BY <1>1, <2>1, <2>2
<1> HIDE DEF delta
<1>4. Stands(Over(delta, 1), x, 1)
  <2>1. Stands(Over(delta, 1), x, 1 * 1)
    BY <1>1, <1>3, OverStands, Zenon
  <2> QED
    BY <1>1, <2>1
<1>5. Stands(mean, x, 1) /\ IsReduced(mean)
  <2>1. Stands(mean, 0 * 1 + x * 1, 1 * 1) /\ IsReduced(mean)
    BY <1>1, <1>2, <1>4, PlusStands, Zenon
  <2>2. 0 * 1 + x * 1 = x
    OBVIOUS
  <2> HIDE DEF mean
  <2> QED
    BY <1>1, <2>1, <2>2
<1>6. mean = Frac(x, 1)
  <2> HIDE DEF mean
  <2> QED
    BY <1>1, <1>5, MeanAndSpread, SameFraction
<1> HIDE DEF mean
<1>7. Stands(rest, 0, 1)
  <2>1. Stands(rest, x * 1 - x * 1, 1 * 1)
    BY <1>1, <1>2, <1>5, MinusStands, Zenon
  <2>2. x * 1 - x * 1 = 0
    OBVIOUS
  <2> HIDE DEF rest
  <2> QED
    BY <1>1, <2>1, <2>2
<1> HIDE DEF rest
<1>8. Stands(Times(delta, rest), 0, 1)
  <2>1. Stands(Times(delta, rest), x * 0, 1 * 1)
    BY <1>1, <1>3, <1>7, TimesStands, Zenon
  <2>2. x * 0 = 0
    OBVIOUS
  <2> QED
    BY <1>1, <2>1, <2>2
<1>9. Stands(m2, 0, 1) /\ IsReduced(m2)
  <2>1. Stands(m2, 0 * 1 + 0 * 1, 1 * 1) /\ IsReduced(m2)
    BY <1>1, <1>2, <1>8, PlusStands, Zenon
  <2>2. 0 * 1 + 0 * 1 = 0
    OBVIOUS
  <2> HIDE DEF m2
  <2> QED
    BY <1>1, <2>1, <2>2
<1>10. m2 = Minus(Whole(x * x), Frac(x * x, 1))
  <2> HIDE DEF m2
  <2>1. /\ Stands(Minus(Whole(x * x), Frac(x * x, 1)), (x * x) * 1 - x * x, 1)
        /\ IsReduced(Minus(Whole(x * x), Frac(x * x, 1)))
    BY <1>1, MeanAndSpread, Zenon
  <2>2. (x * x) * 1 - x * x = 0
    BY <1>1
  <2> QED
    BY <1>1, <1>9, <2>1, <2>2, SameFraction
<1> HIDE DEF m2
<1> QED
  BY <1>0, <1>6, <1>10

-------------------------------------------------------------------------------
(* The inductive invariant *)

\* The statistics are those of what was learned; before the first event they are
\* the initial ones, and there is nothing to sum.
BaselineInv ==
  /\ learned \in [Values -> Nat]
  /\ StatsOfLearned
  /\ Count = 0 => Sum = 0 /\ SumOfSquares = 0 /\ stat = NoStat

(* The sums of the properties are those of what was learned. *)
LEMMA SumsOfLearned ==
  Count = CountIn(learned) /\ Sum = SumIn(learned) /\ SumOfSquares = SquaresIn(learned)
<1> QED
  BY DEF Count, Sum, SumOfSquares, CountIn, SumIn, SquaresIn

(* The invariant holds of a new baseline ... *)
LEMMA BaselineInvInit == BaselineInit => BaselineInv
<1> SUFFICES ASSUME BaselineInit
             PROVE  BaselineInv
  OBVIOUS
<1>1. learned \in [Values -> Nat] /\ \A v \in Values : learned[v] = 0
  BY DEF BaselineInit
<1>2. Count = 0 /\ Sum = 0 /\ SumOfSquares = 0
  BY <1>1, MomentsOfNothing, SumsOfLearned
<1>3. stat = NoStat /\ stat.count = 0 /\ window = <<>>
  BY DEF BaselineInit, NoStat
<1>4. window \in Seq(Values) /\ Len(window) <= FeatureCap
  BY <1>3, BaselineAssumption, EmptySeq
<1> QED
  BY <1>1, <1>2, <1>3, <1>4 DEF BaselineInv, StatsOfLearned

(* Whatever enters the window, it stays one of values within the cap. *)
LEMMA WindowEnters ==
  ASSUME window \in Seq(Values), NEW v \in Values, Enters(v)
  PROVE  window' \in Seq(Values) /\ Len(window') <= FeatureCap
<1>1. PICK n \in 1..FeatureCap : window' = Recent(Append(window, v), n)
  BY DEF Enters
<1>2. Append(window, v) \in Seq(Values) /\ FeatureCap \in Nat
  BY AppendProperties, BaselineAssumption
<1>3. PICK x : x = Append(window, v)
  OBVIOUS
<1>4. n \in Nat /\ n <= FeatureCap
  BY <1>1, <1>2
<1>5. Recent(x, n) \in Seq(Values) /\ Len(Recent(x, n)) <= n
  BY <1>2, <1>3, <1>4, RecentProperties
<1>6. Len(Recent(x, n)) \in Nat
  BY <1>5, LenProperties
<1> QED
  BY <1>1, <1>2, <1>3, <1>4, <1>5, <1>6

(* ... and every event, learned, refused or raised on, and every new session keeps it. *)
LEMMA BaselineInvNext == BaselineInv /\ [BaselineNext]_baselineVars => BaselineInv'
<1> SUFFICES ASSUME BaselineInv, [BaselineNext]_baselineVars
             PROVE  BaselineInv'
  OBVIOUS
<1>0. /\ learned \in [Values -> Nat] /\ window \in Seq(Values) /\ Len(window) <= FeatureCap
      /\ stat.count = Count
      /\ Count = 0 => Sum = 0 /\ SumOfSquares = 0 /\ stat = NoStat
      /\ Count > 0 => /\ stat.mean = Frac(Sum, Count)
                      /\ stat.m2 = Minus(Whole(SumOfSquares), Frac(Sum * Sum, Count))
  BY DEF BaselineInv, StatsOfLearned
<1>1. /\ Count' = CountIn(learned') /\ Sum' = SumIn(learned')
      /\ SumOfSquares' = SquaresIn(learned')
  <2>1. Count' = CountIn(learned')
    BY DEF Count, CountIn, MapThenSumSet, MapThenFoldSet
  <2>2. Sum' = SumIn(learned')
    BY DEF Sum, SumIn, MapThenSumSet, MapThenFoldSet
  <2>3. SumOfSquares' = SquaresIn(learned')
    BY DEF SumOfSquares, SquaresIn, MapThenSumSet, MapThenFoldSet
  <2> QED
    BY <2>1, <2>2, <2>3
<1>2. ASSUME UNCHANGED <<stat, learned>>, window' \in Seq(Values), Len(window') <= FeatureCap
      PROVE  BaselineInv'
  <2>1. Count' = Count /\ Sum' = Sum /\ SumOfSquares' = SumOfSquares
    BY <1>1, <1>2, SumsOfLearned
  <2> QED
    BY <1>0, <1>2, <2>1 DEF BaselineInv, StatsOfLearned
<1>3. ASSUME NEW v \in Values, Process(v), Learn(v)
      PROVE  BaselineInv'
  <2>1. window' \in Seq(Values) /\ Len(window') <= FeatureCap
    BY <1>0, <1>3, WindowEnters DEF Process
  <2>2. PICK n, s, q : n = Count /\ s = Sum /\ q = SumOfSquares
    OBVIOUS
  <2>3. PICK f, g : f = learned /\ g = learned' /\ g = [f EXCEPT ![v] = @ + 1]
    BY <1>3 DEF Learn
  <2>4. /\ g \in [Values -> Nat] /\ v \in Nat
        /\ n \in Nat /\ Count' = n + 1
        /\ s \in Nat /\ Sum' = s + v
        /\ q \in Nat /\ SumOfSquares' = q + v * v
    <3>1. f \in [Values -> Nat] /\ g \in [Values -> Nat] /\ v \in Nat
      BY <1>0, <2>3, BaselineAssumption
    <3>2. /\ CountIn(f) \in Nat /\ CountIn(g) = CountIn(f) + 1
          /\ SumIn(f) \in Nat /\ SumIn(g) = SumIn(f) + v
          /\ SquaresIn(f) \in Nat /\ SquaresIn(g) = SquaresIn(f) + v * v
      <4>1. LearnsOne(f, g, v)
        BY <2>3 DEF LearnsOne
      <4> QED
        BY <3>1, <4>1, MomentsOfLearning
    <3>3. n = CountIn(f) /\ s = SumIn(f) /\ q = SquaresIn(f)
      BY <2>2, <2>3, SumsOfLearned
    <3>4. Count' = CountIn(g) /\ Sum' = SumIn(g) /\ SumOfSquares' = SquaresIn(g)
      BY <1>1, <2>3
    <3> QED
      BY <3>1, <3>2, <3>3, <3>4
  <2>5. stat' = Updated(stat, v)
    BY <1>3 DEF Learn
  <2>6. /\ stat'.count = n + 1
        /\ stat'.mean = Frac(s + v, n + 1)
        /\ stat'.m2 = Minus(Whole(q + v * v), Frac((s + v) * (s + v), n + 1))
    <3>1. CASE n = 0
      <4>1. s = 0 /\ q = 0 /\ stat = NoStat
        BY <1>0, <2>2, <3>1
      <4>2. n + 1 = 1 /\ s + v = v /\ q + v * v = v * v
        BY <2>4, <3>1, <4>1
      <4> QED
        BY <2>4, <2>5, <4>1, <4>2, UpdatedFirst
    <3>2. CASE n # 0
      <4>1. n \in Positive /\ n > 0
        BY <2>4, <3>2 DEF Positive
      <4>2. /\ stat.count = n /\ stat.mean = Frac(s, n)
            /\ stat.m2 = Minus(Whole(q), Frac(s * s, n))
        BY <1>0, <2>2, <4>1
      <4>3. PICK st : st = stat
        OBVIOUS
      <4>4. /\ Updated(st, v).count = n + 1
            /\ Updated(st, v).mean = Frac(s + v, n + 1)
            /\ Updated(st, v).m2 = Minus(Whole(q + v * v), Frac((s + v) * (s + v), n + 1))
        <5>1. /\ st.count = n /\ st.mean = Frac(s, n)
              /\ st.m2 = Minus(Whole(q), Frac(s * s, n))
          BY <4>2, <4>3
        <5>2. s \in Nat /\ q \in Nat /\ v \in Nat
          BY <2>4
        <5> QED
          BY <4>1, <5>1, <5>2, UpdatedLater
      <4> QED
        BY <2>5, <4>3, <4>4
    <3> QED
      BY <3>1, <3>2
  <2> QED
    BY <2>1, <2>3, <2>4, <2>6 DEF BaselineInv, StatsOfLearned
<1>4. ASSUME NEW v \in Values, Enters(v), UNCHANGED <<stat, learned>>
      PROVE  BaselineInv'
  BY <1>0, <1>2, <1>4, WindowEnters
<1>5. CASE NewSession
  <2>1. /\ learned' \in [Values -> Nat] /\ \A v \in Values : learned'[v] = 0
        /\ stat' = NoStat /\ window' = <<>>
    BY <1>5 DEF NewSession
  <2>2. Count' = 0 /\ Sum' = 0 /\ SumOfSquares' = 0
    BY <1>1, <2>1, MomentsOfNothing
  <2>3. window' \in Seq(Values) /\ Len(window') <= FeatureCap /\ stat'.count = 0
    BY <2>1, BaselineAssumption, EmptySeq DEF NoStat
  <2> QED
    BY <2>1, <2>2, <2>3 DEF BaselineInv, StatsOfLearned
<1>6. CASE UNCHANGED baselineVars
  BY <1>0, <1>2, <1>6 DEF baselineVars
<1> QED
  BY <1>3, <1>4, <1>5, <1>6 DEF BaselineNext, Process, ProcessRaises

(* The invariant holds of every baseline (score, learn, reset_session). *)
THEOREM BaselineInvariant == BaselineSpec => []BaselineInv
<1> QED
  BY BaselineInvInit, BaselineInvNext, PTL DEF BaselineSpec

(* The statistics of a host are those of the events learned, whatever their number *)
(* and order: no update or reset loses count, mean or spread (RunningStat.update).  *)
THEOREM StatsAreOfLearned == BaselineSpec => []StatsOfLearned
<1>1. BaselineInv => StatsOfLearned
  BY DEF BaselineInv
<1> QED
  BY <1>1, BaselineInvariant, PTL

-------------------------------------------------------------------------------
(* What deviates strongly *)

(* FarMean without fractions: the window has l events with sum w, and n events were *)
(* learned, with sum s and squares q.                                               *)
LEMMA FarMeanMeans ==
  ASSUME NEW win, NEW st, NEW l \in Positive, NEW w \in Nat, NEW n \in Positive,
         NEW s \in Nat, NEW q \in Nat, n > 1,
         WindowMean(win) = Frac(w, l),
         st.count = n, st.mean = Frac(s, n), st.m2 = Minus(Whole(q), Frac(s * s, n))
  PROVE  FarMean(win, st) <=>
           16 * (q * n - s * s) * (l * l) * n <= (w * n - s * l) * (w * n - s * l) * (n - 1)
<1> DEFINE off == Minus(WindowMean(win), st.mean)
           spread == Times(Whole(16), Over(st.m2, n - 1))
<1>1. PICK d, y, m : d = q * n - s * s /\ y = w * n - s * l /\ m = n - 1
  OBVIOUS
<1>2. /\ d \in Int /\ y \in Int /\ m \in Positive /\ 1 \in Positive /\ 16 \in Int
      /\ s \in Int /\ w \in Int /\ q \in Int
  BY <1>1 DEF Positive
<1>3. l * n \in Positive /\ n * m \in Positive /\ (l * n) * (l * n) \in Positive
  BY <1>2, PositiveProduct
<1>4. Stands(WindowMean(win), w, l)
  BY <1>2, FracStands
<1>5. Stands(st.mean, s, n)
  BY <1>2, FracStands
<1>6. Stands(st.m2, d, n)
  <2>1. Stands(Minus(Whole(q), Frac(s * s, n)), q * n - s * s, n)
    BY <1>2, MeanAndSpread
  <2> QED
    BY <1>1, <2>1
<1>7. Stands(off, y, l * n)
  <2>1. Stands(off, w * n - s * l, l * n)
    BY <1>2, <1>4, <1>5, MinusStands, Zenon
  <2> QED
    BY <1>1, <2>1
<1> HIDE DEF off
<1>8. Stands(Times(off, off), y * y, (l * n) * (l * n))
  BY <1>2, <1>3, <1>7, TimesStands, Zenon
<1>9. Stands(spread, 16 * d, n * m)
  <2>1. Stands(Over(st.m2, m), d, n * m)
    BY <1>2, <1>6, OverStands, Zenon
  <2>2. Stands(Whole(16), 16, 1)
    BY <1>2, WholeStands
  <2>3. Stands(spread, 16 * d, 1 * (n * m))
    BY <1>1, <1>2, <1>3, <2>1, <2>2, TimesStands, Zenon
  <2>4. 1 * (n * m) = n * m
    BY <1>3 DEF Positive
  <2> HIDE DEF spread
  <2> QED
    BY <2>3, <2>4
<1>10. FarMean(win, st) <=> LessEq(spread, Times(off, off))
  BY DEF FarMean, Variance, off
<1> HIDE DEF spread
<1>11. LessEq(spread, Times(off, off)) <=>
         (16 * d) * ((l * n) * (l * n)) <= (y * y) * (n * m)
  <2>1. 16 * d \in Int /\ y * y \in Int
    BY <1>2
  <2> QED
    BY <1>3, <1>8, <1>9, <2>1, OrderOfValues, Zenon
<1>12. /\ (16 * d) * ((l * n) * (l * n)) = (16 * d * (l * l) * n) * n
       /\ (y * y) * (n * m) = (y * y * m) * n
  BY <1>2 DEF Positive
<1>13. 16 * d * (l * l) * n \in Int /\ y * y * m \in Int
  BY <1>2 DEF Positive
<1>14. FarMean(win, st) <=> 16 * d * (l * l) * n <= y * y * m
  BY <1>10, <1>11, <1>12, <1>13, Cancels
<1> QED
  BY <1>1, <1>14

(* No value of n is more than n - 1 root mean squares off the mean: from the sum t and *)
(* the squares of all, with m other events than e.                                     *)
LEMMA ExtremeValue ==
  ASSUME NEW m \in Positive, NEW t \in Int, NEW e \in Int, NEW q \in Int,
         (m + 1) * (t * t) - 2 * ((t + e) * (t * m)) + q * (m * m)
           >= (t - e * m) * (t - e * m)
  PROVE  (m * e - t) * (m * e - t) <= m * ((m + 1) * q - (t + e) * (t + e))
<1>1. PICK x : x = m * q - t * t - m * (e * e)
  OBVIOUS
<1>2. x \in Int
  BY <1>1 DEF Positive
<1>3. m * x = (m + 1) * (t * t) - 2 * ((t + e) * (t * m)) + q * (m * m)
                - (t - e * m) * (t - e * m)
  BY <1>1 DEF Positive
<1>4. /\ (m + 1) * (t * t) - 2 * ((t + e) * (t * m)) + q * (m * m) \in Int
      /\ (t - e * m) * (t - e * m) \in Int
  BY DEF Positive
<1>5. m * x >= 0
  <2>1. PICK a, b : /\ a = (m + 1) * (t * t) - 2 * ((t + e) * (t * m)) + q * (m * m)
                    /\ b = (t - e * m) * (t - e * m)
    OBVIOUS
  <2>2. a \in Int /\ b \in Int
    BY <1>4, <2>1
  <2>3. a >= b
    BY <2>1, Zenon
  <2>4. m * x = a - b
    BY <1>2, <1>3, <2>1 DEF Positive
  <2> QED
    BY <2>2, <2>3, <2>4
<1>6. x >= 0
  BY <1>2, <1>5 DEF Positive
<1>7. (m + 1) * x >= 0 /\ (m + 1) * x \in Int
  BY <1>2, <1>6 DEF Positive
<1>8. m * ((m + 1) * q - (t + e) * (t + e)) - (m * e - t) * (m * e - t) = (m + 1) * x
  BY <1>1 DEF Positive
<1>9. m * ((m + 1) * q - (t + e) * (t + e)) \in Int /\ (m * e - t) * (m * e - t) \in Int
  BY DEF Positive
<1> QED
  BY <1>7, <1>8, <1>9

(* The same of what was learned. *)
LEMMA LearnedValueWithin ==
  ASSUME NEW f \in [Values -> Nat], NEW e \in Values, f[e] > 0, CountIn(f) \in Nat,
         SumIn(f) \in Nat, SquaresIn(f) \in Nat, CountIn(f) > 1
  PROVE  (CountIn(f) * e - SumIn(f)) * (CountIn(f) * e - SumIn(f))
           <= (CountIn(f) - 1) * (SquaresIn(f) * CountIn(f) - SumIn(f) * SumIn(f))
<1>1. PICK n, m, s, t, q : /\ n = CountIn(f) /\ m = n - 1 /\ s = SumIn(f)
                           /\ t = s - e /\ q = SquaresIn(f)
  OBVIOUS
<1>2. /\ n \in Nat /\ m \in Positive /\ s \in Nat /\ t \in Int /\ q \in Nat /\ e \in Nat
      /\ n = m + 1 /\ s = t + e /\ m \in Int
  BY <1>1, BaselineAssumption DEF Positive
<1>3. n * (t * t) - 2 * (s * (t * m)) + q * (m * m) >= (t - e * m) * (t - e * m)
  BY <1>1, <1>2, SpreadFromAnywhere
<1>4. (m * e - t) * (m * e - t) <= m * ((m + 1) * q - (t + e) * (t + e))
  BY <1>2, <1>3, ExtremeValue
<1>5. n * e - s = m * e - t /\ q * n - s * s = (m + 1) * q - (t + e) * (t + e)
  BY <1>2
<1>6. (n * e - s) * (n * e - s) <= m * (q * n - s * s)
  BY <1>4, <1>5
<1> QED
  BY <1>1, <1>6

(* While at most 17 events were learned, a window whose mean lies between two of them *)
(* is less than four deviations off.                                                  *)
LEMMA BetweenIsNear ==
  ASSUME NEW n \in Nat, n > 1, n < 18, NEW l \in Positive, NEW d \in Positive,
         NEW s \in Int, NEW w \in Int, NEW lo \in Int, NEW hi \in Int,
         lo * l <= w, w <= hi * l,
         (n * lo - s) * (n * lo - s) <= (n - 1) * d,
         (n * hi - s) * (n * hi - s) <= (n - 1) * d
  PROVE  ~(16 * d * (l * l) * n <= (w * n - s * l) * (w * n - s * l) * (n - 1))
<1>1. PICK y, a, b, m : y = w * n - s * l /\ a = n * lo - s /\ b = n * hi - s /\ m = n - 1
  OBVIOUS
<1>2. y \in Int /\ a \in Int /\ b \in Int /\ m \in Positive /\ n = m + 1 /\ m <= 16
  BY <1>1 DEF Positive
<1>3. a * l <= y /\ y <= b * l
  <2>1. a * l = (lo * l) * n - s * l /\ b * l = (hi * l) * n - s * l
    BY <1>1 DEF Positive
  <2>2. (lo * l) * n <= w * n /\ w * n <= (hi * l) * n
    <3>1. lo * l \in Int /\ hi * l \in Int
      BY DEF Positive
    <3> QED
      BY <3>1
  <2>3. (lo * l) * n \in Int /\ w * n \in Int /\ (hi * l) * n \in Int /\ s * l \in Int
    BY DEF Positive
  <2> QED
    BY <1>1, <2>1, <2>2, <2>3
<1>4. ASSUME NEW c \in Int, NEW z \in Int, z >= 0, z <= c, c * c <= (m * d) * (l * l)
      PROVE  z * z <= (m * d) * (l * l)
  <2>1. z * z <= c * c
    BY <1>4
  <2>2. (m * d) * (l * l) \in Int /\ c * c \in Int /\ z * z \in Int
    BY <1>2 DEF Positive
  <2> QED
    BY <1>4, <2>1, <2>2
<1>5. ASSUME NEW c \in Int, c * c <= m * d
      PROVE  (c * l) * (c * l) <= (m * d) * (l * l)
  <2>1. l * l \in Positive /\ c * c \in Int /\ m * d \in Int
    BY <1>2, PositiveProduct DEF Positive
  <2>2. (c * c) * (l * l) <= (m * d) * (l * l)
    BY <1>5, <2>1, Cancels
  <2>3. (c * l) * (c * l) = (c * c) * (l * l)
    BY DEF Positive
  <2> QED
    BY <2>2, <2>3
<1>6. y * y <= (m * d) * (l * l)
  <2>1. CASE y >= 0
    <3>1. b * l \in Int /\ (b * l) * (b * l) <= (m * d) * (l * l)
      BY <1>1, <1>2, <1>5 DEF Positive
    <3> QED
      BY <1>2, <1>3, <1>4, <2>1, <3>1
  <2>2. CASE ~(y >= 0)
    <3>1. a * l \in Int /\ (a * l) * (a * l) <= (m * d) * (l * l)
      BY <1>1, <1>2, <1>5 DEF Positive
    <3>2. PICK c, z : c = -(a * l) /\ z = -y
      OBVIOUS
    <3>3. c \in Int /\ z \in Int /\ z >= 0 /\ z <= c
      BY <1>2, <1>3, <2>2, <3>1, <3>2
    <3>4. c * c = (a * l) * (a * l) /\ z * z = y * y
      BY <1>2, <3>1, <3>2
    <3>5. c * c <= (m * d) * (l * l)
      BY <3>1, <3>4
    <3>6. z * z <= (m * d) * (l * l)
      BY <1>4, <3>3, <3>5
    <3> QED
      BY <3>4, <3>6
  <2> QED
    BY <2>1, <2>2
<1>7. y * y * m <= (m * m) * (d * (l * l))
  <2>1. PICK u, v : u = y * y /\ v = (m * d) * (l * l)
    OBVIOUS
  <2>2. u \in Int /\ v \in Int
    BY <1>2, <2>1 DEF Positive
  <2>3. u * m <= v * m
    BY <1>2, <1>6, <2>1, <2>2, Cancels
  <2>4. v * m = (m * m) * (d * (l * l))
    BY <1>2, <2>1 DEF Positive
  <2> QED
    BY <2>1, <2>3, <2>4
<1>8. m * m < 16 * n
  <2>1. m * m <= 16 * m
    BY <1>2 DEF Positive
  <2> QED
    BY <1>2, <2>1 DEF Positive
<1>9. PICK k : k = d * (l * l)
  OBVIOUS
<1>10. k \in Positive
  BY <1>9, PositiveProduct
<1>11. (m * m) * k < (16 * n) * k
  <2>1. m * m \in Int /\ 16 * n \in Int
    BY <1>2 DEF Positive
  <2>2. ~((16 * n) * k <= (m * m) * k)
    BY <1>8, <1>10, <2>1, Cancels
  <2>3. (16 * n) * k \in Int /\ (m * m) * k \in Int
    BY <1>2, <1>10 DEF Positive
  <2> QED
    BY <2>2, <2>3
<1>12. 16 * d * (l * l) * n = (16 * n) * k
  BY <1>9 DEF Positive
<1>13. y * y * m \in Int /\ (m * m) * k \in Int /\ (16 * n) * k \in Int
  BY <1>2, <1>10 DEF Positive
<1>14. ~(16 * d * (l * l) * n <= y * y * m)
  BY <1>7, <1>9, <1>11, <1>12, <1>13
<1> QED
  BY <1>1, <1>14

(* A feature that has varied has a positive spread. *)
LEMMA VariedSpread ==
  ASSUME NEW n \in Positive, NEW s \in Nat, NEW q \in Nat,
         Minus(Whole(q), Frac(s * s, n)) # Whole(0)
  PROVE  q * n - s * s # 0
<1>1. SUFFICES ASSUME q * n - s * s = 0
               PROVE  FALSE
  OBVIOUS
<1>2. PICK p : p = Minus(Whole(q), Frac(s * s, n))
  OBVIOUS
<1>3. Stands(p, q * n - s * s, n) /\ IsReduced(p)
  <2>1. s \in Int /\ q \in Int
    OBVIOUS
  <2> QED
    BY <1>2, <2>1, MeanAndSpread
<1>4. 0 \in Int /\ 1 \in Positive
  BY DEF Positive
<1>5. Frac(0, 1) = Whole(0)
  <2>1. PICK g \in Positive, k \in Int, m \in Positive :
          /\ g = gcd[<<AbsInt(0), 1>>]
          /\ 0 = k * g /\ 1 = m * g
          /\ Frac(0, 1) = <<k, m>>
    BY <1>4, FracParts
  <2>2. k = 0 /\ m = 1
    <3>1. k * g = 0 * g
      BY <2>1 DEF Positive
    <3>2. m >= 2 => m * g >= 2
      BY DEF Positive
    <3>3. m # 0 /\ m \in Nat
      BY DEF Positive
    <3> QED
      BY <1>4, <2>1, <3>1, <3>2, <3>3, Cancels
  <2> QED
    BY <2>1, <2>2 DEF Whole
<1>6. Stands(Whole(0), 0, 1) /\ IsReduced(Whole(0))
  BY <1>4, <1>5, FracStands
<1>7. Stands(p, 0, 1)
  <2>1. Stands(p, 0, n) /\ 0 * 1 = 0 * n
    BY <1>1, <1>3 DEF Positive
  <2> QED
    BY <1>4, <2>1, StandsForEqual
<1>8. p = Whole(0)
  BY <1>3, <1>4, <1>6, <1>7, SameFraction
<1> QED
  BY <1>2, <1>8

(* The parts of the invariant that the two properties below rest on. *)
LEMMA StatsInNumbers ==
  ASSUME BaselineInv, stat.count > 1
  PROVE  /\ stat.count = Count /\ Count \in Positive /\ Sum \in Nat /\ SumOfSquares \in Nat
         /\ stat.mean = Frac(Sum, Count)
         /\ stat.m2 = Minus(Whole(SumOfSquares), Frac(Sum * Sum, Count))
<1>1. learned \in [Values -> Nat] /\ stat.count = Count
  BY DEF BaselineInv, StatsOfLearned
<1>2. Count \in Nat /\ Sum \in Nat /\ SumOfSquares \in Nat
  <2>1. PICK c, s, q : /\ Count = c[Values] /\ Sum = s[Values]
                       /\ SumOfSquares = q[Values] /\ Moments(c, s, q, learned)
    BY <1>1, MomentsExist, SumsOfLearned
  <2> QED
    BY <2>1 DEF Moments, Totals
<1>3. Count > 0
  BY <1>1, <1>2
<1> QED
  BY <1>1, <1>2, <1>3 DEF BaselineInv, StatsOfLearned, Positive

(* The number and the sum of a window's events. *)
LEMMA WindowInNumbers ==
  ASSUME NEW win \in Seq(Values), win # <<>>
  PROVE  /\ Len(win) \in Positive /\ WindowSum(win) \in Nat
         /\ WindowMean(win) = Frac(WindowSum(win), Len(win))
<1>1. Len(win) \in Positive
  BY EmptySeq, LenProperties DEF Positive
<1>2. WindowSum(win) \in Nat
  <2>1. PICK n \in Nat : win \in [1..n -> Values]
    BY SeqDef
  <2>2. win \in [1..n -> Nat]
    BY <2>1, BaselineAssumption
  <2>3. win \in Seq(Nat)
    BY <2>2, SeqDef
  <2>4. PICK h : WindowSum(win) = h[DOMAIN win] /\ Totals(h, win, DOMAIN win)
    BY <2>3, WindowSumExists
  <2> QED
    BY <2>4 DEF Totals
<1>3. WindowMean(win) = Frac(WindowSum(win), Len(win))
  BY DEF WindowMean, WindowSum
<1> QED
  BY <1>1, <1>2, <1>3

(* A window that the host has shown before is never held against it while its      *)
(* baseline has fewer than 18 observations, whatever the values (deviation).       *)
THEOREM YoungBaselineAcceptsLearned == BaselineSpec => []LearnedRangeAccepted
<1>1. BaselineInv => LearnedRangeAccepted
  <2> SUFFICES ASSUME BaselineInv, window # <<>>, WithinLearned(window), stat.count < 18,
                      HasVaried(stat), FarMean(window, stat)
               PROVE  FALSE
    BY DEF LearnedRangeAccepted, StronglyDeviates
  <2>1. stat.count > 1 /\ stat.m2 # Whole(0)
    BY DEF HasVaried
  <2>2. /\ stat.count = Count /\ Count \in Positive /\ Sum \in Nat /\ SumOfSquares \in Nat
        /\ stat.mean = Frac(Sum, Count)
        /\ stat.m2 = Minus(Whole(SumOfSquares), Frac(Sum * Sum, Count))
    BY <2>1, StatsInNumbers
  <2>3. learned \in [Values -> Nat] /\ window \in Seq(Values)
    BY DEF BaselineInv, StatsOfLearned
  <2>4. /\ Len(window) \in Positive /\ WindowSum(window) \in Nat
        /\ WindowMean(window) = Frac(WindowSum(window), Len(window))
    BY <2>3, WindowInNumbers
  <2>5. PICK n, s, q, l, w, st, win :
          /\ n = Count /\ s = Sum /\ q = SumOfSquares /\ l = Len(window)
          /\ w = WindowSum(window) /\ st = stat /\ win = window
    OBVIOUS
  <2>6. PICK d : d = q * n - s * s
    OBVIOUS
  <2>7. /\ n \in Positive /\ n \in Nat /\ n > 1 /\ n < 18 /\ s \in Nat /\ q \in Nat
        /\ l \in Positive /\ w \in Nat
    BY <2>1, <2>2, <2>4, <2>5 DEF Positive
  <2>8. PICK lo \in Values, hi \in Values :
          /\ learned[lo] > 0 /\ learned[hi] > 0
          /\ LessEq(Whole(lo), WindowMean(window)) /\ LessEq(WindowMean(window), Whole(hi))
    BY DEF WithinLearned
  <2>9. lo \in Int /\ hi \in Int /\ lo * l <= w /\ w <= hi * l
    <3>1. lo \in Int /\ hi \in Int /\ 1 \in Positive /\ w \in Int
      BY <2>7, BaselineAssumption DEF Positive
    <3>2. /\ Stands(WindowMean(window), w, l)
          /\ Stands(Whole(lo), lo, 1) /\ Stands(Whole(hi), hi, 1)
      BY <2>4, <2>5, <2>7, <3>1, FracStands, WholeStands
    <3>3. LessEq(Whole(lo), WindowMean(window)) <=> lo * l <= w * 1
      BY <2>7, <3>1, <3>2, OrderOfValues, Zenon
    <3>4. LessEq(WindowMean(window), Whole(hi)) <=> w * 1 <= hi * l
      BY <2>7, <3>1, <3>2, OrderOfValues, Zenon
    <3>5. w * 1 = w
      BY <3>1
    <3> QED
      BY <2>8, <3>1, <3>3, <3>4, <3>5
  <2>10. /\ (n * lo - s) * (n * lo - s) <= (n - 1) * d
         /\ (n * hi - s) * (n * hi - s) <= (n - 1) * d
    <3>1. n = CountIn(learned) /\ s = SumIn(learned) /\ q = SquaresIn(learned)
      BY <2>5, SumsOfLearned
    <3>2. PICK f : f = learned
      OBVIOUS
    <3>3. /\ f \in [Values -> Nat] /\ f[lo] > 0 /\ f[hi] > 0 /\ CountIn(f) \in Nat
          /\ SumIn(f) \in Nat /\ SquaresIn(f) \in Nat /\ CountIn(f) > 1
      BY <2>3, <2>7, <2>8, <3>1, <3>2
    <3>4. (CountIn(f) * lo - SumIn(f)) * (CountIn(f) * lo - SumIn(f))
            <= (CountIn(f) - 1) * (SquaresIn(f) * CountIn(f) - SumIn(f) * SumIn(f))
      BY <3>3, LearnedValueWithin, Zenon
    <3>5. (CountIn(f) * hi - SumIn(f)) * (CountIn(f) * hi - SumIn(f))
            <= (CountIn(f) - 1) * (SquaresIn(f) * CountIn(f) - SumIn(f) * SumIn(f))
      BY <3>3, LearnedValueWithin, Zenon
    <3>6. n = CountIn(f) /\ s = SumIn(f) /\ q = SquaresIn(f)
      BY <3>1, <3>2
    <3> QED
      BY <2>6, <3>4, <3>5, <3>6
  <2>11. d \in Positive
    <3>1. q * n - s * s # 0
      BY <2>1, <2>2, <2>5, <2>7, VariedSpread
    <3>2. PICK m, a : m = n - 1 /\ a = n * lo - s
      OBVIOUS
    <3>3. m \in Positive /\ a \in Int /\ d \in Int
      BY <2>6, <2>7, <2>9, <3>2 DEF Positive
    <3>4. a * a >= 0 /\ a * a \in Int /\ a * a <= m * d
      BY <2>10, <3>2, <3>3
    <3>5. m * d >= 0
      BY <3>3, <3>4 DEF Positive
    <3>6. d >= 0
      BY <3>3, <3>5 DEF Positive
    <3> QED
      BY <2>6, <3>1, <3>3, <3>6 DEF Positive
  <2>12. FarMean(win, st) <=>
           16 * (q * n - s * s) * (l * l) * n <= (w * n - s * l) * (w * n - s * l) * (n - 1)
    <3>1. /\ WindowMean(win) = Frac(w, l)
          /\ st.count = n /\ st.mean = Frac(s, n) /\ st.m2 = Minus(Whole(q), Frac(s * s, n))
      BY <2>2, <2>4, <2>5
    <3> QED
      BY <2>7, <3>1, FarMeanMeans, Zenon
  <2>13. ~(16 * d * (l * l) * n <= (w * n - s * l) * (w * n - s * l) * (n - 1))
    <3>1. s \in Int /\ w \in Int
      BY <2>7
    <3> QED
      BY <2>7, <2>9, <2>10, <2>11, <3>1, BetweenIsNear, Zenon
  <2> QED
    BY <2>5, <2>6, <2>12, <2>13
<1> QED
  BY <1>1, BaselineInvariant, PTL

\* One more event, scored in a window of the n events learned, is refused just when
\* it is 4 (n + 1) deviations off their mean: the consequent of GuardWeakensWithWindow.
RefusedBeyond(v) ==
  LET off == Minus(Whole(v), Frac(Sum, Count))
      n == stat.count
      spread == Minus(Whole(SumOfSquares), Frac(Sum * Sum, Count))
      beyond == LessEq(Times(Whole(16 * (n + 1) * (n + 1)), spread),
                       Times(Whole(n - 1), Times(off, off)))
  IN  outcome' = "refused" <=> beyond

(* The comparison of the consequent, without fractions. *)
LEMMA BeyondMeans ==
  ASSUME NEW n \in Positive, NEW s \in Nat, NEW q \in Nat, NEW v \in Nat, n > 1
  PROVE  LessEq(Times(Whole(16 * (n + 1) * (n + 1)), Minus(Whole(q), Frac(s * s, n))),
                Times(Whole(n - 1), Times(Minus(Whole(v), Frac(s, n)),
                                          Minus(Whole(v), Frac(s, n)))))
         <=> 16 * (n + 1) * (n + 1) * (q * n - s * s) * n
               <= (n - 1) * ((v * n - s) * (v * n - s))
<1>1. PICK d, y, m, k, off, spread :
        /\ d = q * n - s * s /\ y = v * n - s /\ m = n - 1 /\ k = 16 * (n + 1) * (n + 1)
        /\ off = Minus(Whole(v), Frac(s, n))
        /\ spread = Minus(Whole(q), Frac(s * s, n))
  OBVIOUS
<1>2. /\ d \in Int /\ y \in Int /\ m \in Int /\ k \in Int /\ 1 \in Positive /\ n \in Int
      /\ s \in Int /\ q \in Int /\ v \in Int
  BY <1>1 DEF Positive
<1>3. n * n \in Positive
  BY PositiveProduct
<1>4. Stands(off, y, n)
  <2>1. Stands(Whole(v), v, 1) /\ Stands(Frac(s, n), s, n)
    BY <1>2, WholeStands, FracStands
  <2>2. Stands(off, v * n - s * 1, 1 * n)
    BY <1>1, <1>2, <2>1, MinusStands, Zenon
  <2>3. v * n - s * 1 = y /\ 1 * n = n
    BY <1>1, <1>2
  <2> QED
    BY <2>2, <2>3
<1>5. Stands(spread, d, n)
  <2>1. Stands(Minus(Whole(q), Frac(s * s, n)), q * n - s * s, n)
    BY <1>2, MeanAndSpread
  <2> QED
    BY <1>1, <2>1
<1>6. Stands(Times(off, off), y * y, n * n)
  BY <1>2, <1>4, TimesStands, Zenon
<1>7. Stands(Times(Whole(k), spread), k * d, n)
  <2>1. Stands(Whole(k), k, 1)
    BY <1>2, WholeStands
  <2>2. Stands(Times(Whole(k), spread), k * d, 1 * n)
    BY <1>2, <1>5, <2>1, TimesStands, Zenon
  <2>3. 1 * n = n
    BY <1>2
  <2> QED
    BY <2>2, <2>3
<1>8. Stands(Times(Whole(m), Times(off, off)), m * (y * y), n * n)
  <2>1. Stands(Whole(m), m, 1)
    BY <1>2, WholeStands
  <2>2. y * y \in Int
    BY <1>2
  <2>3. Stands(Times(Whole(m), Times(off, off)), m * (y * y), 1 * (n * n))
    BY <1>2, <1>3, <1>6, <2>1, <2>2, TimesStands, Zenon
  <2>4. 1 * (n * n) = n * n
    BY <1>2
  <2> QED
    BY <2>3, <2>4
<1>9. LessEq(Times(Whole(k), spread), Times(Whole(m), Times(off, off)))
        <=> (k * d) * (n * n) <= (m * (y * y)) * n
  <2>1. k * d \in Int /\ m * (y * y) \in Int
    BY <1>2
  <2> QED
    BY <1>3, <1>7, <1>8, <2>1, OrderOfValues, Zenon
<1>10. (k * d) * (n * n) = (k * d * n) * n /\ k * d * n \in Int /\ m * (y * y) \in Int
  BY <1>2
<1>11. LessEq(Times(Whole(k), spread), Times(Whole(m), Times(off, off)))
         <=> k * d * n <= m * (y * y)
  BY <1>9, <1>10, Cancels
<1> QED
  BY <1>1, <1>11

(* The guard weakens as the window grows: while the window holds just the n events  *)
(* learned, the next one is refused exactly if it is at least 4 (n + 1) deviations  *)
(* away from their mean (score, learn).                                             *)
THEOREM GuardWeakens == BaselineSpec => GuardWeakensWithWindow
<1>1. ASSUME BaselineInv, [BaselineNext]_baselineVars, ~UNCHANGED baselineVars,
             NEW v \in Values, WindowIsLearned, HasVaried(stat),
             window' = Append(window, v), outcome' # "raised"
      PROVE  RefusedBeyond(v)
  <2>1. stat.count > 1
    BY <1>1 DEF HasVaried
  <2>2. /\ stat.count = Count /\ Count \in Positive /\ Sum \in Nat /\ SumOfSquares \in Nat
        /\ stat.mean = Frac(Sum, Count)
        /\ stat.m2 = Minus(Whole(SumOfSquares), Frac(Sum * Sum, Count))
    BY <1>1, <2>1, StatsInNumbers
  <2>3. learned \in [Values -> Nat] /\ window \in Seq(Values)
    BY <1>1 DEF BaselineInv, StatsOfLearned
  <2>4. PICK n, s, q, st, win, x :
          /\ n = Count /\ s = Sum /\ q = SumOfSquares /\ st = stat /\ win = window
          /\ x = Append(win, v)
    OBVIOUS
  <2>5. n \in Positive /\ n \in Nat /\ n > 1 /\ s \in Nat /\ q \in Nat /\ v \in Nat
    BY <2>1, <2>2, <2>4, BaselineAssumption DEF Positive
  <2>6. Len(win) = n /\ WindowSum(win) = s
    <3>1. PICK f : f = learned
      OBVIOUS
    <3>2. /\ f \in [Values -> Nat] /\ win \in Seq(Values)
          /\ \A u \in Values : Cardinality({i \in DOMAIN win : win[i] = u}) = f[u]
      BY <1>1, <2>3, <2>4, <3>1 DEF WindowIsLearned
    <3>3. Len(win) = CountIn(f) /\ WindowSum(win) = SumIn(f)
      BY <3>2, MomentsOfWindow
    <3> QED
      BY <2>4, <3>1, <3>3, SumsOfLearned
  <2>7. x # <<>> /\ Len(x) = n + 1 /\ WindowMean(x) = Frac(s + v, n + 1)
    <3>1. win \in Seq(Values) /\ win \in Seq(Nat)
      <4>1. PICK j \in Nat : win \in [1..j -> Values]
        BY <2>3, <2>4, SeqDef
      <4>2. win \in [1..j -> Nat]
        BY <4>1, BaselineAssumption
      <4> QED
        BY <2>3, <2>4, <4>2, SeqDef
    <3>2. x \in Seq(Values) /\ x # <<>> /\ Len(x) = n + 1
      BY <2>4, <2>6, <3>1, AppendElements
    <3>3. WindowSum(x) = s + v
      BY <2>4, <2>5, <2>6, <3>1, WindowSumOfAppend
    <3>4. WindowMean(x) = Frac(WindowSum(x), Len(x))
      BY <3>2, WindowInNumbers
    <3> QED
      BY <3>2, <3>3, <3>4
  <2>8. FarMean(x, st) <=>
          16 * (q * n - s * s) * ((n + 1) * (n + 1)) * n
            <= ((s + v) * n - s * (n + 1)) * ((s + v) * n - s * (n + 1)) * (n - 1)
    <3>1. PICK l, w : l = n + 1 /\ w = s + v
      OBVIOUS
    <3>2. l \in Positive /\ w \in Nat /\ WindowMean(x) = Frac(w, l)
      BY <2>5, <2>7, <3>1 DEF Positive
    <3>3. /\ st.count = n /\ st.mean = Frac(s, n) /\ st.m2 = Minus(Whole(q), Frac(s * s, n))
      BY <2>2, <2>4
    <3>4. FarMean(x, st) <=>
            16 * (q * n - s * s) * (l * l) * n <= (w * n - s * l) * (w * n - s * l) * (n - 1)
      BY <2>5, <3>2, <3>3, FarMeanMeans, Zenon
    <3> QED
      BY <3>1, <3>4
  <2>9. /\ 16 * (q * n - s * s) * ((n + 1) * (n + 1)) * n
             = 16 * (n + 1) * (n + 1) * (q * n - s * s) * n
        /\ ((s + v) * n - s * (n + 1)) * ((s + v) * n - s * (n + 1)) * (n - 1)
             = (n - 1) * ((v * n - s) * (v * n - s))
    BY <2>5
  <2>10. outcome' = "refused" <=> FarMean(x, st)
    <3>1. window' = x /\ (StronglyDeviates(x, st) <=> FarMean(x, st))
      <4>1. HasVaried(st) /\ window' = x
        BY <1>1, <2>4
      <4> QED
        BY <2>7, <4>1 DEF StronglyDeviates
    <3>2. window' # <<>>
      BY <2>7, <3>1
    <3>3. PICK u \in Values : Process(u) \/ ProcessRaises(u)
      BY <1>1, <3>2 DEF BaselineNext, NewSession
    <3>4. Process(u)
      BY <1>1, <3>3 DEF ProcessRaises
    <3>5. IsLearned(window') <=> ~FarMean(x, st)
      BY <2>4, <3>1 DEF IsLearned
    <3> QED
      BY <3>4, <3>5 DEF Process
  <2>11. PICK beyond :
           beyond = LessEq(Times(Whole(16 * (n + 1) * (n + 1)),
                                 Minus(Whole(q), Frac(s * s, n))),
                           Times(Whole(n - 1), Times(Minus(Whole(v), Frac(s, n)),
                                                     Minus(Whole(v), Frac(s, n)))))
    OBVIOUS
  <2>12. beyond <=> FarMean(x, st)
    BY <2>5, <2>8, <2>9, <2>11, BeyondMeans
  <2>13. RefusedBeyond(v) <=> (outcome' = "refused" <=> beyond)
    BY <2>2, <2>4, <2>11 DEF RefusedBeyond
  <2> QED
    BY <2>10, <2>12, <2>13
<1>2. BaselineInv /\ [BaselineNext]_baselineVars =>
        [\A v \in Values :
           /\ window' = Append(window, v) /\ outcome' # "raised"
           /\ HasVaried(stat) /\ WindowIsLearned
           => LET off == Minus(Whole(v), Frac(Sum, Count))
                  n == stat.count
                  spread == Minus(Whole(SumOfSquares), Frac(Sum * Sum, Count))
                  beyond == LessEq(Times(Whole(16 * (n + 1) * (n + 1)), spread),
                                   Times(Whole(n - 1), Times(off, off)))
              IN  outcome' = "refused" <=> beyond]_baselineVars
  BY <1>1 DEF RefusedBeyond
<1> QED
  BY <1>2, BaselineInvariant, PTL DEF BaselineSpec, GuardWeakensWithWindow

===============================================================================
