------------------------------- MODULE QoiProofs -------------------------------
(***************************************************************************)
(* Proofs about the retrieval loop, for all data, bounds, tolerances and   *)
(* numbers of elements: the estimates bound the true errors, and the loop  *)
(* ends only where they do.                                                *)
(***************************************************************************)
EXTENDS QoiRetrieval, WellFoundedInduction, TLAPS

Positive == Nat \ {0}

(* Integers *)

\* What an absolute value is.
LEMMA AbsType == \A n \in Int : Abs(n) \in Nat /\ n <= Abs(n) /\ -n <= Abs(n)
BY DEF Abs

\* An absolute value is within any bound on both sides.
LEMMA AbsLeast == \A n \in Int, b \in Nat : -b <= n /\ n <= b => Abs(n) <= b
BY DEF Abs

\* A number and its opposite have one absolute value.
LEMMA AbsNegative == \A n \in Int : Abs(-n) = Abs(n)
BY DEF Abs

\* The signs of products.
LEMMA ProductSigns ==
  ASSUME NEW m \in Int, NEW n \in Int
  PROVE  /\ (-m) * n = -(m * n) /\ m * (-n) = -(m * n) /\ (-m) * (-n) = m * n
         /\ m >= 0 /\ n >= 0 => m * n >= 0
         /\ m > 0 /\ n > 0 => m * n > 0
         /\ m * n \in Int
OBVIOUS

\* The absolute value of a product is the product of the absolute values.
LEMMA AbsProduct ==
  ASSUME NEW m \in Int, NEW n \in Int
  PROVE  Abs(m * n) = Abs(m) * Abs(n)
<1>1. CASE m >= 0 /\ n >= 0
  BY <1>1, ProductSigns DEF Abs
<1>2. CASE m < 0 /\ n >= 0
  <2>1. -m >= 0 /\ -m \in Int
    BY <1>2
  <2>2. (-m) * n >= 0 /\ (-m) * n = -(m * n)
    BY <1>2, <2>1, ProductSigns
  <2>3. Abs(-(m * n)) = -(m * n)
    BY <2>2, ProductSigns DEF Abs
  <2>4. Abs(m) = -m /\ Abs(n) = n
    BY <1>2 DEF Abs
  <2> QED BY <2>2, <2>3, <2>4, AbsNegative, ProductSigns
<1>3. CASE m >= 0 /\ n < 0
  <2>1. -n >= 0 /\ -n \in Int
    BY <1>3
  <2>2. m * (-n) >= 0 /\ m * (-n) = -(m * n)
    BY <1>3, <2>1, ProductSigns
  <2>3. Abs(-(m * n)) = -(m * n)
    BY <2>2, ProductSigns DEF Abs
  <2>4. Abs(m) = m /\ Abs(n) = -n
    BY <1>3 DEF Abs
  <2> QED BY <2>2, <2>3, <2>4, AbsNegative, ProductSigns
<1>4. CASE m < 0 /\ n < 0
  <2>1. /\ -m >= 0 /\ -m \in Int
        /\ -n >= 0 /\ -n \in Int
    BY <1>4
  <2>2. (-m) * (-n) >= 0 /\ (-m) * (-n) = m * n
    BY <2>1, ProductSigns
  <2>3. Abs(m * n) = m * n
    BY <2>2, ProductSigns DEF Abs
  <2>4. Abs(m) = -m /\ Abs(n) = -n
    BY <1>4 DEF Abs
  <2> QED BY <2>2, <2>3, <2>4
<1> QED BY <1>1, <1>2, <1>3, <1>4

\* Products of larger naturals are larger.
LEMMA ProductMonotone ==
  ASSUME NEW m \in Nat, NEW n \in Nat, NEW p \in Nat, NEW q \in Nat, m <= p, n <= q
  PROVE  m * n <= p * q
<1>1. p * q = m * n + m * (q - n) + (p - m) * q
  OBVIOUS
<1>2. /\ p - m \in Int /\ p - m >= 0
      /\ q - n \in Int /\ q - n >= 0
  OBVIOUS
<1>3. m * (q - n) >= 0 /\ (p - m) * q >= 0
  BY <1>2, ProductSigns
<1>4. m * n \in Int /\ m * (q - n) \in Int /\ (p - m) * q \in Int
  BY <1>2, ProductSigns
<1> QED BY <1>1, <1>3, <1>4

\* A positive factor on both sides can be cancelled.
LEMMA Cancel ==
  ASSUME NEW m \in Int, NEW n \in Int, NEW p \in Positive, m * p <= n * p
  PROVE  m <= n
<1> SUFFICES ASSUME m > n PROVE FALSE
  OBVIOUS
<1>1. m - n > 0 /\ m - n \in Int /\ p > 0 /\ p \in Int
  BY DEF Positive
<1>2. (m - n) * p > 0
  BY <1>1, ProductSigns
<1>3. (m - n) * p = m * p - n * p
  BY DEF Positive
<1>4. m * p \in Int /\ n * p \in Int
  BY DEF Positive
<1> QED BY <1>2, <1>3, <1>4

-----------------------------------------------------------------------------
(* The bounds of qoi_utils.hpp *)

\* An error s of at most b, scaled by x.
LEMMA ScaledError ==
  ASSUME NEW x \in Int, NEW s \in Int, NEW b \in Nat, Abs(s) <= b
  PROVE  /\ x * s \in Int /\ Abs(x) * b \in Nat
         /\ -(Abs(x) * b) <= x * s /\ x * s <= Abs(x) * b
<1>1. Abs(x) \in Nat /\ Abs(s) \in Nat
  BY AbsType
<1>2. Abs(x) * Abs(s) <= Abs(x) * b
  BY <1>1, ProductMonotone
<1>3. Abs(x * s) <= Abs(x) * b
  BY <1>2, AbsProduct
<1>4. x * s \in Int /\ Abs(x) * b \in Nat
  BY <1>1, ProductSigns
<1>5. x * s <= Abs(x * s) /\ -(x * s) <= Abs(x * s) /\ Abs(x * s) \in Nat
  BY <1>4, AbsType
<1> QED BY <1>3, <1>4, <1>5

\* compute_bound_x_square() bounds the error of a square.
LEMMA SquareSound ==
  ASSUME NEW x \in Int, NEW s \in Int, NEW b \in Nat, Abs(s) <= b
  PROVE  /\ compute_bound_x_square(x, b) \in Nat
         /\ -compute_bound_x_square(x, b) <= x * x - (x + s) * (x + s)
         /\ x * x - (x + s) * (x + s) <= compute_bound_x_square(x, b)
<1>1. x * x - (x + s) * (x + s) = -(x * s) - (x * s) - s * s
  OBVIOUS
<1>2. /\ x * s \in Int /\ Abs(x) * b \in Nat
      /\ -(Abs(x) * b) <= x * s /\ x * s <= Abs(x) * b
  BY ScaledError
<1>3. s * s \in Int /\ s * s >= 0 /\ s * s <= b * b
  <2>1. Abs(s) * Abs(s) = s * s
    BY DEF Abs
  <2>2. Abs(s) \in Nat
    BY AbsType
  <2>3. Abs(s) * Abs(s) <= b * b
    BY <2>2, ProductMonotone
  <2>4. Abs(s) * Abs(s) >= 0
    BY <2>2, ProductSigns
  <2> QED BY <2>1, <2>3, <2>4
<1>4. compute_bound_x_square(x, b) = Abs(x) * b + Abs(x) * b + b * b
  BY AbsType DEF compute_bound_x_square
<1>5. b * b \in Nat
  BY ProductSigns
<1>6. x * x - (x + s) * (x + s) \in Int
  OBVIOUS
<1> HIDE DEF compute_bound_x_square
<1> QED BY <1>1, <1>2, <1>3, <1>4, <1>5, <1>6

\* compute_bound_multiplication() bounds the error of a product.
LEMMA MultiplicationSound ==
  ASSUME NEW x \in Int, NEW y \in Int, NEW s \in Int, NEW t \in Int,
         NEW a \in Nat, NEW b \in Nat, Abs(s) <= a, Abs(t) <= b
  PROVE  /\ compute_bound_multiplication(x, y, a, b) \in Nat
         /\ Abs(x * y - (x + s) * (y + t)) <= compute_bound_multiplication(x, y, a, b)
<1>1. x * y - (x + s) * (y + t) = -(x * t) - y * s - s * t
  OBVIOUS
<1>2. /\ x * t \in Int /\ Abs(x) * b \in Nat
      /\ -(Abs(x) * b) <= x * t /\ x * t <= Abs(x) * b
  BY ScaledError
<1>3. /\ y * s \in Int /\ Abs(y) * a \in Nat
      /\ -(Abs(y) * a) <= y * s /\ y * s <= Abs(y) * a
  BY ScaledError
<1>4. s * t \in Int /\ a * b \in Nat /\ -(a * b) <= s * t /\ s * t <= a * b
  <2>1. /\ s * t \in Int /\ Abs(s) * b \in Nat
        /\ -(Abs(s) * b) <= s * t /\ s * t <= Abs(s) * b
    BY ScaledError
  <2>2. Abs(s) * b <= a * b
    BY AbsType, ProductMonotone
  <2>3. a * b \in Nat
    BY ProductSigns
  <2> QED BY <2>1, <2>2, <2>3
<1> DEFINE e == compute_bound_multiplication(x, y, a, b)
           d == x * y - (x + s) * (y + t)
<1>5. e = Abs(x) * b + Abs(y) * a + a * b
  BY DEF compute_bound_multiplication
<1>6. e \in Nat /\ d \in Int /\ -e <= d /\ d <= e
  BY <1>1, <1>2, <1>3, <1>4, <1>5
<1> QED BY <1>6, AbsLeast

\* compute_bound_division() bounds the error of a quotient, as long as the divisor's
\* bound is below the divisor: a larger numerator over a smaller denominator.
LEMMA DivisionSound ==
  ASSUME NEW x \in Int, NEW y \in Int, NEW s \in Int, NEW t \in Int,
         NEW a \in Nat, NEW b \in Nat, Abs(s) <= a, Abs(t) <= b, b < Abs(y)
  PROVE  LET e == compute_bound_division(x, y, a, b)
         IN  /\ e[1] \in Nat /\ e[2] \in Positive
             /\ Abs(x * (y + t) - (x + s) * y) <= e[1]
             /\ e[2] <= Abs(y * (y + t))
<1> DEFINE n == Abs(x) * b + Abs(y) * a
           m == Abs(y) * (Abs(y) - b)
<1>1. compute_bound_division(x, y, a, b) = <<n, m>>
  BY DEF compute_bound_division
<1>2. /\ x * t \in Int /\ Abs(x) * b \in Nat
      /\ -(Abs(x) * b) <= x * t /\ x * t <= Abs(x) * b
  BY ScaledError
<1>3. /\ y * s \in Int /\ Abs(y) * a \in Nat
      /\ -(Abs(y) * a) <= y * s /\ y * s <= Abs(y) * a
  BY ScaledError
<1>4. Abs(x * (y + t) - (x + s) * y) <= n /\ n \in Nat
  <2> DEFINE d == x * (y + t) - (x + s) * y
  <2>1. d = x * t - y * s
    OBVIOUS
  <2>2. d \in Int /\ n \in Nat /\ -n <= d /\ d <= n
    BY <1>2, <1>3, <2>1
  <2> QED BY <2>2, AbsLeast
<1>5. Abs(y) \in Positive /\ Abs(y) - b \in Positive
  BY AbsType DEF Positive
<1>6. m \in Positive
  <2>1. m > 0 /\ m \in Int
    BY <1>5, ProductSigns DEF Positive
  <2> QED BY <2>1 DEF Positive
<1>7. m <= Abs(y * (y + t))
  <2>1. Abs(y) - b <= Abs(y + t)
    BY DEF Abs
  <2>2. Abs(y + t) \in Nat /\ Abs(y) - b \in Nat /\ Abs(y) \in Nat
    BY <1>5, AbsType DEF Positive
  <2>3. m <= Abs(y) * Abs(y + t)
    BY <2>1, <2>2, ProductMonotone
  <2> QED BY <2>3, AbsProduct
<1> QED BY <1>1, <1>4, <1>6, <1>7

-----------------------------------------------------------------------------
(* Fractions *)

\* Not exceeding is transitive over a positive denominator.
LEMMA NotExceedingTransitive ==
  ASSUME NEW e \in Nat \X Positive, NEW f \in Nat \X Positive, NEW t \in Nat \X Positive,
         ~Exceeds(e, f), ~Exceeds(f, t)
  PROVE  ~Exceeds(e, t)
<1>1. /\ e[1] \in Nat /\ f[1] \in Nat /\ t[1] \in Nat
      /\ e[2] \in Positive /\ f[2] \in Positive /\ t[2] \in Positive
  OBVIOUS
<1>2. e[1] * f[2] <= f[1] * e[2] /\ f[1] * t[2] <= t[1] * f[2]
  <2>1. /\ e[1] * f[2] \in Int /\ f[1] * e[2] \in Int
        /\ f[1] * t[2] \in Int /\ t[1] * f[2] \in Int
    BY <1>1 DEF Positive
  <2> QED BY <2>1 DEF Exceeds
<1>3. e[1] * f[2] * t[2] <= f[1] * e[2] * t[2]
  BY <1>1, <1>2, ProductMonotone DEF Positive
<1>4. f[1] * t[2] * e[2] <= t[1] * f[2] * e[2]
  BY <1>1, <1>2, ProductMonotone DEF Positive
<1>5. (e[1] * t[2]) * f[2] <= (t[1] * e[2]) * f[2]
  <2>1. /\ e[1] * f[2] * t[2] = (e[1] * t[2]) * f[2]
        /\ f[1] * e[2] * t[2] = f[1] * t[2] * e[2]
        /\ t[1] * f[2] * e[2] = (t[1] * e[2]) * f[2]
    BY <1>1 DEF Positive
  <2>2. /\ e[1] * f[2] * t[2] \in Int /\ f[1] * e[2] * t[2] \in Int
        /\ t[1] * f[2] * e[2] \in Int
    BY <1>1 DEF Positive
  <2> QED BY <1>3, <1>4, <2>1, <2>2
<1>6. e[1] * t[2] \in Int /\ t[1] * e[2] \in Int
  BY <1>1 DEF Positive
<1>7. e[1] * t[2] <= t[1] * e[2]
  BY <1>1, <1>5, <1>6, Cancel
<1> QED BY <1>6, <1>7 DEF Exceeds

\* A smaller numerator over a larger denominator does not exceed either.
LEMMA SmallerFraction ==
  ASSUME NEW e \in Nat \X Positive, NEW t \in Nat \X Positive,
         NEW n \in Nat, NEW m \in Nat, n <= e[1], e[2] <= m, ~Exceeds(e, t)
  PROVE  ~Exceeds(<<n, m>>, t)
<1>1. e[1] \in Nat /\ t[1] \in Nat /\ e[2] \in Nat /\ t[2] \in Nat
  BY DEF Positive
<1>2. n * t[2] <= e[1] * t[2] /\ t[1] * e[2] <= t[1] * m
  BY <1>1, ProductMonotone
<1>3. /\ n * t[2] \in Int /\ e[1] * t[2] \in Int
      /\ t[1] * e[2] \in Int /\ t[1] * m \in Int
  BY <1>1, ProductSigns
<1> QED BY <1>2, <1>3 DEF Exceeds

-----------------------------------------------------------------------------
(* The state *)

\* The bounds of the variables are naturals.
LEMMA BoundType ==
  ASSUME quantity \in Quantities, NEW k \in 0 .. Shrinks, NEW v \in Vars(quantity)
  PROVE  Bound(v, k) \in Nat
<1>1. FirstBound[quantity][v] \in Nat /\ Units[k] \in Nat
  BY BoundsAssumption, UnitsAssumption
<1> QED BY <1>1, ProductSigns DEF Bound

\* The errors of a decode from scratch are integers.
LEMMA PrecisionErrors ==
  ASSUME quantity \in Quantities, NEW k \in 0 .. Shrinks, NEW v \in Vars(quantity)
  PROVE  Errors(Precision(v, k)) \subseteq Int
<1>1. Precision(v, k) \in {FirstBound[quantity][v] * Units[k], Finest[quantity][v]}
  BY DEF Precision, Bound
<1> QED BY <1>1, ErrorsAssumption

\* An element has one of the errors given for each variable.
LEMMA ValuesType ==
  ASSUME quantity \in Quantities, data \in [Elements -> Data[quantity]], NEW i \in Elements,
         NEW errors, \A v \in Vars(quantity) : errors[v] \subseteq Int,
         NEW d \in Values(i, errors)
  PROVE  /\ d \in [Vars(quantity) -> Int]
         /\ \A v \in Vars(quantity) : d[v] - data[i][v] \in errors[v]
<1>1. PICK e : /\ \A v \in Vars(quantity) : e[v] \in errors[v]
               /\ d = [v \in Vars(quantity) |-> data[i][v] + e[v]]
  BY DEF Values
<1>2. \A v \in Vars(quantity) : data[i][v] \in Int /\ e[v] \in Int
  BY <1>1, DataAssumption
<1>3. \A v \in Vars(quantity) : d[v] = data[i][v] + e[v] /\ d[v] - data[i][v] = e[v]
  BY <1>1, <1>2
<1> QED BY <1>1, <1>2, <1>3

\* The variables each quantity is made of.
LEMMA VarsOf ==
  /\ Vars("T") = 1 .. 2 /\ Vars("XiXj") = 1 .. 2 /\ Vars("V_TOT2") = 1 .. 3
BY DEF Vars

\* An estimate is a fraction with a positive denominator.
LEMMA EstimateType ==
  ASSUME quantity \in Quantities, NEW k \in 0 .. Shrinks,
         NEW d, \A v \in Vars(quantity) : d[v] \in Int
  PROVE  Estimate(d, k) \in Nat \X Positive
<1>0. \A v \in Vars(quantity) : d[v] \in Int /\ Bound(v, k) \in Nat
  BY BoundType
<1>z. 0 \in Int /\ Abs(0) = 0
  BY DEF Abs
<1>1. CASE quantity = "T"
  <2>1. /\ d[1] \in Int /\ d[2] \in Int
        /\ Bound(1, k) \in Nat /\ Bound(2, k) \in Nat
    BY <1>0, <1>1, VarsOf
  <2>2. Estimate(d, k) = compute_bound_division(d[1], d[2], Bound(1, k), Bound(2, k))
    BY <1>1 DEF Estimate, e_T
  <2>3. CASE Bound(2, k) < Abs(d[2])
    <3>1. LET e == compute_bound_division(d[1], d[2], Bound(1, k), Bound(2, k))
          IN  e[1] \in Nat /\ e[2] \in Positive
      BY <1>z, <2>1, <2>3, DivisionSound
    <3> QED BY <2>2, <2>3, <3>1 DEF compute_bound_division
  <2>4. CASE ~(Bound(2, k) < Abs(d[2]))
    BY <2>2, <2>4 DEF compute_bound_division, Positive
  <2> QED BY <2>3, <2>4
<1>2. CASE quantity = "V_TOT2"
  <2>1. \A v \in 1 .. 3 : compute_bound_x_square(d[v], Bound(v, k)) \in Nat
    <3> SUFFICES ASSUME NEW v \in 1 .. 3
                 PROVE  compute_bound_x_square(d[v], Bound(v, k)) \in Nat
      OBVIOUS
    <3>1. d[v] \in Int /\ Bound(v, k) \in Nat /\ Abs(0) <= Bound(v, k)
      BY <1>0, <1>2, <1>z, VarsOf
    <3> QED BY <1>z, <3>1, SquareSound
  <2>2. e_V_TOT2(d, k) \in Nat
    BY <2>1 DEF e_V_TOT2
  <2> QED BY <1>2, <2>2 DEF Estimate, Positive
<1>3. CASE quantity = "XiXj"
  <2>1. /\ d[1] \in Int /\ d[2] \in Int
        /\ Bound(1, k) \in Nat /\ Bound(2, k) \in Nat
    BY <1>0, <1>3, VarsOf
  <2>2. Abs(0) <= Bound(1, k) /\ Abs(0) <= Bound(2, k)
    BY <1>z, <2>1
  <2>3. compute_bound_multiplication(d[1], d[2], Bound(1, k), Bound(2, k)) \in Nat
    BY <1>z, <2>1, <2>2, MultiplicationSound
  <2>4. e_XiXj(d, k) \in Nat
    BY <2>3 DEF e_XiXj
  <2> QED BY <1>3, <2>4 DEF Estimate, Positive
<1> QED BY <1>1, <1>2, <1>3 DEF Quantities

\* The estimate of an element has a positive denominator.
LEMMA ErrorEstType ==
  ASSUME quantity \in Quantities, NEW k \in 0 .. Shrinks,
         NEW ds, NEW i \in Elements, ds[i] \in [Vars(quantity) -> Int]
  PROVE  error_est(ds, k)[i] \in Nat \X Positive
<1>1. Estimate(ds[i], k) \in Nat \X Positive
  BY EstimateType
<1> QED BY <1>1 DEF error_est, Positive

\* A set of naturals that is not empty has a least one.
LEMMA LeastExists ==
  ASSUME NEW S, S \subseteq Nat, S # {}
  PROVE  \E x \in S : \A y \in S : x <= y
<1>1. PICK x \in S : \A y \in S : ~(<<y, x>> \in OpToRel(<, Nat))
  BY NatLessThanWellFounded, WFMin, Zenon
<1>2. ASSUME NEW y \in S PROVE ~(y < x)
  <2>1. <<y, x>> \in Nat \X Nat
    OBVIOUS
  <2> QED BY <1>1, <2>1, Zenon DEF OpToRel
<1>3. \A y \in S : x <= y
  BY <1>2
<1> QED BY <1>3

\* Shrinking the bounds divides them, and at most one time more than the model has.
LEMMA ShrunkType ==
  ASSUME NEW k \in 0 .. Shrinks, NEW d
  PROVE  Shrunk(d, k) \in 0 .. Shrinks + 1 /\ Shrunk(d, k) > k
<1> DEFINE S == {j \in k + 1 .. Shrinks : ~Exceeds(Estimate(d, j), Tolerance[quantity])}
                  \cup {Shrinks + 1}
<1>1. Shrinks \in Nat /\ k \in Nat
  BY BoundsAssumption
<1>2. S \subseteq Nat /\ S \subseteq k + 1 .. Shrinks + 1 /\ S # {}
  BY <1>1
<1> HIDE DEF S
<1>3. \E x \in S : \A y \in S : x <= y
  BY <1>2, LeastExists
<1>4. Min(S) \in S
  BY <1>3 DEF Min
<1>5. Min(S) \in k + 1 .. Shrinks + 1
  BY <1>2, <1>4
<1>6. Shrunk(d, k) = Min(S)
  BY DEF Shrunk, S
<1> QED BY <1>1, <1>5, <1>6

\* What an element comes back as: integers, with the errors the codecs may make there.
LEMMA DecodedType ==
  ASSUME LoopInv, shrunk \in 0 .. Shrinks, NEW i \in Elements, NEW h, NEW d \in Decoded(i, h)
  PROVE  /\ d \in [Vars(quantity) -> Int]
         /\ mask[i] => \A v \in Vars(quantity) : d[v] - data[i][v] \in ErrorsAt(i, v, h)
         /\ ~mask[i] => \A v \in Vars(quantity) : d[v] = 0
<1>1. /\ quantity \in Quantities /\ data \in [Elements -> Data[quantity]]
      /\ dec[i] \in [Vars(quantity) -> Int]
  BY DEF LoopInv
<1>2. CASE mask[i]
  <2> DEFINE errors == [v \in Vars(quantity) |-> ErrorsAt(i, v, h)]
  <2>1. ASSUME NEW v \in Vars(quantity) PROVE errors[v] \subseteq Int
    <3>1. dec[i][v] - data[i][v] \in Int
      <4>1. data[i][v] \in Int
        BY <1>1, DataAssumption
      <4> QED BY <1>1, <4>1
    <3>2. Errors(Precision(v, shrunk)) \subseteq Int
      BY <1>1, PrecisionErrors
    <3> QED BY <3>1, <3>2, ErrorsAssumption DEF ErrorsAt
  <2>2. d \in Values(i, errors)
    BY <1>2 DEF Decoded
  <2> HIDE DEF errors
  <2>3. /\ d \in [Vars(quantity) -> Int]
        /\ \A v \in Vars(quantity) : d[v] - data[i][v] \in errors[v]
    BY <1>1, <2>1, <2>2, ValuesType
  <2> QED BY <1>2, <2>3 DEF errors
<1>3. CASE ~mask[i]
  BY <1>3 DEF Decoded
<1> QED BY <1>2, <1>3

\* What the codecs hold after an iteration in which they came to hold h and decoded ds.
LEMMA MemoryStep ==
  ASSUME LoopInv, shrunk \in 0 .. Shrinks, NEW h \in [Vars(quantity) -> Holdings], MayHold(h),
         NEW ds, \A i \in Elements : ds[i] \in Decoded(i, h), NEW v \in Vars(quantity)
  PROVE  /\ mask[1] /\ h[v] # "nothing" =>
              \E k \in 0 .. shrunk : ds[1][v] - data[1][v] \in Errors(Precision(v, k))
         /\ h[v] = "exact" =>
              \A i \in Elements \ {1} :
                mask[i] => ds[i][v] - data[i][v] \in Errors(Precision(v, shrunk))
<1>1. ASSUME mask[1], h[v] # "nothing"
      PROVE  \E k \in 0 .. shrunk : ds[1][v] - data[1][v] \in Errors(Precision(v, k))
  <2>1. 1 \in Elements /\ ds[1] \in Decoded(1, h)
    BY BoundsAssumption DEF Elements
  <2>2. ds[1][v] - data[1][v] \in ErrorsAt(1, v, h)
    BY <1>1, <2>1, DecodedType
  <2>3. CASE holds[v] = "nothing"
    <3>1. h[v] = "exact"
      BY <1>1, <2>3 DEF MayHold, Holdings
    <3>2. ErrorsAt(1, v, h) = Errors(Precision(v, shrunk))
      BY <2>3, <3>1 DEF ErrorsAt
    <3>3. shrunk \in 0 .. shrunk
      OBVIOUS
    <3> QED BY <2>2, <3>2, <3>3
  <2>4. CASE holds[v] # "nothing"
    <3>1. ds[1][v] - data[1][v] = dec[1][v] - data[1][v]
      BY <2>2, <2>4 DEF ErrorsAt
    <3>2. MemoryInv /\ asked \in 0 .. Shrinks /\ asked <= shrunk
      BY <2>4 DEF LoopInv
    <3>3. PICK k \in 0 .. asked : dec[1][v] - data[1][v] \in Errors(Precision(v, k))
      BY <1>1, <2>4, <3>2 DEF MemoryInv
    <3>4. k \in 0 .. shrunk
      BY <3>2, BoundsAssumption
    <3> QED BY <3>1, <3>3, <3>4
  <2> QED BY <2>3, <2>4
<1>2. ASSUME h[v] = "exact", NEW i \in Elements \ {1}, mask[i]
      PROVE  ds[i][v] - data[i][v] \in Errors(Precision(v, shrunk))
  <2>1. ds[i][v] - data[i][v] \in ErrorsAt(i, v, h)
    BY <1>2, DecodedType
  <2>2. ErrorsAt(i, v, h) = Errors(Precision(v, shrunk))
    BY <1>2 DEF ErrorsAt
  <2> QED BY <2>1, <2>2
<1> QED BY <1>1, <1>2

\* What the loop leaves behind in each iteration, the invariant from which what it
\* promises follows.
THEOREM LoopInvariant == Spec => []LoopInv
<1>1. ASSUME Init PROVE LoopInv
  <2>1. /\ quantity \in Quantities /\ data \in [Elements -> Data[quantity]]
        /\ mask = psz_mask(data)
        /\ shrunk = 0 /\ iter = 0 /\ asked = 0 /\ tolerance_met = FALSE
        /\ holds = [v \in Vars(quantity) |-> "nothing"]
    BY <1>1 DEF Init
  <2>2. ASSUME NEW i \in Elements PROVE dec[i] \in [Vars(quantity) -> Int]
    <3> DEFINE errors == [v \in Vars(quantity) |-> Strays]
    <3>1. dec[i] \in Values(i, errors)
      BY <1>1 DEF Init
    <3>2. \A v \in Vars(quantity) : errors[v] \subseteq Int
      BY ErrorsAssumption
    <3> HIDE DEF errors
    <3> QED BY <2>1, <3>1, <3>2, ValuesType
  <2>3. Shrinks \in Nat
    BY BoundsAssumption
  <2> QED BY <2>1, <2>2, <2>3 DEF LoopInv, Holdings
<1>2. ASSUME LoopInv, [Next]_vars PROVE LoopInv'
  <2>1. CASE Iterate
    <3>1. PICK h \in [Vars(quantity) -> Holdings] :
            /\ MayHold(h)
            /\ holds' = h
            /\ \E decoded \in {[i \in Elements |-> Decoded(i, h)]} :
                 \E ds \in [Elements -> UNION {decoded[i] : i \in Elements}] :
                   /\ \A i \in Elements : ds[i] \in decoded[i]
                   /\ dec' = ds
                   /\ Halve(ds)
      BY <2>1 DEF Iterate
    <3>2. PICK ds : (\A i \in Elements : ds[i] \in Decoded(i, h)) /\ dec' = ds /\ Halve(ds)
      BY <3>1
    <3>3. /\ quantity' = quantity /\ data' = data /\ mask' = mask
          /\ iter' = iter + 1 /\ asked' = shrunk /\ tolerance_met = FALSE
      BY <1>2, <2>1 DEF Iterate, LoopInv
    <3>4. /\ quantity \in Quantities /\ data \in [Elements -> Data[quantity]]
          /\ mask = psz_mask(data) /\ iter \in Nat /\ iter <= shrunk
          /\ shrunk \in 0 .. Shrinks /\ Shrinks \in Nat
      BY <1>2, <2>1, <3>3, BoundsAssumption DEF Iterate, LoopInv
    <3>5. \A i \in Elements : /\ ds[i] \in [Vars(quantity) -> Int]
                              /\ ~mask[i] => \A v \in Vars(quantity) : ds[i][v] = 0
      BY <1>2, <3>2, <3>4, DecodedType
    <3> DEFINE est == error_est(ds, shrunk)
               tau == Tolerance[quantity]
    <3>6. PICK w \in Elements :
            /\ IsWorst(w, est)
            /\ max_est_error' = est[w]
            /\ IF Exceeds(est[w], tau)
                 THEN shrunk' = Shrunk(ds[w], shrunk) /\ UNCHANGED tolerance_met
                 ELSE tolerance_met' = TRUE /\ UNCHANGED shrunk
      BY <3>2 DEF Halve
    <3>7. est[w] \in Nat \X Positive
      BY <3>4, <3>5, ErrorEstType
    <3>8. \A i \in Elements : ~Exceeds(est[i], est[w])
      BY <3>6 DEF IsWorst
    <3>9. (error_est(dec, asked))' = est
      BY <3>2, <3>3 DEF error_est, Estimate, e_T, e_V_TOT2, e_XiXj, Bound
    <3>10. psz_mask(data)' = psz_mask(data)
      BY <3>3 DEF psz_mask
    <3> HIDE DEF est
    <3>11. /\ shrunk' \in 0 .. Shrinks + 1 /\ shrunk <= shrunk'
           /\ (IF tolerance_met' THEN iter' - 1 ELSE iter') <= shrunk'
           /\ tolerance_met' <=> ~Exceeds(est[w], tau)
      <4>1. CASE Exceeds(est[w], tau)
        <5>1. shrunk' \in 0 .. Shrinks + 1 /\ shrunk' > shrunk
          BY <3>4, <3>6, <4>1, ShrunkType
        <5>2. tolerance_met' = FALSE
          BY <3>3, <3>6, <4>1
        <5>3. iter + 1 <= shrunk'
          BY <3>4, <5>1
        <5> QED BY <3>3, <3>4, <4>1, <5>1, <5>2, <5>3
      <4>2. CASE ~Exceeds(est[w], tau)
        <5>1. tolerance_met' = TRUE /\ shrunk' = shrunk
          BY <3>6, <4>2
        <5>2. iter' - 1 <= shrunk'
          BY <3>3, <3>4, <5>1
        <5> QED BY <3>4, <4>2, <5>1, <5>2
      <4> QED BY <4>1, <4>2
    <3> HIDE DEF tau
    <3>12. MemoryInv'
      <4>1. ASSUME NEW v \in Vars(quantity)
            PROVE  /\ mask[1] /\ h[v] # "nothing" =>
                        \E k \in 0 .. shrunk : ds[1][v] - data[1][v] \in Errors(Precision(v, k))
                   /\ h[v] = "exact" =>
                        \A i \in Elements \ {1} :
                          mask[i] => ds[i][v] - data[i][v] \in Errors(Precision(v, shrunk))
        BY <1>2, <3>1, <3>2, <3>4, MemoryStep
      <4>2. ASSUME NEW v, NEW k PROVE Precision(v, k)' = Precision(v, k)
        BY <3>3 DEF Precision, Bound
      <4> QED BY <3>1, <3>2, <3>3, <4>1, <4>2 DEF MemoryInv
    <3>13. iter' \in Nat /\ iter' # 0
      BY <3>3, <3>4
    <3>14. /\ (holds \in [Vars(quantity) -> Holdings])'
           /\ (\A i \in Elements : dec[i] \in [Vars(quantity) -> Int])'
      BY <3>1, <3>2, <3>3, <3>5
    <3>15. /\ max_est_error' \in Nat \X (Nat \ {0})
           /\ tolerance_met' <=> ~Exceeds(max_est_error', Tolerance[quantity'])
      BY <3>3, <3>6, <3>7, <3>11 DEF Positive, tau
    <3>16. (\A i \in Elements : /\ ~mask[i] => \A v \in Vars(quantity) : dec[i][v] = 0
                                /\ ~Exceeds(error_est(dec, asked)[i], max_est_error))'
      BY <3>2, <3>3, <3>5, <3>6, <3>8, <3>9
    <3> QED BY <3>3, <3>4, <3>10, <3>11, <3>12, <3>13, <3>14, <3>15, <3>16 DEF LoopInv
  <2>2. CASE UNCHANGED vars
    <3>1. /\ UNCHANGED <<quantity, data, mask, shrunk, iter, asked>>
          /\ UNCHANGED <<holds, dec, max_est_error, tolerance_met>>
      BY <2>2 DEF vars
    <3>2. ASSUME NEW v, NEW k PROVE Precision(v, k)' = Precision(v, k)
      BY <3>1 DEF Precision, Bound
    <3>3. MemoryInv' = MemoryInv
      BY <3>1, <3>2 DEF MemoryInv
    <3>4. error_est(dec, asked)' = error_est(dec, asked)
      BY <3>1 DEF error_est, Estimate, e_T, e_V_TOT2, e_XiXj, Bound
    <3>5. psz_mask(data)' = psz_mask(data)
      BY <3>1 DEF psz_mask
    <3> QED BY <1>2, <3>1, <3>3, <3>4, <3>5 DEF LoopInv
  <2> QED BY <1>2, <2>1, <2>2 DEF Next
<1> QED BY <1>1, <1>2, PTL DEF Spec

\* A bound on the estimate of an element that can be trusted is one on its true error.
LEMMA TrustedError ==
  ASSUME LoopInv, iter > 0, NEW i \in Elements, Trusted(i),
         NEW t \in Nat \X Positive, ~Exceeds(error_est(dec, asked)[i], t)
  PROVE  ~Exceeds(ActualError(i), t)
<1> DEFINE d == dec[i]
           x == data[i]
<1>1. /\ quantity \in Quantities /\ data \in [Elements -> Data[quantity]]
      /\ asked \in 0 .. Shrinks /\ mask = psz_mask(data)
      /\ d \in [Vars(quantity) -> Int]
      /\ ~mask[i] => \A v \in Vars(quantity) : d[v] = 0
  BY DEF LoopInv
<1>2. t \in Nat \X Positive /\ ~Exceeds(error_est(dec, asked)[i], t)
  OBVIOUS
<1>3. CASE ~mask[i]
  <2>1. /\ quantity = "V_TOT2" /\ compute_VTOT2(x) = 0
        /\ \A v \in Vars(quantity) : d[v] = 0
    BY <1>1, <1>3 DEF psz_mask
  <2>2. compute_VTOT2(d) = 0
    BY <2>1, VarsOf DEF compute_VTOT2
  <2>3. ActualError(i) = <<0, 1>>
    BY <2>1, <2>2 DEF ActualError, Distance, QoI, Abs
  <2>4. ~Exceeds(<<0, 1>>, t)
    <3>1. t[1] \in Nat /\ t[2] \in Nat
      BY <1>2 DEF Positive
    <3>2. 0 * t[2] = 0 /\ t[1] * 1 = t[1]
      BY <3>1
    <3> QED BY <3>1, <3>2 DEF Exceeds
  <2> QED BY <2>3, <2>4
<1>4. CASE mask[i]
  <2> DEFINE b(v) == Bound(v, asked)
             s(v) == x[v] - d[v]
  <2>1. \A v \in Vars(quantity) :
          /\ x[v] \in Int /\ d[v] \in Int /\ b(v) \in Nat
          /\ Abs(s(v)) <= b(v)
    <3> SUFFICES ASSUME NEW v \in Vars(quantity)
                 PROVE  /\ x[v] \in Int /\ d[v] \in Int /\ b(v) \in Nat
                        /\ Abs(s(v)) <= b(v)
      OBVIOUS
    <3>1. x[v] \in Int
      BY <1>1, DataAssumption
    <3>2. Abs(s(v)) <= b(v)
      BY <1>4 DEF Trusted
    <3> QED BY <1>1, <3>1, <3>2, BoundType
  <2>2. ~Exceeds(Estimate(d, asked), t) /\ Estimate(d, asked) \in Nat \X Positive
    BY <1>1, <1>4, <2>1, EstimateType DEF error_est
  <2>3. \A v \in Vars(quantity) : s(v) \in Int /\ x[v] = d[v] + s(v)
    BY <2>1
  <2> HIDE DEF b, s
  <2>4. CASE quantity = "T"
    <3>1. /\ x[1] \in Int /\ d[1] \in Int /\ b(1) \in Nat /\ Abs(s(1)) <= b(1)
          /\ x[2] \in Int /\ d[2] \in Int /\ b(2) \in Nat /\ Abs(s(2)) <= b(2)
          /\ s(1) \in Int /\ x[1] = d[1] + s(1)
          /\ s(2) \in Int /\ x[2] = d[2] + s(2)
      BY <2>1, <2>3, <2>4, VarsOf
    <3>2. b(2) < Abs(d[2])
      BY <1>4, <2>4 DEF Trusted, b
    <3> DEFINE n == Abs(d[1] * x[2] - x[1] * d[2])
               m == Abs(d[2] * x[2])
               e == compute_bound_division(d[1], d[2], b(1), b(2))
    <3>3. n <= e[1] /\ e[2] <= m
      BY <3>1, <3>2, DivisionSound
    <3>4. Estimate(d, asked) = e
      BY <2>4 DEF Estimate, e_T, b
    <3>5. ActualError(i) = <<n, m>>
      BY <2>4 DEF ActualError, Distance, QoI, compute_T
    <3>6. n \in Nat /\ m \in Nat
      BY <3>1, AbsType, ProductSigns
    <3> HIDE DEF n, m, e
    <3> QED BY <1>2, <2>2, <3>3, <3>4, <3>5, <3>6, SmallerFraction
  <2>5. CASE quantity = "V_TOT2"
    <3> DEFINE c(v) == compute_bound_x_square(d[v], b(v))
               n == Abs(compute_VTOT2(d) - compute_VTOT2(x))
    <3>1. \A v \in 1 .. 3 : /\ c(v) \in Nat /\ d[v] * d[v] - x[v] * x[v] \in Int
                            /\ -c(v) <= d[v] * d[v] - x[v] * x[v]
                            /\ d[v] * d[v] - x[v] * x[v] <= c(v)
      <4> SUFFICES ASSUME NEW v \in 1 .. 3
                   PROVE  /\ c(v) \in Nat /\ d[v] * d[v] - x[v] * x[v] \in Int
                          /\ -c(v) <= d[v] * d[v] - x[v] * x[v]
                          /\ d[v] * d[v] - x[v] * x[v] <= c(v)
        OBVIOUS
      <4>1. /\ x[v] \in Int /\ d[v] \in Int /\ b(v) \in Nat /\ Abs(s(v)) <= b(v)
            /\ s(v) \in Int /\ x[v] = d[v] + s(v)
        BY <2>1, <2>3, <2>5, VarsOf
      <4>2. /\ c(v) \in Nat
            /\ -c(v) <= d[v] * d[v] - (d[v] + s(v)) * (d[v] + s(v))
            /\ d[v] * d[v] - (d[v] + s(v)) * (d[v] + s(v)) <= c(v)
        BY <4>1, SquareSound
      <4>3. d[v] * d[v] \in Int /\ x[v] * x[v] \in Int
        BY <4>1
      <4> HIDE DEF c
      <4> QED BY <4>1, <4>2, <4>3
    <3>2. compute_VTOT2(d) - compute_VTOT2(x)
            = (d[1] * d[1] - x[1] * x[1]) + (d[2] * d[2] - x[2] * x[2])
              + (d[3] * d[3] - x[3] * x[3])
      <4>1. \A v \in 1 .. 3 : d[v] * d[v] \in Int /\ x[v] * x[v] \in Int
        BY <2>1, <2>5, VarsOf, ProductSigns
      <4> QED BY <4>1 DEF compute_VTOT2
    <3> DEFINE sum == c(1) + c(2) + c(3)
               diff == compute_VTOT2(d) - compute_VTOT2(x)
    <3> HIDE DEF c
    <3>3. sum \in Nat /\ diff \in Int /\ -sum <= diff /\ diff <= sum
      BY <3>1, <3>2
    <3>4. n <= sum /\ n \in Nat
      BY <3>3, AbsLeast, AbsType
    <3>5. Estimate(d, asked) = <<sum, 1>>
      BY <2>5 DEF Estimate, e_V_TOT2, b, c
    <3>6. ActualError(i) = <<n, 1>>
      <4>1. /\ compute_VTOT2(d) \in Int /\ compute_VTOT2(x) \in Int
        BY <2>1, <2>5, VarsOf, ProductSigns DEF compute_VTOT2
      <4> HIDE DEF d, x
      <4> QED BY <2>5, <4>1 DEF ActualError, Distance, QoI, Abs, d, x
    <3> HIDE DEF n, sum
    <3> QED BY <1>2, <2>2, <3>4, <3>5, <3>6, SmallerFraction
  <2>6. CASE quantity = "XiXj"
    <3>1. /\ x[1] \in Int /\ d[1] \in Int /\ b(1) \in Nat /\ Abs(s(1)) <= b(1)
          /\ x[2] \in Int /\ d[2] \in Int /\ b(2) \in Nat /\ Abs(s(2)) <= b(2)
          /\ s(1) \in Int /\ x[1] = d[1] + s(1)
          /\ s(2) \in Int /\ x[2] = d[2] + s(2)
      BY <2>1, <2>3, <2>6, VarsOf
    <3> DEFINE n == Abs(d[1] * d[2] - x[1] * x[2])
               e == compute_bound_multiplication(d[1], d[2], b(1), b(2))
    <3>2. n <= e
      BY <3>1, MultiplicationSound
    <3>3. Estimate(d, asked) = <<e, 1>>
      BY <2>6 DEF Estimate, e_XiXj, b
    <3>4. d[1] * d[2] \in Int /\ x[1] * x[2] \in Int
      BY <3>1, ProductSigns
    <3>5. ActualError(i) = <<n, 1>>
      BY <2>6, <3>4 DEF ActualError, Distance, QoI, XiXj, Abs
    <3>6. n \in Nat
      BY <3>4, AbsType
    <3> HIDE DEF n, e
    <3> QED BY <1>2, <2>2, <3>2, <3>3, <3>5, <3>6, SmallerFraction
  <2> QED BY <1>1, <2>4, <2>5, <2>6 DEF Quantities
<1> QED BY <1>3, <1>4

\* Where the loop ends with the tolerance met, the true error is within it: for all
\* data and bounds, and whatever the codecs did elsewhere, at every element whose
\* estimate can be trusted.
THEOREM ToleranceHolds == Spec => []ToleranceIsReal
<1>1. LoopInv => ToleranceIsReal
  <2> SUFFICES ASSUME LoopInv, tolerance_met, NEW i \in Elements, Trusted(i)
               PROVE  ~Exceeds(ActualError(i), Tolerance[quantity])
    BY DEF ToleranceIsReal
  <2>1. /\ quantity \in Quantities /\ iter > 0 /\ asked \in 0 .. Shrinks
        /\ dec[i] \in [Vars(quantity) -> Int]
        /\ max_est_error \in Nat \X Positive
        /\ ~Exceeds(max_est_error, Tolerance[quantity])
        /\ ~Exceeds(error_est(dec, asked)[i], max_est_error)
    BY DEF LoopInv, Positive
  <2>2. Tolerance[quantity] \in Nat \X Positive
    BY <2>1, BoundsAssumption DEF Positive
  <2>3. error_est(dec, asked)[i] \in Nat \X Positive
    BY <2>1, ErrorEstType
  <2>4. ~Exceeds(error_est(dec, asked)[i], Tolerance[quantity])
    BY <2>1, <2>2, <2>3, NotExceedingTransitive
  <2> QED BY <2>1, <2>2, <2>4, TrustedError
<1> QED BY <1>1, LoopInvariant, PTL

\* What the summary prints covers the true error of every element whose estimate can be
\* trusted, and tells whether the tolerance was met, however the loop ended.
THEOREM ReportHolds == Spec => []ReportIsHonest
<1>1. LoopInv => ReportIsHonest
  <2> SUFFICES ASSUME LoopInv, iter > 0
               PROVE  /\ tolerance_met <=> ~Exceeds(max_est_error, Tolerance[quantity])
                      /\ \A i \in Elements :
                           Trusted(i) => ~Exceeds(ActualError(i), max_est_error)
    BY DEF ReportIsHonest
  <2>1. /\ tolerance_met <=> ~Exceeds(max_est_error, Tolerance[quantity])
        /\ max_est_error \in Nat \X Positive
        /\ \A i \in Elements : ~Exceeds(error_est(dec, asked)[i], max_est_error)
    BY DEF LoopInv, Positive
  <2>2. ASSUME NEW i \in Elements, Trusted(i)
        PROVE  ~Exceeds(ActualError(i), max_est_error)
    BY <2>1, <2>2, TrustedError
  <2> QED BY <2>1, <2>2
<1> QED BY <1>1, LoopInvariant, PTL
=============================================================================
