--------------------------- MODULE StrategyProofs ---------------------------
(***************************************************************************)
(* Proofs about Strategy.  For every set of places and directions the      *)
(* bodies may be moved to and every number of moves the filter keeps its   *)
(* bounds and its swings fade; for every number of loads and every room    *)
(* the connection to the console keeps its types, and who is served is     *)
(* settled.                                                                *)
(***************************************************************************)
EXTENDS Strategy, TLAPS

-----------------------------------------------------------------------------
(* The filter: a coordinate *)

\* What the provers know of a division: how far it is rounded down.
LEMMA DivRounds ==
  \A a, b \in Int : b > 0 =>
    a \div b \in Int /\ (a \div b) * b <= a /\ a < (a \div b + 1) * b
<1>1. ASSUME NEW a \in Int, NEW b \in Int, b > 0
      PROVE  a \div b \in Int
  BY <1>1
<1>2. ASSUME NEW a \in Int, NEW b \in Int, b > 0
      PROVE  (a \div b) * b <= a
  BY <1>2
<1>3. ASSUME NEW a \in Int, NEW b \in Int, b > 0
      PROVE  a < (a \div b + 1) * b
  BY <1>3
<1> QED
  BY <1>1, <1>2, <1>3

\* A positive factor common to two products can be cancelled.
LEMMA Cancels ==
  \A a, b, c \in Int : c > 0 =>
    (a * c <= b * c => a <= b) /\ (a * c < b * c => a < b)
<1>1. ASSUME NEW a \in Int, NEW b \in Int, NEW c \in Int, c > 0, a * c <= b * c
      PROVE  a <= b
  BY <1>1
<1>2. ASSUME NEW a \in Int, NEW b \in Int, NEW c \in Int, c > 0, a * c < b * c
      PROVE  a < b
  BY <1>2
<1> QED
  BY <1>1, <1>2

\* A product grows with either factor when the other is not negative.
LEMMA Grows ==
  \A a, b, c \in Int : c >= 0 /\ a <= b => a * c <= b * c /\ c * a <= c * b
<1>1. ASSUME NEW a \in Int, NEW b \in Int, NEW c \in Int, c >= 0, a <= b
      PROVE  a * c <= b * c
  BY <1>1
<1>2. ASSUME NEW a \in Int, NEW b \in Int, NEW c \in Int
      PROVE  a * c = c * a
  BY <1>2
<1> QED
  BY <1>1, <1>2

\* A share of a number lies between nothing and all of it, on either side.
LEMMA ShareBetween ==
  ASSUME NEW k \in Nat, NEW c \in Nat \ {0}, NEW n \in Int
  PROVE  LET g == (k * n) \div (k + c)
         IN /\ g \in Int
            /\ n >= 0 => 0 <= g /\ g <= n
            /\ n <= 0 => n <= g /\ g <= 0
<1> DEFINE t == k * n
           m == k + c
           g == t \div m
<1>1. /\ t \in Int /\ m \in Int /\ m > 0
      /\ m * n = t + c * n /\ n * m = m * n /\ 0 * m = 0
      /\ k * 0 = 0 /\ c * 0 = 0
  OBVIOUS
<1>2. /\ n >= 0 => t >= 0 /\ c * n >= 0
      /\ n <= 0 => t <= 0 /\ c * n <= 0
  <2>1. k \in Int /\ c \in Int /\ k >= 0 /\ c >= 0 /\ 0 \in Int
    OBVIOUS
  <2>2. n >= 0 => k * 0 <= k * n /\ c * 0 <= c * n
    BY <2>1, Grows
  <2>3. n <= 0 => k * n <= k * 0 /\ c * n <= c * 0
    BY <2>1, Grows
  <2> QED
    BY <1>1, <2>2, <2>3
<1>3. c * n \in Int
  OBVIOUS
<1> HIDE DEF t, m
<1>4. g \in Int /\ g * m <= t /\ t < (g + 1) * m
  BY <1>1, DivRounds
<1> HIDE DEF g
<1>5. CASE n >= 0
  <2>1. 0 * m < (g + 1) * m /\ g * m <= n * m
    BY <1>1, <1>2, <1>3, <1>4, <1>5
  <2>2. 0 < g + 1 /\ g <= n
    BY <1>1, <1>4, <2>1, Cancels
  <2>3. 0 <= g /\ g <= n
    BY <1>4, <2>2
  <2> QED
    BY <1>4, <1>5, <2>3 DEF g, t, m
<1>6. CASE n < 0
  <2>1. g * m <= 0 * m /\ n * m < (g + 1) * m
    BY <1>1, <1>2, <1>3, <1>4, <1>6
  <2>2. g <= 0 /\ n < g + 1
    BY <1>1, <1>4, <2>1, Cancels
  <2>3. n <= g /\ g <= 0
    BY <1>4, <2>2
  <2> QED
    BY <1>4, <1>6, <2>3 DEF g, t, m
<1>7. n = 0 => n >= 0
  OBVIOUS
<1> QED
  BY <1>5, <1>6

\* The variance of a coordinate rises to 375 at most, where the share it loses
\* is the noise it gains.
LEMMA VarianceBounded ==
  \A k \in 0 .. 375 : Position!Variance(k) \in 0 .. 375
<1> SUFFICES ASSUME NEW k \in 0 .. 375 PROVE Position!Variance(k) \in 0 .. 375
  OBVIOUS
<1> DEFINE g == (k * k) \div (k + 1000)
<1>1. g \in Int /\ 0 <= g /\ g <= k
  BY ShareBetween
<1>2. k * k < (g + 1) * (k + 1000)
  BY DivRounds
<1>3. Position!Variance(k) = k - g + 100
  BY DEF Position!Variance, Position!Gain, Position!SIGMA_SQ_OBSVN_POS,
         Position!SIGMA_SQ_NOISE_POS
<1> HIDE DEF g
<1>4. g >= k - 275
  <2>1. SUFFICES ASSUME g + 1 <= k - 275 PROVE FALSE
    BY <1>1
  <2>2. (g + 1) * (k + 1000) <= (k - 275) * (k + 1000)
    BY <1>1, <2>1, Grows
  <2>3. (k - 275) * (k + 1000) = k * k + 725 * k - 275000
    OBVIOUS
  <2>4. k * k \in Int /\ (g + 1) * (k + 1000) \in Int
    BY <1>1
  <2> QED
    BY <1>2, <2>2, <2>3, <2>4
<1> QED
  BY <1>1, <1>3, <1>4

PositionInv == Position!TypeOK /\ pose \in Int

\* An estimate is within a field's length of the centre after any frame.
LEMMA PositionStep ==
  ASSUME PositionInv, NEW z \in Places, Position!Frame(z)
  PROVE  PositionInv'
<1>1. z \in Int /\ AbsOf(10 * z) <= 20 * HALF_FIELD_MAXX
  <2>1. z \in -9448 .. 9448
    BY PlacesAssumption DEF PlacesAssumption, HALF_FIELD_MAXX
  <2> QED
    BY <2>1 DEF AbsOf, HALF_FIELD_MAXX
<1>2. place' \in Places /\ moves' \in 0 .. MaxMoves /\ still' \in 0 .. Settling
  BY PlacesAssumption DEF PlacesAssumption, PositionInv, Position!TypeOK, Position!Frame
<1>3. posSigmaSq' \in 0 .. 375
  BY VarianceBounded DEF PositionInv, Position!TypeOK, Position!Frame, Position!addInfo
<1>4. PICK p \in Int : Position!checkValid(p, 10 * z)
  <2>1. Position!Gain(Position!Variance(posSigmaSq), 10 * z - (pose + velocity)) \in Int
    <3>1. Position!Variance(posSigmaSq) \in 0 .. 375
      BY VarianceBounded DEF PositionInv, Position!TypeOK
    <3> QED
      BY <1>1, <3>1, ShareBetween
         DEF PositionInv, Position!TypeOK, Position!Gain, Position!SIGMA_SQ_OBSVN_POS
  <2> QED
    BY <1>1, <2>1 DEF PositionInv, Position!TypeOK, Position!Frame, Position!addInfo
<1>5. /\ pose' \in Int /\ velocity' \in Int
      /\ Position!AbsOf(pose') <= 20 * Position!HALF_FIELD_MAXX
  BY <1>1, <1>4 DEF Position!checkValid, PositionInv, Position!TypeOK, AbsOf,
     Position!AbsOf, HALF_FIELD_MAXX, Position!HALF_FIELD_MAXX
<1> QED
  BY <1>2, <1>3, <1>5 DEF PositionInv, Position!TypeOK

-----------------------------------------------------------------------------
(* The filter: how a swing fades *)

\* The variances up to the one at which noise and gain balance.
Variances == 0 .. 372

\* Whether a variance of low or more follows one of k.
Reaches(k, low) == 1000 * (low - 101) < k * (1101 - low)

\* A variance that reaches another is followed by one as large.
LEMMA VarianceReaches ==
  \A k, low \in Variances : Reaches(k, low) => low <= Position!Variance(k)
<1> SUFFICES ASSUME NEW k \in Variances, NEW low \in Variances, Reaches(k, low)
             PROVE  low <= Position!Variance(k)
  OBVIOUS
<1> USE DEF Variances
<1> DEFINE g == (k * k) \div (k + 1000)
<1>1. g \in Int /\ g * (k + 1000) <= k * k
  BY DivRounds
<1>2. Position!Variance(k) = k - g + 100
  BY DEF Position!Variance, Position!Gain, Position!SIGMA_SQ_OBSVN_POS,
         Position!SIGMA_SQ_NOISE_POS
<1> HIDE DEF g
<1>3. SUFFICES ASSUME k + 101 - low <= g PROVE FALSE
  BY <1>1, <1>2
<1>4. (k + 101 - low) * (k + 1000) <= g * (k + 1000)
  <2>1. k + 101 - low \in Int /\ k + 1000 \in Int /\ k + 1000 >= 0
    OBVIOUS
  <2> QED
    BY <1>1, <1>3, <2>1, Grows
<1>5. (k + 101 - low) * (k + 1000) = k * k + k * (1101 - low) - 1000 * (low - 101)
  <2>1. k \in Int /\ low \in Int
    OBVIOUS
  <2> QED
    BY <2>1
<1>6. /\ k * k \in Int /\ g * (k + 1000) \in Int /\ k * (1101 - low) \in Int
      /\ 1000 * (low - 101) \in Int
  BY <1>1
<1>7. 1000 * (low - 101) < k * (1101 - low)
  BY DEF Reaches
<1> QED
  BY <1>1, <1>4, <1>5, <1>6, <1>7

\* Up to the balance the variance rises, in four frames to where the gain takes
\* an eighth off a swing.
LEMMA VarianceRises ==
  ASSUME NEW k \in Variances
  PROVE  /\ Position!Variance(k) \in Variances /\ 100 <= Position!Variance(k)
         /\ k <= Position!Variance(k)
         /\ k >= 100 => Position!Variance(k) >= 191
         /\ k >= 191 => Position!Variance(k) >= 261
         /\ k >= 261 => Position!Variance(k) >= 307
         /\ k >= 307 => Position!Variance(k) >= 335
<1> USE DEF Variances
<1>1. Position!Variance(k) \in 0 .. 375
  <2>1. k \in 0 .. 375
    OBVIOUS
  <2> QED
    BY <2>1, VarianceBounded
<1>2. Position!Variance(k) <= 372
  <2> DEFINE g == (k * k) \div (k + 1000)
  <2>1. g \in Int /\ k * k < (g + 1) * (k + 1000)
    BY DivRounds
  <2>2. Position!Variance(k) = k - g + 100
    BY DEF Position!Variance, Position!Gain, Position!SIGMA_SQ_OBSVN_POS,
           Position!SIGMA_SQ_NOISE_POS
  <2> HIDE DEF g
  <2>3. SUFFICES ASSUME g + 1 <= k - 272 PROVE FALSE
    BY <1>1, <2>1, <2>2
  <2>4. (g + 1) * (k + 1000) <= (k - 272) * (k + 1000)
    BY <2>1, <2>3, Grows
  <2>5. (k - 272) * (k + 1000) = k * k + 728 * k - 272000
    OBVIOUS
  <2>6. k * k \in Int /\ (g + 1) * (k + 1000) \in Int
    BY <2>1
  <2> QED
    BY <2>1, <2>4, <2>5, <2>6
<1>3. /\ Reaches(k, k)
      /\ Reaches(k, 100)
      /\ k >= 100 => Reaches(k, 191)
      /\ k >= 191 => Reaches(k, 261)
      /\ k >= 261 => Reaches(k, 307)
      /\ k >= 307 => Reaches(k, 335)
  <2>1. k * k <= 372 * k
    BY Grows
  <2>2. k * (1101 - k) = 1101 * k - k * k /\ k * k \in Int
    OBVIOUS
  <2> QED
    BY <2>1, <2>2 DEF Reaches
<1>4. /\ k \in Variances /\ 100 \in Variances /\ 191 \in Variances
      /\ 261 \in Variances /\ 307 \in Variances /\ 335 \in Variances
  BY DEF Variances
<1>5. \A low \in Variances : Reaches(k, low) => low <= Position!Variance(k)
  BY VarianceReaches DEF Variances
<1> QED
  BY <1>1, <1>2, <1>3, <1>4, <1>5

\* Squares compare as the numbers do.
LEMMA SquareBounds ==
  ASSUME NEW x \in Int, NEW b \in Nat
  PROVE  x * x <= b * b <=> -b <= x /\ x <= b
<1>1. ASSUME NEW y \in Nat PROVE y * y <= b * b <=> y <= b
  <2>1. y <= b => y * y <= b * b
    <3>1. y <= b => y * y <= b * y /\ b * y <= b * b
      BY <1>1, Grows
    <3> QED
      BY <1>1, <3>1
  <2>2. b < y => b * b < y * y
    <3>1. b < y => b * b <= y * b /\ b * y < y * y
      BY <1>1
    <3> QED
      BY <1>1, <3>1
  <2> QED
    BY <1>1, <2>1, <2>2
<1>2. CASE x >= 0
  BY <1>1, <1>2
<1>3. CASE x < 0
  <2>1. -x \in Nat /\ (-x) * (-x) = x * x
    BY <1>3
  <2>2. (-x) * (-x) <= b * b <=> -x <= b
    BY <1>1, <2>1
  <2> QED
    BY <1>3, <2>1, <2>2
<1> QED
  BY <1>2, <1>3

\* The energy of a swing with an error e and a velocity v: what a gain of
\* variance k makes of both is told by one number.
Energy(k, e, v) == k * (e * e) + 1000 * (v * v)

\* A swing has no more energy than an error b at rest.
SwingsIn(k, e, v, b) == Energy(k, e, v) <= k * (b * b)

\* A frame takes the error and velocity e and v to the error x, and the division
\* leaves the rest r.
Leaves(k, e, v, x, r) ==
  r \in 0 .. k + 999 /\ (k + 1000) * x = 1000 * (e + v) - r

\* What is left of the energy then: 1000 / (k + 1000) of it, but for the rest.
Remains(k, e, v, x, r) ==
  (k + 1000) * Energy(k, x, x - e)
    = (1000 * v - r) * (1000 * v - r) + 1000 * (k * (e * e))

\* Every frame leaves that.
LEMMA FrameEnergy ==
  \A k \in Nat, e, v, x, r \in Int : Leaves(k, e, v, x, r) => Remains(k, e, v, x, r)
<1> SUFFICES
      ASSUME NEW k \in Nat, NEW e \in Int, NEW v \in Int, NEW x \in Int, NEW r \in Int,
             Leaves(k, e, v, x, r)
      PROVE  Remains(k, e, v, x, r)
  OBVIOUS
<1>0. (k + 1000) * x = 1000 * (e + v) - r
  BY DEF Leaves
<1> DEFINE d == x - e
           q == k * x
           w == 1000 * v - r
<1>1. d \in Int /\ q \in Int /\ w \in Int /\ e = x - d /\ w = q + 1000 * d
  BY <1>0
<1>2. /\ w * w = q * q + 2000 * (q * d) + 1000000 * (d * d)
      /\ e * e = x * x - 2 * (x * d) + d * d
  <2> HIDE DEF d, q, w
  <2>1. w * w = (q + 1000 * d) * (q + 1000 * d) /\ e * e = (x - d) * (x - d)
    BY <1>1
  <2> QED
    BY <1>1, <2>1
<1>3. q * q = k * (k * (x * x)) /\ q * d = k * (x * d)
  OBVIOUS
<1> DEFINE a == x * x
           b == x * d
           c == d * d
<1>4. a \in Int /\ b \in Int /\ c \in Int
  BY <1>1
<1>5. (k + 1000) * Energy(k, x, d)
        = k * (k * a) + 1000 * (k * a) + 1000 * (k * c) + 1000000 * c
  <2>1. Energy(k, x, d) = k * a + 1000 * c
    BY DEF Energy
  <2> HIDE DEF a, b, c, d
  <2>2. (k + 1000) * (k * a + 1000 * c)
          = k * (k * a) + 1000 * (k * a) + 1000 * (k * c) + 1000000 * c
    BY <1>4
  <2> QED
    BY <2>1, <2>2
<1>6. k * (e * e) = k * a - 2 * (k * b) + k * c
  <2>1. e * e = a - 2 * b + c
    BY <1>2
  <2> HIDE DEF a, b, c, d
  <2>2. k * (a - 2 * b + c) = k * a - 2 * (k * b) + k * c
    BY <1>4
  <2> QED
    BY <2>1, <2>2
<1>7. w * w = k * (k * a) + 2000 * (k * b) + 1000000 * c
  BY <1>2, <1>3
<1>8. k * (k * a) \in Int /\ k * a \in Int /\ k * b \in Int /\ k * c \in Int
  <2> HIDE DEF a, b, c
  <2> QED
    BY <1>4
<1> QED
  <2>1. (k + 1000) * Energy(k, x, d) = w * w + 1000 * (k * (e * e))
    <3> HIDE DEF a, b, c, w
    <3> QED
      BY <1>4, <1>5, <1>6, <1>7, <1>8
  <2> QED
    BY <2>1 DEF Remains

\* A swing whose energy is that of an error b at most has no larger one, and no
\* velocity above 5/8 of it.
LEMMA SwingBounded ==
  \A k \in Variances, e, v \in Int, b \in Nat : k >= 1 /\ SwingsIn(k, e, v, b) =>
    -b <= e /\ e <= b /\ -5 * b <= 8 * v /\ 8 * v <= 5 * b
<1> SUFFICES
      ASSUME NEW k \in Variances, k >= 1, NEW e \in Int, NEW v \in Int, NEW b \in Nat,
             Energy(k, e, v) <= k * (b * b)
      PROVE  -b <= e /\ e <= b /\ -5 * b <= 8 * v /\ 8 * v <= 5 * b
  BY DEF SwingsIn
<1> DEFINE p == e * e
           q == v * v
           s == b * b
<1>1. p \in Nat /\ q \in Nat /\ s \in Nat
  <2>1. \A y \in Int : y * y \in Nat
    <3>1. ASSUME NEW y \in Int PROVE y * y >= 0 /\ y * y \in Int
      OBVIOUS
    <3> QED
      BY <3>1
  <2> QED
    BY <2>1
<1>2. /\ k * p + 1000 * q <= k * s
      /\ k \in Int /\ k >= 1 /\ k <= 372
  BY DEF Energy, Variances
<1>3. (8 * v) * (8 * v) = 64 * q /\ (5 * b) * (5 * b) = 25 * s
  OBVIOUS
<1> HIDE DEF p, q, s
<1>4. k * p \in Nat /\ k * s \in Nat /\ k * s <= 372 * s
  BY <1>1, <1>2, Grows
<1>5. p <= s
  <2>1. k * p <= k * s /\ k * p = p * k /\ k * s = s * k
    BY <1>1, <1>2, <1>4
  <2> QED
    BY <1>1, <1>2, <2>1, Cancels
<1>6. 64 * q <= 25 * s
  BY <1>1, <1>2, <1>4
<1>7. -b <= e /\ e <= b
  BY <1>5, SquareBounds DEF p, s
<1>8. -(5 * b) <= 8 * v /\ 8 * v <= 5 * b
  <2>1. 8 * v \in Int /\ 5 * b \in Nat /\ (8 * v) * (8 * v) <= (5 * b) * (5 * b)
    BY <1>3, <1>6
  <2>2. \A y \in Int, d \in Nat : y * y <= d * d => -d <= y /\ y <= d
    BY SquareBounds
  <2> HIDE DEF q, s
  <2> QED
    BY <2>1, <2>2
<1> QED
  BY <1>7, <1>8

\* No more than this is left of a swing that b bounds, the rest included.
RemainsIn(k, m, b) ==
  (k + 1000) * m
    <= 1000 * (k * (b * b)) + 1250 * ((k + 1000) * b) + (k + 1000) * (k + 1000)

\* A frame leaves no more than that.
LEMMA EnergyLeft ==
  \A k \in Variances, e, v, x, r \in Int, b \in Nat :
    k >= 1 /\ Leaves(k, e, v, x, r) /\ SwingsIn(k, e, v, b) =>
      RemainsIn(k, Energy(k, x, x - e), b)
<1> SUFFICES
      ASSUME NEW k \in Variances, k >= 1, NEW e \in Int, NEW v \in Int, NEW x \in Int,
             NEW r \in Int, NEW b \in Nat, Leaves(k, e, v, x, r), SwingsIn(k, e, v, b)
      PROVE  RemainsIn(k, Energy(k, x, x - e), b)
  OBVIOUS
<1>0. /\ r \in 0 .. k + 999 /\ (k + 1000) * x = 1000 * (e + v) - r
      /\ Energy(k, e, v) <= k * (b * b)
  BY DEF Leaves, SwingsIn
<1> DEFINE K == k + 1000
           w == 1000 * v - r
           u == v * v
           t == r * v
<1>1. k \in Nat /\ r \in Int /\ K \in Nat /\ 0 <= r /\ r <= K /\ b \in Int
  BY <1>0 DEF Variances
<1>2. K * Energy(k, x, x - e) = w * w + 1000 * (k * (e * e))
  <2>1. Remains(k, e, v, x, r)
    BY <1>1, FrameEnergy
  <2> QED
    BY <2>1 DEF Remains
<1>3. w * w = 1000000 * u - 2000 * t + r * r
  BY <1>1
<1>4. 1000 * Energy(k, e, v) = 1000 * (k * (e * e)) + 1000000 * u
  <2>1. k * (e * e) \in Int /\ u \in Int
    BY <1>1
  <2> HIDE DEF u
  <2> QED
    BY <2>1 DEF Energy, u
<1>5. r * r <= K * K
  <2>1. r * r <= K * r /\ K * r <= K * K
    BY <1>1, Grows
  <2> QED
    BY <1>1, <2>1
<1>6. -2000 * t <= 1250 * (K * b)
  <2>1. -5 * b <= 8 * v
    BY SwingBounded
  <2>2. r * (-5 * b) <= r * (8 * v)
    <3>1. -5 * b \in Int /\ 8 * v \in Int
      BY <1>1
    <3> QED
      BY <1>1, <2>1, <3>1, Grows
  <2>3. r * b <= K * b
    BY <1>1, Grows
  <2>4. r * (-5 * b) = -5 * (r * b) /\ r * (8 * v) = 8 * t
    BY <1>1
  <2>5. r * b \in Int /\ K * b \in Int /\ t \in Int
    BY <1>1
  <2> HIDE DEF t, K
  <2> QED
    BY <2>2, <2>3, <2>4, <2>5
<1>7. /\ k * (e * e) \in Int /\ u \in Int /\ t \in Int /\ r * r \in Int
      /\ K * b \in Int /\ K * K \in Int /\ k * (b * b) \in Int
      /\ Energy(k, e, v) \in Int
  BY <1>1 DEF Energy
<1> QED
  <2> HIDE DEF u, t, w, K
  <2>1. w * w + 1000 * (k * (e * e))
          <= 1000 * (k * (b * b)) + 1250 * (K * b) + K * K
    BY <1>0, <1>3, <1>4, <1>5, <1>6, <1>7
  <2> QED
    BY <1>2, <2>1 DEF K, RemainsIn

\* From the fourth frame on a frame takes an eighth off a swing.
LEMMA SwingFades ==
  \A k \in Variances, e, v, x, r \in Int, b, c \in Nat :
    k >= 335 /\ Leaves(k, e, v, x, r) /\ SwingsIn(k, e, v, b) /\ 7 * b + 18 <= 8 * c
      => SwingsIn(k, x, x - e, c)
<1> SUFFICES
      ASSUME NEW k \in Variances, k >= 335, NEW e \in Int, NEW v \in Int, NEW x \in Int,
             NEW r \in Int, NEW b \in Nat, NEW c \in Nat, 7 * b + 18 <= 8 * c,
             Leaves(k, e, v, x, r), SwingsIn(k, e, v, b)
      PROVE  Energy(k, x, x - e) <= k * (c * c)
  BY DEF SwingsIn
<1> DEFINE K == k + 1000
           s == b * b
           m == Energy(k, x, x - e)
<1>1. k \in Int /\ K \in Int /\ K = k + 1000 /\ k >= 335 /\ k <= 372
  BY DEF Variances
<1>2. K * m <= 1000 * (k * s) + 1250 * (K * b) + K * K
  <2>1. RemainsIn(k, m, b)
    BY <1>1, EnergyLeft
  <2> QED
    BY <2>1 DEF RemainsIn
<1>3. m \in Int /\ s \in Nat
  <2>1. k * (x * x) \in Int /\ (x - e) * (x - e) \in Int
    BY <1>1
  <2> QED
    BY <2>1 DEF Energy
<1>4. 49 * s + 252 * b + 324 <= 64 * (c * c)
  <2>1. (7 * b + 18) * (7 * b + 18) <= (8 * c) * (8 * c)
    <3>1. 7 * b + 18 \in Int /\ 8 * c \in Nat
      OBVIOUS
    <3>2. \A y \in Int, d \in Nat : -d <= y /\ y <= d => y * y <= d * d
      BY SquareBounds
    <3> QED
      BY <3>1, <3>2
  <2>2. (7 * b + 18) * (7 * b + 18) = 49 * s + 252 * b + 324
    OBVIOUS
  <2>3. (8 * c) * (8 * c) = 64 * (c * c)
    OBVIOUS
  <2> QED
    BY <2>1, <2>2, <2>3
<1> HIDE DEF s, m, K
<1> DEFINE n == K * k
<1>5. n * (49 * s + 252 * b + 324) <= n * (64 * (c * c))
  <2>1. n \in Int /\ n >= 0 /\ c * c \in Int
    BY <1>1
  <2> QED
    BY <1>3, <1>4, <2>1, Grows
<1>6. /\ 64000 * (k * s) <= 49 * (n * s)
      /\ 80000 * (K * b) <= 252 * (n * b)
      /\ 64 * (K * K) <= 324 * n
  <2>1. 64000 * k <= 49 * n /\ 80000 * K <= 252 * n /\ 64 * (K * K) <= 324 * n
    <3>1. 1335 * k <= n /\ 335 * K <= n /\ K * K <= K * 1372
      <4>1. 1335 <= K /\ K <= 1372 /\ K * k = k * K
        BY <1>1
      <4> QED
        BY <1>1, <4>1, Grows
    <3> QED
      BY <1>1, <3>1
  <2>2. n \in Int /\ (64000 * k) * s <= (49 * n) * s /\ (80000 * K) * b <= (252 * n) * b
    <3>1. 64000 * k \in Int /\ 49 * n \in Int /\ 80000 * K \in Int /\ 252 * n \in Int
      BY <1>1
    <3> QED
      BY <1>1, <1>3, <2>1, <3>1, Grows
  <2>3. /\ (64000 * k) * s = 64000 * (k * s) /\ (49 * n) * s = 49 * (n * s)
        /\ (80000 * K) * b = 80000 * (K * b) /\ (252 * n) * b = 252 * (n * b)
    <3> HIDE DEF n
    <3> QED
      BY <1>1, <1>3, <2>2
  <2> QED
    BY <2>1, <2>2, <2>3
<1>7. n * (49 * s + 252 * b + 324) = 49 * (n * s) + 252 * (n * b) + 324 * n
  <2>1. n \in Int
    BY <1>1
  <2> HIDE DEF n
  <2> QED
    BY <1>3, <2>1
<1>8. n * (64 * (c * c)) = 64 * (n * (c * c)) /\ n * (c * c) = (k * (c * c)) * K
  <2>1. c * c \in Int
    OBVIOUS
  <2>2. \A y \in Int : n * (64 * y) = 64 * (n * y) /\ n * y = (k * y) * K
    BY <1>1
  <2> QED
    BY <2>1, <2>2
<1>9. /\ k * s \in Int /\ K * b \in Int /\ K * K \in Int /\ n \in Int
      /\ n * s \in Int /\ n * b \in Int /\ K * m \in Int
      /\ k * (c * c) \in Int /\ (k * (c * c)) * K \in Int
  BY <1>1, <1>3
<1>10. K * m <= (k * (c * c)) * K
  <2> HIDE DEF n
  <2> QED
    BY <1>2, <1>5, <1>6, <1>7, <1>8, <1>9
<1>11. m * K <= (k * (c * c)) * K
  <2>1. m * K = K * m
    BY <1>1, <1>3
  <2> QED
    BY <1>10, <2>1
<1>12. m <= k * (c * c)
  BY <1>1, <1>3, <1>9, <1>11, Cancels
<1> QED
  BY <1>12 DEF m

\* Before that it leaves it no larger.
LEMMA SwingLasts ==
  \A k \in Variances, e, v, x, r \in Int, b \in Nat :
    k >= 100 /\ Leaves(k, e, v, x, r) /\ SwingsIn(k, e, v, b) /\ b >= 200
      => SwingsIn(k, x, x - e, b)
<1> SUFFICES
      ASSUME NEW k \in Variances, k >= 100, NEW e \in Int, NEW v \in Int, NEW x \in Int,
             NEW r \in Int, NEW b \in Nat, b >= 200,
             Leaves(k, e, v, x, r), SwingsIn(k, e, v, b)
      PROVE  Energy(k, x, x - e) <= k * (b * b)
  BY DEF SwingsIn
<1> DEFINE K == k + 1000
           s == b * b
           m == Energy(k, x, x - e)
<1>1. k \in Int /\ K \in Int /\ K = k + 1000 /\ k >= 100 /\ k <= 372
  BY DEF Variances
<1>2. K * m <= 1000 * (k * s) + 1250 * (K * b) + K * K
  <2>1. RemainsIn(k, m, b)
    BY <1>1, EnergyLeft
  <2> QED
    BY <2>1 DEF RemainsIn
<1>3. m \in Int /\ s \in Nat /\ 200 * b <= s
  <2>1. k * (x * x) \in Int /\ (x - e) * (x - e) \in Int
    BY <1>1
  <2>2. 200 * b <= s
    BY Grows
  <2> QED
    BY <2>1, <2>2 DEF Energy
<1> HIDE DEF s, m, K
<1>4. 1250 * (K * b) + K * K <= k * (k * s)
  <2>1. K * b <= 1372 * b /\ K * K <= K * 1372
    BY <1>1, Grows
  <2>2. 100 * s <= k * s /\ 100 * (k * s) <= k * (k * s)
    <3>1. k * s \in Int /\ k * s >= 0
      BY <1>1, <1>3
    <3> QED
      BY <1>1, <1>3, <3>1, Grows
  <2>3. K * b \in Int /\ K * K \in Int /\ k * s \in Int /\ k * (k * s) \in Int
    BY <1>1, <1>3
  <2> QED
    BY <1>1, <1>3, <2>1, <2>2, <2>3
<1>5. (k * s) * K = 1000 * (k * s) + k * (k * s)
  BY <1>1, <1>3
<1>6. /\ k * s \in Int /\ K * b \in Int /\ K * K \in Int /\ k * (k * s) \in Int
      /\ K * m \in Int /\ m * K = K * m
  BY <1>1, <1>3
<1>7. m * K <= (k * s) * K
  BY <1>2, <1>4, <1>5, <1>6
<1>8. m <= k * s
  BY <1>1, <1>3, <1>6, <1>7, Cancels
<1> QED
  BY <1>8 DEF m, s

\* A bound on the swing, in tenths of a millimetre, n frames after the last move:
\* none of it goes while the gain builds up, then an eighth a frame at least, so
\* that six frames halve it, until it is less than a robot's radius.
Halves == <<2816, 1408, 704, 352, 176, 88, 44, 22, 11>>
Sixths == <<256, 225, 198, 174, 153, 135>>

Faded(m) == Halves[(m \div 6) + 1] * Sixths[(m % 6) + 1]

Bound(n) == Faded(IF n < 4 THEN 0 ELSE IF n < 52 THEN n - 4 ELSE 48)

\* The bound stays far above what the rests of the divisions add.
LEMMA FadedBounds ==
  \A m \in 0 .. 48 : Faded(m) \in Nat /\ Faded(m) >= 200
<1> SUFFICES ASSUME NEW m \in 0 .. 48 PROVE Faded(m) \in Nat /\ Faded(m) >= 200
  OBVIOUS
<1> DEFINE h == Halves[(m \div 6) + 1]
           s == Sixths[(m % 6) + 1]
<1>1. (m \div 6) + 1 \in 1 .. 9 /\ (m % 6) + 1 \in 1 .. 6
  OBVIOUS
<1>2. \A i \in 1 .. 9 : Halves[i] \in Nat /\ Halves[i] >= 11
  BY DEF Halves
<1>3. \A i \in 1 .. 6 : Sixths[i] \in Nat /\ Sixths[i] >= 128
  BY DEF Sixths
<1>4. h \in Nat /\ h >= 11 /\ s \in Nat /\ s >= 128
  BY <1>1, <1>2, <1>3
<1> HIDE DEF h, s
<1>5. 11 * s <= h * s /\ h * s \in Nat
  BY <1>4, Grows
<1> QED
  BY <1>4, <1>5 DEF Faded, h, s

\* A frame's step down the bound is an eighth of it at most.
LEMMA FadedStep ==
  \A m \in 0 .. 47 : 7 * Faded(m) + 18 <= 8 * Faded(m + 1)
<1> SUFFICES ASSUME NEW m \in 0 .. 47 PROVE 7 * Faded(m) + 18 <= 8 * Faded(m + 1)
  OBVIOUS
<1>1. PICK j \in 1 .. 8, i \in 1 .. 6 : j = (m \div 6) + 1 /\ i = (m % 6) + 1
  OBVIOUS
<1>2. \A a \in 1 .. 8 : Halves[a] \in Nat /\ Halves[a] >= 22 /\ Halves[a] = 2 * Halves[a + 1]
  BY DEF Halves
<1>3. \A a \in 1 .. 5 : /\ Sixths[a] \in Nat /\ Sixths[a + 1] \in Nat
                       /\ 7 * Sixths[a] + 1 <= 8 * Sixths[a + 1]
  BY DEF Sixths
<1>4. Sixths[6] = 135 /\ Sixths[1] = 256
  BY DEF Sixths
<1>5. PICK h \in Nat : h = Halves[j]
  BY <1>2
<1>6. h >= 22
  BY <1>2, <1>5
<1>7. CASE i < 6
  <2>1. ((m + 1) \div 6) + 1 = j /\ ((m + 1) % 6) + 1 = i + 1
    BY <1>1, <1>7
  <2>2. PICK s \in Nat, t \in Nat : s = Sixths[i] /\ t = Sixths[i + 1] /\ 7 * s + 1 <= 8 * t
    <3>1. i \in 1 .. 5
      BY <1>7
    <3> QED
      BY <1>3, <3>1
  <2>3. Faded(m) = h * s /\ Faded(m + 1) = h * t
    BY <1>1, <1>5, <2>1, <2>2 DEF Faded
  <2>4. h * (7 * s + 1) <= h * (8 * t)
    <3>1. 7 * s + 1 \in Int /\ 8 * t \in Int
      OBVIOUS
    <3> QED
      BY <2>2, <3>1, Grows
  <2>5. h * (7 * s + 1) = 7 * (h * s) + h /\ h * (8 * t) = 8 * (h * t)
    OBVIOUS
  <2>6. h * s \in Int /\ h * t \in Int
    OBVIOUS
  <2> QED
    BY <1>6, <2>3, <2>4, <2>5, <2>6
<1>8. CASE i = 6
  <2>1. ((m + 1) \div 6) + 1 = j + 1 /\ ((m + 1) % 6) + 1 = 1
    BY <1>1, <1>8
  <2>2. PICK g \in Nat : g = Halves[j + 1] /\ h = 2 * g
    <3>1. j + 1 \in 1 .. 9 /\ \A a \in 1 .. 9 : Halves[a] \in Nat
      BY DEF Halves
    <3> QED
      BY <1>2, <1>5, <3>1
  <2>3. Faded(m) = h * 135 /\ Faded(m + 1) = g * 256
    BY <1>1, <1>4, <1>5, <1>8, <2>1, <2>2 DEF Faded
  <2> QED
    BY <1>6, <2>2, <2>3
<1> QED
  BY <1>7, <1>8

\* While the body rests the bound follows what the gain takes off.
LEMMA BoundFades ==
  ASSUME NEW n \in Nat
  PROVE  /\ Bound(n) \in Nat /\ Bound(n) >= 200
         /\ n < 4 => Bound(n + 1) = Bound(n)
         /\ n >= 4 => 7 * Bound(n) + 18 <= 8 * Bound(n + 1)
         /\ 7 * Bound(n) + 18 <= 8 * Bound(n)
<1> DEFINE M(i) == IF i < 4 THEN 0 ELSE IF i < 52 THEN i - 4 ELSE 48
<1>1. M(n) \in 0 .. 48 /\ Bound(n) = Faded(M(n)) /\ Bound(n + 1) = Faded(M(n + 1))
  BY DEF Bound
<1>2. Bound(n) \in Nat /\ Bound(n) >= 200
  BY <1>1, FadedBounds
<1>3. n < 4 => M(n + 1) = M(n)
  OBVIOUS
<1>4. n >= 4 => \/ M(n) \in 0 .. 47 /\ M(n + 1) = M(n) + 1
                \/ M(n + 1) = M(n)
  OBVIOUS
<1> HIDE DEF M
<1>5. n >= 4 => 7 * Bound(n) + 18 <= 8 * Bound(n + 1)
  <2>1. M(n) \in 0 .. 47 /\ M(n + 1) = M(n) + 1 => 7 * Bound(n) + 18 <= 8 * Bound(n + 1)
    BY <1>1, FadedStep
  <2>2. M(n + 1) = M(n) => 7 * Bound(n) + 18 <= 8 * Bound(n + 1)
    BY <1>1, <1>2
  <2> QED
    BY <1>4, <2>1, <2>2
<1> QED
  BY <1>1, <1>2, <1>3, <1>5

\* The first and the last of the bounds.
LEMMA BoundEnds ==
  Bound(0) = 720896 /\ \A n \in Nat : n >= 52 => Bound(n) = 2816
<1>1. Faded(0) = 720896 /\ Faded(48) = 2816
  <2>1. 0 \div 6 = 0 /\ 0 % 6 = 0 /\ 48 \div 6 = 8 /\ 48 % 6 = 0
    OBVIOUS
  <2>2. Halves[1] = 2816 /\ Halves[9] = 11 /\ Sixths[1] = 256
    BY DEF Halves, Sixths
  <2> QED
    BY <2>1, <2>2 DEF Faded
<1> QED
  BY <1>1 DEF Bound

Error == pose - 10 * place

\* The estimate is no farther out than a robot starts, the gain has built up with the
\* frames since the last move, and the swing is within its bound.
Fading ==
  /\ posSigmaSq \in Variances
  /\ -106480 <= pose /\ pose <= 106480
  /\ still >= 1 => posSigmaSq >= 100
  /\ still >= 2 => posSigmaSq >= 191
  /\ still >= 3 => posSigmaSq >= 261
  /\ still >= 4 => posSigmaSq >= 307
  /\ SwingsIn(Position!Variance(posSigmaSq), Error, velocity, Bound(still))

\* A swing within a field's length of error and velocity is within its bound.
LEMMA SwingStarts ==
  \A k \in Variances, e, v \in Int :
    /\ k >= 100
    /\ -200960 <= e /\ e <= 200960 /\ -200960 <= v /\ v <= 200960
    => SwingsIn(k, e, v, Bound(0))
<1> SUFFICES ASSUME NEW k \in Variances, NEW e \in Int, NEW v \in Int, k >= 100,
                    -200960 <= e, e <= 200960, -200960 <= v, v <= 200960
             PROVE  SwingsIn(k, e, v, Bound(0))
  OBVIOUS
<1>1. e * e <= 200960 * 200960 /\ v * v <= 200960 * 200960
  <2>1. 200960 \in Nat
    OBVIOUS
  <2>2. \A y \in Int, d \in Nat : -d <= y /\ y <= d => y * y <= d * d
    BY SquareBounds
  <2> QED
    BY <2>1, <2>2
<1>2. k \in Int /\ k >= 100 /\ k <= 372
  BY DEF Variances
<1>3. PICK p \in Int, q \in Int : p = e * e /\ q = v * v
  OBVIOUS
<1>4. k * p <= k * 40384921600
  BY <1>1, <1>2, <1>3, Grows
<1>5. 100 * 403849216000 <= k * 403849216000
  BY <1>2, Grows
<1>6. Bound(0) * Bound(0) = 519691042816
  BY BoundEnds
<1>7. k * p + 1000 * q <= k * 519691042816
  BY <1>1, <1>2, <1>3, <1>4, <1>5
<1> QED
  BY <1>3, <1>6, <1>7 DEF SwingsIn, Energy

\* A robot is believed off the field at first, and at rest.
LEMMA InitFades == Init => Fading
<1> SUFFICES ASSUME Init PROVE Fading
  OBVIOUS
<1>1. /\ pose \in {106480, 0} /\ velocity = 0 /\ posSigmaSq = 0 /\ still = 0
      /\ place \in -9448 .. 9448
  BY PlacesAssumption DEF PlacesAssumption, Init, Position!Init, Position!RobotStart,
     Position!BallStart, Position!HALF_FIELD_MAXX, Position!BOT_RADIUS, HALF_FIELD_MAXX
<1>2. posSigmaSq \in Variances
  BY <1>1 DEF Variances
<1>3. Position!Variance(posSigmaSq) \in Variances /\ 100 <= Position!Variance(posSigmaSq)
  BY <1>2, VarianceRises
<1>4. Error \in Int /\ -200960 <= Error /\ Error <= 200960
  BY <1>1 DEF Error
<1>5. SwingsIn(Position!Variance(posSigmaSq), Error, velocity, Bound(still))
  <2>1. velocity \in Int /\ -200960 <= velocity /\ velocity <= 200960
    BY <1>1
  <2> QED
    BY <1>1, <1>3, <1>4, <2>1, SwingStarts
<1> QED
  BY <1>1, <1>2, <1>5 DEF Fading

\* What a frame does to the filter of a body seen at z: the prediction with its
\* share of the measurement is taken, or is off the field and given up.
LEMMA FrameTaken ==
  ASSUME PositionInv, Fading, NEW z \in Places, Position!Frame(z)
  PROVE  LET k == Position!Variance(posSigmaSq)
             p == pose + velocity + Position!Gain(k, 10 * z - (pose + velocity))
         IN /\ posSigmaSq' = k /\ place' = z /\ z \in -9448 .. 9448 /\ p \in Int
            /\ \/ pose' = p /\ velocity' = p - pose /\ -94480 <= p /\ p <= 94480
               \/ pose' = 10 * z /\ velocity' = 0
<1> DEFINE k == Position!Variance(posSigmaSq)
           n == 10 * z - (pose + velocity)
           p == pose + velocity + Position!Gain(k, n)
<1>1. z \in -9448 .. 9448
  BY PlacesAssumption DEF PlacesAssumption, HALF_FIELD_MAXX
<1>2. k \in Nat /\ pose \in Int /\ velocity \in Int /\ n \in Int
  <2>1. k \in Variances
    BY VarianceRises DEF Fading
  <2>2. pose \in Int /\ velocity \in Int
    BY DEF PositionInv, Position!TypeOK
  <2> HIDE DEF k
  <2> QED
    BY <1>1, <2>1, <2>2 DEF Variances
<1>3. Position!Gain(k, n) \in Int
  <2>1. Position!Gain(k, n) = (k * n) \div (k + 1000)
    BY DEF Position!Gain, Position!SIGMA_SQ_OBSVN_POS
  <2>2. \A i \in Nat, j \in Int : (i * j) \div (i + 1000) \in Int
    BY DivRounds
  <2> HIDE DEF k, n
  <2> QED
    BY <1>2, <2>1, <2>2
<1>4. posSigmaSq' = k /\ place' = z /\ Position!checkValid(p, 10 * z)
  BY DEF Position!Frame, Position!addInfo
<1>5. p \in Int
  BY <1>2, <1>3
<1> HIDE DEF p
<1>6. \/ pose' = p /\ velocity' = p - pose /\ -94480 <= p /\ p <= 94480
      \/ pose' = 10 * z /\ velocity' = 0
  BY <1>4, <1>5 DEF Position!checkValid, Position!AbsOf, Position!HALF_FIELD_MAXX
<1> QED
  BY <1>1, <1>4, <1>5, <1>6 DEF p

\* A larger variance tells a swing no larger.
LEMMA SwingKept ==
  \A k, l \in Variances, e, v \in Int, b \in Nat :
    k >= 1 /\ k <= l /\ SwingsIn(k, e, v, b) => SwingsIn(l, e, v, b)
<1> SUFFICES ASSUME NEW k \in Variances, NEW l \in Variances, NEW e \in Int, NEW v \in Int,
                    NEW b \in Nat, k >= 1, k <= l, SwingsIn(k, e, v, b)
             PROVE  SwingsIn(l, e, v, b)
  OBVIOUS
<1>1. -b <= e /\ e <= b
  BY SwingBounded
<1>2. e * e <= b * b
  BY <1>1, SquareBounds
<1>3. PICK p \in Int, q \in Int, s \in Int : p = e * e /\ q = v * v /\ s = b * b
  OBVIOUS
<1>4. k \in Int /\ l \in Int /\ l - k \in Int /\ l - k >= 0
  BY DEF Variances
<1>5. (l - k) * p <= (l - k) * s
  BY <1>2, <1>3, <1>4, Grows
<1>6. (l - k) * p = l * p - k * p /\ (l - k) * s = l * s - k * s
  BY <1>3, <1>4
<1>7. k * p + 1000 * q <= k * s
  BY <1>3 DEF SwingsIn, Energy
<1>8. l * p \in Int /\ k * p \in Int /\ l * s \in Int /\ k * s \in Int
  BY <1>3, <1>4
<1>9. l * p + 1000 * q <= l * s
  BY <1>3, <1>5, <1>6, <1>7, <1>8
<1> QED
  BY <1>3, <1>9 DEF SwingsIn, Energy

\* While a body rests its swing fades as the bound does.
LEMMA RestFades ==
  ASSUME PositionInv, Fading, Settling >= 52, Position!Frame(place)
  PROVE  Fading'
<1> DEFINE k == Position!Variance(posSigmaSq)
           l == Position!Variance(k)
           e == Error
           v == velocity
           b == Bound(still)
           n == -(e + v)
           g == Position!Gain(k, n)
           x == e + v + g
           r == k * n - (k + 1000) * g
           p == pose + v + Position!Gain(k, 10 * place - (pose + v))
<1>1. /\ pose \in Int /\ v \in Int /\ still \in Nat /\ still <= Settling
      /\ Settling \in Nat /\ place \in Places
  BY PlacesAssumption DEF PlacesAssumption, PositionInv, Position!TypeOK
<1>2. posSigmaSq \in Variances /\ SwingsIn(k, e, v, b)
  BY DEF Fading
<1>3. /\ k \in Variances /\ 100 <= k
      /\ posSigmaSq >= 100 => k >= 191
      /\ posSigmaSq >= 191 => k >= 261
      /\ posSigmaSq >= 261 => k >= 307
      /\ posSigmaSq >= 307 => k >= 335
  BY <1>2, VarianceRises
<1>4. l \in Variances /\ k <= l
  <2> HIDE DEF k
  <2> QED
    BY <1>3, VarianceRises
<1>5. /\ posSigmaSq' = k /\ place' = place /\ place \in -9448 .. 9448 /\ p \in Int
      /\ \/ pose' = p /\ velocity' = p - pose /\ -94480 <= p /\ p <= 94480
         \/ pose' = 10 * place /\ velocity' = 0
  BY <1>1, FrameTaken
<1> HIDE DEF p
<1>6. still' = IF still < Settling THEN still + 1 ELSE still
  BY DEF Position!Frame
<1>7. e \in Int /\ n \in Int /\ n = 10 * place - (pose + v) /\ k \in Int /\ l \in Int
  <2>1. place \in Int
    BY <1>5
  <2> HIDE DEF k, l
  <2> QED
    BY <1>1, <1>3, <1>4, <2>1 DEF Error, Variances
<1>8. g \in Int /\ r \in 0 .. k + 999 /\ (k + 1000) * x = 1000 * (e + v) - r
  <2>1. g = (k * n) \div (k + 1000)
    BY DEF Position!Gain, Position!SIGMA_SQ_OBSVN_POS
  <2> DEFINE o == k * n
             m == k + 1000
  <2> HIDE DEF k, n, g, e, v
  <2>2. o \in Int /\ m \in Int /\ m > 0
    BY <1>3, <1>7
  <2>3. g \in Int /\ g * (k + 1000) <= k * n /\ k * n < (g + 1) * (k + 1000)
    <3>1. g = o \div m
      BY <2>1
    <3> HIDE DEF o, m
    <3>2. g \in Int /\ g * m <= o /\ o < (g + 1) * m
      BY <2>2, <3>1, DivRounds
    <3> QED
      BY <3>2 DEF o, m
  <2>4. PICK t \in Int, u \in Int : t = k * n /\ u = g * k
    BY <1>7, <2>3
  <2>5. g * (k + 1000) = u + 1000 * g /\ (g + 1) * (k + 1000) = u + 1000 * g + k + 1000
    BY <1>7, <2>3, <2>4
  <2>6. r = t - u - 1000 * g
    BY <1>7, <2>3, <2>4, <2>5
  <2>7. r \in 0 .. k + 999
    BY <1>7, <2>3, <2>4, <2>5, <2>6
  <2>8. (k + 1000) * x = 1000 * (e + v) - r
    <3>1. x = g - n /\ e + v = -n
      BY <1>1, <1>7, <2>3 DEF n
    <3>2. (k + 1000) * (g - n) = u + 1000 * g - t - 1000 * n
      BY <1>7, <2>3, <2>4
    <3> HIDE DEF x, r
    <3> QED
      BY <1>7, <2>3, <2>4, <2>6, <3>1, <3>2
  <2> QED
    BY <2>3, <2>7, <2>8
<1>9. x \in Int /\ r \in Int /\ Leaves(k, e, v, x, r)
  <2>1. x \in Int
    BY <1>1, <1>7, <1>8
  <2> HIDE DEF k, e, v, x, r
  <2> QED
    BY <1>8, <2>1 DEF Leaves
<1>10. /\ b \in Nat /\ b >= 200 /\ Bound(still') \in Nat
       /\ still < 4 => still' = still + 1 /\ Bound(still') = b
       /\ still >= 4 => k >= 335 /\ 7 * b + 18 <= 8 * Bound(still')
  <2>1. still < 4 => still' = still + 1
    BY <1>1, <1>6
  <2>2. still >= 4 => k >= 335
    BY <1>3 DEF Fading
  <2>3. still + 1 \in Nat /\ (still' = still + 1 \/ still' = still)
    BY <1>1, <1>6
  <2>4. Bound(still + 1) \in Nat
    BY <2>3, BoundFades
  <2>5. /\ b \in Nat /\ b >= 200
        /\ still < 4 => Bound(still + 1) = b
        /\ still >= 4 => 7 * b + 18 <= 8 * Bound(still + 1)
        /\ 7 * b + 18 <= 8 * b
    BY <1>1, BoundFades
  <2> HIDE DEF k, b
  <2>6. CASE still' = still + 1
    BY <2>1, <2>2, <2>4, <2>5, <2>6
  <2>7. CASE still' = still
    BY <2>1, <2>2, <2>5, <2>7 DEF b
  <2> QED
    BY <2>3, <2>6, <2>7
<1>11. SwingsIn(k, x, x - e, Bound(still'))
  <2> HIDE DEF k, e, v, b, x, r
  <2>1. CASE still < 4
    <3>1. SwingsIn(k, x, x - e, b)
      BY <1>1, <1>2, <1>3, <1>7, <1>9, <1>10, SwingLasts
    <3> QED
      BY <1>10, <2>1, <3>1
  <2>2. CASE still >= 4
    BY <1>1, <1>2, <1>3, <1>7, <1>9, <1>10, <2>2, SwingFades
  <2> QED
    BY <1>1, <2>1, <2>2
<1>12. SwingsIn(l, x, x - e, Bound(still'))
  <2>1. x - e \in Int
    BY <1>7, <1>9
  <2> HIDE DEF k, l, e, x
  <2> QED
    BY <1>3, <1>4, <1>7, <1>9, <1>10, <1>11, <2>1, SwingKept
<1>13. SwingsIn(l, Error', velocity', Bound(still'))
  <2>0. p = pose + v + g
    <3> HIDE DEF k, n
    <3>1. g = Position!Gain(k, 10 * place - (pose + v))
      BY <1>7
    <3> HIDE DEF g
    <3> QED
      BY <3>1 DEF p
  <2>1. CASE pose' = p /\ velocity' = p - pose
    <3>1. pose' = pose + v + g /\ velocity' = pose + v + g - pose
      <4> HIDE DEF k, n, g
      <4>1. pose \in Int /\ v \in Int /\ g \in Int
        BY <1>1, <1>8
      <4> QED
        BY <2>0, <2>1, <4>1
    <3>2. Error' = x /\ velocity' = x - e
      <4>1. g \in Int /\ place \in Int /\ place' = place
        BY <1>5, <1>8
      <4> HIDE DEF k, n, g
      <4> QED
        BY <1>1, <3>1, <4>1 DEF Error
    <3> QED
      BY <1>12, <3>2
  <2>2. CASE pose' = 10 * place /\ velocity' = 0
    <3>1. Error' = 0
      BY <1>1, <1>5, <2>2 DEF Error
    <3>2. PICK c \in Nat : c = Bound(still')
      BY <1>10
    <3>3. l * (c * c) >= l * 0 /\ l \in Int
      <4>1. c * c \in Int /\ 0 <= c * c /\ l \in Int /\ l >= 0
        BY <1>4 DEF Variances
      <4> HIDE DEF l
      <4> QED
        BY <4>1, Grows
    <3> HIDE DEF l
    <3>4. SwingsIn(l, 0, 0, c)
      BY <3>3 DEF SwingsIn, Energy
    <3> QED
      BY <2>2, <3>1, <3>2, <3>4
  <2> QED
    BY <1>5, <2>1, <2>2
<1>14. -106480 <= pose' /\ pose' <= 106480
  <2>1. place \in Int /\ -9448 <= place /\ place <= 9448
    BY <1>5
  <2> HIDE DEF k, e, v, x, g
  <2> QED
    BY <1>5, <2>1
<1>15. /\ still' >= 2 => k >= 191
       /\ still' >= 3 => k >= 261
       /\ still' >= 4 => k >= 307
  <2>1. still' <= still + 1
    BY <1>1, <1>6
  <2>2. /\ still >= 1 => posSigmaSq >= 100
        /\ still >= 2 => posSigmaSq >= 191
        /\ still >= 3 => posSigmaSq >= 261
    BY DEF Fading
  <2> HIDE DEF k
  <2> QED
    BY <1>1, <1>3, <1>6, <2>1, <2>2
<1> QED
  <2>1. posSigmaSq' = k /\ k \in Variances /\ k >= 100
    BY <1>3, <1>5
  <2>2. Position!Variance(posSigmaSq)' = l
    BY <1>5 DEF Position!Variance, Position!Gain, Position!SIGMA_SQ_OBSVN_POS,
            Position!SIGMA_SQ_NOISE_POS
  <2> HIDE DEF k, l
  <2> QED
    BY <1>13, <1>14, <1>15, <2>1, <2>2 DEF Fading

\* A move of the body starts a swing, within what the estimate and the place leave
\* room for.
LEMMA MoveStarts ==
  ASSUME PositionInv, Fading, NEW z \in Places, z # place, Position!Frame(z)
  PROVE  Fading'
<1> DEFINE k == Position!Variance(posSigmaSq)
           l == Position!Variance(k)
           p == pose + velocity + Position!Gain(k, 10 * z - (pose + velocity))
<1>1. /\ posSigmaSq' = k /\ place' = z /\ z \in -9448 .. 9448 /\ p \in Int
      /\ \/ pose' = p /\ velocity' = p - pose /\ -94480 <= p /\ p <= 94480
         \/ pose' = 10 * z /\ velocity' = 0
  BY FrameTaken
<1>2. k \in Variances /\ 100 <= k
  BY VarianceRises DEF Fading
<1> HIDE DEF k, p
<1>3. l \in Variances /\ k <= l
  BY <1>2, VarianceRises
<1>4. l >= 100
  BY <1>2, <1>3 DEF Variances
<1>5. pose \in Int /\ -106480 <= pose /\ pose <= 106480
  BY DEF PositionInv, Fading
<1>6. /\ pose' \in Int /\ -94480 <= pose' /\ pose' <= 94480
      /\ velocity' \in Int /\ -200960 <= velocity' /\ velocity' <= 200960
  <2>1. z \in Int /\ -9448 <= z /\ z <= 9448
    BY <1>1
  <2> HIDE DEF l
  <2>2. CASE pose' = p /\ velocity' = p - pose /\ -94480 <= p /\ p <= 94480
    <3>1. p \in Int
      BY <1>1
    <3> QED
      BY <1>5, <2>2, <3>1
  <2>3. CASE pose' = 10 * z /\ velocity' = 0
    BY <2>1, <2>3
  <2> QED
    BY <1>1, <2>2, <2>3
<1>7. Error' \in Int /\ -200960 <= Error' /\ Error' <= 200960
  <2>1. z \in Int /\ -9448 <= z /\ z <= 9448
    BY <1>1
  <2> HIDE DEF l
  <2>2. PICK d \in Int : d = pose' - 10 * z
    <3>1. pose' - 10 * z \in Int
      BY <1>6, <2>1
    <3> QED
      BY <3>1
  <2>3. -200960 <= d /\ d <= 200960
    <3>1. PICK a \in Int, b \in Int : a = pose' /\ b = z
      BY <1>6, <2>1
    <3>2. -94480 <= a /\ a <= 94480 /\ -9448 <= b /\ b <= 9448 /\ d = a - 10 * b
      <4>1. -94480 <= pose' /\ pose' <= 94480
        BY <1>6
      <4> QED
        BY <2>1, <2>2, <3>1, <4>1
    <3> QED
      BY <3>2
  <2>4. Error' = d
    BY <1>1, <2>2 DEF Error
  <2> QED
    BY <2>3, <2>4
<1> HIDE DEF l
<1>8. SwingsIn(l, Error', velocity', Bound(0))
  BY <1>3, <1>4, <1>6, <1>7, SwingStarts
<1>9. still' = 0
  BY DEF Position!Frame
<1>10. Position!Variance(posSigmaSq)' = l
  BY <1>1 DEF l, Position!Variance, Position!Gain, Position!SIGMA_SQ_OBSVN_POS,
          Position!SIGMA_SQ_NOISE_POS
<1> QED
  BY <1>1, <1>2, <1>6, <1>8, <1>9, <1>10 DEF Fading

\* Every step of the coordinate keeps the swing within its bound, and no other
\* step touches it.
LEMMA NextFades ==
  ASSUME Settling >= 52, PositionInv, Fading, [Next]_vars
  PROVE  Fading'
<1>1. CASE PositionNext
  <2>1. PICK z \in Places : Position!Frame(z)
    BY <1>1 DEF PositionNext, Position!Next
  <2>2. CASE z = place
    <3>1. Position!Frame(place)
      BY <2>1, <2>2
    <3> QED
      BY <3>1, RestFades
  <2>3. CASE z # place
    BY <2>1, <2>3, MoveStarts
  <2> QED
    BY <2>2, <2>3
<1>2. CASE UNCHANGED positionVars
  <2>1. /\ pose' = pose /\ velocity' = velocity /\ posSigmaSq' = posSigmaSq
        /\ place' = place /\ still' = still
    BY <1>2 DEF positionVars
  <2>2. Error' = Error
    BY <2>1 DEF Error
  <2> QED
    BY <2>1, <2>2 DEF Fading
<1>3. CASE OrientationNext \/ LinkNext \/ UNCHANGED vars
  BY <1>2, <1>3 DEF OrientationNext, LinkNext, vars
<1> QED
  BY <1>1, <1>3 DEF Next

\* What is left of a swing then is less than a robot's radius, in the whole
\* millimetres that update reports too.
LEMMA FadedSettles ==
  ASSUME Settling >= 52, PositionInv, Fading
  PROVE  SettledInTime
<1> SUFFICES ASSUME still = Settling PROVE Position!AbsOf(Position!Reported - place) < 300
  BY DEF SettledInTime, Position!SettledInTime, Position!BOT_RADIUS
<1>1. still \in Nat /\ pose \in Int /\ velocity \in Int /\ place \in Int
  BY PlacesAssumption DEF PlacesAssumption, PositionInv, Position!TypeOK, HALF_FIELD_MAXX
<1>2. Bound(still) = 2816
  BY <1>1, BoundEnds
<1>3. /\ Position!Variance(posSigmaSq) \in Variances
      /\ Position!Variance(posSigmaSq) >= 1
  <2>1. /\ Position!Variance(posSigmaSq) \in Variances
        /\ 100 <= Position!Variance(posSigmaSq)
    BY VarianceRises DEF Fading
  <2> QED
    BY <2>1 DEF Variances
<1>4. -2816 <= Error /\ Error <= 2816
  <2>1. Error \in Int /\ 2816 \in Nat
    BY <1>1 DEF Error
  <2>2. SwingsIn(Position!Variance(posSigmaSq), Error, velocity, 2816)
    BY <1>2 DEF Fading
  <2> QED
    BY <1>1, <1>3, <2>1, <2>2, SwingBounded
<1>5. -2816 <= pose - 10 * place /\ pose - 10 * place <= 2816
  BY <1>4 DEF Error
<1>6. /\ Position!Reported \in Int
      /\ pose - 9 <= 10 * Position!Reported /\ 10 * Position!Reported <= pose + 9
  BY <1>1 DEF Position!Reported, Position!SGN, Position!AbsOf
<1> QED
  BY <1>1, <1>5, <1>6 DEF Position!AbsOf

-----------------------------------------------------------------------------
(* The filter: an orientation *)

OrientationInv == Orientation!TypeOK

\* Of the ways round to a direction the nearest is half a turn away at most.
LEMMA NearestIsNear ==
  ASSUME NEW a \in Orientation!Directions, NEW r \in Orientation!Directions
  PROVE  /\ Orientation!nearestAngle(a, r) \in Int
         /\ Orientation!nearestAngle(a, r) - r \in -PI .. PI
BY TurnedAssumption DEF TurnedAssumption, Orientation!Directions,
   Orientation!nearestAngle, Orientation!Dist

\* The gain takes a share of what it is applied to.
LEMMA OrientationGain ==
  \A k \in Nat, n \in Int :
    /\ Orientation!Gain(k, n) \in Int
    /\ n >= 0 => 0 <= Orientation!Gain(k, n) /\ Orientation!Gain(k, n) <= n
    /\ n <= 0 => n <= Orientation!Gain(k, n) /\ Orientation!Gain(k, n) <= 0
<1> SUFFICES ASSUME NEW k \in Nat, NEW n \in Int
    PROVE  /\ Orientation!Gain(k, n) \in Int
           /\ n >= 0 => 0 <= Orientation!Gain(k, n) /\ Orientation!Gain(k, n) <= n
           /\ n <= 0 => n <= Orientation!Gain(k, n) /\ Orientation!Gain(k, n) <= 0
  OBVIOUS
<1>1. Orientation!Gain(k, n) = (k * n) \div (k + 10000)
  BY DEF Orientation!Gain, Orientation!SIGMA_SQ_OBSVN_ANGLE
<1> QED
  BY <1>1, ShareBetween

\* The next prediction lies between the last one and the measurement, which both
\* are within half a turn of the estimate, so one wrap makes it a direction.
LEMMA OrientationStep ==
  ASSUME OrientationInv, NEW z \in Turned, Orientation!Frame(z)
  PROVE  OrientationInv'
<1> DEFINE k == angleSigmaSq - Orientation!Gain(angleSigmaSq, angleSigmaSq) + 167
           d == Orientation!nearestAngle(z, angle) - (angle + omega)
           g == Orientation!Gain(k, d)
           next == angle + omega + g
<1>1. /\ z \in Orientation!Directions /\ angle \in Orientation!Directions
      /\ omega \in -PI .. PI /\ angleSigmaSq \in Nat /\ PI \in Nat \ {0}
  BY TurnedAssumption DEF TurnedAssumption, OrientationInv, Orientation!TypeOK,
     Orientation!Directions
<1>2. turned' \in Turned /\ moves' \in 0 .. MaxMoves
  BY PlacesAssumption DEF PlacesAssumption, OrientationInv, Orientation!TypeOK,
     Orientation!Frame
<1>3. k \in Nat
  BY <1>1, OrientationGain
<1>4. d \in Int /\ omega + d \in -PI .. PI
  BY <1>1, NearestIsNear DEF Orientation!Directions
<1>5. /\ angleSigmaSq' = k
      /\ IF Orientation!Valid(Orientation!Wrapped(next))
           THEN angle' = Orientation!Wrapped(next) /\ omega' = next - angle
           ELSE angle' = z /\ omega' = 0
  BY DEF Orientation!Frame, Orientation!addInfo, Orientation!SIGMA_SQ_NOISE_ANGLE
<1>6. g \in Int /\ (d >= 0 => 0 <= g /\ g <= d) /\ (d <= 0 => d <= g /\ g <= 0)
  <2> HIDE DEF k, d
  <2> QED
    BY <1>3, <1>4, OrientationGain
<1> HIDE DEF k, d, g
<1>7. angle \in Int /\ next \in Int /\ next - angle \in -PI .. PI
  BY <1>1, <1>4, <1>6 DEF Orientation!Directions
<1> HIDE DEF next
<1>8. angle' \in Orientation!Directions /\ omega' \in -PI .. PI
  BY <1>1, <1>5, <1>7 DEF Orientation!Wrapped, Orientation!Valid, Orientation!Directions
<1> QED
  BY <1>2, <1>3, <1>5, <1>8 DEF OrientationInv, Orientation!TypeOK

-----------------------------------------------------------------------------
(* The connection *)

USE LoadsAssumption DEF LoadsAssumption

\* A console that serves or has a connection waiting has had a first one, and
\* no connection is made twice.
HasFirst ==
  /\ first <= loads
  /\ console = "serving" \/ pending # {} => first # 0

IInv == Link!TypeOK /\ HasFirst /\ Link!FirstIsServed

\* The initial state satisfies the invariant.
LEMMA InitInv == Init => IInv
<1>1. Init => Link!Init
  BY DEF Init
<1>2. Link!Init => IInv
  BY DEF Link!Init, IInv, Link!TypeOK, HasFirst, Link!FirstIsServed, Link!Loads
<1>3. QED
  BY <1>1, <1>2

\* The end of the simulator's process keeps the invariant.
LEMMA EndsInv ==
  ASSUME IInv, Link!Ends, UNCHANGED <<console, served, unread>>,
         loads' \in {0} \cup Link!Loads, loads' >= loads
  PROVE  IInv'
<1> USE DEF IInv, Link!TypeOK, HasFirst, Link!FirstIsServed, Link!Loads, Link!Ends
<1>1. CASE UNCHANGED <<pending, first>>
  BY <1>1
<1>2. CASE pending' = {} /\ first' = IF console = "waiting" THEN 0 ELSE first
  <2>1. Link!TypeOK'
    BY <1>2
  <2>2. HasFirst' /\ Link!FirstIsServed'
    BY <1>2
  <2>3. QED
    BY <2>1, <2>2
<1>3. QED
  BY <1>1, <1>2

\* Every step of the connection keeps the invariant.
LEMMA LinkInv == IInv /\ [Link!Next]_linkVars => IInv'
<1> SUFFICES ASSUME IInv, [Link!Next]_linkVars PROVE IInv'
  OBVIOUS
<1> USE DEF IInv, Link!TypeOK, HasFirst, Link!FirstIsServed, Link!Loads
<1>1. CASE Link!ConsoleStart
  BY <1>1 DEF Link!ConsoleStart
<1>2. CASE Link!ConsoleKill
  BY <1>2 DEF Link!ConsoleKill
<1>3. CASE Link!Accept
  <2>1. PICK l \in pending :
          /\ pending' = {} /\ (Link!Serve(l) \/ Link!Dropped(l))
          /\ UNCHANGED <<loads, alive, unread, step>>
    BY <1>3 DEF Link!Accept
  <2>2. CASE Link!Serve(l)
    BY <1>3, <2>1, <2>2 DEF Link!Accept, Link!Serve
  <2>3. CASE Link!Dropped(l)
    BY <1>3, <2>1, <2>3 DEF Link!Accept, Link!Dropped
  <2>4. QED
    BY <2>1, <2>2, <2>3
<1>4. CASE Link!RecieveMessage
  <2>1. unread' \in [Link!Loads -> 0 .. Room]
    BY <1>4 DEF Link!RecieveMessage
  <2>2. QED
    BY <1>4, <2>1 DEF Link!RecieveMessage
<1>5. CASE Link!Load
  <2>1. CASE Link!Listens
    <3>1. /\ pending' = {loads + 1} /\ loads' = loads + 1 /\ loads + 1 \in 1 .. MaxLoads
          /\ alive' = alive \cup {loads + 1} /\ step' = "idle"
          /\ first' = IF first = 0 THEN loads + 1 ELSE first
          /\ UNCHANGED <<console, served, unread>>
      BY <1>5, <2>1 DEF Link!Load, Link!Listens
    <3>2. Link!TypeOK'
      <4>1. \A a, b \in pending' : a = b
        BY <3>1
      <4>2. pending' \in SUBSET Link!Loads /\ alive' \in SUBSET Link!Loads
        BY <3>1
      <4>3. QED
        BY <3>1, <4>1, <4>2
    <3>3. HasFirst' /\ Link!FirstIsServed'
      BY <2>1, <3>1 DEF Link!Listens
    <3>4. QED
      BY <3>2, <3>3
  <2>2. CASE ~Link!Listens
    <3>1. /\ loads' = loads + 1 /\ loads < MaxLoads /\ Link!Ends
          /\ UNCHANGED <<console, served, unread>>
      BY <1>5, <2>2 DEF Link!Load
    <3>2. loads' \in {0} \cup Link!Loads /\ loads' >= loads
      BY <3>1
    <3> HIDE DEF IInv, Link!TypeOK, HasFirst, Link!FirstIsServed, Link!Loads
    <3>3. QED
      BY <3>1, <3>2, EndsInv
  <2>3. QED
    BY <2>1, <2>2
<1>6. CASE Link!Unload
  BY <1>6 DEF Link!Unload
<1>7. CASE Link!SimulatorKill
  <2>1. /\ Link!Ends /\ UNCHANGED <<console, served, unread>>
        /\ loads' = loads
    BY <1>7 DEF Link!SimulatorKill
  <2>2. loads' \in {0} \cup Link!Loads /\ loads' >= loads
    BY <2>1
  <2> HIDE DEF IInv, Link!TypeOK, HasFirst, Link!FirstIsServed, Link!Loads
  <2>3. QED
    BY <2>1, <2>2, EndsInv
<1>8. CASE Link!BeginFrame
  BY <1>8 DEF Link!BeginFrame
<1>9. CASE Link!SendMessages
  <2>1. unread' \in [Link!Loads -> 0 .. Room]
    BY <1>9 DEF Link!SendMessages
  <2>2. QED
    BY <1>9, <2>1 DEF Link!SendMessages
<1>10. CASE Link!FinishFrame
  BY <1>10 DEF Link!FinishFrame
<1>11. CASE UNCHANGED linkVars
  BY <1>11 DEF linkVars
<1>12. QED
  BY <1>1, <1>2, <1>3, <1>4, <1>5, <1>6, <1>7, <1>8, <1>9, <1>10, <1>11 DEF Link!Next

\* The filter has no part in the connection.
LEMMA NextInv == IInv /\ [Next]_vars => IInv'
<1>1. [Next]_vars => [Link!Next]_linkVars
  BY DEF Next, PositionNext, OrientationNext, LinkNext, vars
<1>2. QED
  BY <1>1, LinkInv

-----------------------------------------------------------------------------
(* The theorems *)

TypeInv ==
  /\ followed \in {"position", "orientation", "connection"}
  /\ PositionInv /\ OrientationInv /\ IInv

\* The filter starts within its bounds.
LEMMA InitTypes == Init => TypeInv
<1> SUFFICES ASSUME Init PROVE TypeInv
  OBVIOUS
<1>1. PositionInv
  BY PlacesAssumption DEF PlacesAssumption, Init, Position!Init, PositionInv,
     Position!TypeOK, Position!RobotStart, Position!BallStart,
     Position!HALF_FIELD_MAXX, Position!BOT_RADIUS
<1>2. OrientationInv
  BY PlacesAssumption, TurnedAssumption DEF PlacesAssumption, TurnedAssumption, Init,
     Orientation!Init, OrientationInv, Orientation!TypeOK, Orientation!Directions
<1> QED
  BY <1>1, <1>2, InitInv DEF Init, TypeInv

\* Every step is one of the three parts' and leaves the others alone.
LEMMA NextTypes == TypeInv /\ [Next]_vars => TypeInv'
<1> SUFFICES ASSUME TypeInv, [Next]_vars PROVE TypeInv'
  OBVIOUS
<1>1. IInv'
  BY NextInv DEF TypeInv
<1>2. CASE PositionNext
  <2>1. PICK z \in Places : Position!Frame(z)
    BY <1>2 DEF PositionNext, Position!Next
  <2>2. PositionInv'
    BY <2>1, PositionStep DEF TypeInv
  <2>3. OrientationInv' /\ followed' = followed
    BY <1>2, <2>2 DEF PositionNext, angleVars, TypeInv, OrientationInv, Orientation!TypeOK,
       PositionInv, Position!TypeOK
  <2> QED
    BY <1>1, <2>2, <2>3 DEF TypeInv
<1>3. CASE OrientationNext
  <2>1. PICK z \in Turned : Orientation!Frame(z)
    BY <1>3 DEF OrientationNext, Orientation!Next
  <2>2. OrientationInv'
    BY <2>1, OrientationStep DEF TypeInv
  <2>3. PositionInv' /\ followed' = followed
    BY <1>3, <2>2 DEF OrientationNext, positionVars, TypeInv, OrientationInv,
       Orientation!TypeOK, PositionInv, Position!TypeOK
  <2> QED
    BY <1>1, <2>2, <2>3 DEF TypeInv
<1>4. CASE LinkNext \/ UNCHANGED vars
  <2>1. UNCHANGED <<followed, positionVars, angleVars, moves>>
    BY <1>4 DEF LinkNext, vars
  <2>2. PositionInv' /\ OrientationInv' /\ followed' = followed
    BY <2>1 DEF positionVars, angleVars, TypeInv, OrientationInv, Orientation!TypeOK,
       PositionInv, Position!TypeOK
  <2> QED
    BY <1>1, <2>2 DEF TypeInv
<1> QED
  BY <1>2, <1>3, <1>4 DEF Next

\* For any moves of a body its estimate stays within a field's length of the
\* centre and its variance under the bound at which noise and gain balance; a
\* robot's orientation stays a direction after one wrap; and the connection
\* keeps its types.
THEOREM TypeCorrect == Spec => []TypeOK
<1>1. TypeInv => TypeOK
  BY DEF TypeInv, TypeOK, PositionInv, OrientationInv, IInv
<1>2. QED
  BY InitTypes, NextTypes, <1>1, PTL DEF Spec

\* The first connection made to a console is the one that is served as long as
\* its process lives.
THEOREM FirstCorrect == Spec => []FirstIsServed
<1>1. IInv => FirstIsServed
  BY DEF IInv, FirstIsServed
<1>2. QED
  BY InitInv, NextInv, <1>1, PTL DEF Spec

\* However a body is moved within two field lengths, what is left of its swing 52
\* frames after the last move is less than a robot's radius.
THEOREM SettledCorrect == ASSUME Settling >= 52 PROVE Spec => []SettledInTime
<1> DEFINE I == TypeInv /\ Fading
<1>1. Init => I
  BY InitTypes, InitFades
<1>2. I /\ [Next]_vars => I'
  BY NextTypes, NextFades DEF TypeInv
<1>3. I => SettledInTime
  BY FadedSettles DEF TypeInv
<1> HIDE DEF I
<1> QED
  BY <1>1, <1>2, <1>3, PTL DEF Spec
=============================================================================
