---------------------------- MODULE CurveProofs ----------------------------
(***************************************************************************)
(* Facts about the arithmetic of a swap and of a liquidity change, for     *)
(* every amount, reserve and rate: what the fees are at most, what the     *)
(* curve gives out at most, and what a transfer with a fee delivers.       *)
(***************************************************************************)
EXTENDS SwapCalculator, TransferFee, TLAPS, WellFoundedInduction

-----------------------------------------------------------------------------
(* Division. *)

\* A non-empty set of naturals has a least element.
LEMMA LeastNat ==
  ASSUME NEW T \in SUBSET Nat, T # {}
  PROVE  \E m \in T : \A k \in T : m =< k
<1> DEFINE R == {ss \in Nat \X Nat : ss[1] < ss[2]}
<1>1. IsWellFoundedOn(R, Nat)
  BY NatLessThanWellFounded DEF OpToRel
<1> HIDE DEF R
<1>2. PICK m \in T : \A y \in T : ~(<<y, m>> \in R)
  BY <1>1, WFMin
<1>3. \A k \in T : ~(k < m)
  BY <1>2 DEF R
<1> QED BY <1>2, <1>3

\* The quotient of naturals is the natural that division with remainder gives.
LEMMA DivNat ==
  ASSUME NEW a \in Nat, NEW d \in Nat \ {0}
  PROVE  /\ a \div d \in Nat
         /\ d * (a \div d) =< a
         /\ a < d * (a \div d) + d
  OBVIOUS

\* A quotient is below every b whose product with the divisor exceeds a.
LEMMA DivBelow ==
  ASSUME NEW a \in Nat, NEW d \in Nat \ {0}, NEW b \in Nat, a < d * b
  PROVE  a \div d < b
<1> DEFINE q == a \div d
<1>1. q \in Nat /\ d * q =< a
  BY DivNat
<1> HIDE DEF q
<1>2. ASSUME b =< q PROVE FALSE
  <2>1. d * b =< d * q
    BY <1>1, <1>2
  <2> QED BY <1>1, <2>1
<1>3. q < b
  BY <1>1, <1>2
<1> QED BY <1>3 DEF q

\* A quotient is at most every b whose product with the divisor reaches a.
LEMMA DivAtMost ==
  ASSUME NEW a \in Nat, NEW d \in Nat \ {0}, NEW b \in Nat, a =< d * b
  PROVE  a \div d =< b
<1>1. a < d * (b + 1)
  <2>1. d * (b + 1) = d * b + d
    OBVIOUS
  <2> QED BY <2>1
<1>2. a \div d < b + 1
  BY <1>1, DivBelow
<1> QED BY <1>2, DivNat

-----------------------------------------------------------------------------
(* Fees. *)

\* The denominator is a positive number, whatever it is.
LEMMA DenominatorPositive ==
  FEE_RATE_DENOMINATOR_VALUE \in Nat \ {0}
BY DEF FEE_RATE_DENOMINATOR_VALUE

\* A floored share of at most the whole is at most the whole.
LEMMA FloorDivBound ==
  ASSUME NEW amount \in Nat, NEW d \in Nat \ {0}, NEW n \in 0 .. d
  PROVE  floor_div(amount, n, d) \in 0 .. amount
<1>1. amount * n \in Nat /\ amount * n =< d * amount
  OBVIOUS
<1>2. (amount * n) \div d \in Nat /\ (amount * n) \div d =< amount
  BY <1>1, DivNat, DivAtMost
<1> QED BY <1>2 DEF floor_div

\* Two floored shares that are together at most the whole never exceed it.
LEMMA TwoFloorsBound ==
  ASSUME NEW amount \in Nat, NEW d \in Nat \ {0}, NEW n \in Nat, NEW m \in Nat,
         n + m =< d
  PROVE  /\ floor_div(amount, n, d) \in Nat
         /\ floor_div(amount, m, d) \in Nat
         /\ floor_div(amount, n, d) + floor_div(amount, m, d) =< amount
<1> DEFINE p == (amount * n) \div d
           q == (amount * m) \div d
<1>1. amount * n \in Nat /\ amount * m \in Nat
  OBVIOUS
<1>2. p \in Nat /\ q \in Nat /\ d * p =< amount * n /\ d * q =< amount * m
  BY <1>1, DivNat
<1> HIDE DEF p, q
<1>3. amount * n + amount * m =< amount * d
  <2>1. amount * (n + m) =< amount * d
    OBVIOUS
  <2>2. amount * (n + m) = amount * n + amount * m
    OBVIOUS
  <2> QED BY <2>1, <2>2
<1>4. d * (p + q) =< d * amount
  <2>1. d * (p + q) = d * p + d * q
    BY <1>2
  <2>2. amount * d = d * amount
    OBVIOUS
  <2> QED BY <1>1, <1>2, <1>3, <2>1, <2>2
<1>5. p + q =< amount
  <2>1. ASSUME amount + 1 =< p + q PROVE FALSE
    <3>1. d * (amount + 1) =< d * (p + q)
      BY <1>2, <2>1
    <3>2. d * (amount + 1) = d * amount + d
      OBVIOUS
    <3> QED BY <1>2, <1>4, <3>1, <3>2
  <2> QED BY <1>2, <2>1
<1> QED BY <1>2, <1>5 DEF floor_div, p, q

\* A ceiled fee is a natural.
LEMMA CeilDivNat ==
  ASSUME NEW amount \in Nat, NEW n \in Nat, NEW d \in Nat \ {0}
  PROVE  ceil_div(amount, n, d) \in Nat
<1>1. amount * n \in Nat
  OBVIOUS
<1>2. amount * n + d - 1 \in Nat
  BY <1>1
<1> QED BY <1>2, DivNat DEF ceil_div

\* At a rate of at most one, a ceiled fee is at most the amount.
LEMMA CeilDivBound ==
  ASSUME NEW amount \in Nat, NEW d \in Nat \ {0}, NEW n \in 0 .. d
  PROVE  ceil_div(amount, n, d) \in 0 .. amount
<1>1. amount * n \in Nat /\ amount * n =< d * amount
  OBVIOUS
<1>2. d * (amount + 1) = d * amount + d
  OBVIOUS
<1>3. amount * n + d - 1 \in Nat /\ amount * n + d - 1 < d * (amount + 1)
  BY <1>1, <1>2
<1>4. (amount * n + d - 1) \div d < amount + 1
  BY <1>3, DivBelow
<1> QED BY <1>3, <1>4, DivNat DEF ceil_div

\* The gross amount is at least the net amount it was made for.
LEMMA PreFeeAmountBound ==
  ASSUME NEW amount \in Nat, NEW rate \in Nat, rate < FEE_RATE_DENOMINATOR_VALUE
  PROVE  /\ calculate_pre_fee_amount(amount, rate) \in Nat
         /\ amount =< calculate_pre_fee_amount(amount, rate)
<1>1. CASE rate = 0
  BY <1>1 DEF calculate_pre_fee_amount
<1>2. CASE rate # 0
  <2> DEFINE D == FEE_RATE_DENOMINATOR_VALUE
             d == D - rate
             g == (amount * D + d - 1) \div d
  <2>1. D \in Nat /\ d \in Nat \ {0} /\ d =< D
    BY DenominatorPositive
  <2> HIDE DEF D, d
  <2>2. amount * D \in Nat /\ d * amount =< amount * D
    BY <2>1
  <2>3. amount * D + d - 1 \in Nat
    BY <2>1, <2>2
  <2>4. g \in Nat /\ amount * D + d - 1 < d * g + d
    BY <2>1, <2>3, DivNat
  <2> HIDE DEF g
  <2>5. ASSUME g + 1 =< amount PROVE FALSE
    <3>1. d * (g + 1) =< d * amount
      BY <2>1, <2>4, <2>5
    <3>2. d * (g + 1) = d * g + d
      BY <2>1, <2>4
    <3>3. d * g \in Nat
      BY <2>1, <2>4
    <3> QED BY <2>1, <2>2, <2>4, <3>1, <3>2, <3>3
  <2>6. amount =< g
    BY <2>4, <2>5
  <2>7. calculate_pre_fee_amount(amount, rate) = g
    BY <1>2 DEF calculate_pre_fee_amount, g, d, D
  <2> QED BY <2>4, <2>6, <2>7
<1> QED BY <1>1, <1>2

-----------------------------------------------------------------------------
(* Transfers with a fee. *)

Schedule == [bps : 0 .. MAX_FEE_BASIS_POINTS, max : Nat]

LEMMA MaxFeePositive == MAX_FEE_BASIS_POINTS \in Nat \ {0}
BY DEF MAX_FEE_BASIS_POINTS

LEMMA ScheduleFields ==
  ASSUME NEW schedule \in Schedule
  PROVE  schedule.bps \in 0 .. MAX_FEE_BASIS_POINTS /\ schedule.max \in Nat
BY DEF Schedule

\* The token program never takes more than is sent.
LEMMA EpochFeeBound ==
  ASSUME NEW schedule \in Schedule, NEW amount \in Nat
  PROVE  calculate_epoch_fee(schedule, amount) \in 0 .. amount
<1> DEFINE raw == ceil_div(amount, schedule.bps, MAX_FEE_BASIS_POINTS)
<1>1. /\ MAX_FEE_BASIS_POINTS \in Nat \ {0}
      /\ schedule.bps \in 0 .. MAX_FEE_BASIS_POINTS
      /\ schedule.max \in Nat
  BY MaxFeePositive, ScheduleFields
<1>2. raw \in 0 .. amount
  BY <1>1, CeilDivBound
<1>3. calculate_epoch_fee(schedule, amount)
        = IF raw =< schedule.max THEN raw ELSE schedule.max
  BY DEF calculate_epoch_fee, ceil_div
<1> HIDE DEF raw
<1> QED BY <1>1, <1>2, <1>3

\* What arrives is between nothing and what was sent.
LEMMA CreditedBound ==
  ASSUME NEW schedule \in Schedule, NEW amount \in Nat
  PROVE  credited(schedule, amount) \in 0 .. amount
BY EpochFeeBound DEF credited, get_transfer_fee

\* The amount added to a transfer for its fee is a natural.
LEMMA InverseFeeNat ==
  ASSUME NEW schedule \in Schedule, NEW amount \in Nat
  PROVE  get_transfer_inverse_fee(schedule, amount) \in Nat
<1>1. /\ schedule.bps \in 0 .. MAX_FEE_BASIS_POINTS
      /\ schedule.max \in Nat
      /\ MAX_FEE_BASIS_POINTS \in Nat
  BY MaxFeePositive, ScheduleFields
<1>2. CASE schedule.bps = MAX_FEE_BASIS_POINTS
  BY <1>1, <1>2 DEF get_transfer_inverse_fee
<1>3. CASE schedule.bps # MAX_FEE_BASIS_POINTS
  <2> DEFINE rest == MAX_FEE_BASIS_POINTS - schedule.bps
             num  == amount * MAX_FEE_BASIS_POINTS + rest - 1
  <2>1. rest \in Nat \ {0}
    BY <1>1, <1>3
  <2>2. amount * MAX_FEE_BASIS_POINTS \in Nat
    BY <1>1
  <2>3. num \in Nat
    BY <2>1, <2>2
  <2> HIDE DEF num
  <2>4. num \div rest \in Nat
    BY <2>1, <2>3, DivNat
  <2>5. calculate_pre_fee(schedule, amount) \in Nat
    BY <1>1, <2>4 DEF calculate_pre_fee, num
  <2>6. calculate_inverse_epoch_fee(schedule, amount) \in Nat
    BY <2>5, EpochFeeBound DEF calculate_inverse_epoch_fee
  <2> QED BY <1>3, <2>6 DEF get_transfer_inverse_fee
<1> QED BY <1>2, <1>3

\* An amount sent for another one delivers exactly that one.
LEMMA SentDelivers ==
  ASSUME NEW schedule \in Schedule, NEW amount \in Nat,
         inverse_fee_defined(schedule, amount)
  PROVE  credited(schedule, amount + get_transfer_inverse_fee(schedule, amount))
           = amount
<1> DEFINE fee == get_transfer_inverse_fee(schedule, amount)
<1>1. /\ schedule.bps \in 0 .. MAX_FEE_BASIS_POINTS
      /\ schedule.max \in Nat
      /\ MAX_FEE_BASIS_POINTS \in Nat \ {0}
  BY MaxFeePositive, ScheduleFields
<1>2. fee \in Nat
  BY InverseFeeNat
<1>3. CASE schedule.bps = MAX_FEE_BASIS_POINTS
  <2>1. fee = schedule.max
    BY <1>3 DEF get_transfer_inverse_fee
  <2>2. ((amount + fee) * MAX_FEE_BASIS_POINTS + MAX_FEE_BASIS_POINTS - 1)
          \div MAX_FEE_BASIS_POINTS = amount + fee
    <3> DEFINE n == amount + fee
               d == MAX_FEE_BASIS_POINTS
    <3>1. n \in Nat /\ d \in Nat \ {0}
      BY <1>1, <1>2
    <3> HIDE DEF n, d
    <3> SUFFICES (n * d + d - 1) \div d = n
      BY DEF n, d
    <3>2. n * d + d - 1 \in Nat /\ n * d + d - 1 < d * (n + 1)
      <4>1. n * d \in Nat /\ d * (n + 1) = n * d + d
        BY <3>1
      <4> QED BY <3>1, <4>1
    <3>3. (n * d + d - 1) \div d < n + 1
      BY <3>1, <3>2, DivBelow
    <3>4. ~((n * d + d - 1) \div d < n)
      <4> DEFINE q == (n * d + d - 1) \div d
      <4>1. q \in Nat /\ n * d + d - 1 < d * q + d
        BY <3>1, <3>2, DivNat
      <4> HIDE DEF q
      <4>2. ASSUME q + 1 =< n PROVE FALSE
        <5>1. d * (q + 1) =< n * d
          BY <3>1, <4>1, <4>2
        <5>2. d * (q + 1) = d * q + d
          BY <3>1, <4>1
        <5>3. n * d \in Nat /\ d * q \in Nat
          BY <3>1, <4>1
        <5> QED BY <3>1, <4>1, <5>1, <5>2, <5>3
      <4>3. ~(q < n)
        BY <3>1, <4>1, <4>2
      <4> QED BY <4>3 DEF q
    <3> QED BY <3>1, <3>2, <3>3, <3>4, DivNat
  <2>3. calculate_epoch_fee(schedule, amount + fee)
          = IF amount + fee =< schedule.max THEN amount + fee ELSE schedule.max
    BY <1>1, <1>3, <2>2 DEF calculate_epoch_fee
  <2>4. calculate_epoch_fee(schedule, amount + fee) = fee
    BY <1>1, <2>1, <2>3
  <2> QED BY <1>2, <2>4 DEF credited, get_transfer_fee
<1>4. CASE schedule.bps # MAX_FEE_BASIS_POINTS
  <2>1. fee = calculate_epoch_fee(schedule, amount + fee)
    BY <1>4 DEF inverse_fee_defined
  <2> QED BY <1>2, <2>1 DEF credited, get_transfer_fee
<1> QED BY <1>3, <1>4

-----------------------------------------------------------------------------
(* The curve. *)

\* A number a U256 holds has an integer square root, which is a u128.
LEMMA SqrtExists ==
  ASSUME U128_MAX \in Nat, NEW n \in Nat, n < (U128_MAX + 1) * (U128_MAX + 1)
  PROVE  \E r \in 0 .. U128_MAX : r * r =< n /\ n < (r + 1) * (r + 1)
<1> DEFINE T == {r \in Nat : n < (r + 1) * (r + 1)}
<1>1. T \in SUBSET Nat /\ U128_MAX \in T
  OBVIOUS
<1>2. PICK m \in T : \A k \in T : m =< k
  BY <1>1, LeastNat
<1>3. m \in 0 .. U128_MAX /\ n < (m + 1) * (m + 1)
  BY <1>1, <1>2
<1>4. m * m =< n
  <2>1. CASE m = 0
    BY <2>1
  <2>2. CASE m > 0
    <3>1. m - 1 \in Nat /\ m - 1 \notin T
      BY <1>2, <1>3, <2>2
    <3>2. ~(n < ((m - 1) + 1) * ((m - 1) + 1))
      BY <3>1
    <3>3. (m - 1) + 1 = m
      BY <1>3
    <3> QED BY <3>2, <3>3, <1>3
  <2> QED BY <2>1, <2>2, <1>3
<1> QED BY <1>3, <1>4

\* Squares of naturals are ordered as the naturals.
LEMMA SquareMonotone ==
  ASSUME NEW a \in Nat, NEW b \in Nat, a =< b
  PROVE  a * a =< b * b
<1>1. a * a =< a * b
  OBVIOUS
<1>2. a * b =< b * b
  OBVIOUS
<1> QED BY <1>1, <1>2

\* The search by blocks finds that root.
LEMMA SqrtSpec ==
  ASSUME U128_MAX \in Nat, NEW n \in Nat, n < (U128_MAX + 1) * (U128_MAX + 1)
  PROVE  /\ integer_sqrt(n) \in 0 .. U128_MAX
         /\ integer_sqrt(n) * integer_sqrt(n) =< n
<1> DEFINE Holds(b) == /\ (64 * b) * (64 * b) =< n
                       /\ n < (64 * (b + 1)) * (64 * (b + 1))
           block == CHOOSE b \in 0 .. U128_MAX \div 64 : Holds(b)
           IsRoot(r) == r * r =< n /\ n < (r + 1) * (r + 1)
           root == CHOOSE r \in 64 * block .. 64 * block + 63 : IsRoot(r)
<1>1. PICK r \in 0 .. U128_MAX : IsRoot(r)
  BY SqrtExists
<1>2. \E b \in 0 .. U128_MAX \div 64 : Holds(b)
  <2> DEFINE b == r \div 64
  <2>1. b \in 0 .. U128_MAX \div 64 /\ 64 * b =< r /\ r + 1 =< 64 * (b + 1)
    BY <1>1
  <2> HIDE DEF b
  <2>2. (64 * b) * (64 * b) =< r * r
    BY <1>1, <2>1, SquareMonotone
  <2>3. (r + 1) * (r + 1) =< (64 * (b + 1)) * (64 * (b + 1))
    BY <1>1, <2>1, SquareMonotone
  <2>4. Holds(b)
    BY <1>1, <2>1, <2>2, <2>3
  <2> QED BY <2>1, <2>4
<1>3. block \in 0 .. U128_MAX \div 64 /\ Holds(block)
  BY <1>2
<1> HIDE DEF block
<1>4. r \in 64 * block .. 64 * block + 63
  <2>1. ~(r + 1 =< 64 * block)
    <3> SUFFICES ASSUME r + 1 =< 64 * block PROVE FALSE
      OBVIOUS
    <3>1. (r + 1) * (r + 1) =< (64 * block) * (64 * block)
      BY <1>1, <1>3, SquareMonotone
    <3> QED BY <1>1, <1>3, <3>1
  <2>2. ~(64 * (block + 1) =< r)
    <3> SUFFICES ASSUME 64 * (block + 1) =< r PROVE FALSE
      OBVIOUS
    <3>1. (64 * (block + 1)) * (64 * (block + 1)) =< r * r
      BY <1>1, <1>3, SquareMonotone
    <3> QED BY <1>1, <1>3, <3>1
  <2> QED BY <1>1, <1>3, <2>1, <2>2
<1>5. root \in 64 * block .. 64 * block + 63 /\ IsRoot(root)
  BY <1>1, <1>4
<1> HIDE DEF root
<1>6. root =< U128_MAX
  <2> SUFFICES ASSUME U128_MAX + 1 =< root PROVE FALSE
    BY <1>3, <1>5
  <2>1. (U128_MAX + 1) * (U128_MAX + 1) =< root * root
    BY <1>3, <1>5, SquareMonotone
  <2> QED BY <1>3, <1>5, <2>1
<1>7. integer_sqrt(n) = root
  BY DEF integer_sqrt, root, block
<1> QED BY <1>3, <1>5, <1>6, <1>7

\* The square root of a product of two amounts is no larger than a bound on both.
LEMMA SqrtOfProduct ==
  ASSUME U128_MAX \in Nat, NEW m \in Nat, m =< U128_MAX,
         NEW a \in 0 .. m, NEW b \in 0 .. m
  PROVE  integer_sqrt(a * b) \in 0 .. m
<1>1. a * b \in Nat /\ a * b =< m * m
  OBVIOUS
<1>2. m * m < (U128_MAX + 1) * (U128_MAX + 1)
  <2>1. m * m =< U128_MAX * U128_MAX
    OBVIOUS
  <2>2. (U128_MAX + 1) * (U128_MAX + 1) = U128_MAX * U128_MAX + 2 * U128_MAX + 1
    OBVIOUS
  <2> QED BY <2>1, <2>2
<1>3. a * b < (U128_MAX + 1) * (U128_MAX + 1)
  BY <1>1, <1>2
<1> DEFINE r == integer_sqrt(a * b)
<1>4. r \in Nat /\ r * r =< a * b
  BY <1>1, <1>3, SqrtSpec
<1> HIDE DEF r
<1>5. ASSUME m + 1 =< r PROVE FALSE
  <2>1. (m + 1) * (m + 1) =< r * r
    BY <1>4, <1>5
  <2>2. (m + 1) * (m + 1) = m * m + 2 * m + 1
    OBVIOUS
  <2> QED BY <1>1, <1>4, <2>1, <2>2
<1> QED BY <1>4, <1>5 DEF r

\* Where virtual reserves are defined they are naturals, at no better a ratio
\* than the spot price.
LEMMA VirtualReserves ==
  ASSUME U128_MAX \in Nat, NEW x \in Nat, NEW y \in Nat, NEW spot,
         virtual_reserves_defined(x, y, spot)
  PROVE  /\ spot.num \in Nat \ {0} /\ spot.den \in Nat \ {0}
         /\ virtual_reserves(x, y, spot).x \in Nat
         /\ virtual_reserves(x, y, spot).y \in Nat
         /\ virtual_reserves(x, y, spot).y * spot.den
              =< virtual_reserves(x, y, spot).x * spot.num
<1>1. spot.num \in Nat \ {0} /\ spot.den \in Nat \ {0}
  BY DEF virtual_reserves_defined, representable
<1> DEFINE n  == x * y * spot.den
           q  == n \div spot.num
           xv == integer_sqrt(q)
<1>2. n \in Nat /\ n < (U128_MAX + 1) * (U128_MAX + 1)
  <2>1. x * y \in Nat
    OBVIOUS
  <2> QED BY <1>1, <2>1 DEF virtual_reserves_defined
<1> HIDE DEF n
<1>3. q \in Nat /\ q =< n
  <2>1. n =< spot.num * n
    BY <1>1, <1>2
  <2> QED BY <1>1, <1>2, <2>1, DivNat, DivAtMost
<1> HIDE DEF q
<1>4. xv \in Nat
  BY <1>2, <1>3, SqrtSpec
<1> HIDE DEF xv
<1>5. xv * spot.num \in Nat
  BY <1>1, <1>4
<1>6. /\ (xv * spot.num) \div spot.den \in Nat
      /\ spot.den * ((xv * spot.num) \div spot.den) =< xv * spot.num
  BY <1>1, <1>5, DivNat
<1>7. /\ virtual_reserves(x, y, spot).x = xv
      /\ virtual_reserves(x, y, spot).y = (xv * spot.num) \div spot.den
  BY DEF virtual_reserves, xv, q, n
<1> QED BY <1>1, <1>4, <1>6, <1>7

\* The output of the curve is a natural.
LEMMA OutputNat ==
  ASSUME NEW input \in Nat, NEW v, v.x \in Nat, v.y \in Nat, v.x + input > 0
  PROVE  output_for_input(input, v) \in Nat
<1>1. v.y * input \in Nat
  OBVIOUS
<1> QED BY <1>1, DivNat DEF output_for_input

\* So is the input.
LEMMA InputNat ==
  ASSUME NEW output \in Nat, NEW v, v.x \in Nat, v.y \in Nat, output < v.y
  PROVE  input_for_output(output, v) \in Nat
<1>1. v.x * output \in Nat /\ v.y - output \in Nat \ {0}
  OBVIOUS
<1>2. v.x * output + (v.y - output) - 1 \in Nat
  BY <1>1
<1> QED BY <1>1, <1>2, DivNat DEF input_for_output

\* No output at better than the spot price: the slippage of the virtual
\* reserves is always against the trader.
LEMMA OutputPrice ==
  ASSUME NEW input \in Nat, NEW v, v.x \in Nat, v.y \in Nat, v.x + input > 0,
         NEW num \in Nat, NEW den \in Nat, v.y * den =< v.x * num
  PROVE  output_for_input(input, v) * den =< input * num
<1> DEFINE x == v.x
           y == v.y
           s == x + input
           o == output_for_input(input, v)
<1>1. x \in Nat /\ y \in Nat /\ s \in Nat \ {0} /\ x =< s /\ y * den =< x * num
  OBVIOUS
<1>2. o \in Nat /\ s * o =< y * input
  <2>1. y * input \in Nat
    BY <1>1
  <2> QED BY <1>1, <2>1, DivNat DEF output_for_input
<1> HIDE DEF x, y, s, o
<1>3. s * (o * den) =< s * (input * num)
  <2>1. (s * o) * den =< (y * input) * den
    BY <1>1, <1>2
  <2>2. (y * den) * input =< (x * num) * input
    BY <1>1
  <2>3. x * (num * input) =< s * (num * input)
    BY <1>1
  <2>4. /\ (s * o) * den = s * (o * den)
        /\ (y * input) * den = (y * den) * input
        /\ (x * num) * input = x * (num * input)
        /\ s * (num * input) = s * (input * num)
    BY <1>1, <1>2
  <2>5. /\ s * (o * den) \in Int /\ (y * den) * input \in Int
        /\ x * (num * input) \in Int /\ s * (input * num) \in Int
    BY <1>1, <1>2
  <2> QED BY <2>1, <2>2, <2>3, <2>4, <2>5
<1>4. o * den \in Nat /\ input * num \in Nat
  BY <1>2
<1>5. \A a, b \in Nat : s * a =< s * b => a =< b
  BY <1>1
<1> QED BY <1>3, <1>4, <1>5 DEF o

\* No input bought at better than the spot price.
LEMMA InputPrice ==
  ASSUME NEW output \in Nat, NEW v, v.x \in Nat, v.y \in Nat, output < v.y,
         NEW num \in Nat, NEW den \in Nat, v.y * den =< v.x * num
  PROVE  output * den =< input_for_output(output, v) * num
<1> DEFINE x == v.x
           y == v.y
           s == y - output
           i == input_for_output(output, v)
<1>1. x \in Nat /\ y \in Nat /\ s \in Nat \ {0} /\ s =< y /\ y * den =< x * num
  OBVIOUS
<1>2. i \in Nat /\ x * output =< s * i
  <2>1. x * output \in Nat
    BY <1>1
  <2>2. x * output + s - 1 \in Nat
    BY <1>1, <2>1
  <2>3. i = (x * output + s - 1) \div s
    BY DEF input_for_output
  <2>4. i \in Nat /\ x * output + s - 1 < s * i + s
    BY <1>1, <2>2, <2>3, DivNat
  <2>5. s * i \in Nat
    BY <1>1, <2>4
  <2> QED BY <1>1, <2>1, <2>4, <2>5
<1> HIDE DEF x, y, s, i
<1>3. s * (output * den) =< s * (i * num)
  <2>1. s * (output * den) =< y * (output * den)
    BY <1>1
  <2>2. (y * den) * output =< (x * num) * output
    BY <1>1
  <2>3. (x * output) * num =< (s * i) * num
    BY <1>1, <1>2
  <2>4. /\ y * (output * den) = (y * den) * output
        /\ (x * num) * output = (x * output) * num
        /\ (s * i) * num = s * (i * num)
    BY <1>1, <1>2
  <2>5. /\ s * (output * den) \in Int /\ (y * den) * output \in Int
        /\ (x * output) * num \in Int /\ s * (i * num) \in Int
    BY <1>1, <1>2
  <2> QED BY <2>1, <2>2, <2>3, <2>4, <2>5
<1>4. output * den \in Nat /\ i * num \in Nat
  BY <1>2
<1>5. \A a, b \in Nat : s * a =< s * b => a =< b
  BY <1>1
<1> QED BY <1>3, <1>4, <1>5 DEF i

-----------------------------------------------------------------------------
(* The amounts of a swap. *)

\* Terms a pool trades on: rates of a config whose bounds hold, and reserves.
SoundTerms(terms) ==
  /\ terms.input_vault \in Nat /\ terms.output_vault \in Nat
  /\ terms.trade_fee_rate \in Nat
  /\ terms.creator_fee_rate \in Nat
  /\ terms.creator_fee_rate < FEE_RATE_DENOMINATOR_VALUE
  /\ terms.protocol_fee_rate \in Nat /\ terms.fund_fee_rate \in Nat
  /\ terms.protocol_fee_rate + terms.fund_fee_rate =< FEE_RATE_DENOMINATOR_VALUE
  /\ terms.is_creator_fee_on_input \in BOOLEAN

\* A result that takes its fees out of the input, keeps some of the output
\* reserve in the pool, and gives no more than the spot price for what it
\* swapped.
SoundResult(result, input, terms) ==
  /\ result.protocol_fee \in Nat /\ result.fund_fee \in Nat
  /\ result.creator_fee \in Nat /\ result.output_amount \in Nat
  /\ result.input_swapped \in Nat /\ result.output_swapped \in Nat
  /\ terms.is_creator_fee_on_input =>
       /\ result.input_swapped + result.protocol_fee + result.fund_fee
            + result.creator_fee =< input
       /\ result.output_amount = result.output_swapped
  /\ ~terms.is_creator_fee_on_input =>
       /\ result.input_swapped + result.protocol_fee + result.fund_fee =< input
       /\ result.output_amount + result.creator_fee = result.output_swapped
  /\ result.output_swapped < terms.output_vault
  /\ terms.spot.num \in Nat \ {0} /\ terms.spot.den \in Nat \ {0}
  /\ result.output_swapped * terms.spot.den
       =< result.input_swapped * terms.spot.num

\* The creator's part of a fee is a part of it.
LEMMA CreatorPartBound ==
  ASSUME NEW terms, SoundTerms(terms), NEW total_fee \in Nat
  PROVE  creator_part(total_fee, terms) \in 0 .. total_fee
<1>1. terms.trade_fee_rate \in Nat /\ terms.creator_fee_rate \in Nat
  BY DEF SoundTerms
<1>2. CASE terms.trade_fee_rate + terms.creator_fee_rate = 0
  BY <1>2 DEF creator_part
<1>3. CASE terms.trade_fee_rate + terms.creator_fee_rate # 0
  <2> DEFINE d == terms.trade_fee_rate + terms.creator_fee_rate
  <2>1. d \in Nat \ {0} /\ terms.creator_fee_rate \in 0 .. d
    BY <1>1, <1>3
  <2>2. floor_div(total_fee, terms.creator_fee_rate, d) \in 0 .. total_fee
    BY <2>1, FloorDivBound
  <2> QED BY <1>3, <2>2 DEF creator_part, split_creator_fee
<1> QED BY <1>1, <1>2, <1>3

\* The protocol's and the fund's shares fit in the fee they are shares of.
LEMMA SharesFit ==
  ASSUME NEW terms, SoundTerms(terms), NEW fee \in Nat
  PROVE  /\ protocol_fee(fee, terms.protocol_fee_rate) \in Nat
         /\ fund_fee(fee, terms.fund_fee_rate) \in Nat
         /\ protocol_fee(fee, terms.protocol_fee_rate)
              + fund_fee(fee, terms.fund_fee_rate) =< fee
<1>1. /\ terms.protocol_fee_rate \in Nat /\ terms.fund_fee_rate \in Nat
      /\ terms.protocol_fee_rate + terms.fund_fee_rate =< FEE_RATE_DENOMINATOR_VALUE
  BY DEF SoundTerms
<1> QED BY <1>1, DenominatorPositive, TwoFloorsBound DEF protocol_fee, fund_fee

\* Whatever the two sides of a trade, its result is sound if the total fee and
\* the creator's fee are on the sides they were taken from.
LEMMA ResultSound ==
  ASSUME NEW terms, SoundTerms(terms),
         NEW swapped_in \in Nat, NEW total_fee \in Nat,
         NEW output \in Nat, NEW swapped_out \in Nat, NEW creator \in Nat,
         terms.is_creator_fee_on_input => creator =< total_fee /\ output = swapped_out,
         ~terms.is_creator_fee_on_input => output + creator = swapped_out,
         swapped_out < terms.output_vault,
         terms.spot.num \in Nat \ {0}, terms.spot.den \in Nat \ {0},
         swapped_out * terms.spot.den =< swapped_in * terms.spot.num,
         NEW input
  PROVE  SoundResult(swap_result(input, swapped_in, output, swapped_out, total_fee,
                                 creator, terms),
                     swapped_in + total_fee, terms)
<1> DEFINE trade == IF terms.is_creator_fee_on_input
                      THEN total_fee - creator ELSE total_fee
           p == protocol_fee(trade, terms.protocol_fee_rate)
           f == fund_fee(trade, terms.fund_fee_rate)
<1>1. terms.is_creator_fee_on_input \in BOOLEAN
  BY DEF SoundTerms
<1>2. trade \in Nat
  BY <1>1
<1> HIDE DEF trade
<1>3. p \in Nat /\ f \in Nat /\ p + f =< trade
  BY <1>2, SharesFit
<1> HIDE DEF p, f
<1> DEFINE r == swap_result(input, swapped_in, output, swapped_out, total_fee,
                            creator, terms)
<1>4. /\ r.protocol_fee = p /\ r.fund_fee = f /\ r.creator_fee = creator
      /\ r.output_amount = output /\ r.output_swapped = swapped_out
      /\ r.input_swapped = swapped_in
  BY DEF swap_result, p, f, trade
<1> HIDE DEF r
<1>5. CASE terms.is_creator_fee_on_input
  <2>1. p + f + creator =< total_fee
    BY <1>2, <1>3, <1>5 DEF trade
  <2> QED BY <1>3, <1>4, <1>5, <2>1 DEF SoundResult, r
<1>6. CASE ~terms.is_creator_fee_on_input
  <2>1. p + f =< total_fee
    BY <1>2, <1>3, <1>6 DEF trade
  <2> QED BY <1>3, <1>4, <1>6, <2>1 DEF SoundResult, r
<1> QED BY <1>1, <1>5, <1>6

\* A swap of a given input has a sound result.
LEMMA SwapBaseInputSound ==
  ASSUME U128_MAX \in Nat, NEW terms, SoundTerms(terms), NEW input \in Nat,
         swap_base_input_defined(input, terms)
  PROVE  SoundResult(swap_base_input(input, terms), input, terms)
<1> DEFINE v       == virtual_of(terms)
           fee     == trading_fee(input, input_fee_rate(terms))
           net     == input - fee
           swapped == output_for_input(net, v)
           creator == IF terms.is_creator_fee_on_input
                        THEN creator_part(fee, terms)
                        ELSE creator_fee(swapped, terms.creator_fee_rate)
           output  == IF terms.is_creator_fee_on_input
                        THEN swapped ELSE swapped - creator
<1>1. /\ terms.input_vault \in Nat /\ terms.output_vault \in Nat
      /\ terms.is_creator_fee_on_input \in BOOLEAN
      /\ terms.creator_fee_rate \in 0 .. FEE_RATE_DENOMINATOR_VALUE
      /\ input_fee_rate(terms) \in Nat
  BY DenominatorPositive DEF SoundTerms, input_fee_rate
<1>2. /\ v.x \in Nat /\ v.y \in Nat
      /\ terms.spot.num \in Nat \ {0} /\ terms.spot.den \in Nat \ {0}
      /\ v.y * terms.spot.den =< v.x * terms.spot.num
  BY <1>1, VirtualReserves DEF swap_base_input_defined, virtual_of
<1>3. fee \in Nat
  BY <1>1, DenominatorPositive, CeilDivNat DEF trading_fee
<1>4. /\ net >= 0 /\ v.x + net > 0 /\ swapped < terms.output_vault
  BY DEF swap_base_input_defined, input_less_fees, swap_base_input_serviceable
<1> HIDE DEF v, fee
<1>5. net \in Nat
  BY <1>3, <1>4
<1>6. swapped \in Nat /\ swapped * terms.spot.den =< net * terms.spot.num
  BY <1>2, <1>4, <1>5, OutputNat, OutputPrice
<1>7. net + fee = input
  BY <1>3
<1>8. swap_base_input(input, terms)
        = swap_result(input, net, output, swapped, fee, creator, terms)
  BY DEF swap_base_input, v, fee
<1> HIDE DEF net, swapped
<1>9. creator \in Nat /\ output \in Nat
  <2>1. CASE terms.is_creator_fee_on_input
    BY <1>3, <1>6, <2>1, CreatorPartBound
  <2>2. CASE ~terms.is_creator_fee_on_input
    <3>1. creator_fee(swapped, terms.creator_fee_rate) \in 0 .. swapped
      BY <1>1, <1>6, DenominatorPositive, CeilDivBound DEF creator_fee
    <3> QED BY <1>6, <2>2, <3>1
  <2> QED BY <1>1, <2>1, <2>2
<1>10. terms.is_creator_fee_on_input => creator =< fee /\ output = swapped
  BY <1>3, CreatorPartBound
<1>11. ~terms.is_creator_fee_on_input => output + creator = swapped
  BY <1>6, <1>9
<1> HIDE DEF creator, output
<1>12. SoundResult(swap_result(input, net, output, swapped, fee, creator, terms),
                   net + fee, terms)
  BY <1>2, <1>3, <1>4, <1>5, <1>6, <1>9, <1>10, <1>11, ResultSound, Zenon
<1> QED BY <1>7, <1>8, <1>12

\* So has a swap for a given output, and its input amount is what it takes.
LEMMA SwapBaseOutputSound ==
  ASSUME U128_MAX \in Nat, NEW terms, SoundTerms(terms), NEW wanted \in Nat,
         swap_base_output_defined(wanted, terms)
  PROVE  /\ SoundResult(swap_base_output(wanted, terms),
                        swap_base_output(wanted, terms).input_amount, terms)
         /\ swap_base_output(wanted, terms).input_amount \in Nat
         /\ swap_base_output(wanted, terms).output_amount = wanted
<1> DEFINE v       == virtual_of(terms)
           swapped == output_with_creator_fee(wanted, terms)
           needed  == input_for_output(swapped, v)
           input   == calculate_pre_fee_amount(needed, input_fee_rate(terms))
           fee     == input - needed
           creator == IF terms.is_creator_fee_on_input
                        THEN creator_part(fee, terms)
                        ELSE swapped - wanted
<1>1. /\ terms.input_vault \in Nat /\ terms.output_vault \in Nat
      /\ terms.is_creator_fee_on_input \in BOOLEAN
      /\ terms.creator_fee_rate \in Nat
      /\ terms.creator_fee_rate < FEE_RATE_DENOMINATOR_VALUE
      /\ input_fee_rate(terms) \in Nat
      /\ input_fee_rate(terms) < FEE_RATE_DENOMINATOR_VALUE
  BY DEF SoundTerms, input_fee_rate, swap_base_output_defined
<1>2. /\ v.x \in Nat /\ v.y \in Nat
      /\ terms.spot.num \in Nat \ {0} /\ terms.spot.den \in Nat \ {0}
      /\ v.y * terms.spot.den =< v.x * terms.spot.num
  BY <1>1, VirtualReserves DEF swap_base_output_defined, virtual_of
<1>3. /\ swapped \in Nat
      /\ terms.is_creator_fee_on_input => wanted = swapped
      /\ wanted =< swapped
  BY <1>1, PreFeeAmountBound DEF output_with_creator_fee
<1>4. swapped < v.y /\ swapped < terms.output_vault
  BY DEF swap_base_output_defined, swap_base_output_serviceable
<1> HIDE DEF v, swapped
<1>5. needed \in Nat /\ swapped * terms.spot.den =< needed * terms.spot.num
  BY <1>2, <1>3, <1>4, InputNat, InputPrice
<1> HIDE DEF needed
<1>6. input \in Nat /\ needed =< input
  BY <1>1, <1>5, PreFeeAmountBound
<1> HIDE DEF input
<1>7. fee \in Nat /\ needed + fee = input
  BY <1>5, <1>6
<1>8. swap_base_output(wanted, terms)
        = swap_result(input, needed, wanted, swapped, fee, creator, terms)
  BY DEF swap_base_output, v, swapped, needed, input
<1> HIDE DEF fee
<1>9. creator \in Nat
  BY <1>1, <1>3, <1>7, CreatorPartBound
<1>10. terms.is_creator_fee_on_input => creator =< fee /\ wanted = swapped
  BY <1>3, <1>7, CreatorPartBound
<1>11. ~terms.is_creator_fee_on_input => wanted + creator = swapped
  BY <1>3
<1> HIDE DEF creator
<1>12. SoundResult(swap_result(input, needed, wanted, swapped, fee, creator, terms),
                   needed + fee, terms)
  BY <1>2, <1>3, <1>4, <1>5, <1>7, <1>9, <1>10, <1>11, ResultSound, Zenon
<1>13. /\ swap_base_output(wanted, terms).input_amount = input
       /\ swap_base_output(wanted, terms).output_amount = wanted
  BY <1>8 DEF swap_result
<1> QED BY <1>6, <1>7, <1>8, <1>12, <1>13

-----------------------------------------------------------------------------
(* Liquidity. *)

\* The worth of pool tokens in one token is a natural, and the floored worth of
\* less than the supply is less than the reserve.
LEMMA WorthBound ==
  ASSUME NEW lp \in Nat, NEW supply \in Nat \ {0}, NEW reserve \in Nat,
         NEW round_direction
  PROVE  /\ lp_tokens_to_trading_tokens(lp, supply, reserve, round_direction) \in Nat
         /\ lp < supply /\ reserve > 0 =>
              lp_tokens_to_trading_tokens(lp, supply, reserve, "Floor") < reserve
<1> DEFINE amount == (lp * reserve) \div supply
<1>1. lp * reserve \in Nat
  OBVIOUS
<1>2. amount \in Nat
  BY <1>1, DivNat
<1>3. ASSUME lp < supply, reserve > 0 PROVE amount < reserve
  <2>1. lp * reserve < supply * reserve
    BY <1>3
  <2> QED BY <1>1, <2>1, DivBelow
<1> HIDE DEF amount
<1>4. lp_tokens_to_trading_tokens(lp, supply, reserve, "Floor") = amount
  BY DEF lp_tokens_to_trading_tokens, amount
<1>5. lp_tokens_to_trading_tokens(lp, supply, reserve, round_direction)
        \in {amount, amount + 1}
  BY DEF lp_tokens_to_trading_tokens, amount
<1> QED BY <1>2, <1>3, <1>4, <1>5

=============================================================================
