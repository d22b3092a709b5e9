-------------------------- MODULE ArithmeticProofs --------------------------
(***************************************************************************)
(* Theorems about modules SwapQuotes and QuoteWidening, for every amount,  *)
(* reserve, rate, price and fee schedule.                                  *)
(*                                                                         *)
(* A transfer of x delivers an amount, at least, exactly if x has the cap  *)
(* of the fee to spare or pays for the rate without rounding.  The         *)
(* gross-up is the least such x, and one unit more sent is never more than *)
(* one unit more delivered, so what it delivers is exact.                  *)
(*                                                                         *)
(* Every stage of a swap, of the input less its fee, of the curve and of   *)
(* the output less the creator's fee, gives at least an amount exactly     *)
(* from the input on that the same stage of the other instruction asks for *)
(* it; the least input is that of the stages one after the other.          *)
(*                                                                         *)
(* Each of a keeper's results is monotone in the confidence: a chain of    *)
(* monotone steps (the quotient, the cap on the spread, half of it on      *)
(* either side of the price, the market's own side, the cap on the fee).   *)
(***************************************************************************)
EXTENDS SwapQuotes, QuoteWidening, CurveProofs

-----------------------------------------------------------------------------
(* Transfers. *)

\* A quotient rounded up is at most a bound exactly if nothing is left over.
LEMMA CeilAtMost ==
  ASSUME NEW n \in Nat, NEW d \in Nat \ {0}, NEW b \in Nat
  PROVE  /\ (n + d - 1) \div d \in Nat
         /\ (n + d - 1) \div d =< b <=> n =< d * b
<1> DEFINE ceil == (n + d - 1) \div d
<1>1. n + d - 1 \in Nat
  OBVIOUS
<1>2. ceil \in Nat /\ d * ceil =< n + d - 1 /\ n + d - 1 < d * ceil + d
  BY <1>1, DivNat
<1> HIDE DEF ceil
<1>3. d * b \in Nat /\ d * ceil \in Nat
  BY <1>2
<1>4. ASSUME ceil =< b PROVE n =< d * b
  <2>1. d * ceil =< d * b
    BY <1>2, <1>4
  <2> QED BY <1>2, <1>3, <2>1
<1>5. ASSUME b + 1 =< ceil PROVE ~(n =< d * b)
  <2>1. d * (b + 1) =< d * ceil
    BY <1>2, <1>5
  <2>2. d * (b + 1) = d * b + d
    OBVIOUS
  <2> QED BY <1>2, <1>3, <2>1, <2>2
<1>6. ceil =< b <=> n =< d * b
  BY <1>2, <1>4, <1>5
<1> QED BY <1>2, <1>6 DEF ceil

\* The epoch fee is at most a bound if its cap or its rate is.
LEMMA EpochFeeAtMost ==
  ASSUME NEW s \in Schedule, NEW x \in Nat, NEW f \in Nat
  PROVE  calculate_epoch_fee(s, x) =< f
           <=> s.max =< f \/ x * s.bps =< MAX_FEE_BASIS_POINTS * f
<1> DEFINE D   == MAX_FEE_BASIS_POINTS
           raw == (x * s.bps + D - 1) \div D
<1>1. D \in Nat \ {0} /\ s.bps \in Nat /\ s.max \in Nat
  BY MaxFeePositive, ScheduleFields
<1>2. x * s.bps \in Nat
  BY <1>1
<1>3. calculate_epoch_fee(s, x) = IF raw =< s.max THEN raw ELSE s.max
  BY DEF calculate_epoch_fee
<1> HIDE DEF D
<1>4. raw \in Nat /\ (raw =< f <=> x * s.bps =< D * f)
  BY <1>1, <1>2, CeilAtMost
<1> HIDE DEF raw
<1> QED BY <1>1, <1>3, <1>4 DEF D

\* When at least an amount arrives.
LEMMA Arrives ==
  ASSUME NEW s \in Schedule, NEW x \in Nat, NEW a \in Nat \ {0}
  PROVE  a =< credited(s, x)
           <=> \/ a + s.max =< x
               \/ a * MAX_FEE_BASIS_POINTS =< x * (MAX_FEE_BASIS_POINTS - s.bps)
<1> DEFINE D    == MAX_FEE_BASIS_POINTS
           rest == D - s.bps
           fee  == calculate_epoch_fee(s, x)
<1>1. /\ D \in Nat \ {0} /\ s.bps \in Nat /\ s.max \in Nat
      /\ rest \in Nat /\ rest =< D /\ s.bps = D - rest
  BY MaxFeePositive, ScheduleFields
<1>2. fee \in Nat /\ fee =< x
  BY EpochFeeBound
<1>3. credited(s, x) = x - fee
  BY DEF credited, get_transfer_fee
<1>4. \A f \in Nat : fee =< f <=> s.max =< f \/ x * s.bps =< D * f
  BY EpochFeeAtMost
<1> HIDE DEF D, rest, fee
<1>5. x * rest \in Nat /\ x * rest =< x * D /\ x * D \in Nat /\ a * D \in Nat
  BY <1>1
<1>6. CASE a =< x
  <2>1. x - a \in Nat
    BY <1>6
  <2>2. D * (x - a) = x * D - a * D
    BY <1>1
  <2>3. x * s.bps = x * D - x * rest
    BY <1>1
  <2>4. a =< x - fee <=> fee =< x - a
    BY <1>2, <1>6
  <2>5. x * s.bps =< D * (x - a) <=> a * D =< x * rest
    BY <1>5, <2>2, <2>3
  <2>6. fee =< x - a <=> s.max =< x - a \/ x * s.bps =< D * (x - a)
    BY <1>4, <2>1
  <2>7. s.max =< x - a <=> a + s.max =< x
    BY <1>1
  <2>8. a =< x - fee <=> a + s.max =< x \/ a * D =< x * rest
    BY <2>4, <2>5, <2>6, <2>7
  <2> QED BY <1>3, <2>8 DEF D, rest
<1>7. CASE x < a
  <2>1. ~(a =< x - fee) /\ ~(a + s.max =< x)
    BY <1>1, <1>2, <1>7
  <2>2. x * D + D =< a * D
    <3>1. (x + 1) * D =< a * D
      BY <1>1, <1>7
    <3> QED BY <1>1, <3>1
  <2>3. ~(a * D =< x * rest)
    BY <1>1, <1>5, <2>2
  <2> QED BY <1>3, <2>1, <2>3 DEF D, rest
<1> QED BY <1>6, <1>7

\* One unit more sent is at most one unit more delivered.
LEMMA CreditedStep ==
  ASSUME NEW s \in Schedule, NEW x \in Nat
  PROVE  credited(s, x + 1) =< credited(s, x) + 1
<1> DEFINE D == MAX_FEE_BASIS_POINTS
           f == calculate_epoch_fee(s, x + 1)
           g == calculate_epoch_fee(s, x)
<1>1. D \in Nat \ {0} /\ s.bps \in Nat /\ s.max \in Nat
  BY MaxFeePositive, ScheduleFields
<1>2. f \in Nat /\ g \in Nat
  BY EpochFeeBound
<1>3. s.max =< f \/ (x + 1) * s.bps =< D * f
  <2>1. f =< f
    BY <1>2
  <2> QED BY <1>2, <2>1, EpochFeeAtMost
<1>4. x * s.bps =< (x + 1) * s.bps
  <2>1. (x + 1) * s.bps = x * s.bps + s.bps /\ x * s.bps \in Nat
    BY <1>1
  <2> QED BY <1>1, <2>1
<1>5. s.max =< f \/ x * s.bps =< D * f
  <2>1. x * s.bps \in Nat /\ (x + 1) * s.bps \in Nat /\ D * f \in Nat
    BY <1>1, <1>2
  <2> QED BY <1>3, <1>4, <2>1
<1>6. g =< f
  BY <1>2, <1>5, EpochFeeAtMost
<1>7. credited(s, x + 1) = (x + 1) - f
  BY Zenon DEF credited, get_transfer_fee
<1>8. credited(s, x) = x - g
  BY Zenon DEF credited, get_transfer_fee
<1> HIDE DEF f, g
<1> QED BY <1>2, <1>6, <1>7, <1>8

\* The least amount that delivers enough delivers no more than that.
LEMMA LeastIsExact ==
  ASSUME NEW s \in Schedule, NEW a \in Nat \ {0}, NEW sent \in Nat,
         a =< credited(s, sent),
         \A less \in 0 .. sent - 1 : credited(s, less) < a
  PROVE  credited(s, sent) = a
<1>1. sent # 0
  BY CreditedBound
<1>2. sent - 1 \in 0 .. sent - 1 /\ sent - 1 \in Nat /\ sent - 1 + 1 = sent
  BY <1>1
<1>3. credited(s, sent - 1) < a
  BY <1>2
<1>4. credited(s, sent) =< credited(s, sent - 1) + 1
  BY <1>2, CreditedStep
<1>5. credited(s, sent) \in Nat /\ credited(s, sent - 1) \in Nat
  BY <1>2, CreditedBound
<1> QED BY <1>3, <1>4, <1>5

\* Below the maximum rate the gross-up is the least amount that delivers.
LEMMA PreFeeIsLeast ==
  ASSUME NEW s \in Schedule, NEW a \in Nat \ {0}, s.bps # MAX_FEE_BASIS_POINTS
  PROVE  LET sent == calculate_pre_fee(s, a)
         IN /\ sent \in Nat
            /\ a =< credited(s, sent)
            /\ \A less \in 0 .. sent - 1 : credited(s, less) < a
<1> DEFINE D    == MAX_FEE_BASIS_POINTS
           rest == D - s.bps
           raw  == (a * D + rest - 1) \div rest
           sent == calculate_pre_fee(s, a)
<1>1. /\ D \in Nat \ {0} /\ s.max \in Nat /\ rest \in Nat \ {0}
  BY MaxFeePositive, ScheduleFields
<1>2. a * D \in Nat
  BY <1>1
<1>3. sent = IF raw - a >= s.max THEN a + s.max ELSE raw
  BY DEF calculate_pre_fee
<1>4. \A x \in Nat : raw =< x <=> a * D =< x * rest
  <2>1. \A x \in Nat : x * rest = rest * x
    BY <1>1
  <2> HIDE DEF D, rest
  <2> QED BY <1>1, <1>2, <2>1, CeilAtMost
<1>5. raw \in Nat
  <2> HIDE DEF D, rest
  <2> QED BY <1>1, <1>2, CeilAtMost
<1>6. \A x \in Nat : a =< credited(s, x) <=> a + s.max =< x \/ a * D =< x * rest
  BY Arrives
<1> HIDE DEF raw, sent
<1>7. \A x \in Nat : a =< credited(s, x) <=> a + s.max =< x \/ raw =< x
  BY <1>4, <1>6
<1>8. \A x \in Nat : credited(s, x) \in Nat
  BY CreditedBound
<1> HIDE DEF D, rest
<1>9. sent \in Nat
  BY <1>1, <1>3, <1>5
<1>10. \A x \in Nat : a =< credited(s, x) <=> sent =< x
  BY <1>1, <1>3, <1>5, <1>7
<1>11. a =< credited(s, sent)
  BY <1>9, <1>10
<1>12. \A less \in 0 .. sent - 1 : credited(s, less) < a
  BY <1>8, <1>9, <1>10
<1> QED BY <1>9, <1>11, <1>12 DEF sent

\* Of a single amount under a single schedule: what is computed to be sent.
LEMMA OneArrivesExactly ==
  ASSUME NEW s \in Schedule, NEW a \in Nat \ {0}
  PROVE  LET sent == a + get_transfer_inverse_fee(s, a)
         IN /\ inverse_fee_defined(s, a)
            /\ credited(s, sent) = a
            /\ \A less \in 0 .. sent - 1 : credited(s, less) < a
<1> DEFINE D    == MAX_FEE_BASIS_POINTS
           fee  == get_transfer_inverse_fee(s, a)
           sent == a + fee
<1>1. D \in Nat \ {0} /\ s.bps \in 0 .. D /\ s.max \in Nat
  BY MaxFeePositive, ScheduleFields
<1>2. fee \in Nat /\ sent \in Nat
  BY InverseFeeNat
<1>3. \A x \in Nat : credited(s, x) \in 0 .. x
  BY CreditedBound
<1>4. CASE s.bps = D
  <2>1. fee = s.max
    BY <1>4 DEF get_transfer_inverse_fee
  <2>2. \A x \in Nat : a =< credited(s, x) <=> a + s.max =< x
    <3>1. \A x \in Nat : ~(a * D =< x * (D - s.bps))
      <4>1. a * D > 0
        BY <1>1
      <4>2. \A x \in Nat : x * (D - s.bps) = 0
        BY <1>1, <1>4
      <4>3. a * D \in Nat
        BY <1>1
      <4> HIDE DEF D
      <4> QED BY <4>1, <4>2, <4>3
    <3> QED BY <3>1, Arrives
  <2> HIDE DEF fee
  <2>3. a =< credited(s, sent)
    BY <1>2, <2>1, <2>2
  <2>4. \A less \in 0 .. sent - 1 : credited(s, less) < a
    BY <1>1, <1>2, <1>3, <2>1, <2>2
  <2>5. credited(s, sent) = a
    BY <1>2, <2>3, <2>4, LeastIsExact
  <2>6. inverse_fee_defined(s, a)
    BY <1>4 DEF inverse_fee_defined
  <2> QED BY <2>4, <2>5, <2>6 DEF fee
<1>5. CASE s.bps = 0
  <2>1. D # 0
    BY <1>1
  <2>2. fee = 0
    BY <1>5, <2>1 DEF get_transfer_inverse_fee, calculate_inverse_epoch_fee
  <2>3. \A x \in Nat : calculate_epoch_fee(s, x) = 0
    <3> SUFFICES ASSUME NEW x \in Nat PROVE calculate_epoch_fee(s, x) = 0
      OBVIOUS
    <3>1. x * s.bps =< D * 0
      BY <1>1, <1>5
    <3>2. calculate_epoch_fee(s, x) =< 0
      BY <3>1, EpochFeeAtMost
    <3> QED BY <3>2, EpochFeeBound
  <2>4. \A x \in Nat : credited(s, x) = x
    BY <2>3 DEF credited, get_transfer_fee
  <2>5. fee = calculate_epoch_fee(s, a + fee)
    BY <1>2, <2>2, <2>3
  <2>6. inverse_fee_defined(s, a)
    BY <2>5 DEF inverse_fee_defined
  <2> HIDE DEF fee
  <2>7. credited(s, sent) = a /\ \A less \in 0 .. sent - 1 : credited(s, less) < a
    BY <1>2, <2>2, <2>4
  <2> QED BY <2>6, <2>7 DEF fee
<1>6. CASE s.bps # D /\ s.bps # 0
  <2> DEFINE pre == calculate_pre_fee(s, a)
  <2>1. /\ pre \in Nat
        /\ a =< credited(s, pre)
        /\ \A less \in 0 .. pre - 1 : credited(s, less) < a
    BY <1>6, PreFeeIsLeast
  <2>2. fee = calculate_epoch_fee(s, pre)
    BY <1>6 DEF get_transfer_inverse_fee, calculate_inverse_epoch_fee
  <2> HIDE DEF pre
  <2>3. credited(s, pre) = a
    BY <2>1, LeastIsExact
  <2>4. credited(s, pre) = pre - fee
    BY <2>2 DEF credited, get_transfer_fee
  <2>5. sent = pre
    BY <1>2, <2>1, <2>3, <2>4
  <2>6. inverse_fee_defined(s, a)
    BY <2>2, <2>5 DEF inverse_fee_defined
  <2> QED BY <2>1, <2>3, <2>5, <2>6
<1> QED BY <1>4, <1>5, <1>6

-----------------------------------------------------------------------------
(* Swaps. *)

\* An amount is left of an input, its fee taken, from the gross-up on.
LEMMA LeftFromGrossUp ==
  ASSUME NEW i \in Nat, NEW left \in Nat, NEW rate \in Nat,
         rate < FEE_RATE_DENOMINATOR_VALUE
  PROVE  /\ trading_fee(i, rate) \in Nat
         /\ left =< i - trading_fee(i, rate)
              <=> calculate_pre_fee_amount(left, rate) =< i
<1> DEFINE D    == FEE_RATE_DENOMINATOR_VALUE
           rest == D - rate
           fee  == (i * rate + D - 1) \div D
           raw  == (left * D + rest - 1) \div rest
<1>1. D \in Nat \ {0} /\ rest \in Nat \ {0} /\ rate = D - rest
  BY DenominatorPositive
<1>2. trading_fee(i, rate) = fee
  BY DEF trading_fee, ceil_div
<1>3. calculate_pre_fee_amount(left, rate) = IF rate = 0 THEN left ELSE raw
  BY DEF calculate_pre_fee_amount
<1> HIDE DEF D, rest
<1>4. i * rate \in Nat /\ left * D \in Nat /\ i * rest \in Nat /\ i * D \in Nat
  BY <1>1
<1>5. fee \in Nat /\ \A b \in Nat : fee =< b <=> i * rate =< D * b
  BY <1>1, <1>4, CeilAtMost
<1>6. raw =< i <=> left * D =< i * rest
  <2>1. rest * i = i * rest
    BY <1>1
  <2> QED BY <1>1, <1>4, <2>1, CeilAtMost
<1> HIDE DEF fee, raw
<1>7. left =< i - fee <=> left * D =< i * rest
  <2>1. CASE left =< i
    <3>1. i - left \in Nat
      BY <2>1
    <3>2. D * (i - left) = i * D - left * D
      BY <1>1
    <3>3. i * rate = i * D - i * rest
      BY <1>1
    <3>4. left =< i - fee <=> fee =< i - left
      BY <1>5, <2>1
    <3>5. i * rate =< D * (i - left) <=> left * D =< i * rest
      BY <1>4, <3>2, <3>3
    <3> QED BY <1>5, <3>1, <3>4, <3>5
  <2>2. CASE i < left
    <3>1. (i + 1) * D =< left * D
      BY <1>1, <2>2
    <3>2. (i + 1) * D = i * D + D
      BY <1>1
    <3>3. i * rest =< i * D
      BY <1>1
    <3>4. ~(left * D =< i * rest)
      BY <1>1, <1>4, <3>1, <3>2, <3>3
    <3>5. ~(left =< i - fee)
      BY <1>5, <2>2
    <3> QED BY <3>4, <3>5
  <2> QED BY <2>1, <2>2
<1>8. CASE rate = 0
  <2>1. rest = D
    BY <1>1, <1>8
  <2>2. left * D =< i * D <=> left =< i
    <3>1. ASSUME left =< i PROVE left * D =< i * D
      BY <1>1, <3>1
    <3>2. ASSUME i < left PROVE ~(left * D =< i * D)
      <4>1. (i + 1) * D =< left * D /\ (i + 1) * D = i * D + D
        BY <1>1, <3>2
      <4> QED BY <1>1, <1>4, <4>1
    <3> QED BY <3>1, <3>2
  <2> QED BY <1>2, <1>3, <1>5, <1>7, <1>8, <2>1, <2>2
<1>9. CASE rate # 0
  BY <1>2, <1>3, <1>5, <1>6, <1>7, <1>9
<1> QED BY <1>8, <1>9

\* The curve gives an output from the input it asks for it on.
LEMMA GivenFromInput ==
  ASSUME NEW n \in Nat, NEW out \in Nat, NEW v, v.x \in Nat, v.y \in Nat,
         v.x + n > 0, out < v.y
  PROVE  out =< output_for_input(n, v) <=> input_for_output(out, v) =< n
<1> DEFINE x == v.x
           y == v.y
           g == (y * n) \div (x + n)
           m == (x * out + (y - out) - 1) \div (y - out)
<1>1. x \in Nat /\ y \in Nat /\ x + n \in Nat \ {0} /\ y - out \in Nat \ {0}
  OBVIOUS
<1>2. output_for_input(n, v) = g /\ input_for_output(out, v) = m
  BY DEF output_for_input, input_for_output
<1> HIDE DEF x, y
<1>3. /\ y * n \in Nat /\ x * out \in Nat /\ n * out \in Nat
      /\ out * (x + n) = x * out + n * out
      /\ (y - out) * n = y * n - n * out
  BY <1>1
<1>4. g \in Nat /\ (x + n) * g =< y * n /\ y * n < (x + n) * g + (x + n)
  BY <1>1, <1>3, DivNat
<1>5. m =< n <=> x * out =< (y - out) * n
  BY <1>1, <1>3, CeilAtMost
<1> HIDE DEF g, m
<1>6. (x + n) * g \in Nat /\ out * (x + n) \in Nat /\ (x + n) * out = out * (x + n)
  BY <1>1, <1>4
<1>7. ASSUME out =< g PROVE out * (x + n) =< y * n
  <2>1. (x + n) * out =< (x + n) * g
    BY <1>1, <1>4, <1>7
  <2> QED BY <1>3, <1>4, <1>6, <2>1
<1>8. ASSUME g + 1 =< out PROVE ~(out * (x + n) =< y * n)
  <2>1. (x + n) * (g + 1) =< (x + n) * out
    BY <1>1, <1>4, <1>8
  <2>2. (x + n) * (g + 1) = (x + n) * g + (x + n)
    BY <1>1, <1>4
  <2> QED BY <1>1, <1>3, <1>4, <1>6, <2>1, <2>2
<1>9. out =< g <=> out * (x + n) =< y * n
  BY <1>4, <1>7, <1>8
<1>10. out * (x + n) =< y * n <=> x * out =< (y - out) * n
  BY <1>3
<1> QED BY <1>2, <1>5, <1>9, <1>10

Terms ==
  [ input_vault : Nat, output_vault : Nat,
    trade_fee_rate : Nat, creator_fee_rate : Nat,
    protocol_fee_rate : Nat, fund_fee_rate : Nat,
    is_creator_fee_on_input : BOOLEAN, spot : [num : Nat, den : Nat] ]

\* swap_base_input buys an output exactly from the input swap_base_output asks.
LEMMA BuysFromInput ==
  ASSUME U128_MAX \in Nat, NEW t \in Terms, NEW a \in Nat, NEW i \in Nat,
         swap_base_output_defined(a, t), swap_base_input_defined(i, t)
  PROVE  a =< swap_base_input(i, t).output_amount
           <=> swap_base_output(a, t).input_amount =< i
<1> DEFINE v       == virtual_of(t)
           r       == input_fee_rate(t)
           n       == i - trading_fee(i, r)
           g       == output_for_input(n, v)
           swapped == output_with_creator_fee(a, t)
           needed  == input_for_output(swapped, v)
<1>1. /\ t.input_vault \in Nat /\ t.output_vault \in Nat
      /\ t.trade_fee_rate \in Nat /\ t.creator_fee_rate \in Nat
      /\ t.is_creator_fee_on_input \in BOOLEAN
  BY DEF Terms
<1>2. r \in Nat /\ r < FEE_RATE_DENOMINATOR_VALUE
  BY <1>1 DEF input_fee_rate, swap_base_output_defined
<1>3. v.x \in Nat /\ v.y \in Nat
  BY <1>1, VirtualReserves DEF virtual_of, swap_base_output_defined
<1>4. trading_fee(i, r) \in Nat
  BY <1>2, LeftFromGrossUp
<1>5. n \in Nat /\ v.x + n > 0
  BY <1>4 DEF swap_base_input_defined, input_less_fees, swap_base_input_serviceable
<1>6. swapped \in Nat /\ swapped < v.y
  <2>1. swapped < v.y
    BY DEF swap_base_output_defined, swap_base_output_serviceable
  <2>2. swapped \in Nat
    BY <1>1, PreFeeAmountBound
       DEF output_with_creator_fee, swap_base_output_defined
  <2> QED BY <2>1, <2>2
<1>7. g \in Nat
  BY <1>3, <1>5, OutputNat
<1>8. needed \in Nat
  BY <1>3, <1>6, InputNat
<1>9. swap_base_output(a, t).input_amount = calculate_pre_fee_amount(needed, r)
  BY DEF swap_base_output, swap_result
<1>10. swap_base_input(i, t).output_amount
         = IF t.is_creator_fee_on_input
             THEN g ELSE g - creator_fee(g, t.creator_fee_rate)
  BY DEF swap_base_input, swap_result
<1> HIDE DEF v, r, n, g, swapped, needed
<1>11. calculate_pre_fee_amount(needed, r) =< i <=> needed =< n
  BY <1>2, <1>8, LeftFromGrossUp DEF n
<1>12. needed =< n <=> swapped =< g
  BY <1>3, <1>5, <1>6, GivenFromInput DEF needed, g
<1>13. CASE t.is_creator_fee_on_input
  BY <1>9, <1>10, <1>11, <1>12, <1>13 DEF swapped, output_with_creator_fee
<1>14. CASE ~t.is_creator_fee_on_input
  <2>1. swapped = calculate_pre_fee_amount(a, t.creator_fee_rate)
    BY <1>14 DEF swapped, output_with_creator_fee
  <2>2. t.creator_fee_rate < FEE_RATE_DENOMINATOR_VALUE
    BY <1>14 DEF swap_base_output_defined
  <2>3. creator_fee(g, t.creator_fee_rate) = trading_fee(g, t.creator_fee_rate)
    BY DEF creator_fee, trading_fee
  <2>4. a =< g - trading_fee(g, t.creator_fee_rate)
          <=> calculate_pre_fee_amount(a, t.creator_fee_rate) =< g
    BY <1>1, <1>7, <2>2, LeftFromGrossUp
  <2> QED BY <1>9, <1>10, <1>11, <1>12, <1>14, <2>1, <2>3, <2>4
<1> QED BY <1>13, <1>14

-----------------------------------------------------------------------------
(* Any amount asked on any terms. *)

\* Terms and schedule are a case's, and something is asked.
Asked == terms \in Terms /\ schedule \in Schedule /\ amount \in Nat \ {0}

LEMMA AskedInit == QuotesInit => Asked
BY QuotesAssumption DEF QuotesInit, Asked, Terms, Schedule

LEMMA AskedStep == Asked /\ [AskMore]_quoteVars => Asked'
BY DEF Asked, AskMore, quoteVars

\* For every amount and fee schedule: the amount computed to be sent delivers
\* exactly what was asked, and the error the program keeps for a gross-up that
\* does not match never occurs.
THEOREM TransferAlwaysArrives == QuotesSpec => []TransferArrivesExactly
<1>1. Asked => TransferArrivesExactly
  BY OneArrivesExactly DEF Asked, TransferArrivesExactly
<1> QED BY <1>1, AskedInit, AskedStep, PTL DEF QuotesSpec

\* For every output, reserve, rate and price: the input swap_base_output asks
\* for an output is the least for which swap_base_input gives it.
THEOREM ExactOutputAlwaysLeast == QuotesSpec => []ExactOutputPaysTheLeast
<1>1. ASSUME Asked PROVE ExactOutputPaysTheLeast
  <2> DEFINE input == swap_base_output(amount, terms).input_amount
  <2> SUFFICES ASSUME swap_base_output_defined(amount, terms)
               PROVE  /\ swap_base_input_defined(input, terms) => buys(input)
                      /\ \A i \in 1 .. input - 1 :
                           ~ (swap_base_input_defined(i, terms) /\ buys(i))
    BY DEF ExactOutputPaysTheLeast
  <2>1. terms \in Terms /\ amount \in Nat /\ U128_MAX \in Nat
    BY <1>1, QuotesAssumption DEF Asked
  <2>2. input \in Nat
    <3>1. input = calculate_pre_fee_amount(
                    input_for_output(output_with_creator_fee(amount, terms),
                                     virtual_of(terms)),
                    input_fee_rate(terms))
      BY DEF swap_base_output, swap_result
    <3>2. /\ terms.input_vault \in Nat /\ terms.output_vault \in Nat
          /\ terms.trade_fee_rate \in Nat /\ terms.creator_fee_rate \in Nat
      BY <2>1 DEF Terms
    <3>3. /\ input_fee_rate(terms) \in Nat
          /\ input_fee_rate(terms) < FEE_RATE_DENOMINATOR_VALUE
      BY <3>2 DEF input_fee_rate, swap_base_output_defined
    <3>4. virtual_of(terms).x \in Nat /\ virtual_of(terms).y \in Nat
      BY <2>1, <3>2, VirtualReserves DEF virtual_of, swap_base_output_defined
    <3>5. output_with_creator_fee(amount, terms) \in Nat
      BY <2>1, <3>2, PreFeeAmountBound
         DEF output_with_creator_fee, swap_base_output_defined
    <3>6. output_with_creator_fee(amount, terms) < virtual_of(terms).y
      BY DEF swap_base_output_defined, swap_base_output_serviceable
    <3>7. input_for_output(output_with_creator_fee(amount, terms),
                           virtual_of(terms)) \in Nat
      BY <3>4, <3>5, <3>6, InputNat
    <3> QED BY <3>1, <3>3, <3>7, PreFeeAmountBound
  <2>3. ASSUME NEW i \in Nat, swap_base_input_defined(i, terms)
        PROVE  amount =< swap_base_input(i, terms).output_amount <=> input =< i
    BY <2>1, <2>3, BuysFromInput
  <2> HIDE DEF input
  <2>4. swap_base_input_defined(input, terms) => buys(input)
    BY <2>2, <2>3 DEF buys
  <2>5. \A i \in 1 .. input - 1 : ~ (swap_base_input_defined(i, terms) /\ buys(i))
    BY <2>2, <2>3 DEF buys
  <2> QED BY <2>4, <2>5
<1> QED BY <1>1, AskedInit, AskedStep, PTL DEF QuotesSpec

-----------------------------------------------------------------------------
(* Quotes of a price: signed quotients, absent values. *)

LEMMA BpsNat == BPS \in Nat \ {0} /\ 2 * BPS \in Nat \ {0}
BY DEF BPS

\* An absent value counts as 0.
LEMMA OrZeroIsInt == ASSUME NEW S \in SUBSET Int PROVE or_zero(S) \in Int
<1>1. CASE S = {}
  BY <1>1 DEF or_zero
<1>2. CASE S # {}
  <2>1. (CHOOSE v \in S : TRUE) \in S
    BY <1>2
  <2> QED BY <1>2, <2>1 DEF or_zero
<1> QED BY <1>1, <1>2

LEMMA OrZeroOfOne == ASSUME NEW c \in Int PROVE or_zero({c}) = c
<1>1. (CHOOSE v \in {c} : TRUE) \in {c}
  OBVIOUS
<1> QED BY <1>1 DEF or_zero

\* Division of any integer by a positive number.
LEMMA DivOfInt ==
  ASSUME NEW a \in Int, NEW d \in Nat \ {0}
  PROVE  a \div d \in Int /\ d * (a \div d) =< a /\ a < d * (a \div d) + d
  OBVIOUS

LEMMA DivGrows ==
  ASSUME NEW a \in Int, NEW b \in Int, NEW d \in Nat \ {0}, a =< b
  PROVE  a \div d =< b \div d
<1> DEFINE m == a \div d
           n == b \div d
<1>1. m \in Int /\ n \in Int /\ d * m =< a /\ b < d * n + d
  BY DivOfInt
<1> HIDE DEF m, n
<1>2. ASSUME n < m PROVE FALSE
  <2>1. n + 1 =< m
    BY <1>1, <1>2
  <2>2. d * (n + 1) =< d * m
    BY <1>1, <2>1
  <2>3. d * (n + 1) = d * n + d /\ d * n \in Int /\ d * m \in Int
    BY <1>1
  <2> QED BY <1>1, <2>2, <2>3
<1> QED BY <1>1, <1>2 DEF m, n

-----------------------------------------------------------------------------
(* One price and its quote. *)

Quotable ==
  [ price : Int, exponent : Int, confidence : SUBSET Int,
    best_bid : SUBSET Int, best_ask : SUBSET Int ]

\* A confidence in basis points is a natural, greater for a greater one.
LEMMA ConfidenceGrows ==
  ASSUME NEW p \in Quotable, NEW r \in Quotable, p.price > 0, r.price = p.price,
         or_zero(p.confidence) =< or_zero(r.confidence)
  PROVE  confidence_bps(p) \in Nat /\ confidence_bps(p) =< confidence_bps(r)
<1> DEFINE c == or_zero(p.confidence)
           e == or_zero(r.confidence)
<1>1. p.price \in Nat \ {0} /\ c \in Int /\ e \in Int /\ c =< e
  BY OrZeroIsInt DEF Quotable
<1>2. /\ confidence_bps(p) = IF c > 0 THEN (c * BPS) \div p.price ELSE 0
      /\ confidence_bps(r) = IF e > 0 THEN (e * BPS) \div p.price ELSE 0
  BY DEF confidence_bps
<1> HIDE DEF c, e
<1>3. ASSUME NEW n \in Int, n > 0 PROVE (n * BPS) \div p.price \in Nat
  <2>1. n * BPS \in Nat
    BY <1>3 DEF BPS
  <2> QED BY <1>1, <2>1, DivNat
<1>4. ASSUME c > 0 PROVE (c * BPS) \div p.price =< (e * BPS) \div p.price
  <2>1. c * BPS \in Int /\ e * BPS \in Int /\ c * BPS =< e * BPS
    BY <1>1 DEF BPS
  <2> QED BY <1>1, <2>1, DivGrows
<1>5. c > 0 => e > 0
  BY <1>1
<1>6. CASE c > 0
  BY <1>1, <1>2, <1>3, <1>4, <1>5, <1>6
<1>7. CASE ~(c > 0)
  <2>1. CASE e > 0
    <3>1. (e * BPS) \div p.price \in Nat
      BY <1>1, <1>3, <2>1
    <3> QED BY <1>2, <1>7, <2>1, <3>1
  <2>2. CASE ~(e > 0)
    BY <1>2, <1>7, <2>2
  <2> QED BY <2>1, <2>2
<1> QED BY <1>6, <1>7

\* So is the spread, and it stays within the cap of the pool's own.
LEMMA SpreadGrows ==
  ASSUME NEW p \in Quotable, NEW r \in Quotable, NEW m \in Nat,
         p.price > 0, r.price = p.price,
         or_zero(p.confidence) =< or_zero(r.confidence)
  PROVE  LET s == compute_confidence_adjusted_min_spread_bps(m, p)
             t == compute_confidence_adjusted_min_spread_bps(m, r)
         IN s \in Nat /\ t \in Nat /\ s =< t /\ s =< m + MAX_CONFIDENCE_SPREAD_BPS
<1> DEFINE a == confidence_bps(p)
           b == confidence_bps(r)
<1>1. a \in Nat /\ b \in Nat /\ a =< b
  <2>1. or_zero(r.confidence) =< or_zero(r.confidence) /\ r.price > 0
    BY OrZeroIsInt DEF Quotable
  <2> QED BY <2>1, ConfidenceGrows
<1>2. /\ compute_confidence_adjusted_min_spread_bps(m, p)
           = least(m + least(a, MAX_CONFIDENCE_SPREAD_BPS), U16_MAX)
      /\ compute_confidence_adjusted_min_spread_bps(m, r)
           = least(m + least(b, MAX_CONFIDENCE_SPREAD_BPS), U16_MAX)
  BY DEF compute_confidence_adjusted_min_spread_bps
<1> HIDE DEF a, b
<1> QED BY <1>1, <1>2 DEF least, MAX_CONFIDENCE_SPREAD_BPS, U16_MAX

\* Half a greater spread on either side of a price is further out.
LEMMA FloorsWiden ==
  ASSUME NEW p \in Quotable, NEW r \in Quotable, NEW s \in Nat, NEW t \in Nat,
         p.price > 0, r.price = p.price, s =< t
  PROVE  /\ bid_floor(p, s) \in Int /\ bid_floor(r, t) \in Int
         /\ ask_floor(p, s) \in Int /\ ask_floor(r, t) \in Int
         /\ bid_floor(r, t) =< bid_floor(p, s)
         /\ ask_floor(p, s) =< ask_floor(r, t)
<1> DEFINE n == p.price
           D == 2 * BPS
<1>1. n \in Nat \ {0} /\ D \in Nat \ {0}
  BY BpsNat DEF Quotable
<1>2. /\ bid_floor(p, s) = (n * (D - s)) \div D
      /\ bid_floor(r, t) = (n * (D - t)) \div D
      /\ ask_floor(p, s) = (n * (D + s)) \div D
      /\ ask_floor(r, t) = (n * (D + t)) \div D
  BY DEF bid_floor, ask_floor
<1> HIDE DEF n, D
<1>3. /\ n * (D - s) \in Int /\ n * (D - t) \in Int
      /\ n * (D + s) \in Int /\ n * (D + t) \in Int
  BY <1>1
<1>4. /\ n * (D - t) =< n * (D - s)
      /\ n * (D + s) =< n * (D + t)
  BY <1>1
<1> QED BY <1>1, <1>2, <1>3, <1>4, DivOfInt, DivGrows

\* And so are the bid and the ask that also honour the market's.
LEMMA QuoteWidens ==
  ASSUME NEW p \in Quotable, NEW r \in Quotable, NEW s \in Nat, NEW t \in Nat,
         p.price > 0, r.price = p.price, s =< t,
         r.best_bid = p.best_bid, r.best_ask = p.best_ask
  PROVE  /\ effective_bid(r, t) =< effective_bid(p, s)
         /\ effective_ask(r, t) >= effective_ask(p, s)
<1> DEFINE b == or_zero(p.best_bid)
           a == or_zero(p.best_ask)
           lp == bid_floor(p, s)
           lr == bid_floor(r, t)
           hp == ask_floor(p, s)
           hr == ask_floor(r, t)
<1>1. b \in Int /\ a \in Int
  BY OrZeroIsInt DEF Quotable
<1>2. /\ lp \in Int /\ lr \in Int /\ hp \in Int /\ hr \in Int
      /\ lr =< lp /\ hp =< hr
  BY FloorsWiden
<1>3. /\ effective_bid(p, s) = IF b > 0 /\ b < lp THEN b ELSE lp
      /\ effective_bid(r, t) = IF b > 0 /\ b < lr THEN b ELSE lr
      /\ effective_ask(p, s) = IF a > 0 /\ a > hp THEN a ELSE hp
      /\ effective_ask(r, t) = IF a > 0 /\ a > hr THEN a ELSE hr
  BY DEF effective_bid, effective_ask
<1> HIDE DEF b, a, lp, lr, hp, hr
<1> QED BY <1>1, <1>2, <1>3

\* The fee grows to its cap, unless the confidence is cut to a u64.
LEMMA FeeGrows ==
  ASSUME NEW p \in Quotable, NEW r \in Quotable, NEW base \in Nat,
         p.price > 0, r.price = p.price,
         or_zero(p.confidence) =< or_zero(r.confidence),
         confidence_bps(r) < U64_RANGE
  PROVE  compute_dynamic_fee_rate(base, p) =< compute_dynamic_fee_rate(base, r)
<1> DEFINE a == confidence_bps(p)
           b == confidence_bps(r)
<1>1. a \in Nat /\ b \in Nat /\ a =< b /\ U64_RANGE \in Nat \ {0}
  <2>1. or_zero(r.confidence) =< or_zero(r.confidence) /\ r.price > 0
    BY OrZeroIsInt DEF Quotable
  <2> QED BY <2>1, ConfidenceGrows, WideningAssumption
<1>2. fee_for_confidence(p) = (a % U64_RANGE) * FEE_RATE_UNITS_PER_BPS
      /\ fee_for_confidence(r) = (b % U64_RANGE) * FEE_RATE_UNITS_PER_BPS
  BY DEF fee_for_confidence
<1>3. b < U64_RANGE
  OBVIOUS
<1> HIDE DEF a, b
<1>4. a % U64_RANGE = a /\ b % U64_RANGE = b
  BY <1>1, <1>3
<1>5. /\ fee_for_confidence(p) = a * FEE_RATE_UNITS_PER_BPS
      /\ fee_for_confidence(r) = b * FEE_RATE_UNITS_PER_BPS
  BY <1>2, <1>4
<1> QED BY <1>1, <1>5
        DEF compute_dynamic_fee_rate, FEE_RATE_UNITS_PER_BPS, least,
            FEE_RATE_DENOMINATOR_VALUE

-----------------------------------------------------------------------------
(* Any price, as it loses confidence. *)

WideningTypeOK == q \in Quotable /\ cache \in Caches

LEMMA WideningTypes == WideningSpec => []WideningTypeOK
<1>1. WideningInit => WideningTypeOK
  BY WideningAssumption DEF WideningInit, WideningTypeOK, Quotable
<1>2. WideningTypeOK /\ [LoseConfidence]_wideningVars => WideningTypeOK'
  <2> SUFFICES ASSUME WideningTypeOK, [LoseConfidence]_wideningVars PROVE WideningTypeOK'
    OBVIOUS
  <2>1. CASE LoseConfidence
    <3>1. PICK c \in Confidences : q' = [q EXCEPT !.confidence = {c}]
      BY <2>1 DEF LoseConfidence
    <3>2. {c} \in SUBSET Int
      BY WideningAssumption
    <3>3. q' \in Quotable
      BY <3>1, <3>2 DEF WideningTypeOK, Quotable
    <3> QED BY <2>1, <3>3 DEF WideningTypeOK, LoseConfidence
  <2>2. CASE UNCHANGED wideningVars
    BY <2>2 DEF wideningVars, WideningTypeOK
  <2> QED BY <2>1, <2>2
<1> QED BY <1>1, <1>2, PTL DEF WideningSpec

\* A less certain price never gets a tighter quote on either side, nor a lower
\* fee: for any price, sides of the market, pool and rate.
THEOREM QuotesAlwaysWiden == WideningSpec => WidensWithUncertainty
<1> DEFINE before == compute_update_fields(q, cache)
           A == update_fields_defined(q, cache) /\ update_fields_defined(q, cache)' =>
                  /\ before'.bid =< before.bid
                  /\ before'.ask >= before.ask
                  /\ confidence_bps(q)' < U64_RANGE
                       => before'.dynamic_fee_rate >= before.dynamic_fee_rate
<1>1. ASSUME WideningTypeOK, LoseConfidence PROVE A
  <2> SUFFICES ASSUME update_fields_defined(q, cache)
               PROVE  /\ before'.bid =< before.bid
                      /\ before'.ask >= before.ask
                      /\ confidence_bps(q)' < U64_RANGE
                           => before'.dynamic_fee_rate >= before.dynamic_fee_rate
    OBVIOUS
  <2>1. PICK c \in Confidences : /\ c > or_zero(q.confidence)
                                 /\ q' = [q EXCEPT !.confidence = {c}]
    BY <1>1 DEF LoseConfidence
  <2>2. c \in Int /\ {c} \in SUBSET Int /\ or_zero(q.confidence) \in Int
    BY <1>1, OrZeroIsInt, WideningAssumption DEF WideningTypeOK, Quotable
  <2>3. /\ q \in Quotable /\ q' \in Quotable
        /\ q'.price = q.price /\ q'.best_bid = q.best_bid /\ q'.best_ask = q.best_ask
        /\ q'.confidence = {c}
    BY <1>1, <2>1, <2>2 DEF WideningTypeOK, Quotable
  <2>4. or_zero(q.confidence) =< or_zero(q'.confidence)
    BY <2>1, <2>2, <2>3, OrZeroOfOne
  <2>5. cache' = cache /\ cache.min_spread_bps \in Nat /\ cache.base_trade_fee_rate \in Nat
    BY <1>1, WideningAssumption DEF LoseConfidence, WideningTypeOK
  <2>6. q.price > 0
    BY DEF update_fields_defined, bid_ask_defined
  <2> DEFINE s == compute_confidence_adjusted_min_spread_bps(cache.min_spread_bps, q)
             t == compute_confidence_adjusted_min_spread_bps(cache.min_spread_bps, q')
  <2>7. s \in Nat /\ t \in Nat /\ s =< t
    BY <2>3, <2>4, <2>5, <2>6, SpreadGrows
  <2>8. /\ before.bid = effective_bid(q, s) /\ before.ask = effective_ask(q, s)
        /\ before.dynamic_fee_rate
             = compute_dynamic_fee_rate(cache.base_trade_fee_rate, q)
    BY DEF compute_update_fields, spread_for
  <2>9. /\ before'.bid = effective_bid(q', t) /\ before'.ask = effective_ask(q', t)
        /\ before'.dynamic_fee_rate
             = compute_dynamic_fee_rate(cache.base_trade_fee_rate, q')
    BY <2>5 DEF compute_update_fields, spread_for
  <2>10. confidence_bps(q)' = confidence_bps(q')
    OBVIOUS
  <2> HIDE DEF before, s, t
  <2>11. /\ effective_bid(q', t) =< effective_bid(q, s)
         /\ effective_ask(q', t) >= effective_ask(q, s)
    BY <2>3, <2>6, <2>7, QuoteWidens
  <2>12. ASSUME confidence_bps(q') < U64_RANGE
         PROVE  compute_dynamic_fee_rate(cache.base_trade_fee_rate, q)
                  =< compute_dynamic_fee_rate(cache.base_trade_fee_rate, q')
    BY <2>3, <2>4, <2>5, <2>6, <2>12, FeeGrows
  <2> QED BY <2>8, <2>9, <2>10, <2>11, <2>12
<1>2. ASSUME WideningTypeOK, [LoseConfidence]_wideningVars PROVE [A]_wideningVars
  BY <1>1, <1>2
<1>3. WideningSpec => [][A]_wideningVars
  BY <1>2, WideningTypes, PTL DEF WideningSpec
<1> QED BY <1>3 DEF WidensWithUncertainty

\* Two units of price are enough for a bid of one at any spread a pool can have.
LEMMA BidLeft ==
  ASSUME NEW n \in Nat, n >= 2, NEW s \in Nat, s =< 1020
  PROVE  (n * (2 * BPS - s)) \div (2 * BPS) >= 1
<1> DEFINE a == n * (2 * BPS - s)
           d == a \div (2 * BPS)
<1>1. a \in Int /\ a >= 2 * BPS
  <2>1. 2 * BPS - s \in Int /\ 2 * BPS - s >= BPS /\ BPS \in Nat
    BY DEF BPS
  <2> DEFINE w == 2 * BPS - s
  <2> HIDE DEF w
  <2>2. w \in Int /\ w >= BPS
    BY <2>1 DEF w
  <2>3. n * w \in Int /\ n * w >= 2 * w
    BY <2>1, <2>2
  <2>4. n * w >= 2 * BPS
    BY <2>1, <2>2, <2>3
  <2> QED BY <2>3, <2>4 DEF w
<1>2. d \in Int /\ a < 2 * BPS * d + 2 * BPS
  BY <1>1, BpsNat, DivOfInt
<1> HIDE DEF a, d
<1>3. d >= 1
  BY <1>1, <1>2 DEF BPS
<1> QED BY <1>3 DEF d, a

\* A keeper has a quote and a fee the program takes for every price of two units
\* or more, whatever the confidence and the market's sides.
THEOREM PricesAlwaysQuoted == WideningSpec => []EveryPriceQuoted
<1>1. ASSUME WideningTypeOK PROVE EveryPriceQuoted
  <2> DEFINE s == spread_for(q, cache)
             n == q.price
             base == cache.base_trade_fee_rate
  <2> SUFFICES ASSUME n >= 2, effective_ask(q, s) =< I64_MAX
               PROVE  /\ update_fields_defined(q, cache)
                      /\ LET fields == compute_update_fields(q, cache)
                         IN /\ fields.bid \in 1 .. fields.ask
                            /\ fields.dynamic_fee_rate
                                 \in base .. FEE_RATE_DENOMINATOR_VALUE - 1
    BY DEF EveryPriceQuoted
  <2>1. /\ q \in Quotable /\ n \in Nat /\ n > 0
        /\ cache.min_spread_bps \in Nat /\ cache.min_spread_bps =< 1000
        /\ base \in Nat /\ base < FEE_RATE_DENOMINATOR_VALUE
    BY <1>1, WideningAssumption DEF WideningTypeOK, Quotable
  <2>2. or_zero(q.confidence) =< or_zero(q.confidence)
    BY <2>1, OrZeroIsInt DEF Quotable
  <2>3. s \in Nat /\ s =< 1020
    <3>1. s \in Nat /\ s =< cache.min_spread_bps + MAX_CONFIDENCE_SPREAD_BPS
      BY <2>1, <2>2, SpreadGrows DEF spread_for
    <3> HIDE DEF s
    <3> QED BY <2>1, <3>1 DEF MAX_CONFIDENCE_SPREAD_BPS
  <2> DEFINE low == bid_floor(q, s)
             high == ask_floor(q, s)
             b == or_zero(q.best_bid)
             a == or_zero(q.best_ask)
  <2> HIDE DEF s
  <2>4. low \in Int /\ high \in Int /\ b \in Int /\ a \in Int
    <3>1. s =< s
      BY <2>3
    <3> QED BY <2>1, <2>3, <3>1, FloorsWiden, OrZeroIsInt DEF Quotable
  <2>5. low >= 1
    BY <2>1, <2>3, BidLeft DEF bid_floor
  <2>6. low =< high
    <3>1. /\ n * (2 * BPS - s) \in Int /\ n * (2 * BPS + s) \in Int
          /\ n * (2 * BPS - s) =< n * (2 * BPS + s)
      BY <2>1, <2>3, BpsNat
    <3> QED BY <3>1, BpsNat, DivGrows DEF bid_floor, ask_floor
  <2>7. /\ effective_bid(q, s) = IF b > 0 /\ b < low THEN b ELSE low
        /\ effective_ask(q, s) = IF a > 0 /\ a > high THEN a ELSE high
    BY DEF effective_bid, effective_ask
  <2> HIDE DEF low, high, b, a
  <2>8. /\ effective_bid(q, s) \in Int /\ effective_ask(q, s) \in Int
        /\ effective_bid(q, s) >= 1
        /\ effective_bid(q, s) =< effective_ask(q, s)
    BY <2>4, <2>5, <2>6, <2>7
  <2>9. update_fields_defined(q, cache)
    BY <2>1, <2>8 DEF update_fields_defined, bid_ask_defined, s
  <2>10. compute_dynamic_fee_rate(base, q) \in base .. FEE_RATE_DENOMINATOR_VALUE - 1
    <3>1. confidence_bps(q) \in Nat
      BY <2>1, <2>2, ConfidenceGrows
    <3> DEFINE m == confidence_bps(q) % U64_RANGE
    <3>2. m \in Nat
      BY <3>1, WideningAssumption
    <3>3. compute_dynamic_fee_rate(base, q)
            = least(base + m * FEE_RATE_UNITS_PER_BPS, FEE_RATE_DENOMINATOR_VALUE - 1)
      BY <2>1 DEF compute_dynamic_fee_rate, fee_for_confidence
    <3> HIDE DEF m, base
    <3> QED BY <2>1, <3>2, <3>3
            DEF least, FEE_RATE_UNITS_PER_BPS, FEE_RATE_DENOMINATOR_VALUE
  <2>11. compute_update_fields(q, cache)
           = [ bid              |-> effective_bid(q, s),
               ask              |-> effective_ask(q, s),
               exponent         |-> q.exponent,
               dynamic_fee_rate |-> compute_dynamic_fee_rate(base, q) ]
    BY DEF compute_update_fields, s
  <2>12. effective_bid(q, s) \in 1 .. effective_ask(q, s)
    BY <2>8
  <2> QED BY <2>9, <2>10, <2>11, <2>12
<1> QED BY <1>1, WideningTypes, PTL

=============================================================================
