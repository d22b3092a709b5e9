------------------------------- MODULE Fees -------------------------------
(***************************************************************************)
(* Fee arithmetic of the swap program (programs/cp-swap/src/curve/fees.rs).*)
(* Rates are numerators over FEE_RATE_DENOMINATOR_VALUE.  The code works   *)
(* in u128 on u64 inputs, so none of these products overflows; a None of   *)
(* the code is a precondition here, which the callers state as a guard.    *)
(***************************************************************************)
EXTENDS Integers

FEE_RATE_DENOMINATOR_VALUE == 1000000

ceil_div(amount, numerator, denominator) ==
  (amount * numerator + denominator - 1) \div denominator

floor_div(amount, numerator, denominator) ==
  (amount * numerator) \div denominator

\* Charged on the input, rounded up, against the trader.
trading_fee(amount, rate) ==
  ceil_div(amount, rate, FEE_RATE_DENOMINATOR_VALUE)

\* The protocol's and the fund's parts of a trade fee, rounded down.
protocol_fee(amount, rate) ==
  floor_div(amount, rate, FEE_RATE_DENOMINATOR_VALUE)

fund_fee(amount, rate) ==
  floor_div(amount, rate, FEE_RATE_DENOMINATOR_VALUE)

\* The creator's fee when it is taken from the output.
creator_fee(amount, rate) ==
  ceil_div(amount, rate, FEE_RATE_DENOMINATOR_VALUE)

\* The creator's part of a fee charged at the sum of both rates (sum # 0).
split_creator_fee(total_fee, trade_fee_rate, creator_fee_rate) ==
  floor_div(total_fee, creator_fee_rate, trade_fee_rate + creator_fee_rate)

\* The gross-up with the floor a careless rewrite would produce.
calculate_pre_fee_amount_floor(post_fee_amount, rate) ==
  (post_fee_amount * FEE_RATE_DENOMINATOR_VALUE)
    \div (FEE_RATE_DENOMINATOR_VALUE - rate)

\* The least amount that leaves post_fee_amount once the fee is taken
\* (rate < FEE_RATE_DENOMINATOR_VALUE, else the code has no result).
calculate_pre_fee_amount(post_fee_amount, rate) ==
  IF rate = 0
    THEN post_fee_amount
    ELSE LET denominator == FEE_RATE_DENOMINATOR_VALUE - rate
         IN (post_fee_amount * FEE_RATE_DENOMINATOR_VALUE + denominator - 1)
              \div denominator

=============================================================================
