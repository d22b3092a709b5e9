---------------------------- MODULE OracleCurve ----------------------------
(***************************************************************************)
(* The oracle-anchored curve (programs/cp-swap/src/curve/oracle_curve.rs): *)
(* the cached quote as a rational price, the inventory skew applied to it, *)
(* and constant-product slippage on virtual reserves centred on the price. *)
(***************************************************************************)
EXTENDS Integers

CONSTANTS
  DecimalsShift,     \* mint_1_decimals - mint_0_decimals
  U128_MAX           \* largest u128; a U256 holds (U128_MAX + 1)^2 values

BPS == 10000         \* basis points in one

least(a, b) == IF a =< b THEN a ELSE b
magnitude(i) == IF i < 0 THEN -i ELSE i

\* Raw token_1 per raw token_0: mantissa * 10^(exponent + DecimalsShift), as
\* a fraction.  The mantissa is positive and both parts fit a u128
\* (representable), else the code has no price.
pyth_price_to_raw_fraction(mantissa, exponent) ==
  LET eff_exp == exponent + DecimalsShift
  IN IF eff_exp >= 0
       THEN [num |-> mantissa * 10^eff_exp, den |-> 1]
       ELSE [num |-> mantissa, den |-> 10^(-eff_exp)]

representable(price) ==
  price.num \in 1 .. U128_MAX /\ price.den \in 1 .. U128_MAX

-----------------------------------------------------------------------------
(* Inventory skew. *)

\* (value_0 - value_1) / (value_0 + value_1) in basis points, value_0 being
\* reserve_0 priced in token_1.  An empty pool has no imbalance: its callers
\* read the code's None as 0.
compute_inventory_imbalance_bps(reserve_0, reserve_1, price) ==
  LET value_0 == (reserve_0 * price.num) \div price.den
      sum     == value_0 + reserve_1
      scaled  == (magnitude(value_0 - reserve_1) * BPS) \div sum
  IN CASE sum = 0                           -> 0
       [] sum # 0 /\ value_0 >= reserve_1  -> least(scaled, BPS)
       [] sum # 0 /\ value_0 < reserve_1   -> -least(scaled, BPS)

\* The skew with its sign not flipped: it would quote away from balance.
compute_inventory_skew_bps_unflipped(imbalance, deadzone, bps_per_pct, max) ==
  LET excess   == magnitude(imbalance) - deadzone
      skew_mag == least((excess * bps_per_pct) \div 100, max)
  IN CASE excess =< 0                    -> 0
       [] excess > 0 /\ imbalance > 0   -> skew_mag
       [] excess > 0 /\ imbalance =< 0  -> -skew_mag

\* Nothing inside the dead zone; beyond it bps_per_pct per 1% of imbalance,
\* capped at max, and signed so that the surplus token gets cheaper.
compute_inventory_skew_bps(imbalance, deadzone, bps_per_pct, max) ==
  LET excess   == magnitude(imbalance) - deadzone
      skew_mag == least((excess * bps_per_pct) \div 100, max)
  IN CASE excess =< 0                    -> 0
       [] excess > 0 /\ imbalance > 0   -> -skew_mag
       [] excess > 0 /\ imbalance =< 0  -> skew_mag

\* The mantissa moved by delta basis points; a result of 0 or less is the
\* code's None.
shift_mantissa_by_signed_bps(mantissa, delta) ==
  IF delta = 0 THEN mantissa ELSE (mantissa * (BPS + delta)) \div BPS

-----------------------------------------------------------------------------
(* Virtual reserves and the swap kernel. *)

\* The integer square root of the uint library, for n a U256: the r with
\* r^2 =< n < (r + 1)^2, looked for in the one block of 64 that holds it.
integer_sqrt(n) ==
  LET block == CHOOSE b \in 0 .. U128_MAX \div 64 :
                 /\ (64 * b) * (64 * b) =< n
                 /\ n < (64 * (b + 1)) * (64 * (b + 1))
  IN CHOOSE r \in 64 * block .. 64 * block + 63 :
       r * r =< n /\ n < (r + 1) * (r + 1)

\* There is a price, and the product under the root does not overflow its U256.
virtual_reserves_defined(input_vault, output_vault, spot) ==
  /\ representable(spot)
  /\ input_vault * output_vault * spot.den < (U128_MAX + 1) * (U128_MAX + 1)

\* x * y is (about) the pool's own product and y / x the spot price, output
\* per input; the second one is derived from the first, rounding down.
virtual_reserves(input_vault, output_vault, spot) ==
  LET x_v == integer_sqrt((input_vault * output_vault * spot.den) \div spot.num)
  IN [x |-> x_v, y |-> (x_v * spot.num) \div spot.den]

\* The output rounded up.
output_for_input_ceiled(input, v) ==
  (v.y * input + v.x + input - 1) \div (v.x + input)

\* The output for an input, on virtual reserves v (v.x + input > 0).
output_for_input(input, v) == (v.y * input) \div (v.x + input)

\* The serviceability test made against the virtual instead of the real side.
swap_base_input_serviceable_virtual(input, output_vault, v) ==
  /\ v.x + input > 0
  /\ output_for_input(input, v) =< v.y

\* swap_base_input_without_fees has a result: the pool keeps some output.
swap_base_input_serviceable(input, output_vault, v) ==
  /\ v.x + input > 0
  /\ output_for_input(input, v) < output_vault

\* Ceiling division on the virtual reserves replaced by the floor.
input_for_output_floor(output, v) == (v.x * output) \div (v.y - output)

\* The input that buys an output, rounded up (output < v.y).
input_for_output(output, v) ==
  (v.x * output + (v.y - output) - 1) \div (v.y - output)

\* swap_base_output_without_fees has a result.
swap_base_output_serviceable(output, output_vault, v) ==
  /\ output < v.y
  /\ output < output_vault

=============================================================================
