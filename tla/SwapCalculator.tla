-------------------------- MODULE SwapCalculator --------------------------
(***************************************************************************)
(* The amounts of one swap, and of one liquidity change                    *)
(* (programs/cp-swap/src/curve/calculator.rs and constant_product.rs).     *)
(*                                                                         *)
(* "terms" is what a swap is made on: the net reserves of both sides, the  *)
(* four rates, the side the creator fee is taken from, and the spot price  *)
(* oriented output per input:                                              *)
(*   [input_vault, output_vault, trade_fee_rate, creator_fee_rate,         *)
(*    protocol_fee_rate, fund_fee_rate, is_creator_fee_on_input, spot]     *)
(***************************************************************************)
EXTENDS Fees, OracleCurve

\* The record both swaps return; amount fields as in the code's SwapResult.
swap_result(input, swapped_in, output, swapped_out, total_fee, creator, terms) ==
  LET trade == IF terms.is_creator_fee_on_input
                 THEN total_fee - creator ELSE total_fee
  IN [ input_amount  |-> input,
       input_swapped |-> swapped_in,
       output_amount |-> output,
       output_swapped|-> swapped_out,
       trade_fee     |-> trade,
       protocol_fee  |-> protocol_fee(trade, terms.protocol_fee_rate),
       fund_fee      |-> fund_fee(trade, terms.fund_fee_rate),
       creator_fee   |-> creator ]

\* The creator's part of a total fee charged on the input.
creator_part(total_fee, terms) ==
  IF terms.trade_fee_rate + terms.creator_fee_rate = 0
    THEN 0
    ELSE split_creator_fee(total_fee, terms.trade_fee_rate, terms.creator_fee_rate)

\* The rate charged on the input: the trade fee's, and the creator's if it is
\* taken on that side.
input_fee_rate(terms) ==
  IF terms.is_creator_fee_on_input
    THEN terms.trade_fee_rate + terms.creator_fee_rate
    ELSE terms.trade_fee_rate

virtual_of(terms) ==
  virtual_reserves(terms.input_vault, terms.output_vault, terms.spot)

-----------------------------------------------------------------------------
(* Swap of a given input. *)

input_less_fees(input, terms) == input - trading_fee(input, input_fee_rate(terms))

\* swap_base_input has a result.
swap_base_input_defined(input, terms) ==
  /\ terms.input_vault > 0 /\ terms.output_vault > 0
  /\ virtual_reserves_defined(terms.input_vault, terms.output_vault, terms.spot)
  /\ input_less_fees(input, terms) >= 0
  /\ swap_base_input_serviceable(input_less_fees(input, terms),
                                 terms.output_vault, virtual_of(terms))

swap_base_input(input, terms) ==
  LET total_fee == trading_fee(input, input_fee_rate(terms))
      swapped   == output_for_input(input - total_fee, virtual_of(terms))
      creator   == IF terms.is_creator_fee_on_input
                     THEN creator_part(total_fee, terms)
                     ELSE creator_fee(swapped, terms.creator_fee_rate)
      output    == IF terms.is_creator_fee_on_input THEN swapped ELSE swapped - creator
  IN swap_result(input, input - total_fee, output, swapped, total_fee, creator, terms)

-----------------------------------------------------------------------------
(* Swap for a given output. *)

\* The output taken out of the reserves, the creator's fee included when it
\* is taken on that side.
output_with_creator_fee(output, terms) ==
  IF terms.is_creator_fee_on_input
    THEN output
    ELSE calculate_pre_fee_amount(output, terms.creator_fee_rate)

\* swap_base_output has a result (where the code unwraps a None it aborts the
\* transaction, which has no result either).
swap_base_output_defined(output, terms) ==
  /\ terms.input_vault > 0 /\ terms.output_vault > 0
  /\ virtual_reserves_defined(terms.input_vault, terms.output_vault, terms.spot)
  /\ ~terms.is_creator_fee_on_input
       => terms.creator_fee_rate < FEE_RATE_DENOMINATOR_VALUE
  /\ input_fee_rate(terms) < FEE_RATE_DENOMINATOR_VALUE
  /\ swap_base_output_serviceable(output_with_creator_fee(output, terms),
                                  terms.output_vault, virtual_of(terms))

swap_base_output(output, terms) ==
  LET swapped   == output_with_creator_fee(output, terms)
      needed    == input_for_output(swapped, virtual_of(terms))
      input     == calculate_pre_fee_amount(needed, input_fee_rate(terms))
      total_fee == input - needed
      creator   == IF terms.is_creator_fee_on_input
                     THEN creator_part(total_fee, terms)
                     ELSE swapped - output
  IN swap_result(input, needed, output, swapped, total_fee, creator, terms)

-----------------------------------------------------------------------------
(* Liquidity. *)

\* Both roundings exchanged.
lp_tokens_to_trading_tokens_exchanged(lp, supply, reserve, round_direction) ==
  LET amount == (lp * reserve) \div supply
  IN IF /\ round_direction = "Floor"
        /\ (lp * reserve) % supply > 0
        /\ amount > 0
       THEN amount + 1
       ELSE amount

\* The amount of one token that lp of a supply (> 0) of pool tokens stands for.
\* An amount that is a fraction of one unit is never rounded up.
lp_tokens_to_trading_tokens(lp, supply, reserve, round_direction) ==
  LET amount == (lp * reserve) \div supply
  IN IF /\ round_direction = "Ceiling"
        /\ (lp * reserve) % supply > 0
        /\ amount > 0
       THEN amount + 1
       ELSE amount

=============================================================================
