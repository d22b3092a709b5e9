----------------------------- MODULE SwapQuotes -----------------------------
(***************************************************************************)
(* The two ways to swap and the two ways to send, compared: no behaviour   *)
(* here, only one asked amount after another on terms chosen once.  The    *)
(* references are the definitions by search that the closed forms of       *)
(* curve/calculator.rs, curve/fees.rs and utils/token.rs replace.          *)
(***************************************************************************)
EXTENDS SwapCalculator, TransferFee

CONSTANTS
  Cases,        \* swap terms, each with a transfer fee schedule
  MAX_AMOUNT    \* largest amount asked

ASSUME QuotesAssumption ==
  /\ MAX_AMOUNT \in Nat /\ U128_MAX \in Nat
  /\ Cases \subseteq
       [ terms : [ input_vault : Nat, output_vault : Nat,
                   trade_fee_rate : Nat, creator_fee_rate : Nat,
                   protocol_fee_rate : Nat, fund_fee_rate : Nat,
                   is_creator_fee_on_input : BOOLEAN,
                   spot : [num : Nat, den : Nat] ],
         schedule : [bps : 0 .. MAX_FEE_BASIS_POINTS, max : Nat] ]

VARIABLES terms, schedule, amount

quoteVars == <<terms, schedule, amount>>

QuotesInit ==
  /\ \E c \in Cases : terms = c.terms /\ schedule = c.schedule
  /\ amount = 1

AskMore ==
  /\ amount < MAX_AMOUNT
  /\ amount' = amount + 1
  /\ UNCHANGED <<terms, schedule>>

QuotesSpec == QuotesInit /\ [][AskMore]_quoteVars

-----------------------------------------------------------------------------
(* Properties. *)

\* Input i buys the asked amount with swap_base_input, if it buys anything.
buys(i) == swap_base_input(i, terms).output_amount >= amount

\* The input swap_base_output asks for an output is the least for which
\* swap_base_input gives that output: through both fee sides, both roundings of
\* the gross-up and the curve's, the two instructions quote one price and
\* neither is a way round the other.  (A unit of input may be worth several of
\* output: then swap_base_input may give more, or refuse to give all there is.)
ExactOutputPaysTheLeast ==
  swap_base_output_defined(amount, terms) =>
    LET input == swap_base_output(amount, terms).input_amount
    IN /\ swap_base_input_defined(input, terms) => buys(input)
       /\ \A i \in 1 .. input - 1 :
            ~ (swap_base_input_defined(i, terms) /\ buys(i))

\* Any amount can be made to arrive exactly, under any transfer fee: the
\* gross-up never fails (TransferFeeCalculateNotMatch is unreachable), never
\* leaves the vault short and never asks for a unit too many.
TransferArrivesExactly ==
  LET sent == amount + get_transfer_inverse_fee(schedule, amount)
  IN /\ inverse_fee_defined(schedule, amount)
     /\ credited(schedule, sent) = amount
     /\ \A less \in 0 .. sent - 1 : credited(schedule, less) < amount

=============================================================================
