------------------------------- MODULE Client -------------------------------
(***************************************************************************)
(* The commands of the client that move tokens (client/src/main.rs:        *)
(* Deposit, Withdraw, SwapBaseIn, SwapBaseOut), composed with the pool.    *)
(*                                                                         *)
(* A command reads the pool's accounts at one moment, computes in a copy   *)
(* of the program's arithmetic what the instruction would do, sets its     *)
(* limit by the configured slippage, and sends one transaction.  Others    *)
(* use the pool between the reading and the execution; the transaction may *)
(* as well be refused, or expire.                                          *)
(***************************************************************************)
EXTENDS Pool

CONSTANTS
  SLIPPAGE,     \* the configured slippage, [num, den]
  EPOCH,        \* the epoch, a number
  LpOrders,     \* pool-token amounts the user gives a command
  SwapOrders    \* token amounts the user gives a command

ASSUME ClientAssumption ==
  /\ SLIPPAGE \in [num : Nat, den : Nat \ {0}] /\ SLIPPAGE.num =< SLIPPAGE.den
  /\ EPOCH \in Nat
  /\ LpOrders \subseteq U64
  /\ SwapOrders \subseteq U64

VARIABLES
  order,     \* the command's transaction, with what its preview printed
  fresh      \* whether the pool is still as the command read it

clientVars == <<vars, order, fresh>>

NoOrder == [kind |-> "None"]

ClientInit == Init /\ order = NoOrder /\ fresh = FALSE

\* amount * (1 + slippage) rounded up, or amount * (1 - slippage) rounded down,
\* in f64.  Where the exact product is a whole number, its f64 may lie on either
\* side of it, and the rounding then yields the number or the one beyond; a
\* slippage of 0 is exact.  (Amounts here are far below the 2^53 an f64 holds.)
amount_with_slippage(amount, round_up) ==
  LET scaled  == amount * (SLIPPAGE.den + (IF round_up THEN 1 ELSE -1) * SLIPPAGE.num)
      floor   == scaled \div SLIPPAGE.den
      whole   == scaled % SLIPPAGE.den = 0
      inexact == IF whole /\ SLIPPAGE.num > 0 THEN 1 ELSE 0
  IN IF round_up
       THEN {least(floor + (IF whole THEN extra ELSE 1), U64_MAX) : extra \in 0 .. inexact}
       ELSE {floor - less : less \in {l \in 0 .. inexact : l =< floor}}

\* An amount of 128 bits cast to 64.
as_u64(amount) == amount % (U64_MAX + 1)

-----------------------------------------------------------------------------
(* What the commands read. *)

\* The pool exists, and its vaults hold the fees they owe (an unwrap).
readable == created /\ vault_covers_fees

\* The price of the other side of the quote.
preview_spot_rate_of_other_side(direction) ==
  LET price == pyth_price_to_raw_fraction(
                 IF direction = "ZeroForOne" THEN oracle.ask ELSE oracle.bid,
                 oracle.exponent)
  IN IF direction = "ZeroForOne"
       THEN price
       ELSE [num |-> price.den, den |-> price.num]

\* The cached quote without its skew ("previews only need rough quotes").
preview_spot_rate(direction) ==
  LET price == pyth_price_to_raw_fraction(
                 IF direction = "ZeroForOne" THEN oracle.bid ELSE oracle.ask,
                 oracle.exponent)
  IN IF direction = "ZeroForOne"
       THEN price
       ELSE [num |-> price.den, den |-> price.num]

\* The config's trade rate where a dynamic rate has replaced it.
preview_terms_on_config_rate(direction) ==
  [swap_terms(direction) EXCEPT !.spot = preview_spot_rate(direction),
                                !.trade_fee_rate = amm_config.trade_fee_rate]

\* The reserves, rates and fee side a swap is previewed on: the program's own.
preview_terms(direction) ==
  [swap_terms(direction) EXCEPT !.spot = preview_spot_rate(direction)]

\* What a swap of amount_in on these terms brings the user, and what a swap for
\* amount_out costs them, transfer fees deducted and added.
received_for(direction, amount_in, terms) ==
  LET actual == credited(TransferFeeOf[input_of(direction)], amount_in)
  IN credited(TransferFeeOf[output_of(direction)],
              swap_base_input(actual, terms).output_amount)

sent_to_receive(direction, amount_out, terms) ==
  LET actual == sent_for(output_of(direction), amount_out)
  IN sent_for(input_of(direction), swap_base_output(actual, terms).input_amount)

\* The transaction is signed and sent.
send(transaction) ==
  /\ order = NoOrder
  /\ order' = transaction
  /\ fresh' = TRUE
  /\ UNCHANGED vars

-----------------------------------------------------------------------------
(* The commands. *)

\* The maximum of token t: the slippage is added first, then the transfer fee,
\* which both commands below compute of the epoch: they pass it for the amount.
\* The worth they begin with is cut to 64 bits.
deposit_limits(t, amount) ==
  { slipped + get_transfer_inverse_fee(TransferFeeOf[t], EPOCH) :
      slipped \in amount_with_slippage(as_u64(amount), TRUE) }

CommandDeposit(lp_token_amount) ==
  LET amounts == trading_tokens(lp_token_amount, "Ceiling")
  IN /\ readable
     /\ lp_supply > 0
     /\ \E max_0 \in deposit_limits(0, amounts[0]), max_1 \in deposit_limits(1, amounts[1]) :
          /\ max_0 \in U64 /\ max_1 \in U64
          /\ send([kind |-> "Deposit", amount |-> lp_token_amount, quoted |-> amounts,
                   limit |-> [t \in Token |-> IF t = 0 THEN max_0 ELSE max_1]])

\* The minimum of token t, none if the fee of the epoch exceeds it (an unwrap).
withdraw_limits(t, amount) ==
  { slipped - get_transfer_fee(TransferFeeOf[t], EPOCH) :
      slipped \in amount_with_slippage(as_u64(amount), FALSE) }

\* The preview rounds the worth up, where the program rounds it down.
CommandWithdraw(lp_token_amount) ==
  LET amounts == trading_tokens(lp_token_amount, "Ceiling")
  IN /\ readable
     /\ lp_supply > 0
     /\ \E min_0 \in withdraw_limits(0, amounts[0]), min_1 \in withdraw_limits(1, amounts[1]) :
          /\ min_0 \in U64 /\ min_1 \in U64
          /\ send([kind |-> "Withdraw", amount |-> lp_token_amount, quoted |-> amounts,
                   limit |-> [t \in Token |-> IF t = 0 THEN min_0 ELSE min_1]])

CommandSwapBaseIn(direction, user_input_amount) ==
  LET terms    == preview_terms(direction)
      actual   == credited(TransferFeeOf[input_of(direction)], user_input_amount)
      received == received_for(direction, user_input_amount, terms)
  IN /\ readable
     /\ cached_oracle_quote
     /\ swap_base_input_defined(actual, terms)
     /\ \E minimum_amount_out \in amount_with_slippage(received, FALSE) :
          send([kind |-> "SwapBaseIn", direction |-> direction,
                amount |-> user_input_amount, quoted |-> received,
                limit |-> minimum_amount_out])

CommandSwapBaseOut(direction, amount_out_less_fee) ==
  LET terms  == preview_terms(direction)
      actual == sent_for(output_of(direction), amount_out_less_fee)
      sent   == sent_to_receive(direction, amount_out_less_fee, terms)
  IN /\ readable
     /\ cached_oracle_quote
     /\ actual \in U64
     /\ swap_base_output_defined(actual, terms)
     /\ sent \in U64
     /\ \E max_amount_in \in amount_with_slippage(sent, TRUE) :
          send([kind |-> "SwapBaseOut", direction |-> direction,
                amount |-> amount_out_less_fee, quoted |-> sent,
                limit |-> max_amount_in])

Command ==
  \/ \E lp \in LpOrders : CommandDeposit(lp) \/ CommandWithdraw(lp)
  \/ \E direction \in TradeDirection, amount \in SwapOrders :
       CommandSwapBaseIn(direction, amount) \/ CommandSwapBaseOut(direction, amount)

-----------------------------------------------------------------------------
(* What becomes of the transaction. *)

\* The minimum lost on the way into the instruction.
instruction_without_minimum ==
  \/ order.kind = "SwapBaseIn"  /\ SwapBaseInput(order.direction, order.amount, 0)
  \/ order.kind = "SwapBaseOut" /\ SwapBaseOutput(order.direction, order.limit, order.amount)

\* The instruction the transaction carries, its arguments in place.
instruction ==
  \/ order.kind = "Deposit"     /\ Deposit(order.amount, order.limit)
  \/ order.kind = "Withdraw"    /\ Withdraw(order.amount, order.limit)
  \/ order.kind = "SwapBaseIn"  /\ SwapBaseInput(order.direction, order.amount, order.limit)
  \/ order.kind = "SwapBaseOut" /\ SwapBaseOutput(order.direction, order.limit, order.amount)

Execute == instruction /\ order' = NoOrder /\ fresh' = FALSE

\* Refused by the program, dropped by the network or expired.  (It is sent
\* without a preflight, so a refusal is found only in its execution.)
Fail == order # NoOrder /\ order' = NoOrder /\ fresh' = FALSE /\ UNCHANGED vars

\* What the four instructions depend on.
pool_accounts == <<amm_config, pool, status, oracle, lp_supply, feeVars, vault>>

Others ==
  /\ Next
  /\ fresh' = (fresh /\ UNCHANGED pool_accounts)
  /\ UNCHANGED order

ClientNext == Command \/ Execute \/ Fail \/ Others

ClientSpec == ClientInit /\ [][ClientNext]_clientVars

-----------------------------------------------------------------------------
(* Properties. *)

\* What the instructions compare with their limits, in the pool as it is now.
would_receive == received_for(order.direction, order.amount, swap_terms(order.direction))
would_send    == sent_to_receive(order.direction, order.amount, swap_terms(order.direction))
would_deposit(t)  == sent_for(t, trading_tokens(order.amount, "Ceiling")[t])
would_withdraw(t) ==
  credited(TransferFeeOf[t], least(vault_amount_without_fee(t),
                                   trading_tokens(order.amount, "Floor")[t]))

\* A pool that is as the command read it never refuses the transaction for its
\* limit, if the limit is one the preview can get right: swaps where no skew is
\* in force, which previews leave out; liquidity worth a u64 in tokens without a
\* transfer fee; withdrawals of pool tokens that exist, whose slippage is worth
\* the unit by which they round up.
FreshOrderTaken ==
  fresh =>
    /\ order.kind = "SwapBaseIn" /\ inventory_skew_bps = 0 => would_receive >= order.limit
    /\ order.kind = "SwapBaseOut" /\ inventory_skew_bps = 0 => would_send =< order.limit
    /\ \A t \in Token : TransferFeeOf[t].bps = 0 =>
         /\ order.kind = "Deposit" /\ order.quoted[t] \in U64
              => would_deposit(t) =< order.limit[t]
         /\ order.kind = "Withdraw" /\ order.quoted[t] \in U64
            /\ order.amount =< lp_supply
            /\ order.quoted[t] * SLIPPAGE.num >= SLIPPAGE.den
              => would_withdraw(t) >= order.limit[t]

\* The same of a deposit in any token: the maximum allows for the transfer fee
\* of what is deposited ("Calculate the fee for output amount",
\* instructions/utils.rs:101), so that a deposit made at once is not refused.
DepositLimitAllowsFee ==
  fresh /\ order.kind = "Deposit" => \A t \in Token : would_deposit(t) =< order.limit[t]

\* The transaction of the order is executed: no other step ends the order and
\* moves tokens.
executed(kind) == order.kind = kind /\ order' = NoOrder /\ vault' # vault

\* What the user received of token t in this step, and what they sent of it.
received_of(t) == credited(TransferFeeOf[t], vault[t] - vault'[t])
sent_of(t)     == sent_for(t, vault'[t] - vault[t])

\* The instruction does exactly what was printed; a withdrawal may pay a unit
\* less.
as_previewed ==
  /\ executed("SwapBaseIn") /\ inventory_skew_bps = 0
       => received_of(output_of(order.direction)) = order.quoted
  /\ executed("SwapBaseOut") /\ inventory_skew_bps = 0
       => sent_of(input_of(order.direction)) = order.quoted
  /\ executed("Deposit")
       => \A t \in Token : vault'[t] - vault[t] = order.quoted[t]
  /\ executed("Withdraw")
       => \A t \in Token : vault[t] - vault'[t] \in {order.quoted[t] - 1, order.quoted[t]}

\* On a pool that is as it was read, and quotes without skew, a transaction does
\* what its preview printed: the client's copy of the program's arithmetic and of
\* the quote's side, fee rates and fee side has not drifted from it.
PreviewExact == [][fresh => as_previewed]_clientVars

\* The user ends with the previewed amount less slippage, or pays no more than it
\* plus slippage, transfer fees included, but for the last unit.  Of liquidity
\* this is for tokens without a transfer fee, and of a withdrawal for a worth that
\* is a u64.
within_slippage ==
  /\ executed("SwapBaseIn") =>
       received_of(output_of(order.direction)) * SLIPPAGE.den
         >= order.quoted * (SLIPPAGE.den - SLIPPAGE.num) - SLIPPAGE.den
  /\ executed("SwapBaseOut") =>
       /\ received_of(output_of(order.direction)) = order.amount
       /\ sent_of(input_of(order.direction)) * SLIPPAGE.den
            =< order.quoted * (SLIPPAGE.den + SLIPPAGE.num) + SLIPPAGE.den
  /\ \A t \in Token : TransferFeeOf[t].bps = 0 =>
       /\ executed("Deposit") =>
            (vault'[t] - vault[t]) * SLIPPAGE.den
              =< order.quoted[t] * (SLIPPAGE.den + SLIPPAGE.num) + SLIPPAGE.den
       /\ executed("Withdraw") /\ order.quoted[t] \in U64 =>
            (vault[t] - vault'[t]) * SLIPPAGE.den
              >= order.quoted[t] * (SLIPPAGE.den - SLIPPAGE.num) - SLIPPAGE.den

\* Whatever others did to the pool, its quote or its rates between the preview and
\* the execution, with skew or without, no transaction costs its user more than
\* the configured slippage.
SlippageHonoured == [][within_slippage]_clientVars

=============================================================================
