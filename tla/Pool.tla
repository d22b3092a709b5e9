-------------------------------- MODULE Pool --------------------------------
(***************************************************************************)
(* One pool of the swap program (programs/cp-swap/src): its AmmConfig, its *)
(* PoolState, its two vaults, its LP mint and its observations.            *)
(*                                                                         *)
(* Every instruction of the program is one transaction, so one step: a     *)
(* failing require!, a checked operation without result, an unwrap and an  *)
(* integer overflow all abort it and leave every account as it was, which  *)
(* here is a guard.  Instructions of different signers come in any order.  *)
(*                                                                         *)
(* What callers may send is drawn from the sets declared below; the        *)
(* theorems hold for any such sets, the machine's full ranges included.    *)
(***************************************************************************)
EXTENDS SwapCalculator, TransferFee, Observation

CONSTANTS
  U64_MAX,            \* largest u64: amounts above it do not exist
  LOCK_LP_AMOUNT,     \* pool tokens counted in lp_supply, minted to nobody (100)
  Q32,                \* scale of the observed prices (2^32)
  Admin,              \* the key crate::admin::ID
  Keys,               \* all keys: signers, owners, keepers, creators
  MAX_TIME,           \* the clock stops here (bound of the model)
  TransferFeeOf,      \* the transfer fee schedule of each token's mint
  InitAmounts,        \* pairs of amounts a creator may open a pool with
  LpAmounts,          \* pool-token amounts deposited, withdrawn, burned
  SwapAmounts,        \* amounts swapped
  FeeAmounts,         \* amounts requested from the accrued fees
  GiftAmounts,        \* amounts sent to a vault outside the program
  Limits,             \* slippage limits
  PoolArgs,           \* argument records of the two initialize instructions
  Quotes,             \* [bid, ask, exponent, dynamic_fee_rate] a keeper pushes
  Configs,            \* rates a config is created with
  Rates,              \* rates an admin sets later
  Statuses            \* pool status values: sets of disabled operations

Token == {0, 1}
TradeDirection == {"ZeroForOne", "OneForZero"}
CreatorFeeOn == {"BothToken", "OnlyToken0", "OnlyToken1"}
PoolStatusBitIndex == {"Deposit", "Withdraw", "Swap"}
U64 == 0 .. U64_MAX

input_of(direction)  == IF direction = "ZeroForOne" THEN 0 ELSE 1
output_of(direction) == 1 - input_of(direction)

ASSUME PoolAssumption ==
  /\ U64_MAX \in Nat
  /\ U128_MAX \in Nat /\ U64_MAX =< U128_MAX
  /\ LOCK_LP_AMOUNT \in Nat \ {0}
  /\ Q32 \in Nat \ {0}
  /\ DecimalsShift \in Int
  /\ Admin \in Keys
  /\ MAX_TIME \in Nat
  /\ TransferFeeOf \in [Token -> [bps : 0 .. MAX_FEE_BASIS_POINTS, max : Nat]]
  /\ InitAmounts \subseteq [Token -> U64]
  /\ LpAmounts \subseteq U64
  /\ SwapAmounts \subseteq U64
  /\ FeeAmounts \subseteq U64
  /\ GiftAmounts \subseteq U64
  /\ Limits \subseteq U64
  /\ PoolArgs \subseteq
       [ open_time : Nat, pyth_price_feed_id : Nat, min_spread_bps : Nat,
         inventory_skew_enabled : BOOLEAN, inventory_skew_deadzone_bps : Nat,
         inventory_skew_bps_per_pct : Nat, inventory_skew_max_bps : Nat ]
  /\ Quotes \subseteq [bid : Int, ask : Int, exponent : Int, dynamic_fee_rate : Nat]
  /\ Configs \subseteq [trade : Nat, protocol : Nat, fund : Nat, creator : Nat]
  /\ Rates \subseteq Nat
  /\ Statuses \subseteq SUBSET PoolStatusBitIndex

VARIABLES
  amm_config,     \* AmmConfig: rates, owners, pool creation switch
  permissions,    \* keys that hold a permission account
  created,        \* whether the pool's accounts exist
  pool,           \* PoolState fields written at creation only
  status,         \* PoolState.status as the set of disabled operations
  oracle,         \* PoolState's oracle keeper and cached quote
  lp_supply,      \* PoolState.lp_supply
  lp_mint_supply, \* supply of the LP mint (external: the token program's)
  protocol_fees,  \* PoolState.protocol_fees_token_0/1
  fund_fees,      \* PoolState.fund_fees_token_0/1
  creator_fees,   \* PoolState.creator_fees_token_0/1
  vault,          \* balances of the token vaults
  observation,    \* ObservationState
  clock           \* block timestamp

feeVars   == <<protocol_fees, fund_fees, creator_fees>>
adminVars == <<amm_config, permissions, status, oracle>>
vars == <<amm_config, permissions, created, pool, status, oracle, lp_supply,
          lp_mint_supply, protocol_fees, fund_fees, creator_fees, vault,
          observation, clock>>

-----------------------------------------------------------------------------
(* AmmConfig. *)

\* The bounds asserted when a config is created or one of its rates changes.
rates_allowed(c) ==
  /\ c.trade_fee_rate + c.creator_fee_rate < FEE_RATE_DENOMINATOR_VALUE
  /\ c.protocol_fee_rate + c.fund_fee_rate =< FEE_RATE_DENOMINATOR_VALUE

AmmConfig ==
  [ trade_fee_rate : Nat, protocol_fee_rate : Nat, fund_fee_rate : Nat,
    creator_fee_rate : Nat, create_pool_fee : Nat, disable_create_pool : BOOLEAN,
    protocol_owner : Keys, fund_owner : Keys ]

\* A new config belongs to the admin who creates it.
create_amm_config(rates) ==
  [ trade_fee_rate |-> rates.trade, protocol_fee_rate |-> rates.protocol,
    fund_fee_rate |-> rates.fund, creator_fee_rate |-> rates.creator,
    create_pool_fee |-> 0, disable_create_pool |-> FALSE,
    protocol_owner |-> Admin, fund_owner |-> Admin ]

\* PoolState before initialize writes it: a zeroed account.
NoPool ==
  [ open_time |-> 0, pyth_price_feed_id |-> 0, min_spread_bps |-> 0,
    inventory_skew_enabled |-> FALSE, inventory_skew_deadzone_bps |-> 0,
    inventory_skew_bps_per_pct |-> 0, inventory_skew_max_bps |-> 0,
    pool_creator |-> Admin, creator_fee_on |-> "BothToken",
    enable_creator_fee |-> FALSE ]

\* The oracle cache initialize leaves: a keeper and no quote.
unseeded_oracle(keeper) ==
  [ keeper |-> keeper, bid |-> 0, ask |-> 0, exponent |-> 0,
    dynamic_fee_rate |-> 0, last_update |-> 0 ]

Init ==
  /\ \E rates \in Configs : amm_config = create_amm_config(rates)
  /\ rates_allowed(amm_config)
  /\ permissions = {}
  /\ created = FALSE
  /\ pool = NoPool
  /\ status = {}
  /\ oracle = unseeded_oracle(Admin)
  /\ lp_supply = 0
  /\ lp_mint_supply = 0
  /\ protocol_fees = [t \in Token |-> 0]
  /\ fund_fees = [t \in Token |-> 0]
  /\ creator_fees = [t \in Token |-> 0]
  /\ vault = [t \in Token |-> 0]
  /\ observation = EmptyObservation
  /\ clock = 1

-----------------------------------------------------------------------------
(* PoolState: derived values. *)

accrued_fees(t) == protocol_fees[t] + fund_fees[t] + creator_fees[t]

\* Net reserve: the vault without what it owes in fees.  A negative value is
\* the code's InsufficientVault.
vault_amount_without_fee(t) == vault[t] - accrued_fees(t)

net_reserves == [t \in Token |-> vault_amount_without_fee(t)]

vault_covers_fees == \A t \in Token : vault_amount_without_fee(t) >= 0

\* Price of token t in the other token for the observations.  It divides by
\* the net reserve: at 0 the transaction panics.
token_price_x32(t) ==
  (vault_amount_without_fee(1 - t) * Q32) \div vault_amount_without_fee(t)

\* Whether the keeper has ever pushed a quote.
cached_oracle_quote == oracle.bid > 0 /\ oracle.ask > 0

effective_trade_fee_rate ==
  IF oracle.dynamic_fee_rate = 0
    THEN amm_config.trade_fee_rate ELSE oracle.dynamic_fee_rate

adjust_creator_fee_rate ==
  IF pool.enable_creator_fee THEN amm_config.creator_fee_rate ELSE 0

is_creator_fee_on_input(direction) ==
  \/ pool.creator_fee_on = "BothToken"
  \/ pool.creator_fee_on = "OnlyToken0" /\ direction = "ZeroForOne"
  \/ pool.creator_fee_on = "OnlyToken1" /\ direction = "OneForZero"

mid_price ==
  pyth_price_to_raw_fraction((oracle.bid + oracle.ask) \div 2, oracle.exponent)

\* The skew of the cached quote, from the net reserves valued at its mid.
inventory_skew_bps ==
  IF pool.inventory_skew_enabled
    THEN compute_inventory_skew_bps(
           compute_inventory_imbalance_bps(vault_amount_without_fee(0),
                                           vault_amount_without_fee(1), mid_price),
           pool.inventory_skew_deadzone_bps,
           pool.inventory_skew_bps_per_pct,
           pool.inventory_skew_max_bps)
    ELSE 0

skewed(mantissa) == shift_mantissa_by_signed_bps(mantissa, inventory_skew_bps)

\* The trader sells at the ask and buys at the bid.
effective_price_exchanged(direction) ==
  pyth_price_to_raw_fraction(
    skewed(IF direction = "ZeroForOne" THEN oracle.ask ELSE oracle.bid),
    oracle.exponent)

\* Token_1 per token_0 for this direction: the bid when the trader sells
\* token_0, the ask when they buy it.
effective_price(direction) ==
  pyth_price_to_raw_fraction(
    skewed(IF direction = "ZeroForOne" THEN oracle.bid ELSE oracle.ask),
    oracle.exponent)

\* The price oriented output per input.
spot(direction) ==
  LET price == effective_price(direction)
  IN IF direction = "ZeroForOne"
       THEN price
       ELSE [num |-> price.den, den |-> price.num]

\* What a swap is made on (SwapParams, the rates and the spot price).
swap_terms(direction) ==
  [ input_vault             |-> vault_amount_without_fee(input_of(direction)),
    output_vault            |-> vault_amount_without_fee(output_of(direction)),
    trade_fee_rate          |-> effective_trade_fee_rate,
    creator_fee_rate        |-> adjust_creator_fee_rate,
    protocol_fee_rate       |-> amm_config.protocol_fee_rate,
    fund_fee_rate           |-> amm_config.fund_fee_rate,
    is_creator_fee_on_input |-> is_creator_fee_on_input(direction),
    spot                    |-> spot(direction) ]

-----------------------------------------------------------------------------
(* Creation of the pool. *)

\* What initialize requires of its arguments.
args_allowed(args) ==
  /\ args.pyth_price_feed_id # 0
  /\ args.min_spread_bps \in 1 .. 1000
  /\ args.inventory_skew_deadzone_bps =< 5000
  /\ args.inventory_skew_bps_per_pct =< 100
  /\ args.inventory_skew_max_bps =< 1000

\* An open time that is not in the future becomes the next second.
opening(open_time) == IF open_time =< clock THEN clock + 1 ELSE open_time

\* The LP supply credited in full to the creator, nothing locked.
minted_at_creation_unlocked(liquidity) == liquidity

\* What the creator gets of the first liquidity: LOCK_LP_AMOUNT stays unminted.
minted_at_creation(liquidity) == liquidity - LOCK_LP_AMOUNT

\* What both initialize instructions do.  The liquidity is that of the amounts
\* that arrived in the vaults.
create_pool(creator, amounts, args, keeper, creator_fee_on, enable_creator_fee) ==
  LET arrived   == [t \in Token |-> credited(TransferFeeOf[t], amounts[t])]
      liquidity == integer_sqrt(arrived[0] * arrived[1])
  IN /\ ~created
     /\ ~amm_config.disable_create_pool
     /\ args_allowed(args)
     /\ arrived[0] > 0 /\ arrived[1] > 0
     /\ liquidity >= LOCK_LP_AMOUNT
     /\ created' = TRUE
     /\ pool' =
          [ open_time                   |-> opening(args.open_time),
            pyth_price_feed_id          |-> args.pyth_price_feed_id,
            min_spread_bps              |-> args.min_spread_bps,
            inventory_skew_enabled      |-> args.inventory_skew_enabled,
            inventory_skew_deadzone_bps |-> args.inventory_skew_deadzone_bps,
            inventory_skew_bps_per_pct  |-> args.inventory_skew_bps_per_pct,
            inventory_skew_max_bps      |-> args.inventory_skew_max_bps,
            pool_creator                |-> creator,
            creator_fee_on              |-> creator_fee_on,
            enable_creator_fee          |-> enable_creator_fee ]
     /\ oracle' = unseeded_oracle(keeper)
     /\ vault' = arrived
     /\ lp_supply' = liquidity
     /\ lp_mint_supply' = minted_at_creation(liquidity)
     /\ UNCHANGED <<amm_config, permissions, status, feeVars, observation, clock>>

\* Anyone creates a pool; it pays no creator fee.
Initialize(creator, amounts, args, keeper) ==
  create_pool(creator, amounts, args, keeper, "BothToken", FALSE)

\* The holder of a permission creates a pool for any creator, who earns fees.
InitializeWithPermission(payer, creator, amounts, args, keeper, creator_fee_on) ==
  /\ payer \in permissions
  /\ create_pool(creator, amounts, args, keeper, creator_fee_on, TRUE)

-----------------------------------------------------------------------------
(* Liquidity. *)

\* Their worth of the whole vaults, the fees owed included.
trading_tokens_of_vault(lp, round_direction) ==
  [t \in Token |-> lp_tokens_to_trading_tokens(
                      lp, lp_supply, vault[t], round_direction)]

\* The amounts lp pool tokens stand for, given to transfer_amounts below.
trading_tokens(lp, round_direction) ==
  [t \in Token |-> lp_tokens_to_trading_tokens(
                      lp, lp_supply, vault_amount_without_fee(t), round_direction)]

\* The amount a depositor sends so that amount arrives.
sent_for(t, amount) == amount + get_transfer_inverse_fee(TransferFeeOf[t], amount)

\* lp_token_amount pool tokens for their ceiled worth of both tokens, of which
\* the depositor sends at most maximum, transfer fees included.
Deposit(lp_token_amount, maximum) ==
  LET amounts == trading_tokens(lp_token_amount, "Ceiling")
      sent    == [t \in Token |-> sent_for(t, amounts[t])]
  IN /\ created
     /\ lp_token_amount > 0
     /\ "Deposit" \notin status
     /\ vault_covers_fees
     /\ lp_supply > 0
     /\ \A t \in Token :
          /\ amounts[t] > 0
          /\ inverse_fee_defined(TransferFeeOf[t], amounts[t])
          /\ sent[t] =< maximum[t]
     /\ vault' = [t \in Token |-> vault[t] + credited(TransferFeeOf[t], sent[t])]
     /\ lp_supply' = lp_supply + lp_token_amount
     /\ lp_mint_supply' = lp_mint_supply + lp_token_amount
     /\ lp_supply' \in U64
     /\ \A t \in Token : vault'[t] \in U64
     /\ UNCHANGED <<adminVars, created, pool, feeVars, observation, clock>>

\* A holder of lp_token_amount pool tokens burns them for their floored worth
\* of both tokens and receives at least minimum, transfer fees deducted.
Withdraw(lp_token_amount, minimum) ==
  LET worth    == trading_tokens(lp_token_amount, "Floor")
      amounts  == [t \in Token |-> least(vault_amount_without_fee(t), worth[t])]
  IN /\ created
     /\ lp_token_amount > 0
     /\ lp_token_amount =< lp_mint_supply
     /\ "Withdraw" \notin status
     /\ vault_covers_fees
     /\ lp_supply >= lp_token_amount
     /\ \A t \in Token :
          /\ worth[t] > 0
          /\ credited(TransferFeeOf[t], amounts[t]) >= minimum[t]
     /\ vault' = [t \in Token |-> vault[t] - amounts[t]]
     /\ lp_supply' = lp_supply - lp_token_amount
     /\ lp_mint_supply' = lp_mint_supply - lp_token_amount
     /\ UNCHANGED <<adminVars, created, pool, feeVars, observation, clock>>

-----------------------------------------------------------------------------
(* Swaps. *)

\* The creator's fee always booked on the input side.
update_fees_on_input(direction, result) ==
  LET in == input_of(direction)
  IN /\ protocol_fees' = [protocol_fees EXCEPT ![in] = @ + result.protocol_fee]
     /\ fund_fees' = [fund_fees EXCEPT ![in] = @ + result.fund_fee]
     /\ creator_fees' = [creator_fees EXCEPT ![in] = @ + result.creator_fee]

\* Protocol and fund fees accrue in the input token, the creator's fee on the
\* side it was taken from.  A creator fee of a pool without one is an error.
update_fees(direction, result) ==
  LET in      == input_of(direction)
      fee_on  == IF is_creator_fee_on_input(direction) THEN in ELSE 1 - in
  IN /\ ~pool.enable_creator_fee => result.creator_fee = 0
     /\ protocol_fees' = [protocol_fees EXCEPT ![in] = @ + result.protocol_fee]
     /\ fund_fees' = [fund_fees EXCEPT ![in] = @ + result.fund_fee]
     /\ creator_fees' = [creator_fees EXCEPT ![fee_on] = @ + result.creator_fee]
     /\ \A t \in Token : /\ protocol_fees'[t] \in U64
                         /\ fund_fees'[t] \in U64
                         /\ creator_fees'[t] \in U64

\* What both swap instructions check before they compute an amount: a quote,
\* an open pool, prices that exist, and a skew that leaves a positive quote.
swap_approved ==
  /\ created
  /\ cached_oracle_quote
  /\ "Swap" \notin status
  /\ clock >= pool.open_time
  /\ vault_covers_fees
  /\ \A t \in Token : vault_amount_without_fee(t) > 0
  /\ pool.inventory_skew_enabled => representable(mid_price)
  /\ skewed(oracle.bid) > 0 /\ skewed(oracle.ask) > 0

\* The price observed is the one the swap leaves.
settle_then_observe(direction, sent, result) ==
  LET in  == input_of(direction)
      out == output_of(direction)
  IN /\ update_fees(direction, result)
     /\ vault' = [vault EXCEPT ![in]  = @ + credited(TransferFeeOf[in], sent),
                               ![out] = @ - result.output_amount]
     /\ vault'[in] \in U64
     /\ observation' = update_observation(observation, clock,
                                          token_price_x32(0)', token_price_x32(1)')
     /\ UNCHANGED <<adminVars, created, pool, lp_supply, lp_mint_supply, clock>>

\* What both do with the result: book the fees, move sent units of the input
\* token in and the output out, and observe the price from before the swap.
settle(direction, sent, result) ==
  LET in  == input_of(direction)
      out == output_of(direction)
  IN /\ update_fees(direction, result)
     /\ vault' = [vault EXCEPT ![in]  = @ + credited(TransferFeeOf[in], sent),
                               ![out] = @ - result.output_amount]
     /\ vault'[in] \in U64
     /\ observation' = update_observation(observation, clock,
                                          token_price_x32(0), token_price_x32(1))
     /\ UNCHANGED <<adminVars, created, pool, lp_supply, lp_mint_supply, clock>>

\* Swap amount_in, sent by the trader, for at least minimum_amount_out received.
SwapBaseInput(direction, amount_in, minimum_amount_out) ==
  LET in       == input_of(direction)
      out      == output_of(direction)
      actual   == credited(TransferFeeOf[in], amount_in)
      result   == swap_base_input(actual, swap_terms(direction))
      received == credited(TransferFeeOf[out], result.output_amount)
  IN /\ swap_approved
     /\ actual > 0
     /\ swap_base_input_defined(actual, swap_terms(direction))
     /\ received > 0
     /\ received >= minimum_amount_out
     /\ settle(direction, amount_in, result)

\* Swap so that amount_out_received arrives, for at most max_amount_in sent.
SwapBaseOutput(direction, max_amount_in, amount_out_received) ==
  LET in     == input_of(direction)
      out    == output_of(direction)
      amount == sent_for(out, amount_out_received)
      result == swap_base_output(amount, swap_terms(direction))
      sent   == sent_for(in, result.input_amount)
  IN /\ swap_approved
     /\ amount_out_received > 0
     /\ inverse_fee_defined(TransferFeeOf[out], amount_out_received)
     /\ amount \in U64
     /\ swap_base_output_defined(amount, swap_terms(direction))
     /\ result.input_amount > 0
     /\ inverse_fee_defined(TransferFeeOf[in], result.input_amount)
     /\ max_amount_in >= sent
     /\ settle(direction, sent, result)

-----------------------------------------------------------------------------
(* Collection of the accrued fees. *)

\* The whole request paid, whatever has accrued.
collectable_unbounded(requested, accrued) == [t \in Token |-> requested[t]]

\* At most what has accrued of each token.
collectable(requested, accrued) ==
  [t \in Token |-> least(requested[t], accrued[t])]

paid_out(amounts) == vault' = [t \in Token |-> vault[t] - amounts[t]]

CollectProtocolFee(owner, requested) ==
  LET amounts == collectable(requested, protocol_fees)
  IN /\ created
     /\ owner \in {amm_config.protocol_owner, Admin}
     /\ protocol_fees' = [t \in Token |-> protocol_fees[t] - amounts[t]]
     /\ paid_out(amounts)
     /\ \A t \in Token : vault'[t] >= 0
     /\ UNCHANGED <<adminVars, created, pool, lp_supply, lp_mint_supply,
                    fund_fees, creator_fees, observation, clock>>

CollectFundFee(owner, requested) ==
  LET amounts == collectable(requested, fund_fees)
  IN /\ created
     /\ owner \in {amm_config.fund_owner, Admin}
     /\ fund_fees' = [t \in Token |-> fund_fees[t] - amounts[t]]
     /\ paid_out(amounts)
     /\ \A t \in Token : vault'[t] >= 0
     /\ UNCHANGED <<adminVars, created, pool, lp_supply, lp_mint_supply,
                    protocol_fees, creator_fees, observation, clock>>

\* The creator takes all that has accrued, and there must be something.
CollectCreatorFee(creator) ==
  /\ created
  /\ creator = pool.pool_creator
  /\ \E t \in Token : creator_fees[t] > 0
  /\ creator_fees' = [t \in Token |-> 0]
  /\ paid_out(creator_fees)
  /\ \A t \in Token : vault'[t] >= 0
  /\ UNCHANGED <<adminVars, created, pool, lp_supply, lp_mint_supply,
                 protocol_fees, fund_fees, observation, clock>>

-----------------------------------------------------------------------------
(* Administration. *)

config_unchanged == UNCHANGED <<permissions, status, oracle, created, pool,
                      lp_supply, lp_mint_supply, feeVars, vault, observation, clock>>

\* The four rates; each is checked against the one it is summed with.
UpdateTradeFeeRate(value) ==
  /\ amm_config' = [amm_config EXCEPT !.trade_fee_rate = value]
  /\ value + amm_config.creator_fee_rate < FEE_RATE_DENOMINATOR_VALUE
  /\ config_unchanged

\* A protocol rate checked on its own.
UpdateProtocolFeeRateUnsummed(value) ==
  /\ amm_config' = [amm_config EXCEPT !.protocol_fee_rate = value]
  /\ value =< FEE_RATE_DENOMINATOR_VALUE
  /\ config_unchanged

UpdateProtocolFeeRate(value) ==
  /\ amm_config' = [amm_config EXCEPT !.protocol_fee_rate = value]
  /\ value + amm_config.fund_fee_rate =< FEE_RATE_DENOMINATOR_VALUE
  /\ config_unchanged

UpdateFundFeeRate(value) ==
  /\ amm_config' = [amm_config EXCEPT !.fund_fee_rate = value]
  /\ value + amm_config.protocol_fee_rate =< FEE_RATE_DENOMINATOR_VALUE
  /\ config_unchanged

UpdateCreatorFeeRate(value) ==
  /\ amm_config' = [amm_config EXCEPT !.creator_fee_rate = value]
  /\ value + amm_config.trade_fee_rate < FEE_RATE_DENOMINATOR_VALUE
  /\ config_unchanged

UpdateCreatePoolFee(value) ==
  /\ amm_config' = [amm_config EXCEPT !.create_pool_fee = value]
  /\ config_unchanged

SetDisableCreatePool(disable) ==
  /\ amm_config' = [amm_config EXCEPT !.disable_create_pool = disable]
  /\ config_unchanged

SetNewProtocolOwner(owner) ==
  /\ amm_config' = [amm_config EXCEPT !.protocol_owner = owner]
  /\ config_unchanged

SetNewFundOwner(owner) ==
  /\ amm_config' = [amm_config EXCEPT !.fund_owner = owner]
  /\ config_unchanged

UpdateAmmConfig ==
  \/ \E value \in Rates : \/ UpdateTradeFeeRate(value)
                          \/ UpdateProtocolFeeRate(value)
                          \/ UpdateFundFeeRate(value)
                          \/ UpdateCreatorFeeRate(value)
                          \/ UpdateCreatePoolFee(value)
  \/ \E disable \in BOOLEAN : SetDisableCreatePool(disable)
  \/ \E owner \in Keys : SetNewProtocolOwner(owner) \/ SetNewFundOwner(owner)

CreatePermissionPda(key) ==
  /\ key \notin permissions
  /\ permissions' = permissions \union {key}
  /\ UNCHANGED <<amm_config, status, oracle, created, pool, lp_supply,
                 lp_mint_supply, feeVars, vault, observation, clock>>

ClosePermissionPda(key) ==
  /\ key \in permissions
  /\ permissions' = permissions \ {key}
  /\ UNCHANGED <<amm_config, status, oracle, created, pool, lp_supply,
                 lp_mint_supply, feeVars, vault, observation, clock>>

\* The status byte is written as a whole.
UpdatePoolStatus(disabled) ==
  /\ created
  /\ status' = disabled
  /\ UNCHANGED <<amm_config, permissions, oracle, created, pool, lp_supply,
                 lp_mint_supply, feeVars, vault, observation, clock>>

oracle_unchanged == UNCHANGED <<amm_config, permissions, status, created, pool,
                      lp_supply, lp_mint_supply, feeVars, vault, observation, clock>>

\* A push is taken whatever its age and its distance from the last quote.
push_accepted(signer, quote) ==
  /\ created
  /\ signer = oracle.keeper
  /\ quote.bid > 0
  /\ quote.ask >= quote.bid
  /\ quote.dynamic_fee_rate < FEE_RATE_DENOMINATOR_VALUE

UpdatePoolOracle(signer, quote) ==
  /\ push_accepted(signer, quote)
  /\ oracle' = [oracle EXCEPT !.bid = quote.bid,
                              !.ask = quote.ask,
                              !.exponent = quote.exponent,
                              !.dynamic_fee_rate = quote.dynamic_fee_rate,
                              !.last_update = clock]
  /\ oracle_unchanged

SetOracleKeeper(new_keeper) ==
  /\ created
  /\ oracle' = [oracle EXCEPT !.keeper = new_keeper]
  /\ oracle_unchanged

-----------------------------------------------------------------------------
(* Outside the program. *)

\* Anyone may send tokens straight to a vault.
SendToVault(t, amount) ==
  /\ created
  /\ vault' = [vault EXCEPT ![t] = @ + credited(TransferFeeOf[t], amount)]
  /\ vault'[t] \in U64
  /\ UNCHANGED <<adminVars, created, pool, lp_supply, lp_mint_supply, feeVars,
                 observation, clock>>

\* A holder may burn pool tokens with the token program, unseen by the pool.
BurnLp(amount) ==
  /\ amount =< lp_mint_supply
  /\ lp_mint_supply' = lp_mint_supply - amount
  /\ UNCHANGED <<adminVars, created, pool, lp_supply, feeVars, vault,
                 observation, clock>>

Tick ==
  /\ clock < MAX_TIME
  /\ clock' = clock + 1
  /\ UNCHANGED <<adminVars, created, pool, lp_supply, lp_mint_supply, feeVars,
                 vault, observation>>

-----------------------------------------------------------------------------
CreatePool ==
  \E creator, keeper \in Keys, amounts \in InitAmounts, args \in PoolArgs :
    \/ Initialize(creator, amounts, args, keeper)
    \/ \E payer \in Keys, fee_on \in CreatorFeeOn :
         InitializeWithPermission(payer, creator, amounts, args, keeper, fee_on)

ChangeLiquidity ==
  \E lp \in LpAmounts, limit \in [Token -> Limits] :
    Deposit(lp, limit) \/ Withdraw(lp, limit)

Swap ==
  \E direction \in TradeDirection, amount \in SwapAmounts, limit \in Limits :
    \/ SwapBaseInput(direction, amount, limit)
    \/ SwapBaseOutput(direction, limit, amount)

CollectFees ==
  \/ \E owner \in Keys, requested \in [Token -> FeeAmounts] :
       \/ CollectProtocolFee(owner, requested)
       \/ CollectFundFee(owner, requested)
  \/ \E creator \in Keys : CollectCreatorFee(creator)

Administer ==
  \/ UpdateAmmConfig
  \/ \E key \in Keys : \/ CreatePermissionPda(key)
                       \/ ClosePermissionPda(key)
                       \/ SetOracleKeeper(key)
  \/ \E disabled \in Statuses : UpdatePoolStatus(disabled)
  \/ \E signer \in Keys, quote \in Quotes : UpdatePoolOracle(signer, quote)

External ==
  \/ \E t \in Token, amount \in GiftAmounts : SendToVault(t, amount)
  \/ \E amount \in LpAmounts : BurnLp(amount)
  \/ Tick

Next == CreatePool \/ ChangeLiquidity \/ Swap \/ CollectFees \/ Administer \/ External

Spec == Init /\ [][Next]_vars

-----------------------------------------------------------------------------
(* Properties. *)

\* Every account holds what its fields can hold.  Amounts of tokens are u64,
\* which the code's checked_add and checked_sub enforce one by one.
TypeOK ==
  /\ amm_config \in AmmConfig
  /\ permissions \subseteq Keys
  /\ created \in BOOLEAN
  /\ pool \in [ open_time : Nat, pyth_price_feed_id : Nat, min_spread_bps : Nat,
                inventory_skew_enabled : BOOLEAN,
                inventory_skew_deadzone_bps : Nat,
                inventory_skew_bps_per_pct : Nat,
                inventory_skew_max_bps : Nat,
                pool_creator : Keys, creator_fee_on : CreatorFeeOn,
                enable_creator_fee : BOOLEAN ]
  /\ status \subseteq PoolStatusBitIndex
  /\ oracle \in [ keeper : Keys, bid : Int, ask : Int, exponent : Int,
                  dynamic_fee_rate : Nat, last_update : Nat ]
  /\ lp_supply \in U64
  /\ lp_mint_supply \in U64
  /\ protocol_fees \in [Token -> U64]
  /\ fund_fees \in [Token -> U64]
  /\ creator_fees \in [Token -> U64]
  /\ vault \in [Token -> U64]
  /\ clock \in Nat

\* A pool once created always holds, of each token, all the fees it owes and at
\* least one unit more.  Otherwise vault_amount_without_fee fails with
\* InsufficientVault, or token_price_x32 divides by zero, in every later swap,
\* deposit and withdrawal, whatever its sender does.
ReservesLeft == created => \A t \in Token : vault_amount_without_fee(t) > 0

\* lp_supply counts every pool token a holder may withdraw and the locked
\* amount besides, so the last holder to leave never makes it 0, which every
\* conversion divides by.
LpSupplyCoversHolders ==
  created => lp_supply >= lp_mint_supply + LOCK_LP_AMOUNT

\* However the four rates of a config are changed one by one, a trade pays less
\* than its input in fees and the protocol and the fund share no more than the
\* trade fee (the asserts of create_amm_config and update_amm_config).
RatesBounded == rates_allowed(amm_config)

\* Creator fees only ever accrue in the token the pool was created with
\* (CreatorFeeOn), and never in a pool without them.
CreatorFeesWhereAgreed ==
  /\ ~pool.enable_creator_fee => \A t \in Token : creator_fees[t] = 0
  /\ pool.creator_fee_on = "OnlyToken0" => creator_fees[1] = 0
  /\ pool.creator_fee_on = "OnlyToken1" => creator_fees[0] = 0

\* A step that trades: one net reserve grows and the other shrinks.
Swapped(direction) ==
  /\ vault_amount_without_fee(input_of(direction))'
       > vault_amount_without_fee(input_of(direction))
  /\ vault_amount_without_fee(output_of(direction))'
       < vault_amount_without_fee(output_of(direction))

\* No deposit, withdrawal, fee collection or gift lowers what a pool token is
\* worth, in either token: all of their roundings are against the caller.
ValuePerShareNeverFalls ==
  [][ created /\ ~(\E direction \in TradeDirection : Swapped(direction)) =>
        \A t \in Token : vault_amount_without_fee(t)' * lp_supply
                           >= vault_amount_without_fee(t) * lp_supply' ]_vars

\* At the middle of the quote, the pool's reserve of the input token is worth
\* at least that of the output token: the swap adds to what there is most of.
adds_to_surplus(direction) ==
  LET value_0 == vault_amount_without_fee(0) * mid_price.num
      value_1 == vault_amount_without_fee(1) * mid_price.den
  IN IF direction = "ZeroForOne" THEN value_0 >= value_1 ELSE value_0 =< value_1

\* The bid or the ask of a quote, moved by the skew cap if the swap rebalances.
worst_price_of(direction, bid, ask, exponent) ==
  LET cap == IF pool.inventory_skew_enabled /\ ~adds_to_surplus(direction)
               THEN pool.inventory_skew_max_bps ELSE 0
  IN pyth_price_to_raw_fraction(
       IF direction = "ZeroForOne"
         THEN shift_mantissa_by_signed_bps(bid, cap)
         ELSE shift_mantissa_by_signed_bps(ask, -cap),
       exponent)

\* The price furthest against the pool that its keeper and creator allow in a
\* swap.
worst_price(direction) ==
  worst_price_of(direction, oracle.bid, oracle.ask, oracle.exponent)

\* A step after which the net reserves are worth as much at a price, or more.
NoLossAt(price) ==
  vault_amount_without_fee(0)' * price.num + vault_amount_without_fee(1)' * price.den
    >= vault_amount_without_fee(0) * price.num + vault_amount_without_fee(1) * price.den

\* Valued at that price, the liquidity providers' reserves never fall in a swap:
\* neither the square root, nor the virtual reserves, nor the fees taken out of
\* the trade ever give a trader more than the quote, and the skew gives nothing
\* to a trade that unbalances the pool further.
QuoteNeverBeaten ==
  [][ \A direction \in TradeDirection :
        Swapped(direction) => NoLossAt(worst_price(direction)) ]_vars

\* The rate charged on the input of a swap is below one, as the asserts on the
\* config's trade and creator rates demand of their sum.
InputFeeBelowOne ==
  effective_trade_fee_rate + adjust_creator_fee_rate < FEE_RATE_DENOMINATOR_VALUE

=============================================================================
