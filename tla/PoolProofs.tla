----------------------------- MODULE PoolProofs -----------------------------
(***************************************************************************)
(* Theorems about module Pool, for every value of its constants.           *)
(*                                                                         *)
(* Solvency is not inductive as it stands: that a swap leaves reserves     *)
(* rests on the bounds of the config's rates (or the shares of a fee would *)
(* exceed it), that a withdrawal does on the locked pool tokens (or the    *)
(* last one would take everything), and that creation does on no fee being *)
(* owed before it.  Settings and Ledger are the conjuncts it takes.        *)
(***************************************************************************)
EXTENDS Pool, CurveProofs

\* What administrators, keepers and creators set, and the clock.
SettingsTypeOK ==
  /\ amm_config \in AmmConfig
  /\ permissions \subseteq Keys
  /\ pool \in [ open_time : Nat, pyth_price_feed_id : Nat, min_spread_bps : Nat,
                inventory_skew_enabled : BOOLEAN,
                inventory_skew_deadzone_bps : Nat,
                inventory_skew_bps_per_pct : Nat,
                inventory_skew_max_bps : Nat,
                pool_creator : Keys, creator_fee_on : CreatorFeeOn,
                enable_creator_fee : BOOLEAN ]
  /\ status \subseteq PoolStatusBitIndex
  /\ oracle \in [ keeper : Keys, bid : Int, ask : Int, exponent : Int,
                  dynamic_fee_rate : Nat, last_update : Nat ]
  /\ clock \in Nat

Settings == SettingsTypeOK /\ RatesBounded

\* What is counted in tokens.
LedgerTypeOK ==
  /\ created \in BOOLEAN
  /\ lp_supply \in U64
  /\ lp_mint_supply \in U64
  /\ protocol_fees \in [Token -> U64]
  /\ fund_fees \in [Token -> U64]
  /\ creator_fees \in [Token -> U64]
  /\ vault \in [Token -> U64]

\* Before the pool exists nothing is owed to and nothing held by anyone.
NothingBeforeCreation ==
  ~created => /\ lp_supply = 0 /\ lp_mint_supply = 0
              /\ \A t \in Token : /\ protocol_fees[t] = 0
                                  /\ fund_fees[t] = 0
                                  /\ creator_fees[t] = 0
                                  /\ vault[t] = 0

Ledger == /\ LedgerTypeOK
          /\ LpSupplyCoversHolders
          /\ ReservesLeft
          /\ NothingBeforeCreation

LEMMA TypeSplit == TypeOK <=> SettingsTypeOK /\ LedgerTypeOK
BY DEF TypeOK, SettingsTypeOK, LedgerTypeOK

-----------------------------------------------------------------------------
(* Settings. *)

LEMMA SettingsInit == Init => Settings
<1> USE PoolAssumption
<1> SUFFICES ASSUME Init PROVE Settings
  OBVIOUS
<1>1. PICK rates \in Configs : amm_config = create_amm_config(rates)
  BY DEF Init
<1>2. rates \in [trade : Nat, protocol : Nat, fund : Nat, creator : Nat]
  BY <1>1
<1>3. amm_config \in AmmConfig
  BY <1>1, <1>2 DEF create_amm_config, AmmConfig
<1>4. permissions \subseteq Keys /\ status \subseteq PoolStatusBitIndex /\ clock \in Nat
  BY DEF Init
<1>5. pool = NoPool /\ oracle = unseeded_oracle(Admin) /\ rates_allowed(amm_config)
  BY DEF Init
<1> QED BY <1>3, <1>4, <1>5
        DEF Settings, SettingsTypeOK, RatesBounded, NoPool, unseeded_oracle,
            CreatorFeeOn

\* The rates of a config stay checked in whatever order they are changed.
LEMMA ConfigStep ==
  ASSUME amm_config \in AmmConfig, RatesBounded, UpdateAmmConfig
  PROVE  amm_config' \in AmmConfig /\ RatesBounded'
<1> USE PoolAssumption DEF AmmConfig, RatesBounded, rates_allowed
<1> DEFINE I == amm_config \in AmmConfig /\ RatesBounded
<1>1. ASSUME NEW value \in Rates, UpdateTradeFeeRate(value) PROVE I'
  BY <1>1 DEF UpdateTradeFeeRate
<1>2. ASSUME NEW value \in Rates, UpdateProtocolFeeRate(value) PROVE I'
  BY <1>2 DEF UpdateProtocolFeeRate
<1>3. ASSUME NEW value \in Rates, UpdateFundFeeRate(value) PROVE I'
  BY <1>3 DEF UpdateFundFeeRate
<1>4. ASSUME NEW value \in Rates, UpdateCreatorFeeRate(value) PROVE I'
  BY <1>4 DEF UpdateCreatorFeeRate
<1>5. ASSUME NEW value \in Rates, UpdateCreatePoolFee(value) PROVE I'
  BY <1>5 DEF UpdateCreatePoolFee
<1>6. ASSUME NEW disable \in BOOLEAN, SetDisableCreatePool(disable) PROVE I'
  BY <1>6 DEF SetDisableCreatePool
<1>7. ASSUME NEW owner \in Keys, SetNewProtocolOwner(owner) PROVE I'
  BY <1>7 DEF SetNewProtocolOwner
<1>8. ASSUME NEW owner \in Keys, SetNewFundOwner(owner) PROVE I'
  BY <1>8 DEF SetNewFundOwner
<1> QED
  BY <1>1, <1>2, <1>3, <1>4, <1>5, <1>6, <1>7, <1>8 DEF UpdateAmmConfig

\* Creation writes the pool's parameters and an empty quote.
LEMMA CreationSettings ==
  ASSUME Settings,
         NEW creator \in Keys, NEW keeper \in Keys, NEW amounts \in InitAmounts,
         NEW args \in PoolArgs, NEW fee_on \in CreatorFeeOn, NEW enabled \in BOOLEAN,
         create_pool(creator, amounts, args, keeper, fee_on, enabled)
  PROVE  Settings'
<1>1. args \in [ open_time : Nat, pyth_price_feed_id : Nat, min_spread_bps : Nat,
                 inventory_skew_enabled : BOOLEAN, inventory_skew_deadzone_bps : Nat,
                 inventory_skew_bps_per_pct : Nat, inventory_skew_max_bps : Nat ]
  BY PoolAssumption
<1>2. opening(args.open_time) \in Nat
  BY <1>1 DEF opening, Settings, SettingsTypeOK
<1>3. UNCHANGED <<amm_config, permissions, status, clock>>
  BY DEF create_pool
<1>4. pool' = [ open_time                   |-> opening(args.open_time),
                pyth_price_feed_id          |-> args.pyth_price_feed_id,
                min_spread_bps              |-> args.min_spread_bps,
                inventory_skew_enabled      |-> args.inventory_skew_enabled,
                inventory_skew_deadzone_bps |-> args.inventory_skew_deadzone_bps,
                inventory_skew_bps_per_pct  |-> args.inventory_skew_bps_per_pct,
                inventory_skew_max_bps      |-> args.inventory_skew_max_bps,
                pool_creator                |-> creator,
                creator_fee_on              |-> fee_on,
                enable_creator_fee          |-> enabled ]
  BY DEF create_pool
<1>5. oracle' = unseeded_oracle(keeper)
  BY DEF create_pool
<1>6. oracle' \in [ keeper : Keys, bid : Int, ask : Int, exponent : Int,
                    dynamic_fee_rate : Nat, last_update : Nat ]
  BY <1>5 DEF unseeded_oracle
<1> QED BY <1>1, <1>2, <1>3, <1>4, <1>6
        DEF Settings, SettingsTypeOK, RatesBounded, rates_allowed

LEMMA SettingsStep == Settings /\ [Next]_vars => Settings'
<1> USE PoolAssumption
<1> SUFFICES ASSUME Settings, [Next]_vars PROVE Settings'
  OBVIOUS
<1>1. CASE UNCHANGED <<amm_config, permissions, pool, status, oracle>>
           /\ clock' \in {clock, clock + 1}
  BY <1>1 DEF Settings, SettingsTypeOK, RatesBounded, rates_allowed
<1>2. CASE CreatePool
  <2>1. PICK creator \in Keys, keeper \in Keys, amounts \in InitAmounts,
             args \in PoolArgs :
               \/ Initialize(creator, amounts, args, keeper)
               \/ \E payer \in Keys, fee_on \in CreatorFeeOn :
                    InitializeWithPermission(payer, creator, amounts, args, keeper,
                                             fee_on)
    BY <1>2 DEF CreatePool
  <2>2. CASE Initialize(creator, amounts, args, keeper)
    <3>1. create_pool(creator, amounts, args, keeper, "BothToken", FALSE)
      BY <2>2 DEF Initialize
    <3> QED BY <3>1, CreationSettings DEF CreatorFeeOn
  <2>3. ASSUME NEW payer \in Keys, NEW fee_on \in CreatorFeeOn,
               InitializeWithPermission(payer, creator, amounts, args, keeper, fee_on)
        PROVE  Settings'
    <3>1. create_pool(creator, amounts, args, keeper, fee_on, TRUE)
      BY <2>3 DEF InitializeWithPermission
    <3> QED BY <3>1, CreationSettings
  <2> QED BY <2>1, <2>2, <2>3
<1>3. CASE UpdateAmmConfig
  <2>1. UNCHANGED <<permissions, pool, status, oracle, clock>>
    BY <1>3 DEF UpdateAmmConfig, UpdateTradeFeeRate, UpdateProtocolFeeRate,
                UpdateFundFeeRate, UpdateCreatorFeeRate, UpdateCreatePoolFee,
                SetDisableCreatePool, SetNewProtocolOwner, SetNewFundOwner,
                config_unchanged
  <2>2. amm_config' \in AmmConfig /\ RatesBounded'
    BY <1>3, ConfigStep DEF Settings, SettingsTypeOK
  <2> QED BY <2>1, <2>2 DEF Settings, SettingsTypeOK
<1>4. CASE Administer
  <2> USE DEF Settings, SettingsTypeOK, RatesBounded, rates_allowed
  <2>1. ASSUME NEW key \in Keys, CreatePermissionPda(key) \/ ClosePermissionPda(key)
        PROVE  Settings'
    BY <2>1 DEF CreatePermissionPda, ClosePermissionPda
  <2>2. ASSUME NEW key \in Keys, SetOracleKeeper(key) PROVE Settings'
    BY <2>2 DEF SetOracleKeeper, oracle_unchanged
  <2>3. ASSUME NEW disabled \in Statuses, UpdatePoolStatus(disabled) PROVE Settings'
    BY <2>3 DEF UpdatePoolStatus
  <2>4. ASSUME NEW signer \in Keys, NEW quote \in Quotes,
               UpdatePoolOracle(signer, quote)
        PROVE  Settings'
    BY <2>4 DEF UpdatePoolOracle, oracle_unchanged
  <2> QED BY <1>3, <1>4, <2>1, <2>2, <2>3, <2>4 DEF Administer
<1>5. ChangeLiquidity => UNCHANGED <<amm_config, permissions, pool, status, oracle, clock>>
  BY DEF ChangeLiquidity, Deposit, Withdraw, adminVars
<1>6. Swap => UNCHANGED <<amm_config, permissions, pool, status, oracle, clock>>
  BY DEF Swap, SwapBaseInput, SwapBaseOutput, settle, adminVars
<1>7. CollectFees => UNCHANGED <<amm_config, permissions, pool, status, oracle, clock>>
  BY DEF CollectFees, CollectProtocolFee, CollectFundFee, CollectCreatorFee, adminVars
<1>8. External => UNCHANGED <<amm_config, permissions, pool, status, oracle>>
                  /\ clock' \in {clock, clock + 1}
  BY DEF External, SendToVault, BurnLp, Tick, adminVars
<1> QED BY <1>1, <1>2, <1>4, <1>5, <1>6, <1>7, <1>8 DEF Next, vars

\* The rates of a config keep the bounds asserted at its creation, however they
\* are changed one by one: in no order of updates does a checked sum go stale.
THEOREM RatesAlwaysBounded == Spec => []RatesBounded
<1>1. Settings => RatesBounded
  BY DEF Settings
<1> QED BY <1>1, SettingsInit, SettingsStep, PTL DEF Spec

-----------------------------------------------------------------------------
(* The ledger. *)

\* The schedules of the two mints are schedules.
LEMMA Schedules == \A t \in Token : TransferFeeOf[t] \in Schedule
BY PoolAssumption DEF Schedule

\* Net reserves are integers.
LEMMA NetInt ==
  ASSUME LedgerTypeOK, NEW t \in Token
  PROVE  /\ vault_amount_without_fee(t) \in Int
         /\ accrued_fees(t) \in Nat
         /\ vault[t] = vault_amount_without_fee(t) + accrued_fees(t)
<1>1. vault[t] \in Nat /\ protocol_fees[t] \in Nat /\ fund_fees[t] \in Nat
      /\ creator_fees[t] \in Nat
  BY PoolAssumption DEF LedgerTypeOK, U64
<1> QED BY <1>1 DEF vault_amount_without_fee, accrued_fees

LEMMA LedgerInit == Init => Ledger
<1> USE PoolAssumption
<1> SUFFICES ASSUME Init PROVE Ledger
  OBVIOUS
<1>1. 0 \in U64
  BY DEF U64
<1>2. LedgerTypeOK
  BY <1>1 DEF Init, LedgerTypeOK
<1> QED BY <1>2 DEF Init, Ledger, LpSupplyCoversHolders, ReservesLeft,
                    NothingBeforeCreation, Token

\* The first liquidity is the root of what arrived, of which the creator does
\* not get the locked part.
LEMMA CreationLedger ==
  ASSUME Ledger,
         NEW creator \in Keys, NEW keeper \in Keys, NEW amounts \in InitAmounts,
         NEW args \in PoolArgs, NEW fee_on \in CreatorFeeOn, NEW enabled \in BOOLEAN,
         create_pool(creator, amounts, args, keeper, fee_on, enabled)
  PROVE  Ledger'
<1> USE PoolAssumption
<1> DEFINE arrived   == [t \in Token |-> credited(TransferFeeOf[t], amounts[t])]
           liquidity == integer_sqrt(arrived[0] * arrived[1])
<1>1. /\ ~created /\ created' = TRUE
      /\ arrived[0] > 0 /\ arrived[1] > 0
      /\ liquidity >= LOCK_LP_AMOUNT
      /\ vault' = arrived
      /\ lp_supply' = liquidity
      /\ lp_mint_supply' = liquidity - LOCK_LP_AMOUNT
      /\ UNCHANGED <<protocol_fees, fund_fees, creator_fees>>
  BY DEF create_pool, minted_at_creation, feeVars
<1>2. \A t \in Token : arrived[t] \in U64
  <2> SUFFICES ASSUME NEW t \in Token PROVE arrived[t] \in U64
    OBVIOUS
  <2>1. amounts[t] \in 0 .. U64_MAX /\ amounts[t] \in Nat
    BY DEF U64
  <2>2. credited(TransferFeeOf[t], amounts[t]) \in 0 .. amounts[t]
    BY <2>1, Schedules, CreditedBound
  <2> QED BY <2>1, <2>2 DEF U64
<1>3. liquidity \in 0 .. U64_MAX
  <2>1. arrived[0] \in 0 .. U64_MAX /\ arrived[1] \in 0 .. U64_MAX
    BY <1>2 DEF Token, U64
  <2> QED BY <2>1, SqrtOfProduct
<1>4. vault' \in [Token -> U64]
  BY <1>1, <1>2
<1> HIDE DEF arrived, liquidity
<1>5. LedgerTypeOK'
  BY <1>1, <1>3, <1>4 DEF Ledger, LedgerTypeOK, U64
<1>6. LpSupplyCoversHolders'
  BY <1>1, <1>3 DEF LpSupplyCoversHolders
<1>7. \A t \in Token : protocol_fees[t] = 0 /\ fund_fees[t] = 0 /\ creator_fees[t] = 0
  BY <1>1 DEF Ledger, NothingBeforeCreation
<1>8. ReservesLeft'
  <2>1. \A t \in Token : vault'[t] \in Nat /\ vault'[t] > 0
    BY <1>1, <1>4 DEF Token, U64
  <2> QED BY <1>1, <1>7, <2>1 DEF ReservesLeft, vault_amount_without_fee, accrued_fees
<1>9. NothingBeforeCreation'
  BY <1>1 DEF NothingBeforeCreation
<1> QED BY <1>5, <1>6, <1>8, <1>9 DEF Ledger

\* A deposit adds exactly the computed amounts to the net reserves.
LEMMA DepositAmounts ==
  ASSUME Ledger, NEW lp \in U64, NEW limit,
         Deposit(lp, limit)
  PROVE  /\ created /\ created' = created
         /\ lp \in Nat \ {0} /\ lp_supply \in Nat \ {0}
         /\ lp_supply' = lp_supply + lp /\ lp_mint_supply' = lp_mint_supply + lp
         /\ lp_supply' \in U64
         /\ UNCHANGED <<protocol_fees, fund_fees, creator_fees>>
         /\ vault' \in [Token -> U64]
         /\ \A t \in Token :
              /\ trading_tokens(lp, "Ceiling")[t] \in Nat \ {0}
              /\ vault'[t] = vault[t] + trading_tokens(lp, "Ceiling")[t]
              /\ vault_amount_without_fee(t)'
                   = vault_amount_without_fee(t) + trading_tokens(lp, "Ceiling")[t]
<1> USE PoolAssumption
<1> DEFINE amounts == trading_tokens(lp, "Ceiling")
           sent    == [t \in Token |-> sent_for(t, amounts[t])]
<1>1. /\ created /\ created' = created
      /\ lp > 0 /\ lp_supply > 0
      /\ \A t \in Token : amounts[t] > 0 /\ inverse_fee_defined(TransferFeeOf[t], amounts[t])
      /\ vault' = [t \in Token |-> vault[t] + credited(TransferFeeOf[t], sent[t])]
      /\ lp_supply' = lp_supply + lp /\ lp_mint_supply' = lp_mint_supply + lp
      /\ lp_supply' \in U64
      /\ \A t \in Token : vault'[t] \in U64
      /\ UNCHANGED <<protocol_fees, fund_fees, creator_fees>>
  BY DEF Deposit, feeVars
<1>2. lp \in Nat \ {0} /\ lp_supply \in Nat \ {0}
  BY <1>1 DEF Ledger, LedgerTypeOK, U64
<1>3. \A t \in Token : vault_amount_without_fee(t) \in Nat
  BY <1>1, NetInt DEF Ledger, ReservesLeft
<1>4. \A t \in Token : amounts[t] \in Nat
  BY <1>2, <1>3, WorthBound DEF trading_tokens
<1> HIDE DEF amounts
<1>5. \A t \in Token : vault'[t] = vault[t] + amounts[t]
  <2> SUFFICES ASSUME NEW t \in Token PROVE vault'[t] = vault[t] + amounts[t]
    OBVIOUS
  <2>1. credited(TransferFeeOf[t], sent[t]) = amounts[t]
    BY <1>1, <1>4, Schedules, SentDelivers DEF sent_for
  <2> QED BY <1>1, <2>1
<1> HIDE DEF sent
<1>6. vault' \in [Token -> U64]
  BY <1>1
<1>7. \A t \in Token : vault_amount_without_fee(t)'
                          = vault_amount_without_fee(t) + amounts[t]
  <2> SUFFICES ASSUME NEW t \in Token
               PROVE  vault_amount_without_fee(t)' = vault_amount_without_fee(t) + amounts[t]
    OBVIOUS
  <2>1. vault_amount_without_fee(t)' = vault'[t] - accrued_fees(t)
    BY <1>1 DEF vault_amount_without_fee, accrued_fees
  <2> QED BY <1>4, <1>5, <2>1, NetInt DEF Ledger
<1> QED BY <1>1, <1>2, <1>4, <1>5, <1>6, <1>7 DEF amounts

LEMMA DepositLedger ==
  ASSUME Ledger, NEW lp \in U64, NEW limit,
         Deposit(lp, limit)
  PROVE  Ledger'
<1>1. /\ created /\ created' = created
      /\ lp \in Nat \ {0}
      /\ lp_supply' = lp_supply + lp /\ lp_mint_supply' = lp_mint_supply + lp
      /\ lp_supply' \in U64
      /\ UNCHANGED <<protocol_fees, fund_fees, creator_fees>>
      /\ vault' \in [Token -> U64]
  BY DepositAmounts
<1>2. /\ lp_supply \in U64 /\ lp_mint_supply \in U64
      /\ lp_supply >= lp_mint_supply + LOCK_LP_AMOUNT
  BY <1>1 DEF Ledger, LedgerTypeOK, LpSupplyCoversHolders
<1>3. LedgerTypeOK'
  BY <1>1, <1>2, PoolAssumption DEF Ledger, LedgerTypeOK, U64
<1>4. LpSupplyCoversHolders'
  BY <1>1, <1>2, PoolAssumption DEF LpSupplyCoversHolders, U64
<1>5. ReservesLeft'
  <2> SUFFICES ASSUME NEW t \in Token PROVE vault_amount_without_fee(t)' > 0
    BY DEF ReservesLeft
  <2> DEFINE amount == trading_tokens(lp, "Ceiling")[t]
  <2>1. amount \in Nat /\ vault_amount_without_fee(t)' = vault_amount_without_fee(t) + amount
    BY DepositAmounts
  <2> HIDE DEF amount
  <2>2. vault_amount_without_fee(t) > 0
    BY <1>1 DEF Ledger, ReservesLeft
  <2> QED BY <2>1, <2>2, NetInt DEF Ledger
<1>6. NothingBeforeCreation'
  BY <1>1 DEF NothingBeforeCreation
<1> QED BY <1>3, <1>4, <1>5, <1>6 DEF Ledger

\* A withdrawal burns less than the supply, so it takes less than the reserves:
\* the floored worth of the pool tokens.
LEMMA WithdrawAmounts ==
  ASSUME Ledger, NEW lp \in U64, NEW limit,
         Withdraw(lp, limit)
  PROVE  /\ created /\ created' = created
         /\ lp \in Nat \ {0} /\ lp =< lp_mint_supply /\ lp < lp_supply
         /\ lp_supply \in Nat \ {0}
         /\ lp_supply' = lp_supply - lp /\ lp_mint_supply' = lp_mint_supply - lp
         /\ UNCHANGED <<protocol_fees, fund_fees, creator_fees>>
         /\ vault' \in [Token -> U64]
         /\ \A t \in Token :
              /\ trading_tokens(lp, "Floor")[t] \in Nat
              /\ trading_tokens(lp, "Floor")[t] < vault_amount_without_fee(t)
              /\ vault'[t] = vault[t] - trading_tokens(lp, "Floor")[t]
              /\ vault_amount_without_fee(t)'
                   = vault_amount_without_fee(t) - trading_tokens(lp, "Floor")[t]
              /\ vault_amount_without_fee(t)' > 0
<1> USE PoolAssumption
<1> DEFINE worth   == trading_tokens(lp, "Floor")
           amounts == [t \in Token |-> least(vault_amount_without_fee(t), worth[t])]
<1>1. /\ created /\ created' = created
      /\ lp > 0 /\ lp =< lp_mint_supply
      /\ vault' = [t \in Token |-> vault[t] - amounts[t]]
      /\ lp_supply' = lp_supply - lp /\ lp_mint_supply' = lp_mint_supply - lp
      /\ UNCHANGED <<protocol_fees, fund_fees, creator_fees>>
  BY DEF Withdraw, feeVars
<1>2. /\ lp \in Nat /\ lp_supply \in U64 /\ lp_mint_supply \in U64
      /\ lp_supply >= lp_mint_supply + LOCK_LP_AMOUNT
  BY <1>1 DEF Ledger, LedgerTypeOK, LpSupplyCoversHolders, U64
<1>3. lp_supply \in Nat \ {0} /\ lp < lp_supply
  BY <1>1, <1>2 DEF U64
<1>4. \A t \in Token : vault_amount_without_fee(t) \in Nat /\ vault_amount_without_fee(t) > 0
  BY <1>1, NetInt DEF Ledger, ReservesLeft
<1>5. \A t \in Token : worth[t] \in Nat /\ worth[t] < vault_amount_without_fee(t)
  BY <1>2, <1>3, <1>4, WorthBound DEF trading_tokens
<1> HIDE DEF worth
<1>6. \A t \in Token : amounts[t] = worth[t]
  BY <1>4, <1>5 DEF least
<1>7. \A t \in Token : vault'[t] = vault[t] - worth[t]
  BY <1>1, <1>6
<1> HIDE DEF amounts
<1>8. \A t \in Token : /\ vault_amount_without_fee(t)' = vault_amount_without_fee(t) - worth[t]
                        /\ vault_amount_without_fee(t)' > 0
  <2> SUFFICES ASSUME NEW t \in Token
               PROVE  /\ vault_amount_without_fee(t)' = vault_amount_without_fee(t) - worth[t]
                      /\ vault_amount_without_fee(t)' > 0
    OBVIOUS
  <2>1. vault_amount_without_fee(t)' = vault'[t] - accrued_fees(t)
    BY <1>1 DEF vault_amount_without_fee, accrued_fees
  <2> QED BY <1>4, <1>5, <1>7, <2>1, NetInt DEF Ledger
<1>9. vault' \in [Token -> U64]
  <2>1. \A t \in Token : vault'[t] \in U64
    <3> SUFFICES ASSUME NEW t \in Token PROVE vault'[t] \in U64
      OBVIOUS
    <3>1. vault[t] \in U64
      BY DEF Ledger, LedgerTypeOK
    <3> QED BY <1>4, <1>5, <1>7, <3>1, NetInt DEF U64, Ledger
  <2> QED BY <1>1, <2>1
<1> QED BY <1>1, <1>2, <1>3, <1>5, <1>7, <1>8, <1>9 DEF worth

LEMMA WithdrawLedger ==
  ASSUME Ledger, NEW lp \in U64, NEW limit,
         Withdraw(lp, limit)
  PROVE  Ledger'
<1>1. /\ created /\ created' = created
      /\ lp \in Nat \ {0} /\ lp =< lp_mint_supply /\ lp < lp_supply
      /\ lp_supply' = lp_supply - lp /\ lp_mint_supply' = lp_mint_supply - lp
      /\ UNCHANGED <<protocol_fees, fund_fees, creator_fees>>
      /\ vault' \in [Token -> U64]
      /\ \A t \in Token : vault_amount_without_fee(t)' > 0
  BY WithdrawAmounts
<1>2. /\ lp_supply \in U64 /\ lp_mint_supply \in U64
      /\ lp_supply >= lp_mint_supply + LOCK_LP_AMOUNT
  BY <1>1 DEF Ledger, LedgerTypeOK, LpSupplyCoversHolders
<1>3. LedgerTypeOK'
  BY <1>1, <1>2, PoolAssumption DEF Ledger, LedgerTypeOK, U64
<1>4. LpSupplyCoversHolders'
  BY <1>1, <1>2, PoolAssumption DEF LpSupplyCoversHolders, U64
<1>5. ReservesLeft' /\ NothingBeforeCreation'
  BY <1>1 DEF ReservesLeft, NothingBeforeCreation
<1> QED BY <1>3, <1>4, <1>5 DEF Ledger

\* The terms of a swap are sound.
LEMMA TermsSound ==
  ASSUME Settings, Ledger, created, NEW direction \in TradeDirection
  PROVE  SoundTerms(swap_terms(direction))
<1> DEFINE terms == swap_terms(direction)
<1>1. input_of(direction) \in Token /\ output_of(direction) \in Token
  BY DEF input_of, output_of, Token
<1>2. \A t \in Token : vault_amount_without_fee(t) \in Nat
  BY NetInt DEF Ledger, ReservesLeft
<1>3. /\ amm_config.trade_fee_rate \in Nat /\ amm_config.creator_fee_rate \in Nat
      /\ amm_config.protocol_fee_rate \in Nat /\ amm_config.fund_fee_rate \in Nat
      /\ amm_config.creator_fee_rate < FEE_RATE_DENOMINATOR_VALUE
      /\ amm_config.protocol_fee_rate + amm_config.fund_fee_rate
           =< FEE_RATE_DENOMINATOR_VALUE
  BY DenominatorPositive
     DEF Settings, SettingsTypeOK, AmmConfig, RatesBounded, rates_allowed
<1>4. effective_trade_fee_rate \in Nat
  BY <1>3 DEF effective_trade_fee_rate, Settings, SettingsTypeOK
<1>5. adjust_creator_fee_rate \in {0, amm_config.creator_fee_rate}
  BY DEF adjust_creator_fee_rate
<1>6. is_creator_fee_on_input(direction) \in BOOLEAN
  BY DEF is_creator_fee_on_input
<1>7. /\ terms.input_vault = vault_amount_without_fee(input_of(direction))
      /\ terms.output_vault = vault_amount_without_fee(output_of(direction))
      /\ terms.trade_fee_rate = effective_trade_fee_rate
      /\ terms.creator_fee_rate = adjust_creator_fee_rate
      /\ terms.protocol_fee_rate = amm_config.protocol_fee_rate
      /\ terms.fund_fee_rate = amm_config.fund_fee_rate
      /\ terms.is_creator_fee_on_input = is_creator_fee_on_input(direction)
  BY DEF swap_terms
<1> HIDE DEF terms
<1>8. terms.input_vault \in Nat /\ terms.output_vault \in Nat
  BY <1>1, <1>2, <1>7
<1>9. terms.creator_fee_rate \in Nat /\ terms.creator_fee_rate < FEE_RATE_DENOMINATOR_VALUE
  BY <1>3, <1>5, <1>7, DenominatorPositive
<1>10. SoundTerms(terms)
  BY <1>3, <1>4, <1>6, <1>7, <1>8, <1>9 DEF SoundTerms
<1> QED BY <1>10 DEF terms

\* Settling a sound result for an input that arrives in full adds what was
\* swapped of it, or more, to the net reserve of the input token, and takes all
\* that was swapped out of that of the output token, never all there is.
LEMMA SettleReserves ==
  ASSUME Ledger, swap_approved, NEW direction \in TradeDirection,
         NEW sent \in Nat, NEW input \in Nat, NEW result,
         credited(TransferFeeOf[input_of(direction)], sent) = input,
         SoundResult(result, input, swap_terms(direction)),
         settle(direction, sent, result)
  PROVE  /\ Ledger'
         /\ created /\ UNCHANGED lp_supply
         /\ vault_amount_without_fee(input_of(direction))'
              >= vault_amount_without_fee(input_of(direction)) + result.input_swapped
         /\ vault_amount_without_fee(output_of(direction))'
              = vault_amount_without_fee(output_of(direction)) - result.output_swapped
<1> USE PoolAssumption
<1> DEFINE in  == input_of(direction)
           out == output_of(direction)
           on  == is_creator_fee_on_input(direction)
<1>1. /\ in \in Token /\ out \in Token /\ in # out
      /\ Token = {in, out} /\ out = 1 - in
  BY DEF input_of, output_of, Token
<1>2. /\ created /\ created' = created
      /\ UNCHANGED <<lp_supply, lp_mint_supply>>
      /\ protocol_fees' = [protocol_fees EXCEPT ![in] = @ + result.protocol_fee]
      /\ fund_fees' = [fund_fees EXCEPT ![in] = @ + result.fund_fee]
      /\ creator_fees' =
           [creator_fees EXCEPT ![IF on THEN in ELSE 1 - in] = @ + result.creator_fee]
      /\ \A t \in Token : /\ protocol_fees'[t] \in U64 /\ fund_fees'[t] \in U64
                          /\ creator_fees'[t] \in U64
      /\ vault' = [vault EXCEPT ![in] = @ + input, ![out] = @ - result.output_amount]
      /\ vault'[in] \in U64
  BY DEF swap_approved, settle, update_fees
<1>3. /\ result.protocol_fee \in Nat /\ result.fund_fee \in Nat
      /\ result.creator_fee \in Nat /\ result.output_amount \in Nat
      /\ result.input_swapped \in Nat /\ result.output_swapped \in Nat
      /\ on => result.input_swapped + result.protocol_fee + result.fund_fee
                 + result.creator_fee =< input
      /\ ~on => result.input_swapped + result.protocol_fee + result.fund_fee =< input
      /\ on => result.output_amount = result.output_swapped
      /\ ~on => result.output_amount + result.creator_fee = result.output_swapped
      /\ result.output_swapped < vault_amount_without_fee(out)
  BY DEF SoundResult, swap_terms
<1>4. on \in BOOLEAN
  BY DEF is_creator_fee_on_input
<1> HIDE DEF on
<1>5. \A t \in Token : /\ vault[t] \in U64 /\ protocol_fees[t] \in U64
                       /\ fund_fees[t] \in U64 /\ creator_fees[t] \in U64
  BY DEF Ledger, LedgerTypeOK
<1>6. /\ DOMAIN vault = Token /\ DOMAIN protocol_fees = Token
      /\ DOMAIN fund_fees = Token /\ DOMAIN creator_fees = Token
  BY DEF Ledger, LedgerTypeOK
<1> HIDE DEF in, out
<1>7. /\ vault'[in] = vault[in] + input
      /\ vault'[out] = vault[out] - result.output_amount
      /\ protocol_fees'[in] = protocol_fees[in] + result.protocol_fee
      /\ protocol_fees'[out] = protocol_fees[out]
      /\ fund_fees'[in] = fund_fees[in] + result.fund_fee
      /\ fund_fees'[out] = fund_fees[out]
      /\ creator_fees'[in]
           = IF on THEN creator_fees[in] + result.creator_fee ELSE creator_fees[in]
      /\ creator_fees'[out]
           = IF on THEN creator_fees[out] ELSE creator_fees[out] + result.creator_fee
  BY <1>1, <1>2, <1>4, <1>6
<1>8. /\ vault_amount_without_fee(in)'
           >= vault_amount_without_fee(in) + result.input_swapped
      /\ vault_amount_without_fee(out)'
           = vault_amount_without_fee(out) - result.output_swapped
      /\ vault_amount_without_fee(out)' > 0
  <2>1. \A t \in Token : vault_amount_without_fee(t)'
                           = vault'[t] - (protocol_fees'[t] + fund_fees'[t] + creator_fees'[t])
    BY DEF vault_amount_without_fee, accrued_fees
  <2>2. \A t \in Token : vault_amount_without_fee(t)
                           = vault[t] - (protocol_fees[t] + fund_fees[t] + creator_fees[t])
    BY DEF vault_amount_without_fee, accrued_fees
  <2>3. CASE on
    BY <1>1, <1>3, <1>5, <1>7, <2>1, <2>2, <2>3 DEF U64
  <2>4. CASE ~on
    BY <1>1, <1>3, <1>5, <1>7, <2>1, <2>2, <2>4 DEF U64
  <2> QED BY <1>4, <2>3, <2>4
<1>9. ReservesLeft'
  <2>1. vault_amount_without_fee(in) > 0 /\ vault_amount_without_fee(in) \in Int
    BY <1>1, <1>2, NetInt DEF Ledger, ReservesLeft
  <2>2. vault_amount_without_fee(in)' \in Int
    BY <1>1, <1>2, <1>5, <1>7, <1>3 DEF vault_amount_without_fee, accrued_fees, U64
  <2>3. vault_amount_without_fee(in)' > 0
    BY <1>3, <1>8, <2>1, <2>2
  <2>4. \A t \in Token : t = in \/ t = out
    BY <1>1
  <2> QED BY <1>8, <2>3, <2>4 DEF ReservesLeft
<1>10. vault'[out] \in U64
  <2>1. result.output_amount < vault_amount_without_fee(out)
    BY <1>1, <1>3, <1>4, NetInt DEF Ledger
  <2>2. vault_amount_without_fee(out) =< vault[out]
    BY <1>1, NetInt DEF Ledger
  <2>3. vault_amount_without_fee(out) \in Int
    BY <1>1, NetInt DEF Ledger
  <2> QED BY <1>1, <1>3, <1>5, <1>7, <2>1, <2>2, <2>3 DEF U64
<1>11. /\ protocol_fees' \in [Token -> U64] /\ fund_fees' \in [Token -> U64]
       /\ creator_fees' \in [Token -> U64] /\ vault' \in [Token -> U64]
  <2>1. \A t \in Token : vault'[t] \in U64
    BY <1>1, <1>2, <1>10
  <2> QED BY <1>2, <1>6, <2>1
<1>12. LedgerTypeOK'
  BY <1>2, <1>11 DEF Ledger, LedgerTypeOK
<1>13. Ledger'
  BY <1>2, <1>9, <1>12 DEF Ledger, LpSupplyCoversHolders, NothingBeforeCreation
<1> QED BY <1>2, <1>8, <1>13 DEF in, out

\* A swap of a given input settles a sound result, with some output, for what
\* arrives of it.
LEMMA BaseInputSettles ==
  ASSUME Settings, Ledger, NEW direction \in TradeDirection, NEW amount \in U64,
         NEW limit, SwapBaseInput(direction, amount, limit),
         NEW actual, actual = credited(TransferFeeOf[input_of(direction)], amount),
         NEW result, result = swap_base_input(actual, swap_terms(direction))
  PROVE  /\ swap_approved
         /\ amount \in Nat /\ actual \in Nat
         /\ SoundResult(result, actual, swap_terms(direction))
         /\ result.output_amount > 0
         /\ settle(direction, amount, result)
<1> USE PoolAssumption
<1> DEFINE in    == input_of(direction)
           out   == output_of(direction)
           terms == swap_terms(direction)
<1>1. in \in Token /\ out \in Token /\ amount \in Nat
  BY DEF input_of, output_of, Token, U64
<1>2. /\ swap_approved
      /\ swap_base_input_defined(actual, terms)
      /\ credited(TransferFeeOf[out], result.output_amount) > 0
      /\ settle(direction, amount, result)
  BY DEF SwapBaseInput
<1>3. actual \in Nat
  BY <1>1, Schedules, CreditedBound
<1>4. SoundTerms(terms)
  BY <1>2, TermsSound DEF swap_approved
<1>5. SoundResult(result, actual, terms)
  BY <1>2, <1>3, <1>4, SwapBaseInputSound
<1>6. result.output_amount > 0
  <2> DEFINE output == result.output_amount
  <2>1. output \in Nat
    BY <1>5 DEF SoundResult
  <2> HIDE DEF output
  <2>2. credited(TransferFeeOf[out], output) \in 0 .. output
    BY <1>1, <2>1, Schedules, CreditedBound
  <2>3. credited(TransferFeeOf[out], output) > 0
    BY <1>2 DEF output
  <2> QED BY <2>1, <2>2, <2>3 DEF output
<1> QED BY <1>1, <1>2, <1>3, <1>5, <1>6

\* A swap for a given output settles a sound result that has it, grossed up, for
\* an input that arrives in full.
LEMMA BaseOutputSettles ==
  ASSUME Settings, Ledger, NEW direction \in TradeDirection, NEW amount \in U64,
         NEW limit, SwapBaseOutput(direction, limit, amount),
         NEW wanted, wanted = sent_for(output_of(direction), amount),
         NEW result, result = swap_base_output(wanted, swap_terms(direction))
  PROVE  /\ swap_approved
         /\ SoundResult(result, result.input_amount, swap_terms(direction))
         /\ result.input_amount \in Nat
         /\ result.output_amount = wanted /\ wanted \in Nat /\ wanted > 0
         /\ sent_for(input_of(direction), result.input_amount) \in Nat
         /\ credited(TransferFeeOf[input_of(direction)],
                     sent_for(input_of(direction), result.input_amount))
              = result.input_amount
         /\ settle(direction, sent_for(input_of(direction), result.input_amount), result)
<1> USE PoolAssumption
<1> DEFINE in    == input_of(direction)
           out   == output_of(direction)
           terms == swap_terms(direction)
           sent  == sent_for(in, result.input_amount)
<1>1. in \in Token /\ out \in Token /\ amount \in Nat
  BY DEF input_of, output_of, Token, U64
<1>2. /\ swap_approved
      /\ amount > 0
      /\ swap_base_output_defined(wanted, terms)
      /\ inverse_fee_defined(TransferFeeOf[in], result.input_amount)
      /\ settle(direction, sent, result)
  BY DEF SwapBaseOutput
<1>3. SoundTerms(terms)
  BY <1>2, TermsSound DEF swap_approved
<1>4. wanted \in Nat /\ wanted > 0
  BY <1>1, <1>2, Schedules, InverseFeeNat DEF sent_for
<1>5. /\ SoundResult(result, result.input_amount, terms)
      /\ result.input_amount \in Nat
      /\ result.output_amount = wanted
  BY <1>2, <1>3, <1>4, SwapBaseOutputSound
<1> HIDE DEF terms, in, out
<1>6. credited(TransferFeeOf[in], sent) = result.input_amount
  BY <1>1, <1>2, <1>5, Schedules, SentDelivers DEF sent_for
<1>7. sent \in Nat
  BY <1>1, <1>5, Schedules, InverseFeeNat DEF sent_for
<1> QED BY <1>2, <1>4, <1>5, <1>6, <1>7 DEF terms, in, out

\* Both swaps settle a sound result, with some output, for an input that arrives
\* in full.
Settles(direction, sent, input, result) ==
  /\ swap_approved
  /\ credited(TransferFeeOf[input_of(direction)], sent) = input
  /\ SoundResult(result, input, swap_terms(direction))
  /\ result.output_amount > 0
  /\ settle(direction, sent, result)

LEMMA InstructionSettles ==
  ASSUME Settings, Ledger, NEW direction \in TradeDirection, NEW amount \in U64,
         NEW limit,
         \/ SwapBaseInput(direction, amount, limit)
         \/ SwapBaseOutput(direction, limit, amount)
  PROVE  \E result : \E sent \in Nat, input \in Nat :
           Settles(direction, sent, input, result)
<1>1. CASE SwapBaseInput(direction, amount, limit)
  BY <1>1, BaseInputSettles DEF Settles
<1>2. CASE SwapBaseOutput(direction, limit, amount)
  BY <1>2, BaseOutputSettles DEF Settles
<1> QED BY <1>1, <1>2

\* A swap of any amount that fits its argument, to whatever limit.
AnySwap ==
  \E direction \in TradeDirection, amount \in U64 : \E limit :
    \/ SwapBaseInput(direction, amount, limit)
    \/ SwapBaseOutput(direction, limit, amount)

LEMMA SwapIsAnySwap == Swap => AnySwap
BY PoolAssumption DEF Swap, AnySwap

LEMMA SwapSettles ==
  ASSUME Settings, Ledger, AnySwap
  PROVE  /\ swap_approved
         /\ \E result : \E direction \in TradeDirection, sent \in Nat, input \in Nat :
              /\ credited(TransferFeeOf[input_of(direction)], sent) = input
              /\ SoundResult(result, input, swap_terms(direction))
              /\ result.output_amount > 0
              /\ settle(direction, sent, result)
<1>1. PICK direction \in TradeDirection, amount \in U64 : \E limit :
        \/ SwapBaseInput(direction, amount, limit)
        \/ SwapBaseOutput(direction, limit, amount)
  BY DEF AnySwap
<1>2. PICK result : \E sent \in Nat, input \in Nat :
        Settles(direction, sent, input, result)
  BY <1>1, InstructionSettles
<1> QED BY <1>2 DEF Settles

\* A swap instruction keeps the ledger.
LEMMA SwapInstructionLedger ==
  ASSUME Settings, Ledger, NEW direction \in TradeDirection, NEW amount \in U64,
         NEW limit,
         \/ SwapBaseInput(direction, amount, limit)
         \/ SwapBaseOutput(direction, limit, amount)
  PROVE  Ledger'
<1>1. PICK result : \E sent \in Nat, input \in Nat :
        Settles(direction, sent, input, result)
  BY InstructionSettles
<1> QED BY <1>1, SettleReserves DEF Settles

LEMMA SwapLedger == ASSUME Settings, Ledger, Swap PROVE Ledger'
<1>1. /\ swap_approved
      /\ \E result : \E direction \in TradeDirection, sent \in Nat, input \in Nat :
           /\ credited(TransferFeeOf[input_of(direction)], sent) = input
           /\ SoundResult(result, input, swap_terms(direction))
           /\ settle(direction, sent, result)
  BY SwapSettles, SwapIsAnySwap
<1> QED BY <1>1, SettleReserves

\* A swap takes from the net reserves at most what the spot price gives for what
\* it adds to them.
LEMMA SwapAtSpot ==
  ASSUME Settings, Ledger, AnySwap
  PROVE  /\ created /\ created' /\ swap_approved
         /\ UNCHANGED <<lp_supply, pool, oracle>>
         /\ \A t \in Token : /\ vault_amount_without_fee(t) \in Int
                             /\ vault_amount_without_fee(t)' \in Int
                             /\ vault_amount_without_fee(t)' > 0
         /\ \E direction \in TradeDirection :
              /\ spot(direction).num \in Nat \ {0} /\ spot(direction).den \in Nat \ {0}
              /\ vault_amount_without_fee(output_of(direction))'
                   < vault_amount_without_fee(output_of(direction))
              /\ (vault_amount_without_fee(output_of(direction))
                    - vault_amount_without_fee(output_of(direction))') * spot(direction).den
                   =< (vault_amount_without_fee(input_of(direction))'
                        - vault_amount_without_fee(input_of(direction))) * spot(direction).num
<1>a. PICK result :
        /\ swap_approved
        /\ \E direction \in TradeDirection, sent \in Nat, input \in Nat :
             /\ credited(TransferFeeOf[input_of(direction)], sent) = input
             /\ SoundResult(result, input, swap_terms(direction))
             /\ result.output_amount > 0
             /\ settle(direction, sent, result)
  BY SwapSettles
<1>1. PICK direction \in TradeDirection, sent \in Nat, input \in Nat :
        /\ swap_approved
        /\ credited(TransferFeeOf[input_of(direction)], sent) = input
        /\ SoundResult(result, input, swap_terms(direction))
        /\ result.output_amount > 0
        /\ settle(direction, sent, result)
  BY <1>a
<1> DEFINE in   == input_of(direction)
           out  == output_of(direction)
           rate == spot(direction)
<1>2. in \in Token /\ out \in Token
  BY DEF input_of, output_of, Token
<1>3. UNCHANGED <<created, pool, oracle>>
  BY <1>1 DEF settle, adminVars
<1>4. /\ Ledger' /\ created /\ lp_supply' = lp_supply
      /\ vault_amount_without_fee(in)' >= vault_amount_without_fee(in) + result.input_swapped
      /\ vault_amount_without_fee(out)' = vault_amount_without_fee(out) - result.output_swapped
  BY <1>1, SettleReserves
<1>5. swap_terms(direction).spot = rate
  BY DEF swap_terms
<1>6. /\ result.input_swapped \in Nat /\ result.output_swapped \in Nat
      /\ result.output_swapped > 0
      /\ rate.num \in Nat \ {0} /\ rate.den \in Nat \ {0}
      /\ result.output_swapped * rate.den =< result.input_swapped * rate.num
  <2>1. /\ result.output_amount \in Nat /\ result.creator_fee \in Nat
        /\ swap_terms(direction).is_creator_fee_on_input \in BOOLEAN
    BY <1>1 DEF SoundResult, swap_terms, is_creator_fee_on_input
  <2> QED BY <1>1, <1>5, <2>1 DEF SoundResult
<1>7. \A t \in Token : /\ vault_amount_without_fee(t) \in Int
                       /\ vault_amount_without_fee(t)' \in Int
  <2>1. \A t \in Token : /\ vault'[t] \in Int /\ protocol_fees'[t] \in Int
                         /\ fund_fees'[t] \in Int /\ creator_fees'[t] \in Int
    BY <1>4, PoolAssumption DEF Ledger, LedgerTypeOK, U64
  <2>2. \A t \in Token : vault_amount_without_fee(t)' \in Int
    BY <2>1 DEF vault_amount_without_fee, accrued_fees
  <2> QED BY <2>2, NetInt DEF Ledger
<1>8. \A t \in Token : vault_amount_without_fee(t)' > 0
  BY <1>3, <1>4 DEF Ledger, ReservesLeft
<1> DEFINE gained == vault_amount_without_fee(in)' - vault_amount_without_fee(in)
           lost   == vault_amount_without_fee(out) - vault_amount_without_fee(out)'
<1> HIDE DEF in, out, rate
<1>9. gained \in Int /\ gained >= result.input_swapped /\ lost = result.output_swapped
  BY <1>2, <1>4, <1>6, <1>7
<1>10. vault_amount_without_fee(out)' < vault_amount_without_fee(out)
  BY <1>2, <1>4, <1>6, <1>7
<1> HIDE DEF gained, lost
<1>11. lost * rate.den =< gained * rate.num
  <2>1. result.input_swapped * rate.num =< gained * rate.num
    BY <1>6, <1>9
  <2> QED BY <1>6, <1>9, <2>1
<1> QED BY <1>1, <1>3, <1>4, <1>6, <1>7, <1>8, <1>10, <1>11 DEF gained, lost, in, out, rate

\* Paying out part of what is owed leaves the net reserves as they are.
LEMMA PayoutLedger ==
  ASSUME Ledger, created, created' = created, UNCHANGED <<lp_supply, lp_mint_supply>>,
         NEW amounts \in [Token -> Nat],
         vault' = [t \in Token |-> vault[t] - amounts[t]],
         protocol_fees' \in [Token -> U64], fund_fees' \in [Token -> U64],
         creator_fees' \in [Token -> U64],
         \A t \in Token : /\ vault'[t] >= 0
                          /\ accrued_fees(t)' = accrued_fees(t) - amounts[t]
  PROVE  Ledger'
<1> USE PoolAssumption
<1>1. vault' \in [Token -> U64]
  <2>1. \A t \in Token : vault[t] \in U64 /\ amounts[t] \in Nat
    BY DEF Ledger, LedgerTypeOK
  <2>2. \A t \in Token : vault'[t] \in U64
    BY <2>1 DEF U64
  <2> QED BY <2>2
<1>2. LedgerTypeOK'
  BY <1>1 DEF Ledger, LedgerTypeOK
<1>3. ReservesLeft'
  <2> SUFFICES ASSUME NEW t \in Token PROVE vault_amount_without_fee(t)' > 0
    BY DEF ReservesLeft
  <2>1. vault_amount_without_fee(t)' = vault'[t] - accrued_fees(t)'
    BY DEF vault_amount_without_fee
  <2>2. vault_amount_without_fee(t) > 0
    BY DEF Ledger, ReservesLeft
  <2> QED BY <2>1, <2>2, NetInt DEF Ledger
<1> QED BY <1>2, <1>3 DEF Ledger, LpSupplyCoversHolders, NothingBeforeCreation

\* The least of what is asked and what is owed.
LEMMA CollectableBound ==
  ASSUME NEW requested \in [Token -> U64], NEW accrued \in [Token -> U64]
  PROVE  /\ collectable(requested, accrued) \in [Token -> U64]
         /\ [t \in Token |-> accrued[t] - collectable(requested, accrued)[t]]
              \in [Token -> U64]
<1>1. \A t \in Token : requested[t] \in 0 .. U64_MAX /\ accrued[t] \in 0 .. U64_MAX
  BY DEF U64
<1>2. \A t \in Token : /\ least(requested[t], accrued[t]) \in 0 .. U64_MAX
                       /\ accrued[t] - least(requested[t], accrued[t]) \in 0 .. U64_MAX
  BY <1>1, PoolAssumption DEF least
<1> QED BY <1>2 DEF collectable, U64

LEMMA CollectLedger == ASSUME Ledger, CollectFees PROVE Ledger'
<1> USE PoolAssumption
<1>1. /\ protocol_fees \in [Token -> U64] /\ fund_fees \in [Token -> U64]
      /\ creator_fees \in [Token -> U64]
  BY DEF Ledger, LedgerTypeOK
<1>2. ASSUME NEW owner \in Keys, NEW requested \in [Token -> FeeAmounts],
             CollectProtocolFee(owner, requested)
      PROVE  Ledger'
  <2> DEFINE amounts == collectable(requested, protocol_fees)
  <2>1. requested \in [Token -> U64]
    OBVIOUS
  <2>2. /\ created /\ created' = created /\ UNCHANGED <<lp_supply, lp_mint_supply>>
        /\ protocol_fees' = [t \in Token |-> protocol_fees[t] - amounts[t]]
        /\ UNCHANGED <<fund_fees, creator_fees>>
        /\ vault' = [t \in Token |-> vault[t] - amounts[t]]
        /\ \A t \in Token : vault'[t] >= 0
    BY <1>2 DEF CollectProtocolFee, paid_out
  <2>3. amounts \in [Token -> U64] /\ protocol_fees' \in [Token -> U64]
    BY <1>1, <2>1, <2>2, CollectableBound
  <2> HIDE DEF amounts
  <2>4. \A t \in Token : accrued_fees(t)' = accrued_fees(t) - amounts[t]
    BY <1>1, <2>2, <2>3 DEF accrued_fees, U64
  <2>5. amounts \in [Token -> Nat]
    BY <2>3 DEF U64
  <2> QED BY <1>1, <2>2, <2>3, <2>4, <2>5, PayoutLedger
<1>3. ASSUME NEW owner \in Keys, NEW requested \in [Token -> FeeAmounts],
             CollectFundFee(owner, requested)
      PROVE  Ledger'
  <2> DEFINE amounts == collectable(requested, fund_fees)
  <2>1. requested \in [Token -> U64]
    OBVIOUS
  <2>2. /\ created /\ created' = created /\ UNCHANGED <<lp_supply, lp_mint_supply>>
        /\ fund_fees' = [t \in Token |-> fund_fees[t] - amounts[t]]
        /\ UNCHANGED <<protocol_fees, creator_fees>>
        /\ vault' = [t \in Token |-> vault[t] - amounts[t]]
        /\ \A t \in Token : vault'[t] >= 0
    BY <1>3 DEF CollectFundFee, paid_out
  <2>3. amounts \in [Token -> U64] /\ fund_fees' \in [Token -> U64]
    BY <1>1, <2>1, <2>2, CollectableBound
  <2> HIDE DEF amounts
  <2>4. \A t \in Token : accrued_fees(t)' = accrued_fees(t) - amounts[t]
    BY <1>1, <2>2, <2>3 DEF accrued_fees, U64
  <2>5. amounts \in [Token -> Nat]
    BY <2>3 DEF U64
  <2> QED BY <1>1, <2>2, <2>3, <2>4, <2>5, PayoutLedger
<1>4. ASSUME NEW creator \in Keys, CollectCreatorFee(creator) PROVE Ledger'
  <2>1. /\ created /\ created' = created /\ UNCHANGED <<lp_supply, lp_mint_supply>>
        /\ creator_fees' = [t \in Token |-> 0]
        /\ UNCHANGED <<protocol_fees, fund_fees>>
        /\ vault' = [t \in Token |-> vault[t] - creator_fees[t]]
        /\ \A t \in Token : vault'[t] >= 0
    BY <1>4 DEF CollectCreatorFee, paid_out
  <2>2. creator_fees' \in [Token -> U64]
    BY <2>1 DEF U64
  <2>3. \A t \in Token : accrued_fees(t)' = accrued_fees(t) - creator_fees[t]
    BY <1>1, <2>1 DEF accrued_fees, U64
  <2>4. creator_fees \in [Token -> Nat]
    BY <1>1 DEF U64
  <2> QED BY <1>1, <2>1, <2>2, <2>3, <2>4, PayoutLedger
<1> QED BY <1>2, <1>3, <1>4 DEF CollectFees

\* Tokens sent to a vault from outside add to its reserves, and pool tokens
\* burned outside only lower what holders hold.
LEMMA ExternalLedger == ASSUME Ledger, External PROVE Ledger'
<1> USE PoolAssumption
<1>1. ASSUME NEW t \in Token, NEW amount \in GiftAmounts, SendToVault(t, amount)
      PROVE  Ledger'
  <2> DEFINE gift == credited(TransferFeeOf[t], amount)
  <2>1. /\ created /\ created' = created /\ UNCHANGED <<lp_supply, lp_mint_supply>>
        /\ UNCHANGED <<protocol_fees, fund_fees, creator_fees>>
        /\ vault' = [vault EXCEPT ![t] = @ + gift]
        /\ vault'[t] \in U64
    BY <1>1 DEF SendToVault, feeVars
  <2>2. gift \in Nat
    <3>1. amount \in Nat
      BY DEF U64
    <3> QED BY <3>1, Schedules, CreditedBound
  <2> HIDE DEF gift
  <2>3. vault \in [Token -> U64]
    BY DEF Ledger, LedgerTypeOK
  <2>4. LedgerTypeOK'
    BY <2>1, <2>3 DEF Ledger, LedgerTypeOK
  <2>5. ReservesLeft'
    <3> SUFFICES ASSUME NEW s \in Token PROVE vault_amount_without_fee(s)' > 0
      BY DEF ReservesLeft
    <3>1. vault_amount_without_fee(s)' = vault'[s] - accrued_fees(s)
      BY <2>1 DEF vault_amount_without_fee, accrued_fees
    <3>2. vault[s] \in Nat /\ (vault'[s] = vault[s] \/ vault'[s] = vault[s] + gift)
      BY <2>1, <2>3 DEF U64
    <3>3. vault_amount_without_fee(s) > 0
      BY <2>1 DEF Ledger, ReservesLeft
    <3> QED BY <2>2, <3>1, <3>2, <3>3, NetInt DEF Ledger
  <2> QED BY <2>1, <2>4, <2>5 DEF Ledger, LpSupplyCoversHolders, NothingBeforeCreation
<1>2. ASSUME NEW amount \in LpAmounts, BurnLp(amount) PROVE Ledger'
  <2>1. /\ amount =< lp_mint_supply /\ lp_mint_supply' = lp_mint_supply - amount
        /\ UNCHANGED <<created, lp_supply, protocol_fees, fund_fees, creator_fees, vault>>
    BY <1>2 DEF BurnLp, feeVars
  <2>2. amount \in Nat /\ lp_mint_supply \in Nat /\ lp_supply \in Nat
        /\ lp_mint_supply' \in U64
    BY <2>1 DEF Ledger, LedgerTypeOK, U64
  <2> QED BY <2>1, <2>2 DEF Ledger, LedgerTypeOK, LpSupplyCoversHolders, ReservesLeft,
            NothingBeforeCreation, vault_amount_without_fee, accrued_fees
<1>3. CASE Tick
  <2>1. UNCHANGED <<created, lp_supply, lp_mint_supply, protocol_fees, fund_fees,
                    creator_fees, vault>>
    BY <1>3 DEF Tick, feeVars
  <2> QED BY <2>1 DEF Ledger, LedgerTypeOK, LpSupplyCoversHolders, ReservesLeft,
            NothingBeforeCreation, vault_amount_without_fee, accrued_fees
<1> QED BY <1>1, <1>2, <1>3 DEF External

LEMMA LedgerStep == Settings /\ Ledger /\ [Next]_vars => Ledger'
<1> SUFFICES ASSUME Settings, Ledger, [Next]_vars PROVE Ledger'
  OBVIOUS
<1>1. CASE UNCHANGED <<created, lp_supply, lp_mint_supply, protocol_fees, fund_fees,
                       creator_fees, vault>>
  BY <1>1 DEF Ledger, LedgerTypeOK, LpSupplyCoversHolders, ReservesLeft,
              NothingBeforeCreation, vault_amount_without_fee, accrued_fees
<1>2. CASE CreatePool
  <2>1. PICK creator \in Keys, keeper \in Keys, amounts \in InitAmounts,
             args \in PoolArgs :
               \/ Initialize(creator, amounts, args, keeper)
               \/ \E payer \in Keys, fee_on \in CreatorFeeOn :
                    InitializeWithPermission(payer, creator, amounts, args, keeper,
                                             fee_on)
    BY <1>2 DEF CreatePool
  <2>2. CASE Initialize(creator, amounts, args, keeper)
    <3>1. create_pool(creator, amounts, args, keeper, "BothToken", FALSE)
      BY <2>2 DEF Initialize
    <3> QED BY <3>1, CreationLedger DEF CreatorFeeOn
  <2>3. ASSUME NEW payer \in Keys, NEW fee_on \in CreatorFeeOn,
               InitializeWithPermission(payer, creator, amounts, args, keeper, fee_on)
        PROVE  Ledger'
    <3>1. create_pool(creator, amounts, args, keeper, fee_on, TRUE)
      BY <2>3 DEF InitializeWithPermission
    <3> QED BY <3>1, CreationLedger
  <2> QED BY <2>1, <2>2, <2>3
<1>3. CASE ChangeLiquidity
  BY <1>3, DepositLedger, WithdrawLedger, PoolAssumption DEF ChangeLiquidity
<1>4. CASE Administer
  <2>1. UNCHANGED <<created, lp_supply, lp_mint_supply, protocol_fees, fund_fees,
                    creator_fees, vault>>
    <3>1. UpdateAmmConfig => UNCHANGED <<created, lp_supply, lp_mint_supply,
                               protocol_fees, fund_fees, creator_fees, vault>>
      BY DEF UpdateAmmConfig, UpdateTradeFeeRate, UpdateProtocolFeeRate,
             UpdateFundFeeRate, UpdateCreatorFeeRate, UpdateCreatePoolFee,
             SetDisableCreatePool, SetNewProtocolOwner, SetNewFundOwner,
             config_unchanged, feeVars
    <3> QED BY <1>4, <3>1 DEF Administer, CreatePermissionPda, ClosePermissionPda,
                 SetOracleKeeper, UpdatePoolStatus, UpdatePoolOracle,
                 oracle_unchanged, feeVars
  <2> QED BY <1>1, <2>1
<1> QED BY <1>1, <1>2, <1>3, <1>4, SwapLedger, CollectLedger, ExternalLedger
        DEF Next, vars

-----------------------------------------------------------------------------
(* The creator's fees. *)

\* A swap books the creator's fee in the token agreed, and none without one.
LEMMA SwapCreatorFees ==
  ASSUME Settings, Ledger, CreatorFeesWhereAgreed,
         NEW direction \in TradeDirection, NEW result,
         update_fees(direction, result), pool' = pool
  PROVE  CreatorFeesWhereAgreed'
<1> DEFINE in     == input_of(direction)
           fee_on == IF is_creator_fee_on_input(direction) THEN in ELSE 1 - in
<1>1. /\ ~pool.enable_creator_fee => result.creator_fee = 0
      /\ creator_fees' =
           [creator_fees EXCEPT ![fee_on] = creator_fees[fee_on] + result.creator_fee]
  BY DEF update_fees
<1>2. creator_fees \in [Token -> U64] /\ \A t \in Token : creator_fees[t] \in Nat
  BY PoolAssumption DEF Ledger, LedgerTypeOK, U64
<1>3. /\ pool.creator_fee_on = "OnlyToken0" => fee_on = 0
      /\ pool.creator_fee_on = "OnlyToken1" => fee_on = 1
      /\ fee_on \in Token
  BY DEF is_creator_fee_on_input, input_of, TradeDirection, Token
<1> HIDE DEF fee_on
<1>4. \A t \in Token \ {fee_on} : creator_fees'[t] = creator_fees[t]
  BY <1>1, <1>2
<1>5. creator_fees'[fee_on] = creator_fees[fee_on] + result.creator_fee
  BY <1>1, <1>2, <1>3
<1>6. ~pool.enable_creator_fee => \A t \in Token : creator_fees'[t] = 0
  <2> SUFFICES ASSUME ~pool.enable_creator_fee, NEW t \in Token
               PROVE  creator_fees'[t] = 0
    OBVIOUS
  <2>1. result.creator_fee = 0 /\ \A s \in Token : creator_fees[s] = 0
    BY <1>1 DEF CreatorFeesWhereAgreed
  <2> QED BY <1>3, <1>4, <1>5, <2>1
<1>7. /\ pool.creator_fee_on = "OnlyToken0" => creator_fees'[1] = 0
      /\ pool.creator_fee_on = "OnlyToken1" => creator_fees'[0] = 0
  BY <1>3, <1>4 DEF CreatorFeesWhereAgreed, Token
<1> QED BY <1>6, <1>7 DEF CreatorFeesWhereAgreed

LEMMA CreatorFeesStep ==
  Settings /\ Ledger /\ CreatorFeesWhereAgreed /\ [Next]_vars
    => CreatorFeesWhereAgreed'
<1> SUFFICES ASSUME Settings, Ledger, CreatorFeesWhereAgreed, [Next]_vars
             PROVE  CreatorFeesWhereAgreed'
  OBVIOUS
<1>1. CASE UNCHANGED <<pool, creator_fees>>
  BY <1>1 DEF CreatorFeesWhereAgreed
<1>2. CASE CreatePool
  <2>1. ~created /\ UNCHANGED creator_fees
    BY <1>2 DEF CreatePool, Initialize, InitializeWithPermission, create_pool, feeVars
  <2>2. \A t \in Token : creator_fees'[t] = 0
    BY <2>1 DEF Ledger, NothingBeforeCreation
  <2> QED BY <2>2 DEF CreatorFeesWhereAgreed, Token
<1>3. CASE ChangeLiquidity
  <2>1. UNCHANGED <<pool, creator_fees>>
    BY <1>3 DEF ChangeLiquidity, Deposit, Withdraw, feeVars
  <2> QED BY <1>1, <2>1
<1>4. CASE Swap
  <2>1. PICK direction \in TradeDirection, amount \in SwapAmounts, limit \in Limits :
          \/ SwapBaseInput(direction, amount, limit)
          \/ SwapBaseOutput(direction, limit, amount)
    BY <1>4 DEF Swap
  <2>2. \E sent, result : settle(direction, sent, result)
    BY <2>1 DEF SwapBaseInput, SwapBaseOutput
  <2>3. PICK result : update_fees(direction, result) /\ pool' = pool
    BY <2>2 DEF settle
  <2> QED BY <2>3, SwapCreatorFees
<1>5. CASE CollectFees
  <2>1. \/ UNCHANGED <<pool, creator_fees>>
        \/ creator_fees' = [t \in Token |-> 0]
    BY <1>5 DEF CollectFees, CollectProtocolFee, CollectFundFee, CollectCreatorFee
  <2> QED BY <1>1, <2>1 DEF CreatorFeesWhereAgreed, Token
<1>6. CASE Administer
  <2>1. UpdateAmmConfig => UNCHANGED <<pool, creator_fees>>
    BY DEF UpdateAmmConfig, UpdateTradeFeeRate, UpdateProtocolFeeRate,
           UpdateFundFeeRate, UpdateCreatorFeeRate, UpdateCreatePoolFee,
           SetDisableCreatePool, SetNewProtocolOwner, SetNewFundOwner,
           config_unchanged, feeVars
  <2>2. UNCHANGED <<pool, creator_fees>>
    BY <1>6, <2>1 DEF Administer, CreatePermissionPda, ClosePermissionPda,
         SetOracleKeeper, UpdatePoolStatus, UpdatePoolOracle, oracle_unchanged, feeVars
  <2> QED BY <1>1, <2>2
<1>7. CASE External
  <2>1. UNCHANGED <<pool, creator_fees>>
    BY <1>7 DEF External, SendToVault, BurnLp, Tick, feeVars
  <2> QED BY <1>1, <2>1
<1>8. CASE UNCHANGED vars
  <2>1. UNCHANGED <<pool, creator_fees>>
    BY <1>8 DEF vars
  <2> QED BY <1>1, <2>1
<1> QED BY <1>2, <1>3, <1>4, <1>5, <1>6, <1>7, <1>8 DEF Next

-----------------------------------------------------------------------------
(* The theorems. *)

LEMMA Invariants == Spec => [](Settings /\ Ledger)
BY SettingsInit, LedgerInit, SettingsStep, LedgerStep, PTL DEF Spec

\* No account ever leaves the range of its fields: no fee is collected that was
\* not booked, and no vault pays what it does not hold.
THEOREM TypesAlwaysOK == Spec => []TypeOK
<1>1. Settings /\ Ledger => TypeOK
  BY TypeSplit DEF Settings, Ledger
<1> QED BY <1>1, Invariants, PTL

\* A created pool never owes all it holds: in every order of swaps, deposits,
\* withdrawals, collections, gifts and rate changes, at whatever quotes, each
\* vault keeps more than the fees it owes.
THEOREM ReservesAlwaysLeft == Spec => []ReservesLeft
<1>1. Settings /\ Ledger => ReservesLeft
  BY DEF Ledger
<1> QED BY <1>1, Invariants, PTL

\* The pool's own count of its pool tokens always exceeds what holders hold by
\* the locked amount: the last holder to withdraw never makes it 0.
THEOREM LpSupplyAlwaysCovers == Spec => []LpSupplyCoversHolders
<1>1. Settings /\ Ledger => LpSupplyCoversHolders
  BY DEF Ledger
<1> QED BY <1>1, Invariants, PTL

\* The creator's fees accrue in the token or tokens the pool was created with,
\* and never in a pool created without them, through every change of rates.
THEOREM CreatorFeesAlwaysWhereAgreed == Spec => []CreatorFeesWhereAgreed
<1>1. Init => CreatorFeesWhereAgreed
  BY DEF Init, CreatorFeesWhereAgreed, Token
<1>2. Settings /\ Ledger /\ CreatorFeesWhereAgreed /\ [Next]_vars
        => CreatorFeesWhereAgreed'
  BY CreatorFeesStep
<1> QED BY <1>1, <1>2, Invariants, PTL DEF Spec

=============================================================================
