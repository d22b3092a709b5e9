---------------------------- MODULE LpFundProofs ----------------------------
(***************************************************************************)
(* The pool implements the fund of QuotedFund and the observed price of    *)
(* ObservedPrice, for every value of the constants: the refinement         *)
(* mappings of modules LpFund and ObservedPool.                            *)
(*                                                                         *)
(* Each instruction is one step of the fund, or none, in a pool whose      *)
(* Settings and Ledger hold: what PoolProofs shows of the amounts it moves *)
(* (DepositAmounts, WithdrawAmounts, SwapSettles, SettleReserves) is what  *)
(* the fund asks of Issue, Redeem and Trade.                               *)
(*                                                                         *)
(* Nor does a swap ever beat the quote.  It takes from the reserves at     *)
(* most what its spot price gives (SwapAtSpot).  The spot price is the bid *)
(* or the ask moved by the skew, and the skew lies on the side of the      *)
(* quote that rebalances the pool, by its cap at most (SkewBetweenCaps):   *)
(* so it is never worse for the pool than worst_price.  Every other        *)
(* instruction moves the two reserves the same way, or neither.            *)
(***************************************************************************)
EXTENDS LpFund, ObservedPool, PoolProofs

\* The reserves of the fund, before and after a step.
LEMMA Reserves ==
  ASSUME NEW t \in Token
  PROVE  /\ net_reserves[t] = vault_amount_without_fee(t)
         /\ net_reserves'[t] = vault_amount_without_fee(t)'
BY DEF net_reserves

\* What exceeds another number by the locked amount is not 0.
LEMMA Exceeds ==
  ASSUME NEW a \in Nat, NEW b \in Nat, a >= b + LOCK_LP_AMOUNT
  PROVE  a > 0
BY PoolAssumption

\* A step that leaves the vaults, the fees and the supply alone changes nothing
\* of the fund.
LEMMA FundUnchanged ==
  ASSUME UNCHANGED <<vault, protocol_fees, fund_fees, creator_fees, lp_supply>>
  PROVE  UNCHANGED Fund!fundVars
<1>1. \A t \in Token : vault_amount_without_fee(t)' = vault_amount_without_fee(t)
  BY DEF vault_amount_without_fee, accrued_fees
<1>2. net_reserves' = net_reserves
  BY <1>1 DEF net_reserves
<1> QED BY <1>2 DEF Fund!fundVars

\* Creation opens the fund.
LEMMA CreationOpens ==
  ASSUME Ledger, Ledger', CreatePool
  PROVE  Fund!Open
<1>1. ~created /\ created'
  BY DEF CreatePool, Initialize, InitializeWithPermission, create_pool
<1>2. lp_supply = 0
  BY <1>1 DEF Ledger, NothingBeforeCreation
<1>3. lp_supply' > 0
  <2>1. lp_supply' >= lp_mint_supply' + LOCK_LP_AMOUNT
    BY <1>1 DEF Ledger, LpSupplyCoversHolders
  <2>2. lp_supply' \in Nat /\ lp_mint_supply' \in Nat
    BY PoolAssumption DEF Ledger, LedgerTypeOK, U64
  <2> QED BY <2>1, <2>2, Exceeds
<1>4. \A t \in Token : net_reserves'[t] > 0
  BY <1>1, Reserves DEF Ledger, ReservesLeft
<1> QED BY <1>2, <1>3, <1>4 DEF Fund!Open, Fund!SomeLeft

\* The worth of pool tokens, rounded up unless it is none, is at least their part
\* of the reserve; rounded down, at most.
LEMMA WorthCovers ==
  ASSUME NEW lp \in Nat, NEW supply \in Nat \ {0}, NEW reserve \in Nat
  PROVE  /\ lp_tokens_to_trading_tokens(lp, supply, reserve, "Floor") * supply
              =< lp * reserve
         /\ lp_tokens_to_trading_tokens(lp, supply, reserve, "Ceiling") > 0 =>
              lp * reserve
                =< lp_tokens_to_trading_tokens(lp, supply, reserve, "Ceiling") * supply
<1> DEFINE whole  == lp * reserve
           amount == whole \div supply
<1>1. whole \in Nat
  OBVIOUS
<1>2. amount \in Nat /\ supply * amount =< whole /\ whole < supply * amount + supply
  BY <1>1, DivNat
<1>3. whole % supply = 0 => whole = supply * amount
  BY <1>1
<1>4. lp_tokens_to_trading_tokens(lp, supply, reserve, "Floor") = amount
  BY DEF lp_tokens_to_trading_tokens
<1>5. \/ lp_tokens_to_trading_tokens(lp, supply, reserve, "Ceiling") = amount + 1
      \/ /\ lp_tokens_to_trading_tokens(lp, supply, reserve, "Ceiling") = amount
         /\ amount > 0 => whole % supply = 0
  <2>1. whole % supply \in Nat
    BY <1>1
  <2> QED BY <1>2, <2>1 DEF lp_tokens_to_trading_tokens
<1> HIDE DEF whole, amount
<1>6. /\ (amount + 1) * supply = supply * amount + supply
      /\ amount * supply = supply * amount
      /\ supply * amount \in Nat
  BY <1>2
<1> QED BY <1>1, <1>2, <1>3, <1>4, <1>5, <1>6 DEF whole

\* A deposit issues shares for at least their worth.
LEMMA DepositIssues ==
  ASSUME Ledger, NEW lp \in U64, NEW limit,
         Deposit(lp, limit)
  PROVE  Fund!Issue
<1> DEFINE amount(t) == trading_tokens(lp, "Ceiling")[t]
<1>1. /\ created
      /\ lp \in Nat \ {0} /\ lp_supply \in Nat \ {0}
      /\ lp_supply' = lp_supply + lp
      /\ \A t \in Token :
           /\ amount(t) \in Nat \ {0}
           /\ vault_amount_without_fee(t)' = vault_amount_without_fee(t) + amount(t)
  BY DepositAmounts
<1>2. ASSUME NEW t \in Token
      PROVE  net_reserves'[t] * lp_supply >= net_reserves[t] * lp_supply'
  <2> DEFINE reserve == vault_amount_without_fee(t)
  <2>1. reserve \in Nat
    BY <1>1, NetInt DEF Ledger, ReservesLeft
  <2>2. amount(t) = lp_tokens_to_trading_tokens(lp, lp_supply, reserve, "Ceiling")
    BY DEF trading_tokens
  <2> HIDE DEF amount
  <2>3. net_reserves[t] = reserve /\ net_reserves'[t] = reserve + amount(t)
    BY <1>1, Reserves
  <2> HIDE DEF reserve
  <2>4. lp * reserve =< amount(t) * lp_supply
    BY <1>1, <2>1, <2>2, WorthCovers
  <2>5. /\ (reserve + amount(t)) * lp_supply = reserve * lp_supply + amount(t) * lp_supply
        /\ reserve * (lp_supply + lp) = reserve * lp_supply + lp * reserve
        /\ reserve * lp_supply \in Nat /\ amount(t) * lp_supply \in Nat
        /\ lp * reserve \in Nat
    BY <1>1, <2>1
  <2> QED BY <1>1, <2>3, <2>4, <2>5
<1>3. lp_supply > 0 /\ lp_supply' > lp_supply
  BY <1>1
<1> QED BY <1>2, <1>3 DEF Fund!Issue, Fund!Undiluted

\* A withdrawal redeems shares for at most their worth.
LEMMA WithdrawRedeems ==
  ASSUME Ledger, NEW lp \in U64, NEW limit,
         Withdraw(lp, limit)
  PROVE  Fund!Redeem
<1> DEFINE worth(t) == trading_tokens(lp, "Floor")[t]
<1>1. /\ created
      /\ lp \in Nat \ {0} /\ lp_supply \in Nat \ {0} /\ lp < lp_supply
      /\ lp_supply' = lp_supply - lp
      /\ \A t \in Token :
           /\ worth(t) \in Nat
           /\ vault_amount_without_fee(t)' = vault_amount_without_fee(t) - worth(t)
           /\ vault_amount_without_fee(t)' > 0
  BY WithdrawAmounts
<1>2. ASSUME NEW t \in Token
      PROVE  net_reserves'[t] * lp_supply >= net_reserves[t] * lp_supply'
  <2> DEFINE reserve == vault_amount_without_fee(t)
  <2>1. reserve \in Nat
    BY <1>1, NetInt DEF Ledger, ReservesLeft
  <2>2. worth(t) = lp_tokens_to_trading_tokens(lp, lp_supply, reserve, "Floor")
    BY DEF trading_tokens
  <2> HIDE DEF worth
  <2>3. net_reserves[t] = reserve /\ net_reserves'[t] = reserve - worth(t)
    BY <1>1, Reserves
  <2> HIDE DEF reserve
  <2>4. worth(t) * lp_supply =< lp * reserve
    BY <1>1, <2>1, <2>2, WorthCovers
  <2>5. /\ (reserve - worth(t)) * lp_supply = reserve * lp_supply - worth(t) * lp_supply
        /\ reserve * (lp_supply - lp) = reserve * lp_supply - lp * reserve
        /\ reserve * lp_supply \in Nat /\ worth(t) * lp_supply \in Nat
        /\ lp * reserve \in Nat
    BY <1>1, <2>1
  <2> QED BY <1>1, <2>3, <2>4, <2>5
<1>3. lp_supply' > 0 /\ lp_supply' < lp_supply
  BY <1>1
<1>4. \A t \in Token : net_reserves'[t] > 0
  BY <1>1, Reserves
<1> QED BY <1>2, <1>3, <1>4 DEF Fund!Redeem, Fund!Undiluted, Fund!SomeLeft

\* A swap is a trade at the quote of its direction or cheaper.
LEMMA SwapTrades ==
  ASSUME Settings, Ledger, AnySwap
  PROVE  \E in, out \in Token : Fund!Trade(in, out)
<1>1. PICK direction \in TradeDirection :
        /\ spot(direction).num \in Nat \ {0} /\ spot(direction).den \in Nat \ {0}
        /\ vault_amount_without_fee(output_of(direction))'
             < vault_amount_without_fee(output_of(direction))
        /\ (vault_amount_without_fee(output_of(direction))
              - vault_amount_without_fee(output_of(direction))') * spot(direction).den
             =< (vault_amount_without_fee(input_of(direction))'
                  - vault_amount_without_fee(input_of(direction))) * spot(direction).num
  BY SwapAtSpot
<1> DEFINE in   == input_of(direction)
           out  == output_of(direction)
           rate == spot(direction)
<1>2. in \in Token /\ out \in Token /\ Token = {in, out}
  BY DEF input_of, output_of, Token
<1>3. quoted_prices[in] = rate
  <2>1. selling(in) = direction
    BY DEF selling, input_of, TradeDirection
  <2> QED BY <1>2, <2>1 DEF quoted_prices
<1>4. /\ created /\ lp_supply' = lp_supply
      /\ \A t \in Token : net_reserves'[t] > 0
  BY SwapAtSpot, Reserves
<1>5. lp_supply > 0
  <2>1. lp_supply >= lp_mint_supply + LOCK_LP_AMOUNT /\ lp_supply \in Nat
        /\ lp_mint_supply \in Nat
    BY <1>4, PoolAssumption DEF Ledger, LedgerTypeOK, LpSupplyCoversHolders, U64
  <2> QED BY <2>1, Exceeds
<1>6. /\ net_reserves'[out] < net_reserves[out]
      /\ rate.num \in Nat \ {0} /\ rate.den \in Nat \ {0}
      /\ (net_reserves[out] - net_reserves'[out]) * rate.den
           =< (net_reserves'[in] - net_reserves[in]) * rate.num
  BY <1>1, <1>2, Reserves
<1> HIDE DEF in, out, rate
<1>7. Fund!Trade(in, out)
  BY <1>2, <1>3, <1>4, <1>5, <1>6 DEF Fund!Trade, Fund!SomeLeft
<1> QED BY <1>2, <1>7

\* Collecting fees takes from the vaults what the fees owed fall by.
LEMMA CollectKeepsReserves ==
  ASSUME Ledger, CollectFees
  PROVE  UNCHANGED Fund!fundVars
<1>1. ASSUME NEW amounts,
             \A t \in Token : /\ amounts[t] \in Nat
                              /\ vault'[t] = vault[t] - amounts[t]
                              /\ accrued_fees(t)' = accrued_fees(t) - amounts[t],
             lp_supply' = lp_supply
      PROVE  UNCHANGED Fund!fundVars
  <2>1. ASSUME NEW t \in Token
        PROVE  vault_amount_without_fee(t)' = vault_amount_without_fee(t)
    <3>1. /\ vault_amount_without_fee(t)' = vault'[t] - accrued_fees(t)'
          /\ vault_amount_without_fee(t) = vault[t] - accrued_fees(t)
      BY DEF vault_amount_without_fee
    <3>2. vault[t] \in Int /\ accrued_fees(t) \in Int
      BY NetInt, PoolAssumption DEF Ledger, LedgerTypeOK, U64
    <3> QED BY <1>1, <3>1, <3>2
  <2> QED BY <1>1, <2>1 DEF Fund!fundVars, net_reserves
<1>2. \A t \in Token : /\ protocol_fees[t] \in Nat /\ fund_fees[t] \in Nat
                       /\ creator_fees[t] \in Nat
  BY PoolAssumption DEF Ledger, LedgerTypeOK, U64
<1>3. ASSUME NEW requested \in [Token -> FeeAmounts], NEW accrued \in [Token -> U64],
             NEW t \in Token
      PROVE  collectable(requested, accrued)[t] \in Nat
  <2>1. requested \in [Token -> U64]
    BY PoolAssumption
  <2>2. collectable(requested, accrued) \in [Token -> U64]
    BY <2>1, CollectableBound
  <2> QED BY <2>2, PoolAssumption DEF U64
<1>4. ASSUME NEW owner \in Keys, NEW requested \in [Token -> FeeAmounts],
             CollectProtocolFee(owner, requested)
      PROVE  UNCHANGED Fund!fundVars
  <2> DEFINE amounts == collectable(requested, protocol_fees)
  <2>1. /\ UNCHANGED <<lp_supply, fund_fees, creator_fees>>
        /\ \A t \in Token : /\ protocol_fees'[t] = protocol_fees[t] - amounts[t]
                             /\ vault'[t] = vault[t] - amounts[t]
    BY <1>4 DEF CollectProtocolFee, paid_out
  <2>2. \A t \in Token : amounts[t] \in Nat
    BY <1>3 DEF Ledger, LedgerTypeOK
  <2> HIDE DEF amounts
  <2>3. \A t \in Token : accrued_fees(t)' = accrued_fees(t) - amounts[t]
    BY <1>2, <2>1, <2>2 DEF accrued_fees
  <2> QED BY <1>1, <2>1, <2>2, <2>3
<1>5. ASSUME NEW owner \in Keys, NEW requested \in [Token -> FeeAmounts],
             CollectFundFee(owner, requested)
      PROVE  UNCHANGED Fund!fundVars
  <2> DEFINE amounts == collectable(requested, fund_fees)
  <2>1. /\ UNCHANGED <<lp_supply, protocol_fees, creator_fees>>
        /\ \A t \in Token : /\ fund_fees'[t] = fund_fees[t] - amounts[t]
                             /\ vault'[t] = vault[t] - amounts[t]
    BY <1>5 DEF CollectFundFee, paid_out
  <2>2. \A t \in Token : amounts[t] \in Nat
    BY <1>3 DEF Ledger, LedgerTypeOK
  <2> HIDE DEF amounts
  <2>3. \A t \in Token : accrued_fees(t)' = accrued_fees(t) - amounts[t]
    BY <1>2, <2>1, <2>2 DEF accrued_fees
  <2> QED BY <1>1, <2>1, <2>2, <2>3
<1>6. ASSUME NEW creator \in Keys, CollectCreatorFee(creator)
      PROVE  UNCHANGED Fund!fundVars
  <2>1. /\ UNCHANGED <<lp_supply, protocol_fees, fund_fees>>
        /\ \A t \in Token : /\ creator_fees'[t] = 0
                             /\ vault'[t] = vault[t] - creator_fees[t]
    BY <1>6 DEF CollectCreatorFee, paid_out
  <2>2. \A t \in Token : accrued_fees(t)' = accrued_fees(t) - creator_fees[t]
    BY <1>2, <2>1 DEF accrued_fees
  <2> QED BY <1>1, <1>2, <2>1, <2>2
<1> QED BY <1>4, <1>5, <1>6 DEF CollectFees

\* Tokens sent to a vault are a gain.
LEMMA GiftGains ==
  ASSUME Ledger, NEW s \in Token, NEW amount \in GiftAmounts, SendToVault(s, amount)
  PROVE  Fund!Gain
<1> DEFINE gift == credited(TransferFeeOf[s], amount)
<1>1. /\ created /\ lp_supply' = lp_supply
      /\ UNCHANGED <<protocol_fees, fund_fees, creator_fees>>
      /\ vault' = [vault EXCEPT ![s] = @ + gift]
  BY DEF SendToVault, feeVars
<1>2. gift \in Nat
  <2>1. amount \in Nat
    BY PoolAssumption DEF U64
  <2> QED BY <2>1, Schedules, CreditedBound
<1> HIDE DEF gift
<1>3. ASSUME NEW t \in Token
      PROVE  vault_amount_without_fee(t)' >= vault_amount_without_fee(t)
  <2>1. vault[t] \in Int /\ vault'[t] >= vault[t] /\ vault'[t] \in Int
    <3>1. vault \in [Token -> U64]
      BY DEF Ledger, LedgerTypeOK
    <3>2. vault[t] \in Int /\ (vault'[t] = vault[t] \/ vault'[t] = vault[t] + gift)
      BY <1>1, <3>1, PoolAssumption DEF U64
    <3> QED BY <1>2, <3>2
  <2>2. /\ vault_amount_without_fee(t)' = vault'[t] - accrued_fees(t)
        /\ vault_amount_without_fee(t) = vault[t] - accrued_fees(t)
    BY <1>1 DEF vault_amount_without_fee, accrued_fees
  <2> QED BY <2>1, <2>2, NetInt DEF Ledger
<1>4. lp_supply > 0
  <2>1. /\ lp_supply >= lp_mint_supply + LOCK_LP_AMOUNT
        /\ lp_supply \in Nat /\ lp_mint_supply \in Nat
    BY <1>1, PoolAssumption DEF Ledger, LedgerTypeOK, LpSupplyCoversHolders, U64
  <2> QED BY <2>1, Exceeds
<1> QED BY <1>1, <1>3, <1>4, Reserves DEF Fund!Gain

\* Every step of the pool is a step of the fund, or none.
LEMMA FundStep ==
  Settings /\ Ledger /\ Ledger' /\ [Next]_vars => [Fund!Next]_(Fund!fundVars)
<1> SUFFICES ASSUME Settings, Ledger, Ledger', [Next]_vars
             PROVE  Fund!Next \/ UNCHANGED Fund!fundVars
  OBVIOUS
<1>1. CASE CreatePool
  BY <1>1, CreationOpens DEF Fund!Next
<1>2. CASE ChangeLiquidity
  <2>1. PICK lp \in LpAmounts, limit \in [Token -> Limits] :
          Deposit(lp, limit) \/ Withdraw(lp, limit)
    BY <1>2 DEF ChangeLiquidity
  <2>2. lp \in U64
    BY PoolAssumption
  <2> QED BY <2>1, <2>2, DepositIssues, WithdrawRedeems DEF Fund!Next
<1>3. CASE Swap
  BY <1>3, SwapTrades, SwapIsAnySwap DEF Fund!Next
<1>4. CASE CollectFees
  BY <1>4, CollectKeepsReserves
<1>5. CASE Administer
  <2>1. UpdateAmmConfig =>
          UNCHANGED <<vault, protocol_fees, fund_fees, creator_fees, lp_supply>>
    BY DEF UpdateAmmConfig, UpdateTradeFeeRate, UpdateProtocolFeeRate,
           UpdateFundFeeRate, UpdateCreatorFeeRate, UpdateCreatePoolFee,
           SetDisableCreatePool, SetNewProtocolOwner, SetNewFundOwner,
           config_unchanged, feeVars
  <2>2. UNCHANGED <<vault, protocol_fees, fund_fees, creator_fees, lp_supply>>
    BY <1>5, <2>1 DEF Administer, CreatePermissionPda, ClosePermissionPda,
         SetOracleKeeper, UpdatePoolStatus, UpdatePoolOracle, oracle_unchanged, feeVars
  <2> QED BY <2>2, FundUnchanged
<1>6. CASE External
  <2>1. CASE \E t \in Token, amount \in GiftAmounts : SendToVault(t, amount)
    BY <2>1, GiftGains DEF Fund!Next
  <2>2. CASE (\E amount \in LpAmounts : BurnLp(amount)) \/ Tick
    <3>1. UNCHANGED <<vault, protocol_fees, fund_fees, creator_fees, lp_supply>>
      BY <2>2 DEF BurnLp, Tick, feeVars
    <3> QED BY <3>1, FundUnchanged
  <2> QED BY <1>6, <2>1, <2>2 DEF External
<1>7. CASE UNCHANGED vars
  <2>1. UNCHANGED <<vault, protocol_fees, fund_fees, creator_fees, lp_supply>>
    BY <1>7 DEF vars
  <2> QED BY <2>1, FundUnchanged
<1> QED BY <1>1, <1>2, <1>3, <1>4, <1>5, <1>6, <1>7 DEF Next

-----------------------------------------------------------------------------
(* The theorems. *)

LEMMA FundInitially == Init => Fund!Init
<1> SUFFICES ASSUME Init PROVE Fund!Init
  OBVIOUS
<1>1. \A t \in Token : vault_amount_without_fee(t) = 0
  BY DEF Init, vault_amount_without_fee, accrued_fees
<1>2. net_reserves = [t \in Token |-> 0]
  BY <1>1 DEF net_reserves
<1> QED BY <1>2 DEF Init, Fund!Init

\* Whatever instructions come in whatever order, with any amounts, fees, rates
\* and quotes, the pool is to its holders a fund that issues and redeems shares
\* without loss to the others and trades at its quotes or cheaper.
THEOREM PoolImplementsFund == Spec => ImplementsFund
<1>1. (Settings /\ Ledger) /\ (Settings /\ Ledger)' /\ [Next]_vars
        => [Fund!Next]_(Fund!fundVars)
  BY FundStep
<1> QED BY FundInitially, <1>1, Invariants, PTL DEF Spec, ImplementsFund, Fund!Spec

\* No step of the fund but a trade, and no step of the pool but a swap, lowers
\* the reserves per share.
LEMMA FundKeepsValue ==
  ASSUME Ledger, Ledger', [Fund!Next]_(Fund!fundVars), created,
         ~(\E direction \in TradeDirection : Swapped(direction)), NEW t \in Token
  PROVE  vault_amount_without_fee(t)' * lp_supply
           >= vault_amount_without_fee(t) * lp_supply'
<1>1. /\ lp_supply \in Nat /\ lp_supply' \in Nat
      /\ \A a \in Token : vault_amount_without_fee(a) \in Int
  BY PoolAssumption, NetInt DEF Ledger, LedgerTypeOK, U64
<1>2. \A a \in Token : vault_amount_without_fee(a)' \in Int
  <2>1. \A a \in Token : /\ vault'[a] \in Int /\ protocol_fees'[a] \in Int
                         /\ fund_fees'[a] \in Int /\ creator_fees'[a] \in Int
    BY PoolAssumption DEF Ledger, LedgerTypeOK, U64
  <2> QED BY <2>1 DEF vault_amount_without_fee, accrued_fees
<1>3. CASE Fund!Open
  <2>1. lp_supply >= lp_mint_supply + LOCK_LP_AMOUNT /\ lp_mint_supply \in Nat
    BY PoolAssumption DEF Ledger, LedgerTypeOK, LpSupplyCoversHolders, U64
  <2>2. lp_supply > 0
    BY <1>1, <2>1, Exceeds
  <2> QED BY <1>3, <2>2 DEF Fund!Open
<1>4. CASE Fund!Issue \/ Fund!Redeem
  BY <1>4, Reserves DEF Fund!Issue, Fund!Redeem, Fund!Undiluted
<1>5. CASE Fund!Gain
  <2>1. lp_supply' = lp_supply
        /\ vault_amount_without_fee(t)' >= vault_amount_without_fee(t)
    BY <1>5, Reserves DEF Fund!Gain
  <2> QED BY <1>1, <1>2, <2>1
<1>6. ASSUME NEW in \in Token, NEW out \in Token, Fund!Trade(in, out)
      PROVE  FALSE
  <2> DEFINE grown  == vault_amount_without_fee(in)' - vault_amount_without_fee(in)
             fallen == vault_amount_without_fee(out) - vault_amount_without_fee(out)'
             rate   == quoted_prices[in]
  <2>1. /\ net_reserves[in] = vault_amount_without_fee(in)
        /\ net_reserves'[in] = vault_amount_without_fee(in)'
        /\ net_reserves[out] = vault_amount_without_fee(out)
        /\ net_reserves'[out] = vault_amount_without_fee(out)'
    BY Reserves
  <2>2. /\ vault_amount_without_fee(out)' < vault_amount_without_fee(out)
        /\ rate.num \in Nat \ {0} /\ rate.den \in Nat \ {0}
        /\ fallen * rate.den =< grown * rate.num
    BY <1>6, <2>1 DEF Fund!Trade
  <2>3. fallen \in Nat \ {0} /\ grown \in Int
    BY <1>1, <1>2, <2>2
  <2> HIDE DEF grown, fallen, rate
  <2>4. fallen * rate.den \in Nat \ {0}
    BY <2>2, <2>3
  <2>5. grown > 0
    BY <2>2, <2>3, <2>4
  <2>6. vault_amount_without_fee(in)' > vault_amount_without_fee(in)
    BY <1>1, <1>2, <2>5 DEF grown
  <2>7. in # out
    BY <1>1, <1>2, <2>2, <2>6
  <2>8. selling(in) \in TradeDirection /\ input_of(selling(in)) = in
        /\ output_of(selling(in)) = out
    BY <2>7 DEF selling, TradeDirection, input_of, output_of, Token
  <2>9. Swapped(selling(in))
    BY <2>2, <2>6, <2>8 DEF Swapped
  <2> QED BY <2>8, <2>9
<1>7. CASE UNCHANGED Fund!fundVars
  <2>1. lp_supply' = lp_supply /\ net_reserves'[t] = net_reserves[t]
    BY <1>7 DEF Fund!fundVars
  <2> QED BY <1>1, <2>1, Reserves
<1> QED BY <1>3, <1>4, <1>5, <1>6, <1>7 DEF Fund!Next

\* No deposit, withdrawal, fee collection or gift ever lowers what a pool token
\* is worth, in either token, whatever the transfer fees and the amounts.
THEOREM ValuePerShareNeverFell == Spec => ValuePerShareNeverFalls
<1> DEFINE Step == created /\ ~(\E direction \in TradeDirection : Swapped(direction)) =>
                     \A t \in Token : vault_amount_without_fee(t)' * lp_supply
                                        >= vault_amount_without_fee(t) * lp_supply'
<1>1. (Settings /\ Ledger) /\ (Settings /\ Ledger)' /\ [Next]_vars => Step
  BY FundStep, FundKeepsValue
<1>2. (Settings /\ Ledger) /\ (Settings /\ Ledger)' /\ [Next]_vars => [Step]_vars
  BY <1>1
<1> HIDE DEF Step
<1>3. Spec => [][Step]_vars
  BY <1>2, Invariants, PTL DEF Spec
<1> QED BY <1>3 DEF ValuePerShareNeverFalls, Step

-----------------------------------------------------------------------------
(* The observations. *)

ObservedPair == [price_0 : Nat, price_1 : Nat]

\* A pool whose reserves are left has two prices.
LEMMA PricesExist ==
  /\ Ledger => observed_prices \in ObservedPair
  /\ Ledger' => observed_prices' \in ObservedPair
<1>1. ASSUME NEW a \in Int, NEW b \in Int, a > 0, b > 0
      PROVE  (a * Q32) \div b \in Nat
  <2>1. a * Q32 \in Nat /\ b \in Nat \ {0}
    BY <1>1, PoolAssumption
  <2> QED BY <2>1, DivNat
<1>2. ASSUME Ledger PROVE observed_prices \in ObservedPair
  <2>1. CASE ~created
    BY <2>1 DEF observed_prices, ObservedPair
  <2>2. CASE created
    <3>1. \A t \in Token : vault_amount_without_fee(t) \in Int /\ vault_amount_without_fee(t) > 0
      BY <1>2, <2>2, NetInt DEF Ledger, ReservesLeft
    <3>2. \A t \in Token : token_price_x32(t) \in Nat
      BY <1>1, <3>1 DEF token_price_x32, Token
    <3> QED BY <2>2, <3>2 DEF observed_prices, ObservedPair, Token
  <2> QED BY <2>1, <2>2
<1>3. ASSUME Ledger' PROVE observed_prices' \in ObservedPair
  <2>1. CASE ~created'
    BY <2>1 DEF observed_prices, ObservedPair
  <2>2. CASE created'
    <3>1. \A t \in Token : vault_amount_without_fee(t)' \in Int
      <4>1. \A t \in Token : /\ vault'[t] \in Int /\ protocol_fees'[t] \in Int
                             /\ fund_fees'[t] \in Int /\ creator_fees'[t] \in Int
        BY <1>3, PoolAssumption DEF Ledger, LedgerTypeOK, U64
      <4> QED BY <4>1 DEF vault_amount_without_fee, accrued_fees
    <3>2. \A t \in Token : vault_amount_without_fee(t)' > 0
      BY <1>3, <2>2 DEF Ledger, ReservesLeft
    <3>3. /\ token_price_x32(0)' \in Nat /\ token_price_x32(1)' \in Nat
      BY <1>1, <3>1, <3>2 DEF token_price_x32, Token
    <3> QED BY <2>2, <3>3 DEF observed_prices, ObservedPair
  <2> QED BY <2>1, <2>2
<1> QED BY <1>2, <1>3

\* The account is the same, and is updated alike, in both modules.
LEMMA SameUpdate ==
  /\ Observed!EmptyObservation = EmptyObservation
  /\ \A o, now, p, q :
       Observed!update_observation(o, now, p, q) = update_observation(o, now, p, q)
BY DEF EmptyObservation, Slots, Observed!EmptyObservation, Observed!Slots,
       update_observation, since_last_update, slot_full, next_observation_index, newest,
       since_last_observation, last_update, elapsed, accumulated,
       Observed!update_observation, Observed!since_last_update, Observed!slot_full,
       Observed!next_observation_index, Observed!newest, Observed!since_last_observation,
       Observed!last_update, Observed!elapsed, Observed!accumulated

\* A swap observes the prices it found.
LEMMA SwapObserves ==
  ASSUME Settings, Ledger, Ledger', AnySwap
  PROVE  Observed!SwapObserved
<1>1. created
  BY SwapAtSpot
<1>2. /\ observation' = update_observation(observation, clock, token_price_x32(0),
                                          token_price_x32(1))
      /\ clock' = clock
  BY DEF AnySwap, SwapBaseInput, SwapBaseOutput, settle
<1>3. /\ observed_prices.price_0 = token_price_x32(0)
      /\ observed_prices.price_1 = token_price_x32(1)
  BY <1>1 DEF observed_prices
<1>4. observed_prices' \in ObservedPair
  BY PricesExist
<1> QED BY <1>2, <1>3, <1>4, SameUpdate DEF Observed!SwapObserved, ObservedPair

\* Nothing else touches the observations; only time moves the clock, and no price.
LEMMA ObservedStep ==
  Settings /\ Ledger /\ Ledger' /\ [Next]_vars => [Observed!ObservedNext]_(Observed!observedVars)
<1> SUFFICES ASSUME Settings, Ledger, Ledger', [Next]_vars
             PROVE  Observed!ObservedNext \/ UNCHANGED Observed!observedVars
  OBVIOUS
<1>1. CASE Swap
  BY <1>1, SwapObserves, SwapIsAnySwap DEF Observed!ObservedNext
<1>2. ASSUME observation' = observation, clock' = clock
      PROVE  Observed!PriceMoves
  BY <1>2, PricesExist DEF Observed!PriceMoves, ObservedPair
<1>3. CASE CreatePool
  <2>1. observation' = observation /\ clock' = clock
    BY <1>3 DEF CreatePool, Initialize, InitializeWithPermission, create_pool
  <2> QED BY <1>2, <2>1 DEF Observed!ObservedNext
<1>4. CASE ChangeLiquidity
  <2>1. observation' = observation /\ clock' = clock
    BY <1>4 DEF ChangeLiquidity, Deposit, Withdraw
  <2> QED BY <1>2, <2>1 DEF Observed!ObservedNext
<1>5. CASE CollectFees
  <2>1. observation' = observation /\ clock' = clock
    BY <1>5 DEF CollectFees, CollectProtocolFee, CollectFundFee, CollectCreatorFee
  <2> QED BY <1>2, <2>1 DEF Observed!ObservedNext
<1>6. CASE Administer
  <2>1. UpdateAmmConfig => observation' = observation /\ clock' = clock
    BY DEF UpdateAmmConfig, UpdateTradeFeeRate, UpdateProtocolFeeRate,
           UpdateFundFeeRate, UpdateCreatorFeeRate, UpdateCreatePoolFee,
           SetDisableCreatePool, SetNewProtocolOwner, SetNewFundOwner, config_unchanged
  <2>2. observation' = observation /\ clock' = clock
    BY <1>6, <2>1 DEF Administer, CreatePermissionPda, ClosePermissionPda,
         SetOracleKeeper, UpdatePoolStatus, UpdatePoolOracle, oracle_unchanged
  <2> QED BY <1>2, <2>2 DEF Observed!ObservedNext
<1>7. CASE External
  <2>1. CASE Tick
    <3>1. observed_prices' = observed_prices
      BY <2>1 DEF Tick, observed_prices, token_price_x32, vault_amount_without_fee,
           accrued_fees, feeVars
    <3> QED BY <2>1, <3>1 DEF Tick, Observed!ObservedNext, Observed!SecondPasses
  <2>2. CASE \/ \E t \in Token, amount \in GiftAmounts : SendToVault(t, amount)
             \/ \E amount \in LpAmounts : BurnLp(amount)
    <3>1. observation' = observation /\ clock' = clock
      BY <2>2 DEF SendToVault, BurnLp
    <3> QED BY <1>2, <3>1 DEF Observed!ObservedNext
  <2> QED BY <1>7, <2>1, <2>2 DEF External
<1>8. CASE UNCHANGED vars
  <2>1. observation' = observation /\ clock' = clock
    BY <1>8 DEF vars
  <2> QED BY <1>2, <2>1 DEF Observed!ObservedNext
<1> QED BY <1>1, <1>3, <1>4, <1>5, <1>6, <1>7, <1>8 DEF Next

LEMMA ObservedInitially == Init => Observed!ObservedInit
<1> SUFFICES ASSUME Init PROVE Observed!ObservedInit
  OBVIOUS
<1>1. observed_prices \in ObservedPair
  BY PricesExist, LedgerInit
<1> QED BY <1>1, SameUpdate DEF Init, Observed!ObservedInit, ObservedPair

\* Whatever moves the reserves, the observation account changes in swaps only,
\* each time by one update with the prices the swap found.
THEOREM PoolImplementsObserved == Spec => ImplementsObserved
<1>1. (Settings /\ Ledger) /\ (Settings /\ Ledger)' /\ [Next]_vars
        => [Observed!ObservedNext]_(Observed!observedVars)
  BY ObservedStep
<1> QED BY ObservedInitially, <1>1, Invariants, PTL
       DEF Spec, ImplementsObserved, Observed!ObservedSpec

-----------------------------------------------------------------------------
(* No swap beats the quote: arithmetic. *)

LEMMA BpsPositive == BPS \in Nat \ {0}
BY DEF BPS

\* The quotient of a non-negative or negative number by a positive one, with
\* its sign and its bounds.
LEMMA DivInt ==
  ASSUME NEW a \in Int, NEW d \in Nat \ {0}
  PROVE  a \div d \in Int /\ d * (a \div d) =< a /\ a < d * (a \div d) + d
  OBVIOUS

\* Division by a positive number is monotone.
LEMMA DivMonotone ==
  ASSUME NEW a \in Int, NEW b \in Int, NEW d \in Nat \ {0}, a =< b
  PROVE  a \div d =< b \div d
<1> DEFINE p == a \div d
           q == b \div d
<1>1. /\ p \in Int /\ q \in Int
      /\ d * p =< a /\ b < d * q + d
  BY DivInt
<1> HIDE DEF p, q
<1>2. ASSUME q + 1 =< p PROVE FALSE
  <2>1. d * (q + 1) =< d * p
    BY <1>1, <1>2
  <2>2. d * (q + 1) = d * q + d /\ d * p \in Int /\ d * q \in Int
    BY <1>1
  <2> QED BY <1>1, <2>1, <2>2
<1>3. p =< q
  BY <1>1, <1>2
<1> QED BY <1>3 DEF p, q

-----------------------------------------------------------------------------
(* The skew and the shift. *)

\* The skew is at most its cap either way, and 0 or against the imbalance.
LEMMA SkewBound ==
  ASSUME NEW imbalance \in Int, NEW deadzone \in Nat, NEW per_pct \in Nat, NEW max \in Nat
  PROVE  LET skew == compute_inventory_skew_bps(imbalance, deadzone, per_pct, max)
         IN /\ skew \in Int /\ -max =< skew /\ skew =< max
            /\ imbalance >= 0 => skew =< 0
            /\ imbalance =< 0 => skew >= 0
<1> DEFINE excess == magnitude(imbalance) - deadzone
           mag    == least((excess * per_pct) \div 100, max)
<1>1. excess \in Int
  BY DEF magnitude
<1>2. CASE excess =< 0
  <2>1. excess =< 0 /\ ~(excess > 0)
    BY <1>1, <1>2
  <2> HIDE DEF excess
  <2>2. compute_inventory_skew_bps(imbalance, deadzone, per_pct, max) = 0
    BY <2>1 DEF compute_inventory_skew_bps, excess
  <2> QED BY <2>2
<1>3. CASE excess > 0
  <2>1. (excess * per_pct) \div 100 \in Nat
    <3> HIDE DEF excess
    <3>1. excess * per_pct \in Nat
      BY <1>1, <1>3
    <3> QED BY <3>1, DivNat
  <2>2. mag \in Nat /\ mag =< max
    BY <2>1 DEF least
  <2>3. compute_inventory_skew_bps(imbalance, deadzone, per_pct, max)
          = IF imbalance > 0 THEN -mag ELSE mag
    <3>1. CASE imbalance > 0
      BY <1>3, <3>1 DEF compute_inventory_skew_bps
    <3>2. CASE imbalance =< 0
      BY <1>3, <3>2 DEF compute_inventory_skew_bps
    <3> QED BY <3>1, <3>2
  <2>4. imbalance = 0 => FALSE
    BY <1>3 DEF magnitude
  <2> HIDE DEF mag
  <2> QED BY <2>2, <2>3, <2>4
<1> QED BY <1>1, <1>2, <1>3

\* The imbalance has the sign of what the reserves are worth at the price.
LEMMA ImbalanceSign ==
  ASSUME NEW reserve_0 \in Nat, NEW reserve_1 \in Nat \ {0},
         NEW price, price.num \in Nat \ {0}, price.den \in Nat \ {0}
  PROVE  LET imbalance == compute_inventory_imbalance_bps(reserve_0, reserve_1, price)
         IN /\ imbalance \in Int
            /\ reserve_0 * price.num >= reserve_1 * price.den => imbalance >= 0
            /\ reserve_0 * price.num =< reserve_1 * price.den => imbalance =< 0
<1> DEFINE worth     == reserve_0 * price.num
           value_0   == worth \div price.den
           sum       == value_0 + reserve_1
           scaled    == (magnitude(value_0 - reserve_1) * BPS) \div sum
           imbalance == compute_inventory_imbalance_bps(reserve_0, reserve_1, price)
<1>1. worth \in Nat /\ value_0 \in Nat
  <2>1. worth \in Nat
    OBVIOUS
  <2> HIDE DEF worth
  <2> QED BY <2>1, DivNat
<1>2. /\ sum \in Nat \ {0}
      /\ imbalance = IF value_0 >= reserve_1 THEN least(scaled, BPS) ELSE -least(scaled, BPS)
  <2>1. sum \in Nat \ {0}
    BY <1>1
  <2>2. CASE value_0 >= reserve_1
    BY <2>1, <2>2 DEF compute_inventory_imbalance_bps
  <2>3. CASE value_0 < reserve_1
    BY <1>1, <2>1, <2>3 DEF compute_inventory_imbalance_bps
  <2> QED BY <1>1, <2>1, <2>2, <2>3
<1>3. worth >= reserve_1 * price.den => value_0 >= reserve_1
  <2> HIDE DEF worth
  <2>1. SUFFICES ASSUME worth >= reserve_1 * price.den, value_0 < reserve_1
                 PROVE  FALSE
    BY <1>1
  <2> HIDE DEF value_0
  <2>2. worth < price.den * value_0 + price.den
    BY <1>1, DivNat DEF value_0
  <2>3. price.den * (value_0 + 1) =< price.den * reserve_1
    BY <1>1, <2>1
  <2>4. /\ price.den * (value_0 + 1) = price.den * value_0 + price.den
        /\ price.den * reserve_1 = reserve_1 * price.den
        /\ price.den * value_0 \in Nat /\ reserve_1 * price.den \in Nat
    BY <1>1
  <2> QED BY <1>1, <2>1, <2>2, <2>3, <2>4
<1>4. worth =< reserve_1 * price.den => value_0 =< reserve_1
  <2> HIDE DEF worth
  <2>1. reserve_1 * price.den = price.den * reserve_1
    OBVIOUS
  <2> QED BY <1>1, <2>1, DivAtMost
<1>5. scaled \in Nat /\ (value_0 = reserve_1 => scaled = 0)
  <2>1. magnitude(value_0 - reserve_1) \in Nat
    BY <1>1 DEF magnitude
  <2>2. magnitude(value_0 - reserve_1) * BPS \in Nat
    BY <2>1, BpsPositive
  <2>3. value_0 = reserve_1 => magnitude(value_0 - reserve_1) * BPS = 0
    BY <1>1, BpsPositive DEF magnitude
  <2> HIDE DEF sum
  <2>4. 0 \div sum = 0
    BY <1>2
  <2> QED BY <1>2, <2>2, <2>3, <2>4, DivNat
<1> HIDE DEF scaled
<1>6. least(scaled, BPS) \in Nat /\ (scaled = 0 => least(scaled, BPS) = 0)
  BY <1>5, BpsPositive DEF least
<1>7. /\ imbalance \in Int
      /\ value_0 >= reserve_1 => imbalance >= 0
      /\ value_0 =< reserve_1 => imbalance =< 0
  <2> HIDE DEF value_0, imbalance, sum
  <2>1. CASE value_0 > reserve_1
    BY <1>1, <1>2, <1>6, <2>1
  <2>2. CASE value_0 = reserve_1
    BY <1>1, <1>2, <1>5, <1>6, <2>2
  <2>3. CASE value_0 < reserve_1
    BY <1>1, <1>2, <1>6, <2>3
  <2> QED BY <1>1, <2>1, <2>2, <2>3
<1> QED BY <1>3, <1>4, <1>7

\* A larger mantissa shifted by more basis points is no smaller, where the shift
\* leaves something of it.
LEMMA ShiftMonotone ==
  ASSUME NEW m \in Nat, NEW n \in Nat, m =< n, NEW c \in Int, NEW d \in Int, c =< d,
         d >= 0 \/ shift_mantissa_by_signed_bps(n, d) > 0
  PROVE  /\ shift_mantissa_by_signed_bps(m, c) \in Int
         /\ shift_mantissa_by_signed_bps(n, d) \in Int
         /\ shift_mantissa_by_signed_bps(m, c) =< shift_mantissa_by_signed_bps(n, d)
<1>1. ASSUME NEW x \in Nat, NEW e \in Int
      PROVE  /\ shift_mantissa_by_signed_bps(x, e) = (x * (BPS + e)) \div BPS
             /\ x * (BPS + e) \in Int
  <2>1. (x * (BPS + 0)) \div BPS = x
    BY DEF BPS
  <2> QED BY <2>1, BpsPositive DEF shift_mantissa_by_signed_bps
<1>2. BPS + d \in Nat
  <2>1. CASE d >= 0
    BY <2>1 DEF BPS
  <2>2. ASSUME shift_mantissa_by_signed_bps(n, d) > 0, BPS + d < 0 PROVE FALSE
    <3> DEFINE e == BPS + d
    <3>1. e \in Int /\ e < 0
      BY <2>2, BpsPositive
    <3>2. shift_mantissa_by_signed_bps(n, d) = (n * e) \div BPS
      BY <1>1
    <3> HIDE DEF e
    <3>3. n * e =< 0 /\ n * e \in Int
      BY <3>1
    <3>4. (n * e) \div BPS \in Int /\ (n * e) \div BPS =< 0 \div BPS
      BY <3>3, BpsPositive, DivInt, DivMonotone
    <3>5. 0 \div BPS = 0
      BY DEF BPS
    <3> QED BY <2>2, <3>2, <3>4, <3>5
  <2> QED BY <2>1, <2>2, BpsPositive
<1>3. m * (BPS + c) =< n * (BPS + d)
  <2> DEFINE e == BPS + d
             f == BPS + c
  <2>1. e \in Nat /\ f \in Int /\ f =< e
    BY <1>2, BpsPositive
  <2> HIDE DEF e, f
  <2>2. m * f =< m * e
    BY <2>1
  <2>3. m * e =< n * e
    BY <2>1
  <2>4. m * f =< n * e
    BY <2>1, <2>2, <2>3
  <2> QED BY <2>4 DEF e, f
<1>4. /\ (m * (BPS + c)) \div BPS \in Int
      /\ (n * (BPS + d)) \div BPS \in Int
      /\ (m * (BPS + c)) \div BPS =< (n * (BPS + d)) \div BPS
  BY <1>1, <1>3, BpsPositive, DivInt, DivMonotone
<1> QED BY <1>1, <1>4

\* Prices of one exponent are ordered as their mantissas, and have one
\* denominator, if any of them has a positive numerator.
LEMMA FractionMonotone ==
  ASSUME NEW a \in Int, NEW b \in Int, a =< b, NEW c \in Nat \ {0},
         NEW exponent \in Int,
         pyth_price_to_raw_fraction(c, exponent).num \in Nat \ {0}
  PROVE  LET low  == pyth_price_to_raw_fraction(a, exponent)
             high == pyth_price_to_raw_fraction(b, exponent)
         IN /\ low.num \in Int /\ high.num \in Int /\ low.num =< high.num
            /\ low.den = high.den
            /\ low.den = pyth_price_to_raw_fraction(c, exponent).den
<1> DEFINE e == exponent + DecimalsShift
<1>1. e \in Int
  BY PoolAssumption
<1>2. CASE e >= 0
  <2> DEFINE power == 10^e
  <2>1. power \in Int
    BY <1>1, <1>2
  <2>2. \A m \in Int : pyth_price_to_raw_fraction(m, exponent)
                         = [num |-> m * power, den |-> 1]
    BY <1>2 DEF pyth_price_to_raw_fraction
  <2>3. c * power > 0
    BY <2>2
  <2> HIDE DEF power, e
  <2>4. power >= 0
    <3>1. ASSUME NEW negative \in Int, negative =< -1 PROVE c * negative =< 0
      BY <3>1
    <3> QED BY <2>1, <2>3, <3>1
  <2>5. a * power =< b * power /\ a * power \in Int /\ b * power \in Int
    BY <2>1, <2>4
  <2>6. /\ pyth_price_to_raw_fraction(a, exponent) = [num |-> a * power, den |-> 1]
        /\ pyth_price_to_raw_fraction(b, exponent) = [num |-> b * power, den |-> 1]
        /\ pyth_price_to_raw_fraction(c, exponent) = [num |-> c * power, den |-> 1]
    BY <2>2
  <2> QED BY <2>5, <2>6
<1>3. CASE e < 0
  BY <1>1, <1>3 DEF pyth_price_to_raw_fraction
<1> QED BY <1>1, <1>2, <1>3

-----------------------------------------------------------------------------
(* The price of a swap. *)

\* In an approved swap the skew is at most the cap against the pool, and not at
\* all if the swap unbalances it further.
LEMMA SkewBetweenCaps ==
  ASSUME Settings, Ledger, swap_approved
  PROVE  LET cap(direction) ==
               IF pool.inventory_skew_enabled /\ ~adds_to_surplus(direction)
                 THEN pool.inventory_skew_max_bps ELSE 0
         IN /\ inventory_skew_bps \in Int
            /\ cap("ZeroForOne") \in Nat /\ cap("OneForZero") \in Nat
            /\ inventory_skew_bps =< cap("ZeroForOne")
            /\ inventory_skew_bps >= -cap("OneForZero")
<1>1. /\ pool.inventory_skew_enabled \in BOOLEAN
      /\ pool.inventory_skew_deadzone_bps \in Nat
      /\ pool.inventory_skew_bps_per_pct \in Nat
      /\ pool.inventory_skew_max_bps \in Nat
  BY DEF Settings, SettingsTypeOK
<1>2. CASE ~pool.inventory_skew_enabled
  BY <1>2 DEF inventory_skew_bps
<1>3. CASE pool.inventory_skew_enabled
  <2> DEFINE imbalance == compute_inventory_imbalance_bps(
                            vault_amount_without_fee(0), vault_amount_without_fee(1),
                            mid_price)
             value_0   == vault_amount_without_fee(0) * mid_price.num
             value_1   == vault_amount_without_fee(1) * mid_price.den
  <2>1. /\ vault_amount_without_fee(0) \in Nat
        /\ vault_amount_without_fee(1) \in Nat \ {0}
    BY NetInt DEF swap_approved, Ledger, Token
  <2>2. mid_price.num \in Nat \ {0} /\ mid_price.den \in Nat \ {0}
    BY <1>3, PoolAssumption DEF swap_approved, representable
  <2>3. value_0 \in Nat /\ value_1 \in Nat
    BY <2>1, <2>2
  <2>4. /\ imbalance \in Int
        /\ value_0 >= value_1 => imbalance >= 0
        /\ value_0 =< value_1 => imbalance =< 0
    BY <2>1, <2>2, ImbalanceSign
  <2>5. /\ adds_to_surplus("ZeroForOne") <=> value_0 >= value_1
        /\ adds_to_surplus("OneForZero") <=> value_0 =< value_1
    BY DEF adds_to_surplus
  <2>6. inventory_skew_bps
          = compute_inventory_skew_bps(imbalance, pool.inventory_skew_deadzone_bps,
              pool.inventory_skew_bps_per_pct, pool.inventory_skew_max_bps)
    BY <1>3 DEF inventory_skew_bps
  <2> HIDE DEF imbalance, value_0, value_1
  <2>7. /\ inventory_skew_bps \in Int
        /\ -pool.inventory_skew_max_bps =< inventory_skew_bps
        /\ inventory_skew_bps =< pool.inventory_skew_max_bps
        /\ imbalance >= 0 => inventory_skew_bps =< 0
        /\ imbalance =< 0 => inventory_skew_bps >= 0
    BY <1>1, <2>4, <2>6, SkewBound
  <2> QED BY <1>1, <1>3, <2>4, <2>5, <2>7
<1> QED BY <1>1, <1>2, <1>3

\* The price of a swap is no worse for the pool than the worst allowed, on the
\* pool's quote or a narrower one.
LEMMA PriceWithinWorst ==
  ASSUME Settings, Ledger, swap_approved, NEW direction \in TradeDirection,
         spot(direction).num \in Nat \ {0}, spot(direction).den \in Nat \ {0},
         NEW bid \in Nat, NEW ask \in Nat, oracle.bid =< bid, ask =< oracle.ask
  PROVE  LET price == effective_price(direction)
             worst == worst_price_of(direction, bid, ask, oracle.exponent)
         IN /\ worst.num \in Int /\ worst.den = price.den
            /\ direction = "ZeroForOne" => price.num =< worst.num
            /\ direction = "OneForZero" => worst.num =< price.num
<1> DEFINE cap   == IF pool.inventory_skew_enabled /\ ~adds_to_surplus(direction)
                      THEN pool.inventory_skew_max_bps ELSE 0
           price == effective_price(direction)
           worst == worst_price_of(direction, bid, ask, oracle.exponent)
<1>1. /\ oracle.bid \in Nat /\ oracle.ask \in Nat /\ oracle.exponent \in Int
      /\ skewed(oracle.bid) > 0 /\ skewed(oracle.ask) > 0
  BY DEF swap_approved, cached_oracle_quote, Settings, SettingsTypeOK
<1>2. price.num \in Nat \ {0} /\ price.den \in Nat \ {0}
  BY DEF spot, TradeDirection
<1>3. CASE direction = "ZeroForOne"
  <2>1. inventory_skew_bps \in Int /\ cap \in Nat /\ inventory_skew_bps =< cap
    BY <1>3, SkewBetweenCaps
  <2> DEFINE high == shift_mantissa_by_signed_bps(bid, cap)
  <2>2. price = pyth_price_to_raw_fraction(skewed(oracle.bid), oracle.exponent)
    BY <1>3 DEF effective_price
  <2>3. worst = pyth_price_to_raw_fraction(high, oracle.exponent)
    BY <1>3 DEF worst_price_of
  <2> HIDE DEF cap, price, worst
  <2>4. skewed(oracle.bid) \in Int /\ high \in Int /\ skewed(oracle.bid) =< high
    BY <1>1, <2>1, ShiftMonotone DEF skewed
  <2> HIDE DEF high
  <2>5. /\ price.num \in Int /\ worst.num \in Int /\ price.num =< worst.num
        /\ price.den = worst.den
    BY <1>1, <1>2, <2>2, <2>3, <2>4, FractionMonotone
  <2> QED BY <1>3, <2>5 DEF price, worst
<1>4. CASE direction = "OneForZero"
  <2>1. inventory_skew_bps \in Int /\ cap \in Nat /\ -cap =< inventory_skew_bps
    BY <1>4, SkewBetweenCaps
  <2> DEFINE low == shift_mantissa_by_signed_bps(ask, -cap)
  <2>2. price = pyth_price_to_raw_fraction(skewed(oracle.ask), oracle.exponent)
    BY <1>4 DEF effective_price
  <2>3. worst = pyth_price_to_raw_fraction(low, oracle.exponent)
    BY <1>4 DEF worst_price_of
  <2> HIDE DEF cap, price, worst
  <2>4. skewed(oracle.ask) \in Int /\ low \in Int /\ low =< skewed(oracle.ask)
    <3>1. -cap \in Int
      BY <2>1
    <3> QED BY <1>1, <2>1, <3>1, ShiftMonotone DEF skewed
  <2> HIDE DEF low
  <2>5. /\ price.num \in Int /\ worst.num \in Int /\ worst.num =< price.num
        /\ price.den = worst.den
    BY <1>1, <1>2, <2>2, <2>3, <2>4, FractionMonotone
  <2> QED BY <1>4, <2>5 DEF price, worst
<1> QED BY <1>3, <1>4 DEF TradeDirection

-----------------------------------------------------------------------------
(* The step of a swap. *)

\* What comes in at a price is worth what goes out, or more, at every price that
\* is better for who brings it.
LEMMA Worth ==
  ASSUME NEW gained \in Int, NEW lost \in Nat \ {0},
         NEW num \in Nat \ {0}, NEW den \in Nat \ {0}, lost * den =< gained * num
  PROVE  /\ gained > 0
         /\ \A better \in Int : num =< better => lost * den =< gained * better
         /\ \A less \in Int : less =< den => lost * less =< gained * num
<1>1. lost * den > 0
  OBVIOUS
<1>2. gained > 0
  BY <1>1
<1>3. ASSUME NEW better \in Int, num =< better
      PROVE  lost * den =< gained * better
  <2>1. gained * num =< gained * better
    BY <1>2, <1>3
  <2> QED BY <2>1
<1>4. ASSUME NEW less \in Int, less =< den
      PROVE  lost * less =< gained * num
  <2>1. lost * less =< lost * den
    BY <1>4
  <2> QED BY <2>1
<1> QED BY <1>2, <1>3, <1>4

\* What a swap of direction way takes is worth at most what it brings at its
\* spot price.
PaidAtSpot(way) ==
  /\ spot(way).num \in Nat \ {0} /\ spot(way).den \in Nat \ {0}
  /\ vault_amount_without_fee(output_of(way))' < vault_amount_without_fee(output_of(way))
  /\ (vault_amount_without_fee(output_of(way))
        - vault_amount_without_fee(output_of(way))') * spot(way).den
       =< (vault_amount_without_fee(input_of(way))'
            - vault_amount_without_fee(input_of(way))) * spot(way).num

\* At any price no better for the pool than its own, it leaves the reserves worth
\* as much as before, or more.
LEMMA WorthKept ==
  ASSUME NEW way \in TradeDirection, PaidAtSpot(way),
         \A t \in Token : /\ vault_amount_without_fee(t) \in Int
                         /\ vault_amount_without_fee(t)' \in Int,
         NEW worst, worst.num \in Int, worst.den = effective_price(way).den,
         way = "ZeroForOne" => effective_price(way).num =< worst.num,
         way = "OneForZero" => worst.num =< effective_price(way).num
  PROVE  NoLossAt(worst)
<1> DEFINE gained == vault_amount_without_fee(input_of(way))'
                       - vault_amount_without_fee(input_of(way))
           lost   == vault_amount_without_fee(output_of(way))
                       - vault_amount_without_fee(output_of(way))'
           price  == effective_price(way)
           before(t) == vault_amount_without_fee(t)
           after(t)  == vault_amount_without_fee(t)'
<1>1. gained \in Int /\ lost \in Nat \ {0}
  BY DEF PaidAtSpot, input_of, output_of, Token
<1>2. price.num \in Nat \ {0} /\ price.den \in Nat \ {0}
  BY DEF PaidAtSpot, spot, TradeDirection
<1>3. /\ before(0) \in Int /\ before(1) \in Int /\ after(0) \in Int /\ after(1) \in Int
  BY DEF Token
<1>4. CASE way = "ZeroForOne"
  <2>1. /\ spot(way) = price /\ input_of(way) = 0 /\ output_of(way) = 1
    BY <1>4 DEF spot, input_of, output_of
  <2>2. /\ gained = after(0) - before(0) /\ lost = before(1) - after(1)
        /\ lost * price.den =< gained * price.num
        /\ worst.den = price.den /\ price.num =< worst.num
    BY <1>4, <2>1 DEF PaidAtSpot
  <2> HIDE DEF gained, lost, price, before, after
  <2>3. lost * price.den =< gained * worst.num
    BY <1>1, <1>2, <2>2, Worth
  <2>4. /\ (before(1) - after(1)) * worst.den =< (after(0) - before(0)) * worst.num
        /\ worst.den \in Int /\ worst.num \in Int
    BY <1>2, <2>2, <2>3
  <2>5. after(0) * worst.num + after(1) * worst.den
          >= before(0) * worst.num + before(1) * worst.den
    BY <1>3, <2>4
  <2> QED BY <2>5 DEF before, after, NoLossAt
<1>5. CASE way = "OneForZero"
  <2>1. /\ spot(way) = [num |-> price.den, den |-> price.num]
        /\ input_of(way) = 1 /\ output_of(way) = 0
    BY <1>5 DEF spot, input_of, output_of
  <2>2. /\ gained = after(1) - before(1) /\ lost = before(0) - after(0)
        /\ lost * price.num =< gained * price.den
        /\ worst.den = price.den /\ worst.num =< price.num
    BY <1>5, <2>1 DEF PaidAtSpot
  <2> HIDE DEF gained, lost, price, before, after
  <2>3. lost * worst.num =< gained * price.den
    BY <1>1, <1>2, <2>2, Worth
  <2>4. /\ (before(0) - after(0)) * worst.num =< (after(1) - before(1)) * worst.den
        /\ worst.den \in Int /\ worst.num \in Int
    BY <1>2, <2>2, <2>3
  <2>5. after(0) * worst.num + after(1) * worst.den
          >= before(0) * worst.num + before(1) * worst.den
    BY <1>3, <2>4
  <2> QED BY <2>5 DEF before, after, NoLossAt
<1> QED BY <1>4, <1>5 DEF TradeDirection

\* Nothing is traded without a quote.
LEMMA SwapQuoted ==
  ASSUME Settings, Ledger, AnySwap
  PROVE  oracle.bid \in Nat \ {0} /\ oracle.ask \in Nat \ {0}
<1>1. swap_approved
  BY SwapAtSpot
<1> QED BY <1>1 DEF swap_approved, cached_oracle_quote, Settings, SettingsTypeOK

\* No swap beats the pool's quote of its direction, nor a narrower one.
LEMMA SwapWithinQuote ==
  ASSUME Settings, Ledger, AnySwap, NEW way \in TradeDirection, Swapped(way),
         NEW bid \in Nat, NEW ask \in Nat, oracle.bid =< bid, ask =< oracle.ask
  PROVE  NoLossAt(worst_price_of(way, bid, ask, oracle.exponent))
<1>1. /\ swap_approved
      /\ \A t \in Token : /\ vault_amount_without_fee(t) \in Int
                          /\ vault_amount_without_fee(t)' \in Int
      /\ \E direction \in TradeDirection : PaidAtSpot(direction)
  BY SwapAtSpot DEF PaidAtSpot
<1>2. \A direction \in TradeDirection : PaidAtSpot(direction) => direction = way
  BY <1>1 DEF PaidAtSpot, Swapped, TradeDirection, input_of, output_of, Token
<1>3. PaidAtSpot(way)
  BY <1>1, <1>2
<1> DEFINE worst == worst_price_of(way, bid, ask, oracle.exponent)
<1>4. /\ worst.num \in Int /\ worst.den = effective_price(way).den
      /\ way = "ZeroForOne" => effective_price(way).num =< worst.num
      /\ way = "OneForZero" => worst.num =< effective_price(way).num
  BY <1>1, <1>3, PriceWithinWorst DEF PaidAtSpot
<1> HIDE DEF worst
<1>5. NoLossAt(worst)
  BY <1>1, <1>3, <1>4, WorthKept
<1> QED BY <1>5 DEF worst

-----------------------------------------------------------------------------
(* The other instructions. *)

\* What changes nothing of the fund, or lets it gain, is no swap.
LEMMA GainIsNoSwap ==
  ASSUME Ledger, Ledger', NEW way \in TradeDirection, Swapped(way),
         Fund!Gain \/ UNCHANGED Fund!fundVars
  PROVE  FALSE
<1>1. output_of(way) \in Token
  BY DEF output_of, input_of, Token
<1>2. vault_amount_without_fee(output_of(way))' < vault_amount_without_fee(output_of(way))
  BY DEF Swapped
<1>3. net_reserves'[output_of(way)] < net_reserves[output_of(way)]
  BY <1>1, <1>2, Reserves
<1>4. net_reserves[output_of(way)] \in Int
  BY <1>1, Reserves, NetInt DEF Ledger
<1>5. CASE Fund!Gain
  <2>1. net_reserves'[output_of(way)] >= net_reserves[output_of(way)]
    BY <1>1, <1>5 DEF Fund!Gain
  <2>2. net_reserves'[output_of(way)] \in Int
    <3> DEFINE out == output_of(way)
    <3>1. out \in Token
      BY <1>1
    <3> HIDE DEF out
    <3>2. /\ vault'[out] \in Int /\ protocol_fees'[out] \in Int
          /\ fund_fees'[out] \in Int /\ creator_fees'[out] \in Int
      BY <3>1, PoolAssumption DEF Ledger, LedgerTypeOK, U64
    <3>3. vault_amount_without_fee(out)' \in Int
      BY <3>2 DEF vault_amount_without_fee, accrued_fees
    <3>4. net_reserves'[out] \in Int
      BY <3>1, <3>3, Reserves
    <3> QED BY <3>4 DEF out
  <2> QED BY <1>3, <1>4, <2>1, <2>2
<1>6. CASE UNCHANGED Fund!fundVars
  <2>1. net_reserves' = net_reserves
    BY <1>6 DEF Fund!fundVars
  <2> QED BY <1>3, <1>4, <2>1
<1> QED BY <1>5, <1>6

LEMMA LiquidityIsNoSwap ==
  ASSUME Ledger, NEW lp \in U64, NEW limit, Deposit(lp, limit) \/ Withdraw(lp, limit),
         NEW way \in TradeDirection, Swapped(way)
  PROVE  FALSE
<1> DEFINE in  == input_of(way)
           out == output_of(way)
<1>1. in \in Token /\ out \in Token
  BY DEF input_of, output_of, Token
<1>2. /\ vault_amount_without_fee(in)' > vault_amount_without_fee(in)
      /\ vault_amount_without_fee(out)' < vault_amount_without_fee(out)
  BY DEF Swapped
<1> HIDE DEF in, out
<1>3. \A t \in Token : vault_amount_without_fee(t) \in Int
  BY NetInt DEF Ledger
<1>4. CASE Deposit(lp, limit)
  <2> DEFINE amount == trading_tokens(lp, "Ceiling")[out]
  <2>1. amount \in Nat
        /\ vault_amount_without_fee(out)' = vault_amount_without_fee(out) + amount
    BY <1>1, <1>4, DepositAmounts
  <2> HIDE DEF amount
  <2> QED BY <1>1, <1>2, <1>3, <2>1
<1>5. CASE Withdraw(lp, limit)
  <2> DEFINE worth == trading_tokens(lp, "Floor")[in]
  <2>1. worth \in Nat
        /\ vault_amount_without_fee(in)' = vault_amount_without_fee(in) - worth
    BY <1>1, <1>5, WithdrawAmounts
  <2> HIDE DEF worth
  <2> QED BY <1>1, <1>2, <1>3, <2>1
<1> QED BY <1>4, <1>5

\* Only a swap moves the reserves apart.
LEMMA OnlySwapsSwap ==
  ASSUME Settings, Ledger, Ledger', [Next]_vars, NEW way \in TradeDirection, Swapped(way)
  PROVE  Swap
<1> DEFINE out == output_of(way)
<1>1. out \in Token
  BY DEF input_of, output_of, Token
<1>2. vault_amount_without_fee(out)' < vault_amount_without_fee(out)
  BY DEF Swapped
<1> HIDE DEF out
<1>3. ASSUME CreatePool PROVE FALSE
  <2>1. ~created /\ created'
    BY <1>3 DEF CreatePool, Initialize, InitializeWithPermission, create_pool
  <2>2. vault_amount_without_fee(out) = 0
    BY <1>1, <2>1 DEF Ledger, NothingBeforeCreation, vault_amount_without_fee, accrued_fees
  <2>3. vault_amount_without_fee(out)' > 0
    BY <1>1, <2>1 DEF Ledger, ReservesLeft
  <2>4. vault_amount_without_fee(out)' \in Int
    <3>1. /\ vault'[out] \in Int /\ protocol_fees'[out] \in Int
          /\ fund_fees'[out] \in Int /\ creator_fees'[out] \in Int
      BY <1>1, PoolAssumption DEF Ledger, LedgerTypeOK, U64
    <3> QED BY <3>1 DEF vault_amount_without_fee, accrued_fees
  <2> QED BY <1>2, <2>2, <2>3, <2>4
<1>4. ASSUME ChangeLiquidity PROVE FALSE
  <2>1. PICK lp \in LpAmounts, limit \in [Token -> Limits] :
          Deposit(lp, limit) \/ Withdraw(lp, limit)
    BY <1>4 DEF ChangeLiquidity
  <2>2. lp \in U64
    BY PoolAssumption
  <2> QED BY <2>1, <2>2, LiquidityIsNoSwap
<1>5. ASSUME CollectFees PROVE FALSE
  BY <1>5, CollectKeepsReserves, GainIsNoSwap
<1>6. ASSUME UNCHANGED <<vault, protocol_fees, fund_fees, creator_fees, lp_supply>>
      PROVE  FALSE
  BY <1>6, FundUnchanged, GainIsNoSwap
<1>7. ASSUME Administer PROVE FALSE
  <2>1. UpdateAmmConfig =>
          UNCHANGED <<vault, protocol_fees, fund_fees, creator_fees, lp_supply>>
    BY DEF UpdateAmmConfig, UpdateTradeFeeRate, UpdateProtocolFeeRate,
           UpdateFundFeeRate, UpdateCreatorFeeRate, UpdateCreatePoolFee,
           SetDisableCreatePool, SetNewProtocolOwner, SetNewFundOwner,
           config_unchanged, feeVars
  <2>2. UNCHANGED <<vault, protocol_fees, fund_fees, creator_fees, lp_supply>>
    BY <1>7, <2>1 DEF Administer, CreatePermissionPda, ClosePermissionPda,
         SetOracleKeeper, UpdatePoolStatus, UpdatePoolOracle, oracle_unchanged, feeVars
  <2> QED BY <1>6, <2>2
<1>8. ASSUME External PROVE FALSE
  <2>1. ASSUME NEW t \in Token, NEW amount \in GiftAmounts, SendToVault(t, amount)
        PROVE  FALSE
    BY <2>1, GiftGains, GainIsNoSwap
  <2>2. CASE (\E amount \in LpAmounts : BurnLp(amount)) \/ Tick
    <3>1. UNCHANGED <<vault, protocol_fees, fund_fees, creator_fees, lp_supply>>
      BY <2>2 DEF BurnLp, Tick, feeVars
    <3> QED BY <1>6, <3>1
  <2> QED BY <1>8, <2>1, <2>2 DEF External
<1>9. ASSUME UNCHANGED vars PROVE FALSE
  <2>1. UNCHANGED <<vault, protocol_fees, fund_fees, creator_fees, lp_supply>>
    BY <1>9 DEF vars
  <2> QED BY <1>6, <2>1
<1> QED BY <1>3, <1>4, <1>5, <1>7, <1>8, <1>9 DEF Next

-----------------------------------------------------------------------------
(* The theorem. *)

\* Whatever the reserves, the amounts, the fees, the skew and the quote, a swap
\* leaves the liquidity providers' reserves worth as much as before, or more, at
\* the worst price their keeper and creator allow in it.
THEOREM QuoteNeverWasBeaten == Spec => QuoteNeverBeaten
<1> DEFINE Step == \A direction \in TradeDirection :
                     Swapped(direction) => NoLossAt(worst_price(direction))
<1>1. (Settings /\ Ledger) /\ (Settings /\ Ledger)' /\ [Next]_vars => Step
  <2> SUFFICES ASSUME Settings, Ledger, Ledger', [Next]_vars,
                      NEW direction \in TradeDirection, Swapped(direction)
               PROVE  NoLossAt(worst_price(direction))
    OBVIOUS
  <2>1. Swap
    BY OnlySwapsSwap
  <2>2. AnySwap
    BY <2>1, SwapIsAnySwap
  <2>3. oracle.bid \in Nat /\ oracle.ask \in Nat
    BY <2>2, SwapQuoted
  <2> QED BY <2>2, <2>3, SwapWithinQuote DEF worst_price
<1>2. (Settings /\ Ledger) /\ (Settings /\ Ledger)' /\ [Next]_vars => [Step]_vars
  BY <1>1
<1> HIDE DEF Step
<1>3. Spec => [][Step]_vars
  BY <1>2, Invariants, PTL DEF Spec
<1> QED BY <1>3 DEF QuoteNeverBeaten, Step

=============================================================================
