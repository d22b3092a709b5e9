--------------------------- MODULE RoundTripProofs ---------------------------
(***************************************************************************)
(* No series of swaps on one quote takes from the pool for nothing, for    *)
(* every value of the constants, where the spread covers the skew: at the  *)
(* bid moved up by the cap, which no sale exceeds and no purchase          *)
(* undercuts (PricesAroundSettlement), the reserves are worth no less      *)
(* after any of them (Settled).                                            *)
(***************************************************************************)
EXTENDS LpFundProofs, RoundTrip

\* The bid moved up by the cap of the skew: if the spread covers the skew, the
\* price all swaps of a series are held against.
settlement == pyth_price_to_raw_fraction(
                shift_mantissa_by_signed_bps(oracle.bid, skew_cap), oracle.exponent)

worth_at(price, reserves) == reserves[0] * price.num + reserves[1] * price.den

\* Where the spread covers the skew, nothing has been taken since the series
\* began, or it has been paid for.
Balanced(covered, price, reserves, start) ==
  covered =>
    \/ \A t \in Token : reserves[t] >= start[t]
    \/ /\ price.num \in Nat \ {0} /\ price.den \in Nat \ {0}
       /\ worth_at(price, reserves) >= worth_at(price, start)

Settled ==
  /\ mark \in [Token -> Int]
  /\ Balanced(SkewCovered, settlement, net_reserves, mark)

\* Prices of one exponent exist together.
LEMMA FractionPositive ==
  ASSUME NEW a \in Nat \ {0}, NEW c \in Nat \ {0}, NEW exponent \in Int,
         pyth_price_to_raw_fraction(c, exponent).num \in Nat \ {0}
  PROVE  pyth_price_to_raw_fraction(a, exponent).num \in Nat \ {0}
<1> DEFINE e == exponent + DecimalsShift
<1>1. e \in Int
  BY PoolAssumption
<1>2. CASE e >= 0
  <2> DEFINE power == 10^e
  <2>1. power \in Int
    BY <1>1, <1>2
  <2>2. \A m \in Int : pyth_price_to_raw_fraction(m, exponent)
                         = [num |-> m * power, den |-> 1]
    BY <1>2 DEF pyth_price_to_raw_fraction
  <2>3. c * power > 0
    BY <2>2
  <2> HIDE DEF power, e
  <2>4. power > 0
    <3>1. ASSUME NEW negative \in Int, negative =< 0 PROVE c * negative =< 0
      BY <3>1
    <3> QED BY <2>1, <2>3, <3>1
  <2>5. a * power \in Nat \ {0}
    BY <2>1, <2>4
  <2> QED BY <2>2, <2>5
<1>3. CASE e < 0
  BY <1>1, <1>3 DEF pyth_price_to_raw_fraction
<1> QED BY <1>1, <1>2, <1>3

\* Where the spread covers the skew, a swap that sells token_0 is made below the
\* settlement price and one that buys it above.
LEMMA PricesAroundSettlement ==
  ASSUME Settings, Ledger, swap_approved, SkewCovered, NEW direction \in TradeDirection,
         spot(direction).num \in Nat \ {0}, spot(direction).den \in Nat \ {0}
  PROVE  LET price == effective_price(direction)
         IN /\ settlement.num \in Nat \ {0} /\ settlement.den = price.den
            /\ direction = "ZeroForOne" => price.num =< settlement.num
            /\ direction = "OneForZero" => settlement.num =< price.num
<1> DEFINE price == effective_price(direction)
           high  == shift_mantissa_by_signed_bps(oracle.bid, skew_cap)
           low   == shift_mantissa_by_signed_bps(oracle.ask, -skew_cap)
<1>1. /\ oracle.bid \in Nat /\ oracle.ask \in Nat /\ oracle.exponent \in Int
      /\ skewed(oracle.bid) > 0 /\ skewed(oracle.ask) > 0
  BY DEF swap_approved, cached_oracle_quote, Settings, SettingsTypeOK
<1>2. price.num \in Nat \ {0} /\ price.den \in Nat \ {0}
  BY DEF spot, TradeDirection
<1>3. /\ skew_cap \in Nat /\ inventory_skew_bps \in Int
      /\ inventory_skew_bps =< skew_cap /\ -skew_cap =< inventory_skew_bps
  <2>1. pool.inventory_skew_enabled \in BOOLEAN /\ pool.inventory_skew_max_bps \in Nat
    BY DEF Settings, SettingsTypeOK
  <2> QED BY <2>1, SkewBetweenCaps DEF skew_cap
<1>4. -skew_cap \in Int
  BY <1>3
<1>5. /\ high \in Int /\ skewed(oracle.bid) \in Int /\ skewed(oracle.bid) =< high
  BY <1>1, <1>3, ShiftMonotone DEF skewed
<1>6. /\ low \in Int /\ skewed(oracle.ask) \in Int /\ low =< skewed(oracle.ask)
  BY <1>1, <1>3, <1>4, ShiftMonotone DEF skewed
<1>7. high =< low
  BY DEF SkewCovered
<1>8. settlement = pyth_price_to_raw_fraction(high, oracle.exponent)
  BY DEF settlement
<1> HIDE DEF high, low
<1>9. high \in Nat \ {0} /\ skewed(oracle.bid) \in Nat \ {0}
      /\ skewed(oracle.ask) \in Nat \ {0} /\ high =< skewed(oracle.ask)
  BY <1>1, <1>5, <1>6, <1>7
<1>10. CASE direction = "ZeroForOne"
  <2>1. price = pyth_price_to_raw_fraction(skewed(oracle.bid), oracle.exponent)
    BY <1>10 DEF effective_price
  <2> HIDE DEF price
  <2>2. settlement.num \in Nat \ {0}
    BY <1>1, <1>2, <1>8, <1>9, <2>1, FractionPositive
  <2>3. price.num =< settlement.num /\ price.den = settlement.den
    BY <1>1, <1>2, <1>5, <1>8, <1>9, <2>1, FractionMonotone
  <2> QED BY <1>10, <2>2, <2>3 DEF price
<1>11. CASE direction = "OneForZero"
  <2>1. price = pyth_price_to_raw_fraction(skewed(oracle.ask), oracle.exponent)
    BY <1>11 DEF effective_price
  <2> HIDE DEF price
  <2>2. settlement.num \in Nat \ {0}
    BY <1>1, <1>2, <1>8, <1>9, <2>1, FractionPositive
  <2>3. settlement.num =< price.num /\ price.den = settlement.den
    BY <1>1, <1>2, <1>6, <1>8, <1>9, <2>1, FractionMonotone
  <2> QED BY <1>11, <2>2, <2>3 DEF price
<1> QED BY <1>10, <1>11 DEF TradeDirection

\* A swap leaves the reserves worth as much at the settlement price, or more.
LEMMA SwapSettled ==
  ASSUME Settings, Ledger, Swap, SkewCovered
  PROVE  /\ settlement.num \in Nat \ {0} /\ settlement.den \in Nat \ {0}
         /\ net_reserves \in [Token -> Int] /\ net_reserves' \in [Token -> Int]
         /\ worth_at(settlement, net_reserves') >= worth_at(settlement, net_reserves)
<1>1. PICK way \in TradeDirection :
        /\ swap_approved
        /\ \A t \in Token : /\ vault_amount_without_fee(t) \in Int
                            /\ vault_amount_without_fee(t)' \in Int
        /\ PaidAtSpot(way)
  BY SwapAtSpot, SwapIsAnySwap DEF PaidAtSpot
<1>2. /\ settlement.num \in Nat \ {0} /\ settlement.den = effective_price(way).den
      /\ way = "ZeroForOne" => effective_price(way).num =< settlement.num
      /\ way = "OneForZero" => settlement.num =< effective_price(way).num
  BY <1>1, PricesAroundSettlement DEF PaidAtSpot
<1>3. settlement.den \in Nat \ {0}
  BY <1>1, <1>2 DEF PaidAtSpot, spot, TradeDirection
<1>4. vault_amount_without_fee(0)' * settlement.num
          + vault_amount_without_fee(1)' * settlement.den
        >= vault_amount_without_fee(0) * settlement.num
             + vault_amount_without_fee(1) * settlement.den
  BY <1>1, <1>2, WorthKept DEF NoLossAt
<1>5. /\ net_reserves \in [Token -> Int] /\ net_reserves' \in [Token -> Int]
  BY <1>1 DEF net_reserves
<1>6. \A t \in Token : /\ net_reserves[t] = vault_amount_without_fee(t)
                       /\ net_reserves'[t] = vault_amount_without_fee(t)'
  BY Reserves
<1> QED BY <1>2, <1>3, <1>4, <1>5, <1>6 DEF worth_at, Token

\* What issues and redeems no shares is a swap or lets no reserve fall.
LEMMA NoSharesNoLoss ==
  ASSUME Settings, Ledger, Ledger', [Next]_vars, lp_supply' = lp_supply
  PROVE  Swap \/ \A t \in Token : net_reserves'[t] >= net_reserves[t]
<1> SUFFICES ASSUME NEW t \in Token, ~(net_reserves'[t] >= net_reserves[t])
             PROVE  Swap
  OBVIOUS
<1>1. /\ net_reserves'[t] \in Int /\ net_reserves[t] \in Int
      /\ net_reserves[t] = vault_amount_without_fee(t)
      /\ net_reserves'[t] = vault_amount_without_fee(t)'
  <2>1. /\ vault'[t] \in Int /\ protocol_fees'[t] \in Int
        /\ fund_fees'[t] \in Int /\ creator_fees'[t] \in Int
    BY PoolAssumption DEF Ledger, LedgerTypeOK, U64
  <2>2. vault_amount_without_fee(t)' \in Int
    BY <2>1 DEF vault_amount_without_fee, accrued_fees
  <2> QED BY <2>2, Reserves, NetInt DEF Ledger
<1>2. CASE ~created
  <2>1. net_reserves[t] = 0
    BY <1>1, <1>2 DEF Ledger, NothingBeforeCreation, vault_amount_without_fee, accrued_fees
  <2>2. ~created' => net_reserves'[t] = 0
    BY <1>1 DEF Ledger, NothingBeforeCreation, vault_amount_without_fee, accrued_fees
  <2>3. created' => net_reserves'[t] > 0
    BY <1>1 DEF Ledger, ReservesLeft
  <2> QED BY <1>1, <2>1, <2>2, <2>3
<1>3. CASE created
  <2>1. lp_supply \in Nat /\ lp_supply > 0
    <3>1. /\ lp_supply >= lp_mint_supply + LOCK_LP_AMOUNT
          /\ lp_supply \in Nat /\ lp_mint_supply \in Nat
      BY <1>3, PoolAssumption DEF Ledger, LedgerTypeOK, LpSupplyCoversHolders, U64
    <3> QED BY <3>1, Exceeds
  <2>2. ASSUME ~(\E direction \in TradeDirection : Swapped(direction)) PROVE FALSE
    <3>1. vault_amount_without_fee(t)' * lp_supply >= vault_amount_without_fee(t) * lp_supply'
      BY <1>3, <2>2, FundStep, FundKeepsValue
    <3> DEFINE a == vault_amount_without_fee(t)'
               b == vault_amount_without_fee(t)
    <3>2. a \in Int /\ b \in Int /\ a + 1 =< b /\ a * lp_supply >= b * lp_supply
      BY <1>1, <3>1
    <3> HIDE DEF a, b
    <3>3. (a + 1) * lp_supply =< b * lp_supply
      BY <2>1, <3>2
    <3>4. (a + 1) * lp_supply = a * lp_supply + lp_supply /\ a * lp_supply \in Int
          /\ b * lp_supply \in Int
      BY <2>1, <3>2
    <3> QED BY <2>1, <3>2, <3>3, <3>4
  <2> QED BY <2>2, OnlySwapsSwap
<1> QED BY <1>2, <1>3

\* While the shares stay and some step is taken, the parameters of the pool stay.
LEMMA SeriesKeepsPool ==
  ASSUME Ledger, Ledger', [Next]_vars, lp_supply' = lp_supply
  PROVE  pool' = pool
<1>1. ASSUME CreatePool PROVE FALSE
  <2>1. lp_supply = 0 /\ lp_supply' > 0
    BY <1>1, CreationOpens DEF Fund!Open
  <2> QED BY <2>1
<1>2. ChangeLiquidity => pool' = pool
  BY DEF ChangeLiquidity, Deposit, Withdraw
<1>3. Swap => pool' = pool
  BY DEF Swap, SwapBaseInput, SwapBaseOutput, settle
<1>4. CollectFees => pool' = pool
  BY DEF CollectFees, CollectProtocolFee, CollectFundFee, CollectCreatorFee
<1>5. Administer => pool' = pool
  <2>1. UpdateAmmConfig => pool' = pool
    BY DEF UpdateAmmConfig, UpdateTradeFeeRate, UpdateProtocolFeeRate,
           UpdateFundFeeRate, UpdateCreatorFeeRate, UpdateCreatePoolFee,
           SetDisableCreatePool, SetNewProtocolOwner, SetNewFundOwner, config_unchanged
  <2> QED BY <2>1 DEF Administer, CreatePermissionPda, ClosePermissionPda,
         SetOracleKeeper, UpdatePoolStatus, UpdatePoolOracle, oracle_unchanged
<1>6. External => pool' = pool
  BY DEF External, SendToVault, BurnLp, Tick
<1>7. UNCHANGED vars => pool' = pool
  BY DEF vars
<1> QED BY <1>1, <1>2, <1>3, <1>4, <1>5, <1>6, <1>7 DEF Next

\* Reserves that are no smaller are worth no less.
LEMMA WorthMonotone ==
  ASSUME NEW price, price.num \in Nat, price.den \in Nat,
         NEW less \in [Token -> Int], NEW more \in [Token -> Int],
         \A t \in Token : more[t] >= less[t]
  PROVE  worth_at(price, more) >= worth_at(price, less)
<1>1. /\ less[0] \in Int /\ less[1] \in Int /\ more[0] \in Int /\ more[1] \in Int
      /\ more[0] >= less[0] /\ more[1] >= less[1]
  BY DEF Token
<1>2. more[0] * price.num >= less[0] * price.num
  BY <1>1
<1>3. more[1] * price.den >= less[1] * price.den
  BY <1>1
<1>4. /\ more[0] * price.num \in Int /\ less[0] * price.num \in Int
      /\ more[1] * price.den \in Int /\ less[1] * price.den \in Int
  BY <1>1
<1> QED BY <1>2, <1>3, <1>4 DEF worth_at

LEMMA NetReservesType ==
  /\ Ledger => net_reserves \in [Token -> Int]
  /\ Ledger' => net_reserves' \in [Token -> Int]
<1>1. Ledger => net_reserves \in [Token -> Int]
  BY NetInt DEF Ledger, net_reserves
<1>2. ASSUME Ledger' PROVE net_reserves' \in [Token -> Int]
  <2>1. \A t \in Token : /\ vault'[t] \in Int /\ protocol_fees'[t] \in Int
                         /\ fund_fees'[t] \in Int /\ creator_fees'[t] \in Int
    BY <1>2, PoolAssumption DEF Ledger, LedgerTypeOK, U64
  <2>2. \A t \in Token : vault_amount_without_fee(t)' \in Int
    BY <2>1 DEF vault_amount_without_fee, accrued_fees
  <2> QED BY <2>2 DEF net_reserves
<1> QED BY <1>1, <1>2

LEMMA SettledNext ==
  Settled' <=> /\ mark' \in [Token -> Int]
               /\ Balanced(SkewCovered', settlement', net_reserves', mark')
BY DEF Settled, Balanced, worth_at

LEMMA SettledStep ==
  Settings /\ Ledger /\ Ledger' /\ Settled /\ [RoundTripNext]_roundTripVars => Settled'
<1> SUFFICES ASSUME Settings, Ledger, Ledger', Settled, [RoundTripNext]_roundTripVars
             PROVE  Settled'
  OBVIOUS
<1>1. net_reserves \in [Token -> Int] /\ net_reserves' \in [Token -> Int]
  BY NetReservesType
<1>2. mark \in [Token -> Int] /\ Balanced(SkewCovered, settlement, net_reserves, mark)
  BY DEF Settled
<1>3. CASE mark' = net_reserves'
  <2>1. \A t \in Token : net_reserves'[t] >= mark'[t]
    BY <1>1, <1>3
  <2>2. Balanced(SkewCovered', settlement', net_reserves', mark')
    BY <2>1 DEF Balanced
  <2> QED BY <1>1, <1>3, <2>2, SettledNext
<1>4. CASE mark' = mark /\ lp_supply' = lp_supply /\ quoted' = quoted /\ [Next]_vars
  <2>1. pool' = pool
    BY <1>4, SeriesKeepsPool
  <2>2. oracle'.bid = oracle.bid /\ oracle'.ask = oracle.ask
        /\ oracle'.exponent = oracle.exponent
    BY <1>4 DEF quoted
  <2>3. (SkewCovered' <=> SkewCovered) /\ settlement' = settlement
    BY <2>1, <2>2 DEF SkewCovered, settlement, skew_cap
  <2>4. ASSUME SkewCovered, Swap
        PROVE  Balanced(SkewCovered, settlement, net_reserves', mark)
    <3>1. /\ settlement.num \in Nat \ {0} /\ settlement.den \in Nat \ {0}
          /\ worth_at(settlement, net_reserves') >= worth_at(settlement, net_reserves)
      BY <2>4, SwapSettled
    <3>2. worth_at(settlement, net_reserves) >= worth_at(settlement, mark)
      <4>1. CASE \A t \in Token : net_reserves[t] >= mark[t]
        BY <1>1, <1>2, <3>1, <4>1, WorthMonotone
      <4> QED BY <1>2, <2>4, <4>1 DEF Balanced
    <3>3. \A r \in [Token -> Int] : worth_at(settlement, r) \in Int
      BY <3>1 DEF worth_at, Token
    <3>4. worth_at(settlement, net_reserves') >= worth_at(settlement, mark)
      BY <1>1, <1>2, <3>1, <3>2, <3>3
    <3> QED BY <3>1, <3>4 DEF Balanced
  <2>5. ASSUME SkewCovered, \A t \in Token : net_reserves'[t] >= net_reserves[t]
        PROVE  Balanced(SkewCovered, settlement, net_reserves', mark)
    <3>1. CASE \A t \in Token : net_reserves[t] >= mark[t]
      <4>1. \A t \in Token : net_reserves'[t] >= mark[t]
        BY <1>1, <1>2, <2>5, <3>1
      <4> QED BY <4>1 DEF Balanced
    <3>2. CASE /\ settlement.num \in Nat \ {0} /\ settlement.den \in Nat \ {0}
               /\ worth_at(settlement, net_reserves) >= worth_at(settlement, mark)
      <4>1. worth_at(settlement, net_reserves') >= worth_at(settlement, net_reserves)
        BY <1>1, <2>5, <3>2, WorthMonotone
      <4>2. \A r \in [Token -> Int] : worth_at(settlement, r) \in Int
        BY <3>2 DEF worth_at, Token
      <4>3. worth_at(settlement, net_reserves') >= worth_at(settlement, mark)
        BY <1>1, <1>2, <3>2, <4>1, <4>2
      <4> QED BY <3>2, <4>3 DEF Balanced
    <3> QED BY <1>2, <2>5, <3>1, <3>2 DEF Balanced
  <2>6. Balanced(SkewCovered, settlement, net_reserves', mark)
    <3>1. CASE SkewCovered
      BY <1>4, <2>4, <2>5, <3>1, NoSharesNoLoss
    <3> QED BY <3>1 DEF Balanced
  <2>7. Balanced(SkewCovered', settlement', net_reserves', mark')
    BY <1>4, <2>3, <2>6
  <2> QED BY <1>2, <1>4, <2>7, SettledNext
<1>5. CASE UNCHANGED roundTripVars
  BY <1>4, <1>5 DEF roundTripVars, vars, quoted
<1> QED BY <1>3, <1>4, <1>5 DEF RoundTripNext

\* Reserves that are paid for are not taken for nothing.
LEMMA SettledCosts == Ledger /\ Settled => RoundTripCosts
<1> SUFFICES ASSUME Ledger, Settled, SkewCovered, TakenForNothing PROVE FALSE
  BY DEF RoundTripCosts
<1>1. net_reserves \in [Token -> Int] /\ mark \in [Token -> Int]
  BY NetReservesType DEF Settled
<1>2. /\ mark[0] \in Int /\ mark[1] \in Int
      /\ net_reserves[0] \in Int /\ net_reserves[1] \in Int
      /\ net_reserves[0] =< mark[0] /\ net_reserves[1] =< mark[1]
      /\ net_reserves[0] < mark[0] \/ net_reserves[1] < mark[1]
  BY <1>1 DEF TakenForNothing, Token
<1>3. ~(\A t \in Token : net_reserves[t] >= mark[t])
  BY <1>2 DEF Token
<1>4. /\ settlement.num \in Nat \ {0} /\ settlement.den \in Nat \ {0}
      /\ worth_at(settlement, net_reserves) >= worth_at(settlement, mark)
  BY <1>3 DEF Settled, Balanced
<1> DEFINE num == settlement.num
           den == settlement.den
           a == mark[0] - net_reserves[0]
           b == mark[1] - net_reserves[1]
<1>5. a * num + b * den =< 0
  BY <1>2, <1>4 DEF worth_at
<1>6. a \in Nat /\ b \in Nat /\ (a > 0 \/ b > 0) /\ num \in Nat \ {0} /\ den \in Nat \ {0}
  BY <1>2, <1>4
<1> HIDE DEF a, b, num, den
<1>7. a * num \in Nat /\ b * den \in Nat
  BY <1>6
<1>8. (a > 0 => a * num > 0) /\ (b > 0 => b * den > 0)
  BY <1>6
<1> QED BY <1>5, <1>6, <1>7, <1>8

\* However trades are split in both directions, mixed with gifts, collections of
\* fees and whatever else leaves the quote and the pool tokens alone, they leave
\* no pool whose spread covers its skew with less of one token for nothing.
THEOREM RoundTripAlwaysCosts == RoundTripSpec => []RoundTripCosts
<1> DEFINE Inv == Settings /\ Ledger /\ Settled
<1>1. RoundTripInit => Inv
  <2> SUFFICES ASSUME RoundTripInit PROVE Inv
    OBVIOUS
  <2>1. Settings /\ Ledger /\ mark = net_reserves
    BY SettingsInit, LedgerInit DEF RoundTripInit
  <2>2. mark \in [Token -> Int] /\ \A t \in Token : net_reserves[t] >= mark[t]
    BY <2>1, NetReservesType
  <2> QED BY <2>1, <2>2 DEF Settled, Balanced
<1>2. Inv /\ [RoundTripNext]_roundTripVars => Inv'
  <2> SUFFICES ASSUME Inv, [RoundTripNext]_roundTripVars PROVE Inv'
    OBVIOUS
  <2>1. [Next]_vars
    BY DEF RoundTripNext, roundTripVars
  <2>2. Settings' /\ Ledger'
    BY <2>1, SettingsStep, LedgerStep
  <2> QED BY <2>2, SettledStep
<1>3. Inv => RoundTripCosts
  BY SettledCosts
<1> QED BY <1>1, <1>2, <1>3, PTL DEF RoundTripSpec

LEMMA Opposite == ASSUME NEW d \in Int PROVE -d \in Int /\ -d + d = 0
OBVIOUS

\* A keeper never pushes an ask below its bid, so a pool without skew is one
\* whose spread covers it.
THEOREM PlainPoolsAreCovered == Spec => [](~pool.inventory_skew_enabled => SkewCovered)
<1> DEFINE Inv == Settings /\ oracle.bid =< oracle.ask
<1>1. Init => Inv
  <2>1. Init => oracle.bid =< oracle.ask
    BY DEF Init, unseeded_oracle
  <2> QED BY <2>1, SettingsInit
<1>2. Inv /\ [Next]_vars => Inv'
  <2> SUFFICES ASSUME Inv, [Next]_vars PROVE oracle'.bid =< oracle'.ask
    BY SettingsStep
  <2>1. oracle \in [ keeper : Keys, bid : Int, ask : Int, exponent : Int,
                     dynamic_fee_rate : Nat, last_update : Nat ]
    BY DEF Settings, SettingsTypeOK
  <2>2. ASSUME NEW signer \in Keys, NEW quote \in Quotes, UpdatePoolOracle(signer, quote)
        PROVE  oracle'.bid =< oracle'.ask
    BY <2>1, <2>2 DEF UpdatePoolOracle, push_accepted
  <2>3. ASSUME NEW key \in Keys, SetOracleKeeper(key)
        PROVE  oracle'.bid =< oracle'.ask
    BY <2>1, <2>3 DEF SetOracleKeeper
  <2>4. CreatePool => oracle'.bid =< oracle'.ask
    BY DEF CreatePool, Initialize, InitializeWithPermission, create_pool, unseeded_oracle
  <2>5. ChangeLiquidity \/ Swap \/ CollectFees \/ External => oracle' = oracle
    BY DEF ChangeLiquidity, Deposit, Withdraw, Swap, SwapBaseInput, SwapBaseOutput, settle,
           CollectFees, CollectProtocolFee, CollectFundFee, CollectCreatorFee, External,
           SendToVault, BurnLp, Tick, adminVars
  <2>6. UpdateAmmConfig => oracle' = oracle
    BY DEF UpdateAmmConfig, UpdateTradeFeeRate, UpdateProtocolFeeRate,
           UpdateFundFeeRate, UpdateCreatorFeeRate, UpdateCreatePoolFee,
           SetDisableCreatePool, SetNewProtocolOwner, SetNewFundOwner, config_unchanged
  <2>7. ASSUME Administer PROVE oracle'.bid =< oracle'.ask
    <3>1. ASSUME NEW key \in Keys, CreatePermissionPda(key) \/ ClosePermissionPda(key)
          PROVE  oracle' = oracle
      BY <3>1 DEF CreatePermissionPda, ClosePermissionPda
    <3>2. ASSUME NEW disabled \in Statuses, UpdatePoolStatus(disabled)
          PROVE  oracle' = oracle
      BY <3>2 DEF UpdatePoolStatus
    <3> QED BY <2>2, <2>3, <2>6, <2>7, <3>1, <3>2 DEF Administer
  <2>8. UNCHANGED vars => oracle' = oracle
    BY DEF vars
  <2> QED BY <2>4, <2>5, <2>7, <2>8 DEF Next
<1>3. Inv => (~pool.inventory_skew_enabled => SkewCovered)
  <2> SUFFICES ASSUME Inv, ~pool.inventory_skew_enabled PROVE SkewCovered
    OBVIOUS
  <2>1. skew_cap = 0
    BY DEF skew_cap
  <2>2. -skew_cap = 0
    <3> DEFINE opposite == -skew_cap
    <3>1. opposite \in Int /\ opposite + skew_cap = 0
      BY <2>1, Opposite
    <3> HIDE DEF opposite
    <3>2. opposite = 0
      BY <2>1, <3>1
    <3> QED BY <3>2 DEF opposite
  <2>3. /\ shift_mantissa_by_signed_bps(oracle.bid, 0) = oracle.bid
        /\ shift_mantissa_by_signed_bps(oracle.ask, 0) = oracle.ask
    BY DEF shift_mantissa_by_signed_bps
  <2> QED BY <2>1, <2>2, <2>3 DEF SkewCovered
<1> QED BY <1>1, <1>2, <1>3, PTL DEF Spec

=============================================================================
