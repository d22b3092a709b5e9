---------------------------- MODULE ClientProofs ----------------------------
(***************************************************************************)
(* Theorems about module Client, for every value of its constants: pools,  *)
(* quotes, transfer fees, orders and slippage, and whatever others do      *)
(* between the preview and the execution.                                  *)
(*                                                                         *)
(* What a property says at the execution was computed at the preview, so   *)
(* the invariant remembers it: an order's limits are those of the amounts  *)
(* it was previewed at (Orders), and while the pool is as it was read      *)
(* these amounts are still those of the pool (Current).                    *)
(***************************************************************************)
EXTENDS Client, LpFundProofs

-----------------------------------------------------------------------------
(* Slippage. *)

LEMMA SlippageFields ==
  /\ SLIPPAGE.num \in Nat /\ SLIPPAGE.den \in Nat \ {0}
  /\ SLIPPAGE.num =< SLIPPAGE.den
BY ClientAssumption

\* A minimum is at most the amount, and below it if the slippage is worth a
\* unit; and is at least what the slippage leaves, but for a unit.
LEMMA SlippageDown ==
  ASSUME NEW amount \in Nat, NEW limit \in amount_with_slippage(amount, FALSE)
  PROVE  /\ limit \in Nat /\ limit =< amount
         /\ limit * SLIPPAGE.den
              >= amount * (SLIPPAGE.den - SLIPPAGE.num) - SLIPPAGE.den
         /\ amount * SLIPPAGE.num >= SLIPPAGE.den => limit < amount
<1> DEFINE num    == SLIPPAGE.num
           den    == SLIPPAGE.den
           rest   == den - num
           scaled == amount * rest
           floor  == scaled \div den
<1>1. num \in Nat /\ den \in Nat \ {0} /\ num =< den
  BY SlippageFields
<1>2. \E less \in 0 .. 1 : /\ limit = floor - less /\ less =< floor
                           /\ scaled % den # 0 => less = 0
  <2>1. den + (IF FALSE THEN 1 ELSE -1) * num = rest
    BY <1>1
  <2>2. limit \in {floor - less : less \in {l \in 0 .. (IF scaled % den = 0 /\ num > 0 THEN 1 ELSE 0) :
                                              l =< floor}}
    BY <2>1 DEF amount_with_slippage
  <2> QED BY <2>2
<1>3. rest \in Nat /\ rest =< den
  BY <1>1
<1> HIDE DEF num, den, rest
<1>4. scaled \in Nat
  BY <1>3
<1>5. scaled = amount * den - amount * num
  BY <1>1 DEF rest
<1>6. scaled =< den * amount
  <2>1. amount * rest =< amount * den
    BY <1>1, <1>3
  <2> QED BY <1>1, <2>1
<1> HIDE DEF scaled
<1>7. /\ floor \in Nat /\ den * floor =< scaled /\ scaled < den * floor + den
      /\ floor =< amount
      /\ scaled % den = 0 => scaled = den * floor
  <2>1. scaled % den = 0 => scaled = den * floor
    BY <1>1, <1>4
  <2> QED BY <1>1, <1>4, <1>6, <2>1, DivNat, DivAtMost
<1>8. ASSUME amount * num >= den PROVE floor < amount
  <2>1. scaled < den * amount
    BY <1>1, <1>5, <1>8
  <2> QED BY <1>1, <1>4, <2>1, DivBelow
<1> HIDE DEF floor
<1>9. PICK less \in 0 .. 1 : /\ limit = floor - less /\ less =< floor
                             /\ scaled % den # 0 => less = 0
  BY <1>2
<1>10. limit \in Nat /\ limit =< floor
  BY <1>7, <1>9
<1>11. limit * den >= scaled - den
  <2>1. CASE less = 0
    <3>1. limit * den = den * floor
      BY <1>1, <1>7, <1>9, <2>1
    <3>2. den * floor \in Nat
      BY <1>1, <1>7
    <3> QED BY <1>1, <1>4, <1>7, <3>1, <3>2
  <2>2. CASE less = 1
    <3>1. scaled = den * floor
      BY <1>7, <1>9, <2>2
    <3>2. limit * den = den * floor - den
      BY <1>1, <1>7, <1>9, <2>2
    <3> QED BY <1>1, <1>4, <3>1, <3>2
  <2> QED BY <1>9, <2>1, <2>2
<1>12. amount * num >= den => limit < amount
  BY <1>7, <1>8, <1>10
<1> QED BY <1>7, <1>10, <1>11, <1>12 DEF num, den, rest, scaled

\* A maximum is at least the amount, if that is a u64, and at most what the
\* slippage adds to it, but for a unit.
LEMMA SlippageUp ==
  ASSUME NEW amount \in Nat, NEW limit \in amount_with_slippage(amount, TRUE)
  PROVE  /\ limit \in Nat
         /\ limit * SLIPPAGE.den
              =< amount * (SLIPPAGE.den + SLIPPAGE.num) + SLIPPAGE.den
         /\ amount \in U64 => limit >= amount
<1> USE PoolAssumption
<1> DEFINE num    == SLIPPAGE.num
           den    == SLIPPAGE.den
           sum    == den + num
           scaled == amount * sum
           floor  == scaled \div den
<1>1. num \in Nat /\ den \in Nat \ {0}
  BY SlippageFields
<1>2. \E more \in 0 .. 1 : /\ limit = least(floor + more, U64_MAX)
                           /\ scaled % den # 0 => more = 1
  <2>1. den + (IF TRUE THEN 1 ELSE -1) * num = sum
    BY <1>1
  <2>2. limit \in {least(floor + (IF scaled % den = 0 THEN extra ELSE 1), U64_MAX) :
                     extra \in 0 .. (IF scaled % den = 0 /\ num > 0 THEN 1 ELSE 0)}
    BY <2>1 DEF amount_with_slippage
  <2>3. PICK extra \in 0 .. (IF scaled % den = 0 /\ num > 0 THEN 1 ELSE 0) :
          limit = least(floor + (IF scaled % den = 0 THEN extra ELSE 1), U64_MAX)
    BY <2>2
  <2>4. extra \in 0 .. 1
    BY <2>3
  <2> HIDE DEF scaled, floor
  <2>5. CASE scaled % den = 0
    BY <2>3, <2>4, <2>5
  <2>6. CASE scaled % den # 0
    BY <2>3, <2>6
  <2> QED BY <2>5, <2>6
<1>3. sum \in Nat /\ sum >= den
  BY <1>1
<1> HIDE DEF num, den, sum
<1>4. scaled \in Nat /\ scaled >= den * amount
  <2>1. amount * sum >= amount * den
    BY <1>1, <1>3
  <2> QED BY <1>1, <1>3, <2>1
<1> HIDE DEF scaled
<1>5. floor \in Nat /\ den * floor =< scaled /\ scaled < den * floor + den
  BY <1>1, <1>4, DivNat
<1> HIDE DEF floor
<1>6. PICK more \in 0 .. 1 : /\ limit = least(floor + more, U64_MAX)
                             /\ scaled % den # 0 => more = 1
  BY <1>2
<1>7. amount =< floor
  <2>1. ASSUME floor + 1 =< amount PROVE FALSE
    <3>1. den * (floor + 1) =< den * amount
      BY <1>1, <1>5, <2>1
    <3>2. den * (floor + 1) = den * floor + den
      BY <1>1, <1>5
    <3>3. den * floor \in Nat /\ den * amount \in Nat
      BY <1>1, <1>5
    <3> QED BY <1>1, <1>4, <1>5, <3>1, <3>2, <3>3
  <2> QED BY <1>5, <2>1
<1>8. U64_MAX \in Nat
  BY DEF U64
<1>9. limit \in Nat /\ limit =< floor + more
  BY <1>5, <1>6, <1>8 DEF least
<1>10. amount \in U64 => limit >= amount
  BY <1>5, <1>6, <1>7, <1>8 DEF least, U64
<1>11. limit * den =< scaled + den
  <2>1. limit * den =< (floor + more) * den
    BY <1>1, <1>5, <1>9
  <2>2. (floor + more) * den = den * floor + more * den
    BY <1>1, <1>5
  <2>3. more * den =< den
    BY <1>1, <1>6
  <2>4. more * den \in Nat /\ den * floor \in Nat /\ limit * den \in Nat
    BY <1>1, <1>5, <1>9
  <2> QED BY <1>1, <1>4, <1>5, <2>1, <2>2, <2>3, <2>4
<1> QED BY <1>9, <1>10, <1>11 DEF num, den, sum, scaled

\* A cast amount is at most the amount, and the amount itself if it is a u64.
LEMMA AsU64 ==
  ASSUME NEW amount \in Nat
  PROVE  /\ as_u64(amount) \in U64
         /\ as_u64(amount) =< amount
         /\ amount \in U64 => as_u64(amount) = amount
<1> USE PoolAssumption
<1>1. U64_MAX \in Nat
  BY DEF U64
<1> DEFINE d == U64_MAX + 1
           q == amount \div d
           r == amount % d
<1>2. d \in Nat \ {0}
  BY <1>1
<1> HIDE DEF d
<1>3. q \in Nat /\ r \in 0 .. d - 1 /\ amount = d * q + r
  BY <1>2
<1>4. d * q \in Nat
  BY <1>2, <1>3
<1>5. amount < d => q = 0
  <2>1. ASSUME amount < d, q >= 1 PROVE FALSE
    <3>1. d * q >= d
      BY <1>2, <1>3, <2>1
    <3> QED BY <1>2, <1>3, <1>4, <2>1, <3>1
  <2> QED BY <1>3, <2>1
<1> HIDE DEF q, r
<1>6. r =< amount /\ r \in U64
  BY <1>1, <1>2, <1>3, <1>4 DEF d, U64
<1>7. amount \in U64 => r = amount
  BY <1>1, <1>2, <1>3, <1>4, <1>5 DEF d, U64
<1> QED BY <1>6, <1>7 DEF as_u64, r, d

-----------------------------------------------------------------------------
(* Tokens without a transfer fee. *)

LEMMA NoFee ==
  ASSUME NEW t \in Token, TransferFeeOf[t].bps = 0, NEW amount \in Nat
  PROVE  /\ get_transfer_inverse_fee(TransferFeeOf[t], amount) = 0
         /\ get_transfer_fee(TransferFeeOf[t], amount) = 0
         /\ sent_for(t, amount) = amount
         /\ credited(TransferFeeOf[t], amount) = amount
<1> DEFINE schedule == TransferFeeOf[t]
           D        == MAX_FEE_BASIS_POINTS
<1>1. D \in Nat \ {0} /\ schedule.max \in Nat /\ schedule.bps = 0
  BY MaxFeePositive, Schedules, ScheduleFields
<1>2. get_transfer_inverse_fee(schedule, amount) = 0
  BY <1>1 DEF get_transfer_inverse_fee, calculate_inverse_epoch_fee
<1>3. (amount * 0 + D - 1) \div D = 0
  <2>1. amount * 0 + D - 1 = D - 1 /\ D - 1 \in Nat /\ D - 1 < D * 1
    BY <1>1
  <2> HIDE DEF D
  <2>2. (D - 1) \div D < 1 /\ (D - 1) \div D \in Nat
    BY <1>1, <2>1, DivBelow, DivNat
  <2> QED BY <2>1, <2>2
<1>4. get_transfer_fee(schedule, amount) = 0
  <2> DEFINE raw == (amount * schedule.bps + D - 1) \div D
  <2>1. raw = 0
    BY <1>1, <1>3
  <2>2. get_transfer_fee(schedule, amount) = IF raw =< schedule.max THEN raw ELSE schedule.max
    BY DEF get_transfer_fee, calculate_epoch_fee
  <2> HIDE DEF raw, schedule
  <2> QED BY <1>1, <2>1, <2>2
<1> QED BY <1>2, <1>4 DEF sent_for, credited

-----------------------------------------------------------------------------
(* What the previews depend on. *)

\* While the accounts a command reads are as they were, so is what it computes.
LEMMA SameAccounts ==
  ASSUME UNCHANGED pool_accounts
  PROVE  /\ lp_supply' = lp_supply
         /\ inventory_skew_bps' = inventory_skew_bps
         /\ \A t \in Token : vault_amount_without_fee(t)' = vault_amount_without_fee(t)
         /\ \A direction \in TradeDirection :
              preview_terms(direction)' = preview_terms(direction)
         /\ \A lp : trading_tokens(lp, "Ceiling")' = trading_tokens(lp, "Ceiling")
<1>1. UNCHANGED <<amm_config, pool, status, oracle, lp_supply, protocol_fees, fund_fees,
                  creator_fees, vault>>
  BY DEF pool_accounts, feeVars
<1>2. \A t : vault_amount_without_fee(t)' = vault_amount_without_fee(t)
  BY <1>1 DEF vault_amount_without_fee, accrued_fees
<1>3. mid_price' = mid_price
  BY <1>1 DEF mid_price
<1>4. inventory_skew_bps' = inventory_skew_bps
  BY <1>1, <1>2, <1>3 DEF inventory_skew_bps
<1>5. ASSUME NEW direction \in TradeDirection
      PROVE  preview_terms(direction)' = preview_terms(direction)
  <2>1. spot(direction)' = spot(direction)
    <3>1. effective_price(direction)' = effective_price(direction)
      BY <1>1, <1>4 DEF effective_price, skewed
    <3> QED BY <3>1 DEF spot
  <2>2. preview_spot_rate(direction)' = preview_spot_rate(direction)
    BY <1>1 DEF preview_spot_rate
  <2>3. /\ effective_trade_fee_rate' = effective_trade_fee_rate
        /\ adjust_creator_fee_rate' = adjust_creator_fee_rate
        /\ is_creator_fee_on_input(direction)' = is_creator_fee_on_input(direction)
    BY <1>1 DEF effective_trade_fee_rate, adjust_creator_fee_rate, is_creator_fee_on_input
  <2>4. swap_terms(direction)' = swap_terms(direction)
    BY <1>1, <1>2, <2>1, <2>3 DEF swap_terms
  <2> QED BY <2>2, <2>4 DEF preview_terms
<1>6. \A lp : trading_tokens(lp, "Ceiling")' = trading_tokens(lp, "Ceiling")
  BY <1>1, <1>2 DEF trading_tokens
<1> QED BY <1>1, <1>2, <1>4, <1>5, <1>6

\* Without skew the preview is made on the program's own terms.
LEMMA PreviewIsProgram ==
  ASSUME NEW direction \in TradeDirection, inventory_skew_bps = 0
  PROVE  preview_terms(direction) = swap_terms(direction)
<1>1. preview_spot_rate(direction) = spot(direction)
  BY DEF preview_spot_rate, spot, effective_price, skewed, shift_mantissa_by_signed_bps
<1> QED BY <1>1 DEF preview_terms, swap_terms

\* The terms of a preview are sound.
LEMMA PreviewSound ==
  ASSUME Settings, Ledger, created, NEW direction \in TradeDirection
  PROVE  SoundTerms(preview_terms(direction))
<1>1. SoundTerms(swap_terms(direction))
  BY TermsSound
<1> QED BY <1>1 DEF preview_terms, swap_terms, SoundTerms

-----------------------------------------------------------------------------
(* The invariant. *)

\* What an order was previewed at, and limits made of it.
Orders ==
  /\ order.kind \in {"SwapBaseIn", "SwapBaseOut"} =>
       /\ order.direction \in TradeDirection
       /\ order.amount \in U64
       /\ order.quoted \in Nat
  /\ order.kind \in {"Deposit", "Withdraw"} =>
       /\ order.amount \in U64
       /\ \A t \in Token : order.quoted[t] \in Nat
  /\ order.kind = "SwapBaseIn" => order.limit \in amount_with_slippage(order.quoted, FALSE)
  /\ order.kind = "SwapBaseOut" =>
       /\ order.quoted \in U64
       /\ order.limit \in amount_with_slippage(order.quoted, TRUE)
  /\ order.kind = "Deposit" =>
       \A t \in Token : order.limit[t] \in deposit_limits(t, order.quoted[t])
  /\ order.kind = "Withdraw" =>
       \A t \in Token : order.limit[t] \in withdraw_limits(t, order.quoted[t])

\* What was previewed is still what the pool has.
Current ==
  fresh =>
    /\ order.kind = "SwapBaseIn" =>
         order.quoted = received_for(order.direction, order.amount,
                                     preview_terms(order.direction))
    /\ order.kind = "SwapBaseOut" =>
         order.quoted = sent_to_receive(order.direction, order.amount,
                                        preview_terms(order.direction))
    /\ order.kind \in {"Deposit", "Withdraw"} =>
         lp_supply > 0 /\ order.quoted = trading_tokens(order.amount, "Ceiling")

ClientInv == fresh \in BOOLEAN /\ Orders /\ Current

\* The worth of pool tokens is a natural number, and rounded up it is at most a
\* unit more than rounded down.
LEMMA WorthNat ==
  ASSUME Ledger, created, lp_supply > 0, NEW lp \in U64, NEW t \in Token
  PROVE  /\ trading_tokens(lp, "Ceiling")[t] \in Nat
         /\ trading_tokens(lp, "Floor")[t] \in Nat
         /\ trading_tokens(lp, "Ceiling")[t] \in
              {trading_tokens(lp, "Floor")[t], trading_tokens(lp, "Floor")[t] + 1}
<1> USE PoolAssumption
<1>1. lp \in Nat /\ lp_supply \in Nat \ {0} /\ vault_amount_without_fee(t) \in Nat
  BY NetInt DEF Ledger, LedgerTypeOK, ReservesLeft, U64
<1> DEFINE amount == (lp * vault_amount_without_fee(t)) \div lp_supply
<1>2. /\ trading_tokens(lp, "Floor")[t] = amount
      /\ trading_tokens(lp, "Ceiling")[t] \in {amount, amount + 1}
  BY DEF trading_tokens, lp_tokens_to_trading_tokens
<1>3. trading_tokens(lp, "Ceiling")[t] \in Nat /\ trading_tokens(lp, "Floor")[t] \in Nat
  BY <1>1, WorthBound DEF trading_tokens
<1> HIDE DEF amount
<1> QED BY <1>2, <1>3

\* What a swap is previewed to bring is a natural number.
LEMMA ReceivedNat ==
  ASSUME NEW direction \in TradeDirection, NEW amount \in U64,
         NEW terms, SoundTerms(terms),
         swap_base_input_defined(credited(TransferFeeOf[input_of(direction)], amount), terms)
  PROVE  received_for(direction, amount, terms) \in Nat
<1> USE PoolAssumption
<1> DEFINE actual == credited(TransferFeeOf[input_of(direction)], amount)
           output == swap_base_input(actual, terms).output_amount
<1>1. input_of(direction) \in Token /\ output_of(direction) \in Token /\ amount \in Nat
  BY DEF input_of, output_of, Token, U64
<1>2. actual \in Nat
  BY <1>1, Schedules, CreditedBound
<1>3. output \in Nat
  BY <1>2, SwapBaseInputSound DEF SoundResult
<1> HIDE DEF output
<1>4. credited(TransferFeeOf[output_of(direction)], output) \in Nat
  BY <1>1, <1>3, Schedules, CreditedBound
<1> QED BY <1>4 DEF received_for, output

\* A command sends an order that is what it previewed.
LEMMA CommandOrders ==
  ASSUME Settings, Ledger, Command
  PROVE  ClientInv'
<1> USE PoolAssumption, ClientAssumption
<1>1. /\ UNCHANGED vars /\ fresh' = TRUE
  BY DEF Command, CommandDeposit, CommandWithdraw, CommandSwapBaseIn, CommandSwapBaseOut, send
<1>2. UNCHANGED pool_accounts /\ created' = created
  BY <1>1 DEF vars, pool_accounts, adminVars, feeVars
<1>3. ASSUME NEW lp \in LpOrders, CommandDeposit(lp) PROVE ClientInv'
  <2> DEFINE amounts == trading_tokens(lp, "Ceiling")
  <2>1. PICK max_0 \in deposit_limits(0, amounts[0]), max_1 \in deposit_limits(1, amounts[1]) :
          order' = [kind |-> "Deposit", amount |-> lp, quoted |-> amounts,
                    limit |-> [t \in Token |-> IF t = 0 THEN max_0 ELSE max_1]]
    BY <1>3 DEF CommandDeposit, send
  <2>2. created /\ lp_supply > 0 /\ lp \in U64
    BY <1>3 DEF CommandDeposit, readable
  <2>3. \A t \in Token : amounts[t] \in Nat
    BY <2>2, WorthNat
  <2>4. amounts' = amounts /\ lp_supply' = lp_supply
    BY <1>2, SameAccounts
  <2> HIDE DEF amounts
  <2>5. /\ order'.kind = "Deposit" /\ order'.amount = lp /\ order'.quoted = amounts
        /\ order'.limit = [t \in Token |-> IF t = 0 THEN max_0 ELSE max_1]
    BY <2>1
  <2>6. \A t \in Token : order'.limit[t] \in deposit_limits(t, amounts[t])
    BY <2>5 DEF Token
  <2>7. Orders'
    BY <2>2, <2>3, <2>5, <2>6 DEF Orders, deposit_limits
  <2>8. Current'
    BY <1>2, <2>2, <2>4, <2>5 DEF Current, amounts
  <2> QED BY <1>1, <2>7, <2>8 DEF ClientInv
<1>4. ASSUME NEW lp \in LpOrders, CommandWithdraw(lp) PROVE ClientInv'
  <2> DEFINE amounts == trading_tokens(lp, "Ceiling")
  <2>1. PICK min_0 \in withdraw_limits(0, amounts[0]), min_1 \in withdraw_limits(1, amounts[1]) :
          order' = [kind |-> "Withdraw", amount |-> lp, quoted |-> amounts,
                    limit |-> [t \in Token |-> IF t = 0 THEN min_0 ELSE min_1]]
    BY <1>4 DEF CommandWithdraw, send
  <2>2. created /\ lp_supply > 0 /\ lp \in U64
    BY <1>4 DEF CommandWithdraw, readable
  <2>3. \A t \in Token : amounts[t] \in Nat
    BY <2>2, WorthNat
  <2>4. amounts' = amounts /\ lp_supply' = lp_supply
    BY <1>2, SameAccounts
  <2> HIDE DEF amounts
  <2>5. /\ order'.kind = "Withdraw" /\ order'.amount = lp /\ order'.quoted = amounts
        /\ order'.limit = [t \in Token |-> IF t = 0 THEN min_0 ELSE min_1]
    BY <2>1
  <2>6. \A t \in Token : order'.limit[t] \in withdraw_limits(t, amounts[t])
    BY <2>5 DEF Token
  <2>7. Orders'
    BY <2>2, <2>3, <2>5, <2>6 DEF Orders, withdraw_limits
  <2>8. Current'
    BY <1>2, <2>2, <2>4, <2>5 DEF Current, amounts
  <2> QED BY <1>1, <2>7, <2>8 DEF ClientInv
<1>5. ASSUME NEW direction \in TradeDirection, NEW amount \in SwapOrders,
             CommandSwapBaseIn(direction, amount)
      PROVE  ClientInv'
  <2> DEFINE terms    == preview_terms(direction)
             received == received_for(direction, amount, terms)
  <2>1. PICK minimum \in amount_with_slippage(received, FALSE) :
          order' = [kind |-> "SwapBaseIn", direction |-> direction, amount |-> amount,
                    quoted |-> received, limit |-> minimum]
    BY <1>5 DEF CommandSwapBaseIn, send
  <2>2. /\ created /\ amount \in U64
        /\ swap_base_input_defined(credited(TransferFeeOf[input_of(direction)], amount), terms)
    BY <1>5 DEF CommandSwapBaseIn, readable
  <2>3. received \in Nat
    BY <2>2, PreviewSound, ReceivedNat
  <2>4. terms' = terms
    BY <1>2, SameAccounts
  <2> HIDE DEF terms
  <2>5. received' = received
    BY <2>4 DEF received_for
  <2> HIDE DEF received
  <2>6. /\ order'.kind = "SwapBaseIn" /\ order'.direction = direction
        /\ order'.amount = amount /\ order'.quoted = received /\ order'.limit = minimum
    BY <2>1
  <2>7. Orders'
    BY <2>1, <2>2, <2>3, <2>6 DEF Orders, amount_with_slippage
  <2>8. Current'
    BY <1>2, <2>2, <2>5, <2>6 DEF Current, received, terms
  <2> QED BY <1>1, <2>7, <2>8 DEF ClientInv
<1>6. ASSUME NEW direction \in TradeDirection, NEW amount \in SwapOrders,
             CommandSwapBaseOut(direction, amount)
      PROVE  ClientInv'
  <2> DEFINE terms == preview_terms(direction)
             sent  == sent_to_receive(direction, amount, terms)
  <2>1. PICK maximum \in amount_with_slippage(sent, TRUE) :
          order' = [kind |-> "SwapBaseOut", direction |-> direction, amount |-> amount,
                    quoted |-> sent, limit |-> maximum]
    BY <1>6 DEF CommandSwapBaseOut, send
  <2>2. created /\ amount \in U64 /\ sent \in U64
    BY <1>6 DEF CommandSwapBaseOut, readable
  <2>4. terms' = terms
    BY <1>2, SameAccounts
  <2> HIDE DEF terms
  <2>5. sent' = sent
    BY <2>4 DEF sent_to_receive, sent_for
  <2> HIDE DEF sent
  <2>3. sent \in Nat
    BY <2>2 DEF U64
  <2>6. /\ order'.kind = "SwapBaseOut" /\ order'.direction = direction
        /\ order'.amount = amount /\ order'.quoted = sent /\ order'.limit = maximum
    BY <2>1
  <2>7. Orders'
    BY <2>1, <2>2, <2>3, <2>6 DEF Orders, amount_with_slippage
  <2>8. Current'
    BY <1>2, <2>2, <2>5, <2>6 DEF Current, sent, terms
  <2> QED BY <1>1, <2>7, <2>8 DEF ClientInv
<1> QED BY <1>3, <1>4, <1>5, <1>6 DEF Command

\* When the order ends, and while others act, the invariant is kept.
LEMMA OrderEnds ==
  ASSUME order' = NoOrder, fresh' = FALSE
  PROVE  ClientInv'
<1>1. order'.kind = "None"
  BY DEF NoOrder
<1> QED BY <1>1 DEF ClientInv, Orders, Current

LEMMA OthersOrders ==
  ASSUME ClientInv, UNCHANGED order, fresh' \in BOOLEAN,
         fresh' => fresh /\ UNCHANGED pool_accounts
  PROVE  ClientInv'
<1>1. Orders'
  BY DEF ClientInv, Orders, deposit_limits, withdraw_limits, amount_with_slippage
<1>2. ASSUME fresh' PROVE Current'
  <2>1. fresh /\ UNCHANGED pool_accounts
    BY <1>2
  <2>2. /\ lp_supply' = lp_supply
        /\ \A direction \in TradeDirection :
             preview_terms(direction)' = preview_terms(direction)
        /\ \A lp : trading_tokens(lp, "Ceiling")' = trading_tokens(lp, "Ceiling")
    BY <2>1, SameAccounts
  <2> DEFINE direction == order.direction
             amount    == order.amount
  <2>3. ASSUME order.kind = "SwapBaseIn"
        PROVE  order.quoted = received_for(direction, amount, preview_terms(direction))'
    <3>1. order.quoted = received_for(direction, amount, preview_terms(direction))
      BY <2>1, <2>3 DEF ClientInv, Current
    <3>2. preview_terms(direction)' = preview_terms(direction)
      BY <2>2, <2>3 DEF ClientInv, Orders
    <3> QED BY <3>1, <3>2 DEF received_for
  <2>4. ASSUME order.kind = "SwapBaseOut"
        PROVE  order.quoted = sent_to_receive(direction, amount, preview_terms(direction))'
    <3>1. order.quoted = sent_to_receive(direction, amount, preview_terms(direction))
      BY <2>1, <2>4 DEF ClientInv, Current
    <3>2. preview_terms(direction)' = preview_terms(direction)
      BY <2>2, <2>4 DEF ClientInv, Orders
    <3> QED BY <3>1, <3>2 DEF sent_to_receive, sent_for
  <2>5. ASSUME order.kind \in {"Deposit", "Withdraw"}
        PROVE  /\ lp_supply' > 0
               /\ order.quoted = trading_tokens(order.amount, "Ceiling")'
    BY <2>1, <2>2, <2>5 DEF ClientInv, Current
  <2> QED BY <2>3, <2>4, <2>5 DEF Current
<1>3. ~fresh' => Current'
  BY DEF Current
<1> QED BY <1>1, <1>2, <1>3 DEF ClientInv

\* The program's invariants hold whatever orders are executed: its instructions
\* check their arguments themselves.
LEMMA ExecuteLedger ==
  ASSUME Settings, Ledger, Orders, instruction
  PROVE  Settings' /\ Ledger'
<1>1. UNCHANGED <<amm_config, permissions, pool, status, oracle, clock>>
  BY DEF instruction, Deposit, Withdraw, SwapBaseInput, SwapBaseOutput, settle, adminVars
<1>2. Settings'
  BY <1>1 DEF Settings, SettingsTypeOK, RatesBounded, rates_allowed
<1>3. CASE order.kind = "Deposit" /\ Deposit(order.amount, order.limit)
  BY <1>2, <1>3, DepositLedger DEF Orders
<1>4. CASE order.kind = "Withdraw" /\ Withdraw(order.amount, order.limit)
  BY <1>2, <1>4, WithdrawLedger DEF Orders
<1>5. CASE \/ order.kind = "SwapBaseIn"
              /\ SwapBaseInput(order.direction, order.amount, order.limit)
           \/ order.kind = "SwapBaseOut"
              /\ SwapBaseOutput(order.direction, order.limit, order.amount)
  <2>1. order.direction \in TradeDirection /\ order.amount \in U64
    BY <1>5 DEF Orders
  <2> QED BY <1>2, <1>5, <2>1, SwapInstructionLedger
<1> QED BY <1>2, <1>3, <1>4, <1>5 DEF instruction

LEMMA ClientStep ==
  Settings /\ Ledger /\ ClientInv /\ [ClientNext]_clientVars
    => Settings' /\ Ledger' /\ ClientInv'
<1> SUFFICES ASSUME Settings, Ledger, ClientInv, [ClientNext]_clientVars
             PROVE  Settings' /\ Ledger' /\ ClientInv'
  OBVIOUS
<1>1. CASE Command
  <2>1. UNCHANGED vars
    BY <1>1 DEF Command, CommandDeposit, CommandWithdraw, CommandSwapBaseIn,
                CommandSwapBaseOut, send
  <2> QED BY <1>1, <2>1, SettingsStep, LedgerStep, CommandOrders
<1>2. CASE Execute
  BY <1>2, ExecuteLedger, OrderEnds DEF Execute, ClientInv
<1>3. CASE Fail
  BY <1>3, SettingsStep, LedgerStep, OrderEnds DEF Fail
<1>4. CASE Others
  <2>1. /\ Next /\ UNCHANGED order
        /\ fresh' \in BOOLEAN /\ (fresh' => fresh /\ UNCHANGED pool_accounts)
    BY <1>4 DEF Others
  <2> QED BY <2>1, SettingsStep, LedgerStep, OthersOrders
<1>5. CASE UNCHANGED clientVars
  <2>1. UNCHANGED vars /\ UNCHANGED order /\ fresh' = fresh
    BY <1>5 DEF clientVars
  <2>2. UNCHANGED pool_accounts
    BY <2>1 DEF vars, pool_accounts, feeVars
  <2>3. fresh' \in BOOLEAN /\ (fresh' => fresh /\ UNCHANGED pool_accounts)
    BY <2>1, <2>2 DEF ClientInv
  <2> QED BY <2>1, <2>3, SettingsStep, LedgerStep, OthersOrders
<1> QED BY <1>1, <1>2, <1>3, <1>4, <1>5 DEF ClientNext

\* Whatever a client sends, the program's own invariants hold with it.
LEMMA ClientInvariants == ClientSpec => [](Settings /\ Ledger /\ ClientInv)
<1>1. ClientInit => Settings /\ Ledger /\ ClientInv
  <2>1. ClientInit => Settings /\ Ledger
    BY SettingsInit, LedgerInit DEF ClientInit
  <2>2. NoOrder.kind = "None"
    BY DEF NoOrder
  <2>3. ClientInit => ClientInv
    BY <2>2 DEF ClientInit, ClientInv, Orders, Current
  <2> QED BY <2>1, <2>3
<1> QED BY <1>1, ClientStep, PTL DEF ClientSpec

-----------------------------------------------------------------------------
(* The theorems. *)

\* The limits of liquidity in a token without a transfer fee.
LEMMA LiquidityLimits ==
  ASSUME NEW t \in Token, TransferFeeOf[t].bps = 0, NEW amount \in Nat, NEW limit
  PROVE  /\ limit \in deposit_limits(t, amount)
              => limit \in amount_with_slippage(as_u64(amount), TRUE)
         /\ limit \in withdraw_limits(t, amount)
              => limit \in amount_with_slippage(as_u64(amount), FALSE)
<1>1. /\ get_transfer_inverse_fee(TransferFeeOf[t], EPOCH) = 0
      /\ get_transfer_fee(TransferFeeOf[t], EPOCH) = 0
  BY NoFee, ClientAssumption
<1>2. as_u64(amount) \in Nat
  BY AsU64 DEF U64
<1>3. ASSUME NEW slipped \in amount_with_slippage(as_u64(amount), TRUE)
      PROVE  slipped + 0 = slipped
  <2>1. slipped \in Nat
    BY <1>2, SlippageUp
  <2> QED BY <2>1
<1>4. ASSUME NEW slipped \in amount_with_slippage(as_u64(amount), FALSE)
      PROVE  slipped - 0 = slipped
  <2>1. slipped \in Nat
    BY <1>2, SlippageDown
  <2> QED BY <2>1
<1> QED BY <1>1, <1>3, <1>4 DEF deposit_limits, withdraw_limits

\* What a withdrawal would pay of a token without a transfer fee is its floored
\* worth.
LEMMA WouldWithdraw ==
  ASSUME Ledger, created, lp_supply > 0, order.amount \in U64, order.amount =< lp_supply,
         NEW t \in Token, TransferFeeOf[t].bps = 0
  PROVE  would_withdraw(t) = trading_tokens(order.amount, "Floor")[t]
<1> USE PoolAssumption
<1> DEFINE lp      == order.amount
           reserve == vault_amount_without_fee(t)
           worth   == trading_tokens(lp, "Floor")[t]
<1>1. lp \in Nat /\ lp_supply \in Nat \ {0} /\ reserve \in Nat /\ lp =< lp_supply
  BY NetInt DEF Ledger, LedgerTypeOK, ReservesLeft, U64
<1>2. worth = (lp * reserve) \div lp_supply /\ worth \in Nat
  BY WorthNat DEF trading_tokens, lp_tokens_to_trading_tokens
<1>3. lp * reserve \in Nat /\ lp * reserve =< lp_supply * reserve
  BY <1>1
<1>4. worth =< reserve
  BY <1>1, <1>2, <1>3, DivAtMost
<1> HIDE DEF worth, reserve
<1>5. least(reserve, worth) = worth
  BY <1>1, <1>2, <1>4 DEF least
<1> QED BY <1>2, <1>5, NoFee DEF would_withdraw, worth, reserve

\* Whatever the pool, its quote, its fees and the slippage configured, a command's
\* own limit never has a transaction refused by a pool that is as it was read:
\* the previews make no mistake but for the skew and the transfer fees of
\* liquidity.
THEOREM FreshOrderAlwaysTaken == ClientSpec => []FreshOrderTaken
<1>1. Settings /\ Ledger /\ ClientInv => FreshOrderTaken
  <2> SUFFICES ASSUME Settings, Ledger, ClientInv, fresh
               PROVE  FreshOrderTaken
    BY DEF FreshOrderTaken
  <2>1. ASSUME order.kind = "SwapBaseIn", inventory_skew_bps = 0
        PROVE  would_receive >= order.limit
    <3>1. order.quoted \in Nat /\ order.limit \in amount_with_slippage(order.quoted, FALSE)
      BY <2>1 DEF ClientInv, Orders
    <3>2. would_receive = order.quoted
      BY <2>1, PreviewIsProgram DEF ClientInv, Orders, Current, would_receive
    <3> QED BY <3>1, <3>2, SlippageDown
  <2>2. ASSUME order.kind = "SwapBaseOut", inventory_skew_bps = 0
        PROVE  would_send =< order.limit
    <3>1. /\ order.quoted \in Nat /\ order.quoted \in U64
          /\ order.limit \in amount_with_slippage(order.quoted, TRUE)
      BY <2>2 DEF ClientInv, Orders
    <3>2. would_send = order.quoted
      BY <2>2, PreviewIsProgram DEF ClientInv, Orders, Current, would_send
    <3> QED BY <3>1, <3>2, SlippageUp
  <2>3. ASSUME NEW t \in Token, TransferFeeOf[t].bps = 0, order.kind = "Deposit",
               order.quoted[t] \in U64
        PROVE  would_deposit(t) =< order.limit[t]
    <3>1. /\ order.quoted[t] \in Nat /\ order.limit[t] \in deposit_limits(t, order.quoted[t])
          /\ order.quoted = trading_tokens(order.amount, "Ceiling")
      BY <2>3 DEF ClientInv, Orders, Current
    <3>2. would_deposit(t) = order.quoted[t]
      BY <2>3, <3>1, NoFee DEF would_deposit
    <3>3. order.limit[t] \in amount_with_slippage(order.quoted[t], TRUE)
      BY <2>3, <3>1, LiquidityLimits, AsU64
    <3> QED BY <2>3, <3>1, <3>2, <3>3, SlippageUp
  <2>4. ASSUME NEW t \in Token, TransferFeeOf[t].bps = 0, order.kind = "Withdraw",
               order.quoted[t] \in U64, order.amount =< lp_supply,
               order.quoted[t] * SLIPPAGE.num >= SLIPPAGE.den
        PROVE  would_withdraw(t) >= order.limit[t]
    <3>1. /\ order.amount \in U64 /\ lp_supply > 0
          /\ order.quoted[t] \in Nat /\ order.limit[t] \in withdraw_limits(t, order.quoted[t])
          /\ order.quoted = trading_tokens(order.amount, "Ceiling")
      BY <2>4 DEF ClientInv, Orders, Current
    <3>2. created
      BY <3>1 DEF Ledger, NothingBeforeCreation
    <3> DEFINE floor == trading_tokens(order.amount, "Floor")[t]
    <3>3. would_withdraw(t) = floor
      BY <2>4, <3>1, <3>2, WouldWithdraw
    <3>4. floor \in Nat /\ order.quoted[t] =< floor + 1
      BY <3>1, <3>2, WorthNat
    <3> HIDE DEF floor
    <3>5. order.limit[t] \in amount_with_slippage(order.quoted[t], FALSE)
      BY <2>4, <3>1, LiquidityLimits, AsU64
    <3>6. order.limit[t] \in Nat /\ order.limit[t] < order.quoted[t]
      BY <2>4, <3>1, <3>5, SlippageDown
    <3> QED BY <3>1, <3>3, <3>4, <3>6
  <2> QED BY <2>1, <2>2, <2>3, <2>4 DEF FreshOrderTaken
<1> QED BY <1>1, ClientInvariants, PTL

\* The order's transaction is what ends it with an effect on the vaults.
LEMMA ExecutedInstruction ==
  ASSUME [ClientNext]_clientVars, NEW kind, kind # "None", executed(kind)
  PROVE  order.kind = kind /\ instruction
<1>1. order.kind = kind /\ order' = NoOrder /\ vault' # vault
  BY DEF executed
<1>2. order # NoOrder
  BY <1>1 DEF NoOrder
<1>3. ~Command
  BY <1>1, <1>2 DEF Command, CommandDeposit, CommandWithdraw, CommandSwapBaseIn,
                    CommandSwapBaseOut, send
<1>4. ~Fail
  BY <1>1 DEF Fail, vars
<1>5. ~Others
  BY <1>1, <1>2 DEF Others
<1>6. ~UNCHANGED clientVars
  BY <1>1 DEF clientVars, vars
<1> QED BY <1>1, <1>3, <1>4, <1>5, <1>6 DEF ClientNext, Execute

\* What an executed order does is what it would do, and within its limit.
LEMMA BaseInEffect ==
  ASSUME Settings, Ledger, ClientInv, order.kind = "SwapBaseIn", instruction
  PROVE  /\ would_receive \in Nat
         /\ received_of(output_of(order.direction)) = would_receive
         /\ would_receive >= order.limit
<1> DEFINE direction == order.direction
           in        == input_of(direction)
           out       == output_of(direction)
           actual    == credited(TransferFeeOf[in], order.amount)
           result    == swap_base_input(actual, swap_terms(direction))
<1>1. direction \in TradeDirection /\ order.amount \in U64
  BY DEF ClientInv, Orders
<1>2. SwapBaseInput(direction, order.amount, order.limit)
  BY DEF instruction
<1>3. /\ settle(direction, order.amount, result)
      /\ result.output_amount \in Nat
  BY <1>1, <1>2, BaseInputSettles DEF ClientInv, SoundResult
<1>4. would_receive = credited(TransferFeeOf[out], result.output_amount)
  BY DEF would_receive, received_for
<1>5. would_receive >= order.limit
  BY <1>2, <1>4 DEF SwapBaseInput
<1>6. in \in Token /\ out \in Token /\ in # out
  BY DEF input_of, output_of, Token
<1> HIDE DEF result, in, out
<1>7. vault' = [vault EXCEPT ![in]  = @ + credited(TransferFeeOf[in], order.amount),
                             ![out] = @ - result.output_amount]
  BY <1>3 DEF settle, in, out
<1>8. vault[out] \in Nat /\ DOMAIN vault = Token
  BY <1>6, PoolAssumption DEF Ledger, LedgerTypeOK, U64
<1>9. vault'[out] = vault[out] - result.output_amount
  BY <1>6, <1>7, <1>8
<1>10. vault[out] - vault'[out] = result.output_amount
  BY <1>3, <1>8, <1>9
<1>11. received_of(out) = would_receive
  BY <1>4, <1>10 DEF received_of
<1>12. would_receive \in Nat
  BY <1>3, <1>4, <1>6, Schedules, CreditedBound
<1> QED BY <1>5, <1>11, <1>12 DEF out

LEMMA BaseOutEffect ==
  ASSUME Settings, Ledger, ClientInv, order.kind = "SwapBaseOut", instruction
  PROVE  /\ would_send \in Nat
         /\ received_of(output_of(order.direction)) = order.amount
         /\ sent_of(input_of(order.direction)) = would_send
         /\ would_send =< order.limit
<1> DEFINE direction == order.direction
           in        == input_of(direction)
           out       == output_of(direction)
           wanted    == sent_for(out, order.amount)
           result    == swap_base_output(wanted, swap_terms(direction))
           sent      == sent_for(in, result.input_amount)
<1>1. direction \in TradeDirection /\ order.amount \in U64
  BY DEF ClientInv, Orders
<1>2. SwapBaseOutput(direction, order.limit, order.amount)
  BY DEF instruction
<1>3. /\ settle(direction, sent, result)
      /\ result.input_amount \in Nat /\ sent \in Nat
      /\ result.output_amount = wanted /\ wanted \in Nat
      /\ credited(TransferFeeOf[in], sent) = result.input_amount
  BY <1>1, <1>2, BaseOutputSettles DEF ClientInv
<1>4. would_send = sent
  BY DEF would_send, sent_to_receive
<1>5. would_send =< order.limit
  <2>1. order.limit >= sent
    BY <1>2 DEF SwapBaseOutput
  <2>2. order.limit \in Nat
    BY SlippageUp DEF ClientInv, Orders
  <2> HIDE DEF sent
  <2> QED BY <1>3, <1>4, <2>1, <2>2
<1>6. in \in Token /\ out \in Token /\ in # out
  BY DEF input_of, output_of, Token
<1>7. order.amount \in Nat /\ inverse_fee_defined(TransferFeeOf[out], order.amount)
  BY <1>1, <1>2, PoolAssumption DEF SwapBaseOutput, U64
<1> HIDE DEF in, out
<1>8. credited(TransferFeeOf[out], wanted) = order.amount
  BY <1>6, <1>7, Schedules, SentDelivers DEF sent_for
<1> HIDE DEF result, wanted
<1>9. vault' = [vault EXCEPT ![in]  = @ + result.input_amount,
                             ![out] = @ - wanted]
  BY <1>3 DEF settle, in, out
<1>10. vault[in] \in Nat /\ vault[out] \in Nat /\ DOMAIN vault = Token
  BY <1>6, PoolAssumption DEF Ledger, LedgerTypeOK, U64
<1>11. /\ vault'[in] = vault[in] + result.input_amount
       /\ vault'[out] = vault[out] - wanted
  BY <1>6, <1>9, <1>10
<1>12. /\ vault'[in] - vault[in] = result.input_amount
       /\ vault[out] - vault'[out] = wanted
  BY <1>3, <1>10, <1>11
<1>13. received_of(out) = order.amount /\ sent_of(in) = would_send
  BY <1>4, <1>8, <1>12 DEF received_of, sent_of
<1> QED BY <1>3, <1>4, <1>5, <1>13 DEF in, out

LEMMA DepositEffect ==
  ASSUME Ledger, ClientInv, order.kind = "Deposit", instruction, NEW t \in Token
  PROVE  /\ trading_tokens(order.amount, "Ceiling")[t] \in Nat
         /\ vault'[t] - vault[t] = trading_tokens(order.amount, "Ceiling")[t]
         /\ TransferFeeOf[t].bps = 0
              => trading_tokens(order.amount, "Ceiling")[t] =< order.limit[t]
<1> DEFINE amounts == trading_tokens(order.amount, "Ceiling")
<1>1. Deposit(order.amount, order.limit) /\ order.amount \in U64
  BY DEF instruction, ClientInv, Orders
<1>2. amounts[t] \in Nat /\ vault'[t] = vault[t] + amounts[t]
  BY <1>1, DepositAmounts
<1>3. sent_for(t, amounts[t]) =< order.limit[t]
  BY <1>1 DEF Deposit
<1>4. vault[t] \in Nat
  BY PoolAssumption DEF Ledger, LedgerTypeOK, U64
<1> HIDE DEF amounts
<1>5. vault'[t] - vault[t] = amounts[t]
  BY <1>2, <1>4
<1>6. TransferFeeOf[t].bps = 0 => amounts[t] =< order.limit[t]
  BY <1>2, <1>3, NoFee
<1> QED BY <1>2, <1>5, <1>6 DEF amounts

LEMMA WithdrawEffect ==
  ASSUME Ledger, ClientInv, order.kind = "Withdraw", instruction, NEW t \in Token
  PROVE  /\ trading_tokens(order.amount, "Floor")[t] \in Nat
         /\ vault[t] - vault'[t] = trading_tokens(order.amount, "Floor")[t]
         /\ TransferFeeOf[t].bps = 0
              => trading_tokens(order.amount, "Floor")[t] >= order.limit[t]
<1> DEFINE worth == trading_tokens(order.amount, "Floor")
           net   == vault_amount_without_fee(t)
<1>1. Withdraw(order.amount, order.limit) /\ order.amount \in U64
  BY DEF instruction, ClientInv, Orders
<1>2. worth[t] \in Nat /\ worth[t] < net /\ vault'[t] = vault[t] - worth[t]
  BY <1>1, WithdrawAmounts
<1>3. credited(TransferFeeOf[t], least(net, worth[t])) >= order.limit[t]
  BY <1>1 DEF Withdraw
<1>4. vault[t] \in Nat /\ net \in Int
  BY NetInt, PoolAssumption DEF Ledger, LedgerTypeOK, U64
<1> HIDE DEF worth, net
<1>5. vault[t] - vault'[t] = worth[t]
  BY <1>2, <1>4
<1>6. least(net, worth[t]) = worth[t]
  BY <1>2, <1>4 DEF least
<1>7. TransferFeeOf[t].bps = 0 => worth[t] >= order.limit[t]
  BY <1>2, <1>3, <1>6, NoFee
<1> QED BY <1>2, <1>5, <1>7 DEF worth

\* Whatever the pool, a transaction that meets it as its command read it does to
\* the unit what was printed: the client's copies of the program's arithmetic
\* agree with it for every reserve, rate, quote and transfer fee.
THEOREM PreviewAlwaysExact == ClientSpec => PreviewExact
<1> DEFINE Inv == Settings /\ Ledger /\ ClientInv
           Step == fresh => as_previewed
<1>1. Inv /\ Inv' /\ [ClientNext]_clientVars => Step
  <2> SUFFICES ASSUME Settings, Ledger, ClientInv, [ClientNext]_clientVars, fresh
               PROVE  as_previewed
    OBVIOUS
  <2>1. ASSUME executed("SwapBaseIn"), inventory_skew_bps = 0
        PROVE  received_of(output_of(order.direction)) = order.quoted
    <3>1. order.kind = "SwapBaseIn" /\ instruction
      BY <2>1, ExecutedInstruction
    <3>2. would_receive = order.quoted
      BY <2>1, <3>1, PreviewIsProgram DEF ClientInv, Orders, Current, would_receive
    <3> QED BY <3>1, <3>2, BaseInEffect
  <2>2. ASSUME executed("SwapBaseOut"), inventory_skew_bps = 0
        PROVE  sent_of(input_of(order.direction)) = order.quoted
    <3>1. order.kind = "SwapBaseOut" /\ instruction
      BY <2>2, ExecutedInstruction
    <3>2. would_send = order.quoted
      BY <2>2, <3>1, PreviewIsProgram DEF ClientInv, Orders, Current, would_send
    <3> QED BY <3>1, <3>2, BaseOutEffect
  <2>3. ASSUME executed("Deposit"), NEW t \in Token
        PROVE  vault'[t] - vault[t] = order.quoted[t]
    <3>1. order.kind = "Deposit" /\ instruction
      BY <2>3, ExecutedInstruction
    <3>2. order.quoted = trading_tokens(order.amount, "Ceiling")
      BY <3>1 DEF ClientInv, Current
    <3> QED BY <3>1, <3>2, DepositEffect
  <2>4. ASSUME executed("Withdraw"), NEW t \in Token
        PROVE  vault[t] - vault'[t] \in {order.quoted[t] - 1, order.quoted[t]}
    <3> DEFINE floor == trading_tokens(order.amount, "Floor")[t]
    <3>1. order.kind = "Withdraw" /\ instruction
      BY <2>4, ExecutedInstruction
    <3>2. /\ order.quoted = trading_tokens(order.amount, "Ceiling")
          /\ lp_supply > 0 /\ order.amount \in U64
      BY <3>1 DEF ClientInv, Orders, Current
    <3>3. created
      BY <3>2 DEF Ledger, NothingBeforeCreation
    <3>4. order.quoted[t] \in {floor, floor + 1} /\ floor \in Nat
      BY <3>2, <3>3, WorthNat
    <3>5. vault[t] - vault'[t] = floor
      BY <3>1, WithdrawEffect
    <3> HIDE DEF floor
    <3> QED BY <3>4, <3>5
  <2> QED BY <2>1, <2>2, <2>3, <2>4 DEF as_previewed
<1>2. Inv /\ Inv' /\ [ClientNext]_clientVars => [Step]_clientVars
  BY <1>1
<1> HIDE DEF Step
<1>3. ClientSpec => [][Step]_clientVars
  BY <1>2, ClientInvariants, PTL DEF ClientSpec
<1> QED BY <1>3 DEF PreviewExact, Step

\* Whatever others do to the pool in between, whatever they move, push or change,
\* an executed order costs its user at most the configured slippage, on the
\* amounts they were shown and transfer fees included.
THEOREM SlippageAlwaysHonoured == ClientSpec => SlippageHonoured
<1> DEFINE Inv == Settings /\ Ledger /\ ClientInv
           num == SLIPPAGE.num
           den == SLIPPAGE.den
<1>a. num \in Nat /\ den \in Nat \ {0} /\ num =< den
  BY SlippageFields
<1>b. \A a, b \in Nat : a =< b => a * den =< b * den
  BY <1>a
<1>c. ASSUME NEW a \in Nat, NEW b \in Nat, a =< b
      PROVE  /\ a * (den + num) =< b * (den + num)
             /\ a * (den + num) \in Nat /\ b * (den + num) \in Nat
  BY <1>a, <1>c
<1>1. Inv /\ Inv' /\ [ClientNext]_clientVars => within_slippage
  <2> SUFFICES ASSUME Settings, Ledger, ClientInv, [ClientNext]_clientVars
               PROVE  within_slippage
    OBVIOUS
  <2>1. ASSUME executed("SwapBaseIn")
        PROVE  received_of(output_of(order.direction)) * den
                 >= order.quoted * (den - num) - den
    <3>1. order.kind = "SwapBaseIn" /\ instruction
      BY <2>1, ExecutedInstruction
    <3>2. order.quoted \in Nat /\ order.limit \in amount_with_slippage(order.quoted, FALSE)
      BY <3>1 DEF ClientInv, Orders
    <3>3. order.limit \in Nat /\ order.limit * den >= order.quoted * (den - num) - den
      BY <3>2, SlippageDown
    <3>4. /\ would_receive \in Nat /\ order.limit =< would_receive
          /\ received_of(output_of(order.direction)) = would_receive
      BY <3>1, <3>3, BaseInEffect
    <3>5. order.limit * den =< would_receive * den
      BY <1>b, <3>3, <3>4
    <3>6. /\ order.quoted * (den - num) \in Int /\ order.limit * den \in Int
          /\ would_receive * den \in Int
      BY <1>a, <3>2, <3>3, <3>4
    <3> QED BY <1>a, <3>3, <3>4, <3>5, <3>6
  <2>2. ASSUME executed("SwapBaseOut")
        PROVE  /\ received_of(output_of(order.direction)) = order.amount
               /\ sent_of(input_of(order.direction)) * den
                    =< order.quoted * (den + num) + den
    <3>1. order.kind = "SwapBaseOut" /\ instruction
      BY <2>2, ExecutedInstruction
    <3>2. order.quoted \in Nat /\ order.limit \in amount_with_slippage(order.quoted, TRUE)
      BY <3>1 DEF ClientInv, Orders
    <3>3. order.limit \in Nat /\ order.limit * den =< order.quoted * (den + num) + den
      BY <3>2, SlippageUp
    <3>4. /\ would_send \in Nat /\ would_send =< order.limit
          /\ received_of(output_of(order.direction)) = order.amount
          /\ sent_of(input_of(order.direction)) = would_send
      BY <3>1, BaseOutEffect
    <3>5. would_send * den =< order.limit * den
      BY <1>b, <3>3, <3>4
    <3>6. /\ order.quoted * (den + num) \in Int /\ order.limit * den \in Int
          /\ would_send * den \in Int
      BY <1>a, <3>2, <3>3, <3>4
    <3> QED BY <1>a, <3>3, <3>4, <3>5, <3>6
  <2>3. ASSUME NEW t \in Token, TransferFeeOf[t].bps = 0, executed("Deposit")
        PROVE  (vault'[t] - vault[t]) * den =< order.quoted[t] * (den + num) + den
    <3> DEFINE quoted == order.quoted[t]
               limit  == order.limit[t]
               paid   == vault'[t] - vault[t]
    <3>1. order.kind = "Deposit" /\ instruction
      BY <2>3, ExecutedInstruction
    <3>2. quoted \in Nat /\ limit \in amount_with_slippage(as_u64(quoted), TRUE)
      BY <2>3, <3>1, LiquidityLimits DEF ClientInv, Orders
    <3>3. as_u64(quoted) \in Nat /\ as_u64(quoted) =< quoted
      BY <3>2, AsU64 DEF U64
    <3>4. limit \in Nat /\ limit * den =< as_u64(quoted) * (den + num) + den
      BY <3>2, <3>3, SlippageUp
    <3>5. paid \in Nat /\ paid =< limit
      BY <2>3, <3>1, DepositEffect
    <3> HIDE DEF quoted, limit, paid
    <3>6. paid * den =< limit * den
      BY <1>b, <3>4, <3>5
    <3>7. as_u64(quoted) * (den + num) =< quoted * (den + num)
      BY <1>c, <3>2, <3>3
    <3>8. /\ as_u64(quoted) * (den + num) \in Int /\ quoted * (den + num) \in Int
          /\ paid * den \in Int /\ limit * den \in Int
      BY <1>a, <3>2, <3>3, <3>4, <3>5
    <3>9. paid * den =< quoted * (den + num) + den
      BY <1>a, <3>4, <3>6, <3>7, <3>8
    <3> QED BY <3>9 DEF quoted, paid
  <2>4. ASSUME NEW t \in Token, TransferFeeOf[t].bps = 0, executed("Withdraw"),
               order.quoted[t] \in U64
        PROVE  (vault[t] - vault'[t]) * den >= order.quoted[t] * (den - num) - den
    <3> DEFINE quoted == order.quoted[t]
               limit  == order.limit[t]
               paid   == vault[t] - vault'[t]
    <3>1. order.kind = "Withdraw" /\ instruction
      BY <2>4, ExecutedInstruction
    <3>2. quoted \in Nat /\ limit \in amount_with_slippage(as_u64(quoted), FALSE)
      BY <2>4, <3>1, LiquidityLimits DEF ClientInv, Orders
    <3>3. as_u64(quoted) = quoted
      BY <2>4, <3>2, AsU64
    <3>4. limit \in Nat /\ limit * den >= quoted * (den - num) - den
      BY <3>2, <3>3, SlippageDown
    <3>5. paid \in Nat /\ limit =< paid
      BY <2>4, <3>1, <3>4, WithdrawEffect
    <3> HIDE DEF quoted, limit, paid
    <3>6. limit * den =< paid * den
      BY <1>b, <3>4, <3>5
    <3>7. quoted * (den - num) \in Int /\ paid * den \in Int /\ limit * den \in Int
      BY <1>a, <3>2, <3>4, <3>5
    <3>8. paid * den >= quoted * (den - num) - den
      BY <1>a, <3>4, <3>6, <3>7
    <3> QED BY <3>8 DEF quoted, paid
  <2> QED BY <2>1, <2>2, <2>3, <2>4 DEF within_slippage
<1>2. Inv /\ Inv' /\ [ClientNext]_clientVars => [within_slippage]_clientVars
  BY <1>1
<1>3. ClientSpec => [][within_slippage]_clientVars
  BY <1>2, ClientInvariants, PTL DEF ClientSpec
<1> QED BY <1>3 DEF SlippageHonoured

-----------------------------------------------------------------------------
(* The pool under its clients, whose orders are of any amounts and limits. *)

\* An order that is executed is a deposit, a withdrawal or a swap to the fund,
\* and to the observations.
LEMMA ExecuteIsStep ==
  ASSUME Settings, Ledger, Ledger', Orders, instruction
  PROVE  Fund!Next /\ Observed!ObservedNext
<1>1. ASSUME observation' = observation, clock' = clock
      PROVE  Observed!ObservedNext
  BY <1>1, PricesExist DEF Observed!ObservedNext, Observed!PriceMoves, ObservedPair
<1>2. CASE order.kind = "Deposit" /\ Deposit(order.amount, order.limit)
  <2>1. Fund!Issue
    BY <1>2, DepositIssues DEF Orders
  <2>2. observation' = observation /\ clock' = clock
    BY <1>2 DEF Deposit
  <2> QED BY <1>1, <2>1, <2>2 DEF Fund!Next
<1>3. CASE order.kind = "Withdraw" /\ Withdraw(order.amount, order.limit)
  <2>1. Fund!Redeem
    BY <1>3, WithdrawRedeems DEF Orders
  <2>2. observation' = observation /\ clock' = clock
    BY <1>3 DEF Withdraw
  <2> QED BY <1>1, <2>1, <2>2 DEF Fund!Next
<1>4. CASE \/ order.kind = "SwapBaseIn"
              /\ SwapBaseInput(order.direction, order.amount, order.limit)
           \/ order.kind = "SwapBaseOut"
              /\ SwapBaseOutput(order.direction, order.limit, order.amount)
  <2>1. order.direction \in TradeDirection /\ order.amount \in U64
    BY <1>4 DEF Orders
  <2>2. AnySwap
    BY <1>4, <2>1 DEF AnySwap
  <2> QED BY <2>2, SwapTrades, SwapObserves DEF Fund!Next, Observed!ObservedNext
<1> QED BY <1>2, <1>3, <1>4 DEF instruction

LEMMA ClientImplements ==
  (Settings /\ Ledger /\ ClientInv) /\ (Settings /\ Ledger /\ ClientInv)'
      /\ [ClientNext]_clientVars
    => [Fund!Next]_(Fund!fundVars) /\ [Observed!ObservedNext]_(Observed!observedVars)
<1> SUFFICES ASSUME Settings, Ledger, ClientInv, Ledger', [ClientNext]_clientVars
             PROVE  /\ [Fund!Next]_(Fund!fundVars)
                    /\ [Observed!ObservedNext]_(Observed!observedVars)
  OBVIOUS
<1>1. CASE Execute
  BY <1>1, ExecuteIsStep DEF Execute, ClientInv
<1>2. CASE Next \/ UNCHANGED vars
  BY <1>2, FundStep, ObservedStep
<1>3. Command => UNCHANGED vars
  BY DEF Command, CommandDeposit, CommandWithdraw, CommandSwapBaseIn,
         CommandSwapBaseOut, send
<1> QED BY <1>1, <1>2, <1>3 DEF ClientNext, Fail, Others, clientVars

\* With clients that send what they like, at whatever limits, the pool still owns
\* more than it owes.
THEOREM ReservesLeftByClients == ClientSpec => []ReservesLeft
<1>1. Settings /\ Ledger /\ ClientInv => ReservesLeft
  BY DEF Ledger
<1> QED BY <1>1, ClientInvariants, PTL

\* To its holders it is still the fund: no order of a client dilutes them or
\* trades beyond the quote.
THEOREM ClientsMeetFund == ClientSpec => ImplementsFund
<1>1. ClientInit => Fund!Init
  BY FundInitially DEF ClientInit
<1> QED BY <1>1, ClientImplements, ClientInvariants, PTL
       DEF ClientSpec, ImplementsFund, Fund!Spec

\* And its observations are still those of ObservedPrice.
THEOREM ClientsAreObserved == ClientSpec => ImplementsObserved
<1>1. ClientInit => Observed!ObservedInit
  BY ObservedInitially DEF ClientInit
<1> QED BY <1>1, ClientImplements, ClientInvariants, PTL
       DEF ClientSpec, ImplementsObserved, Observed!ObservedSpec

\* No deposit or withdrawal sent by a client, whatever its limits, lowers what a
\* pool token is worth.
THEOREM ValuePerShareNeverFellByClients == ClientSpec => ValuePerShareNeverFalls
<1> DEFINE Inv == Settings /\ Ledger /\ ClientInv
           Step == created /\ ~(\E direction \in TradeDirection : Swapped(direction)) =>
                     \A t \in Token : vault_amount_without_fee(t)' * lp_supply
                                        >= vault_amount_without_fee(t) * lp_supply'
<1>1. Inv /\ Inv' /\ [ClientNext]_clientVars => Step
  BY ClientImplements, FundKeepsValue
<1>2. Inv /\ Inv' /\ [ClientNext]_clientVars => [Step]_vars
  BY <1>1
<1> HIDE DEF Step
<1>3. ClientSpec => [][Step]_vars
  BY <1>2, ClientInvariants, PTL DEF ClientSpec
<1> QED BY <1>3 DEF ValuePerShareNeverFalls, Step

\* Only a swap moves the reserves apart, sent by a client or by others.
LEMMA OnlySwapsSwapByClients ==
  ASSUME Settings, Ledger, ClientInv, Ledger', [ClientNext]_clientVars,
         NEW way \in TradeDirection, Swapped(way)
  PROVE  AnySwap
<1>1. CASE Next \/ UNCHANGED vars
  BY <1>1, OnlySwapsSwap, SwapIsAnySwap
<1>2. CASE Execute
  <2>1. instruction /\ Orders
    BY <1>2 DEF Execute, ClientInv
  <2>2. CASE \/ order.kind = "Deposit" /\ Deposit(order.amount, order.limit)
             \/ order.kind = "Withdraw" /\ Withdraw(order.amount, order.limit)
    <3>1. order.amount \in U64
      BY <2>1, <2>2 DEF Orders
    <3> QED BY <2>2, <3>1, LiquidityIsNoSwap
  <2>3. CASE \/ order.kind = "SwapBaseIn"
                /\ SwapBaseInput(order.direction, order.amount, order.limit)
             \/ order.kind = "SwapBaseOut"
                /\ SwapBaseOutput(order.direction, order.limit, order.amount)
    <3>1. order.direction \in TradeDirection /\ order.amount \in U64
      BY <2>1, <2>3 DEF Orders
    <3> QED BY <2>3, <3>1 DEF AnySwap
  <2> QED BY <2>1, <2>2, <2>3 DEF instruction
<1>3. Command => UNCHANGED vars
  BY DEF Command, CommandDeposit, CommandWithdraw, CommandSwapBaseIn,
         CommandSwapBaseOut, send
<1> QED BY <1>1, <1>2, <1>3 DEF ClientNext, Fail, Others, clientVars

\* No order gets more out of the pool than its quote, at the worst price its
\* keeper and creator allow: not when the pool has moved since the preview, nor
\* with the slippage the user grants.
THEOREM QuoteNeverWasBeatenByClients == ClientSpec => QuoteNeverBeaten
<1> DEFINE Inv == Settings /\ Ledger /\ ClientInv
           Step == \A direction \in TradeDirection :
                     Swapped(direction) => NoLossAt(worst_price(direction))
<1>1. Inv /\ Inv' /\ [ClientNext]_clientVars => Step
  <2> SUFFICES ASSUME Settings, Ledger, ClientInv, Ledger', [ClientNext]_clientVars,
                      NEW direction \in TradeDirection, Swapped(direction)
               PROVE  NoLossAt(worst_price(direction))
    OBVIOUS
  <2>1. AnySwap
    BY OnlySwapsSwapByClients
  <2>2. oracle.bid \in Nat /\ oracle.ask \in Nat
    BY <2>1, SwapQuoted
  <2> QED BY <2>1, <2>2, SwapWithinQuote DEF worst_price
<1>2. Inv /\ Inv' /\ [ClientNext]_clientVars => [Step]_vars
  BY <1>1
<1> HIDE DEF Step
<1>3. ClientSpec => [][Step]_vars
  BY <1>2, ClientInvariants, PTL DEF ClientSpec
<1> QED BY <1>3 DEF QuoteNeverBeaten, Step

=============================================================================
