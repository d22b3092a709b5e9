------------------------------- MODULE MCPool -------------------------------
(***************************************************************************)
(* Values for the constants of Pool, chosen in the .cfg files by name.     *)
(***************************************************************************)
EXTENDS LpFund, ObservedPool

\* Original-program mints, and mints with a capped transfer fee.
NoTransferFee == [t \in Token |-> [bps |-> 0, max |-> 0]]
SomeTransferFee == [t \in Token |-> IF t = 0 THEN [bps |-> 2000, max |-> 2]
                                             ELSE [bps |-> 10000, max |-> 1]]

\* What a pool is opened with.
Even(n) == {[t \in Token |-> n]}
Small == Even(6)

\* Arguments of a pool without skew, of one that opens late, and refused ones.
PlainPool ==
  [ open_time |-> 0, pyth_price_feed_id |-> 1, min_spread_bps |-> 40,
    inventory_skew_enabled |-> FALSE, inventory_skew_deadzone_bps |-> 0,
    inventory_skew_bps_per_pct |-> 0, inventory_skew_max_bps |-> 0 ]
LatePool == [PlainPool EXCEPT !.open_time = 2]
FeedlessPool == [PlainPool EXCEPT !.pyth_price_feed_id = 0]

PlainPools == {PlainPool}
SomePools == {PlainPool, LatePool, FeedlessPool}

\* Quotes around par, and with a dynamic fee.
At(bid, ask, fee) ==
  [bid |-> bid, ask |-> ask, exponent |-> -1, dynamic_fee_rate |-> fee]
\* Far above par the virtual output side exceeds the real one.
FeeQuotes == {At(9, 11, 500000), At(36, 44, 0)}
BadQuotes == {At(11, 9, 0), At(0, 11, 0), At(9, 11, 1000000)}
SomeQuotes == FeeQuotes \union BadQuotes
\* Far to either side of par, so that small trades buy something.
FarQuotes == {At(36, 44, 0), At(4, 6, 0)}
CostlyQuotes == {At(9, 11, 900000)}

\* Rates of a config.
Config(trade, protocol, fund, creator) ==
  [trade |-> trade, protocol |-> protocol, fund |-> fund, creator |-> creator]
HighFees == {Config(250000, 500000, 500000, 250000)}
SteepFees == {Config(500000, 500000, 500000, 250000)}
AdminRates == {0, 600000}
SwapStopped == {{}, {"Swap"}}
None == {}

-----------------------------------------------------------------------------
\* Bound of the run on liquidity: the pool is created in the first second, with or
\* without a permission, and the admin leaves the rest alone.
OpensAtOnce ==
  /\ permissions \subseteq permissions'
  /\ created' => permissions' = permissions
  /\ ~amm_config'.disable_create_pool
  /\ created' # created => clock = 1

\* The admin has given a permission to the first key and changed nothing else,
\* and the pool, once created, is that key's.
untouched ==
  /\ \E rates \in Configs : amm_config = create_amm_config(rates)
  /\ permissions = {Admin}
  /\ status = {}
  /\ oracle.keeper = Admin
  /\ created => pool.pool_creator = Admin

\* Bound of the run on swaps: in the first second anybody creates the pool and
\* the admin does whatever admins do.  An untouched pool is quoted in that second
\* or in the next, when it opens, also between the trades it then meets.
SwapNext ==
  \/ /\ clock = 1
     /\ CreatePool \/ CollectFees \/ Administer
     /\ oracle'.last_update = 0 \/ untouched'
  \/ clock = 2 /\ untouched /\ Administer /\ untouched'
  \/ untouched /\ (Swap \/ CollectFees \/ External)

SwapSpec == Init /\ [][SwapNext]_vars

\* Bound of the run on liquidity: the pool is quoted in the second second;
\* supply and fees owed hardly grow.
FewShares ==
  /\ OpensAtOnce
  /\ oracle'.last_update # 1
  /\ lp_supply' =< 7
  /\ \A t \in Token : accrued_fees(t)' =< 2

LiquiditySpec == Init /\ [][Next /\ FewShares]_vars

=============================================================================
