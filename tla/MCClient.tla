------------------------------ MODULE MCClient ------------------------------
(***************************************************************************)
(* Values for the constants of Client.                                     *)
(***************************************************************************)
EXTENDS Client

\* One mint without a transfer fee, one with a capped fee of a third.
OneTransferFee == [t \in Token |-> IF t = 0 THEN [bps |-> 0, max |-> 0]
                                            ELSE [bps |-> 3333, max |-> 90]]

Opening == {[t \in Token |-> 400]}

\* A skew that is in force as soon as the pool is a tenth out of balance.
Pools ==
  {[ open_time |-> 0, pyth_price_feed_id |-> 1, min_spread_bps |-> 40,
     inventory_skew_enabled |-> TRUE, inventory_skew_deadzone_bps |-> 1000,
     inventory_skew_bps_per_pct |-> 100, inventory_skew_max_bps |-> 1000 ]}

\* One quote with the config's fee, one lower with a dynamic fee.
TwoQuotes ==
  {[bid |-> 95, ask |-> 105, exponent |-> -2, dynamic_fee_rate |-> 0],
   [bid |-> 76, ask |-> 84, exponent |-> -2, dynamic_fee_rate |-> 200000]}

SomeFees == {[trade |-> 50000, protocol |-> 200000, fund |-> 100000, creator |-> 0]}

Tenth == [num |-> 1, den |-> 10]
Nothing == [num |-> 0, den |-> 1]
None == {}

-----------------------------------------------------------------------------
\* Bound of the runs: as many pool tokens as the opening mints, or those after one
\* withdrawal, from which a deposit leads back; reserves near those of the opening
\* and hardly larger per pool token, and no administration but the keeper's.
NearOpening ==
  /\ \A t \in Token : vault'[t] \in {0} \union 300 .. 480
  /\ lp_supply' \in {0, 302, 352}
  /\ (vault'[0] + vault'[1]) * 352 =< 740 * lp_supply'
  /\ permissions' = {}
  /\ ~amm_config'.disable_create_pool

BoundedClientSpec == ClientInit /\ [][ClientNext /\ NearOpening]_clientVars

=============================================================================
