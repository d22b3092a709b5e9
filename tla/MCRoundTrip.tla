----------------------------- MODULE MCRoundTrip -----------------------------
(***************************************************************************)
(* Values for the constants of RoundTrip.                                  *)
(***************************************************************************)
EXTENDS RoundTrip

NoTransferFee == [t \in Token |-> [bps |-> 0, max |-> 0]]
Amounts == {[t \in Token |-> 1000]}

\* A pool without skew, and one with the strongest skew the code allows.
Pool(skew, per_pct, max) ==
  [ open_time |-> 0, pyth_price_feed_id |-> 1, min_spread_bps |-> 40,
    inventory_skew_enabled |-> skew, inventory_skew_deadzone_bps |-> 0,
    inventory_skew_bps_per_pct |-> per_pct, inventory_skew_max_bps |-> max ]
Pools == {Pool(FALSE, 100, 1000), Pool(TRUE, 100, 1000)}

\* Bid and ask equal: no spread and no fee hides what the skew gives.  At par
\* the skew follows every trade, near twice par it is at its cap throughout.
SharpQuotes ==
  {[bid |-> p, ask |-> p, exponent |-> -3, dynamic_fee_rate |-> 0] : p \in {1000, 1900}}
\* A spread that just covers the skew.
CoveringQuote == [bid |-> 1000, ask |-> 1230, exponent |-> -3, dynamic_fee_rate |-> 0]
AllQuotes == SharpQuotes \union {CoveringQuote}
NoFees == {[trade |-> 0, protocol |-> 0, fund |-> 0, creator |-> 0]}
None == {}

\* A mild skew capped at a tenth of a percent, a fee of a quarter of a percent,
\* and a price of one in tenths.
MildPools == {Pool(TRUE, 10, 10)}
QuarterPercent == {[trade |-> 2500, protocol |-> 0, fund |-> 0, creator |-> 0]}
CoarseQuotes == {[bid |-> 10, ask |-> 10, exponent |-> -1, dynamic_fee_rate |-> 0]}
LargeAmounts == {[t \in Token |-> 4000]}

\* Bound of the run: trades that leave the reserves near those the pool opened
\* with and hardly worth more, on one price, and no administration that has no
\* bearing on them.
value(reserves) == reserves[0] * oracle'.bid + reserves[1] * 1000
InBounds ==
  /\ \A t \in Token : vault'[t] \in {0} \union 900 .. 1070
  /\ value(vault') =< value([t \in Token |-> 1000]) + 8000
  /\ oracle.bid > 0 => quoted' = quoted
  /\ permissions' = {}
  /\ ~amm_config'.disable_create_pool

BoundedSpec ==
  RoundTripInit /\ [][RoundTripNext /\ InBounds]_roundTripVars

=============================================================================
