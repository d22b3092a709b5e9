------------------------------ MODULE RoundTrip ------------------------------
(***************************************************************************)
(* Trading back and forth on one quote.  Module Pool with one history      *)
(* variable: the net reserves when the present series of swaps began.      *)
(*                                                                         *)
(* A series lasts until the quote changes or pool tokens are minted or     *)
(* burned by the pool.  Time may pass in it, and fees be collected, gifts  *)
(* sent and the pool administered: none of it takes from the reserves.     *)
(***************************************************************************)
EXTENDS Pool

VARIABLE mark      \* net reserves at the beginning of the series

roundTripVars == <<vars, mark>>

quoted == <<oracle.bid, oracle.ask, oracle.exponent>>

RoundTripInit == Init /\ mark = net_reserves

RoundTripNext ==
  /\ Next
  /\ mark' = IF lp_supply' = lp_supply /\ quoted' = quoted
               THEN mark ELSE net_reserves'

RoundTripSpec == RoundTripInit /\ [][RoundTripNext]_roundTripVars

-----------------------------------------------------------------------------
(* Properties. *)

\* The pool has less of one token than when the series began, and no more of
\* the other.
TakenForNothing ==
  /\ \A t \in Token : net_reserves[t] =< mark[t]
  /\ \E t \in Token : net_reserves[t] < mark[t]

\* The most the skew may move either side of the quote.
skew_cap == IF pool.inventory_skew_enabled THEN pool.inventory_skew_max_bps ELSE 0

\* The bid moved up by the cap of the skew and the ask moved down by it do not
\* cross: "the cap is the adverse-selection bound" (curve/oracle_curve.rs:70).
SkewCovered ==
  shift_mantissa_by_signed_bps(oracle.bid, skew_cap)
    =< shift_mantissa_by_signed_bps(oracle.ask, -skew_cap)

\* However a trader splits their trades in both directions, on one quote they
\* never leave the pool with less of one token and no more of the other if the
\* spread covers the skew, as it does wherever there is no skew: what rewards
\* the first half of a round trip is paid back in the second ("round-trip
\* through skew should always cost more in fees + spread than it gives back",
\* curve/oracle_curve.rs:71).
RoundTripCosts == SkewCovered => ~TakenForNothing

\* The fee of every trade is worth at least the cap of the skew.
FeeCoversSkew ==
  effective_trade_fee_rate * BPS >= skew_cap * FEE_RATE_DENOMINATOR_VALUE

\* And where the fees cover it ("always cost more in fees + spread",
\* curve/oracle_curve.rs:71): two of them cost more than the one trade of a round
\* trip that rebalances may get from the skew, "up to max_bps" (:70).
FeeCoveredRoundTripCosts == FeeCoversSkew => ~TakenForNothing

=============================================================================
