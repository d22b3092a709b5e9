------------------------------ MODULE MCKeeper ------------------------------
(***************************************************************************)
(* Values for the constants of Keeper.                                     *)
(***************************************************************************)
EXTENDS FollowedPool

NoTransferFee == [t \in Token |-> [bps |-> 0, max |-> 0]]
Small == {[t \in Token |-> 6]}
OnePool ==
  {[ open_time |-> 0, pyth_price_feed_id |-> 1, min_spread_bps |-> 1000,
     inventory_skew_enabled |-> FALSE, inventory_skew_deadzone_bps |-> 0,
     inventory_skew_bps_per_pct |-> 0, inventory_skew_max_bps |-> 0 ]}
LowFee == {[trade |-> 2500, protocol |-> 0, fund |-> 0, creator |-> 0]}
None == {}

NoFee == {[trade |-> 0, protocol |-> 0, fund |-> 0, creator |-> 0]}

\* A price alone, of token_1 per token_0 in hundredths.
Price(mantissa) ==
  [ complete |-> TRUE, price |-> mantissa, exponent |-> -2,
    confidence |-> {}, best_bid |-> {}, best_ask |-> {} ]
Plain == Price(100)
\* A market wider than the pool, with a confidence as large as the price.
Wild == [Price(100) EXCEPT !.confidence = {100}, !.best_bid = {80}, !.best_ask = {130}]
\* A market tighter than the pool.
Tight == [Price(100) EXCEPT !.confidence = {0}, !.best_bid = {99}, !.best_ask = {101}]
Zero == Price(0)
Partial == [Price(100) EXCEPT !.complete = FALSE]

AllPrices == {Wild, Tight}
TwoPrices == {Plain, Zero, Partial}
OnePrice == {Plain}

\* The pool's reserves are no longer those it was opened with.
traded == created /\ vault \notin InitAmounts

quiet == txs = {} /\ \A k \in Bots : bot[k].pc = "down"

\* What the others do in the runs: the admin opens a plain pool, changes its
\* trade rate and its keeper, and in the end, whatever the bots have left as the
\* quote, the pool is traded with.
OthersInBounds ==
  \/ \E keeper \in Keys, amounts \in InitAmounts, args \in PoolArgs :
       Initialize(Admin, amounts, args, keeper)
  \/ created /\ Tick
  \/ ~traded /\ \E value \in Rates : UpdateTradeFeeRate(value)
  \/ ~traded /\ \E keeper \in Keys : SetOracleKeeper(keeper)
  \/ quiet /\ Swap

\* The processes that run on without a stream.
deaf == {k \in Bots : running(k) /\ ~bot[k].stream}

\* The bots start when the pool has opened; one of them at a time goes deaf.
BoundedNext ==
  \/ OthersInBounds /\ UNCHANGED <<published, bot, txs, quoted, crashes>>
  \/ clock = MAX_TIME /\ ~traded /\ Serve /\ Cardinality(deaf') =< 1

BoundedSpec == KeeperInit /\ [][BoundedNext]_keeperVars
FairBoundedSpec == BoundedSpec /\ KeeperFairness

=============================================================================
