--------------------------- MODULE QuoteWidening ---------------------------
(***************************************************************************)
(* The quote a keeper makes of one price, as the price's confidence        *)
(* interval widens: no behaviour of the system, only one price after       *)
(* another that differs from the last in its confidence.                   *)
(***************************************************************************)
EXTENDS OracleMath

CONSTANTS
  Starts,          \* prices, without a confidence
  Caches,          \* what a bot reads of its pool and config at startup
  Confidences      \* confidence intervals

\* What creation and the config allow of a spread and a rate.
ASSUME WideningAssumption ==
  /\ I64_MAX \in Nat
  /\ U64_RANGE \in Nat \ {0}
  /\ Starts \subseteq [ price : Int, exponent : Int, confidence : SUBSET Int,
                        best_bid : SUBSET Int, best_ask : SUBSET Int ]
  /\ Caches \subseteq [min_spread_bps : Nat, base_trade_fee_rate : Nat]
  /\ \A c \in Caches : /\ c.min_spread_bps =< 1000
                        /\ c.base_trade_fee_rate < FEE_RATE_DENOMINATOR_VALUE
  /\ Confidences \subseteq Int

VARIABLES q, cache

wideningVars == <<q, cache>>

WideningInit == q \in Starts /\ cache \in Caches

LoseConfidence ==
  /\ \E c \in Confidences :
       /\ c > or_zero(q.confidence)
       /\ q' = [q EXCEPT !.confidence = {c}]
  /\ UNCHANGED cache

WideningSpec == WideningInit /\ [][LoseConfidence]_wideningVars

-----------------------------------------------------------------------------
(* Properties. *)

\* The less certain the price, the further both sides of the quote are from it
\* and the higher the fee, with all caps and roundings: no confidence falls back
\* to the quote of a certain price.  (Of the fee, as long as the confidence in
\* basis points is a u64, to which it is cut.)
WidensWithUncertainty ==
  [][ update_fields_defined(q, cache) /\ update_fields_defined(q, cache)' =>
        LET before == compute_update_fields(q, cache)
            after  == compute_update_fields(q, cache)'
        IN /\ after.bid =< before.bid
           /\ after.ask >= before.ask
           /\ confidence_bps(q)' < U64_RANGE
                => after.dynamic_fee_rate >= before.dynamic_fee_rate ]_wideningVars

\* Every price of two units or more whose ask can be pushed has a quote, for
\* every spread a pool can have, whatever the market's sides say, and the
\* program takes it: a bot never falls silent over a price it could quote.
EveryPriceQuoted ==
  q.price >= 2 /\ effective_ask(q, spread_for(q, cache)) =< I64_MAX =>
    /\ update_fields_defined(q, cache)
    /\ LET fields == compute_update_fields(q, cache)
       IN /\ fields.bid \in 1 .. fields.ask
          /\ fields.dynamic_fee_rate
               \in cache.base_trade_fee_rate .. FEE_RATE_DENOMINATOR_VALUE - 1

=============================================================================
