----------------------------- MODULE OracleMath -----------------------------
(***************************************************************************)
(* What the keeper makes of a price (client/src/oracle_math.rs and         *)
(* bot/src/keeper.rs): the spread widened by the confidence, the bid and   *)
(* the ask around the price, the dynamic fee.                              *)
(*                                                                         *)
(* A price is the bot's LatestQuote: an optional field is the set of its   *)
(* value, or the empty set.                                                *)
(***************************************************************************)
EXTENDS Fees, OracleCurve

CONSTANTS
  I64_MAX,    \* largest i64: a mantissa above it cannot be pushed
  U64_RANGE   \* number of u64 values

MAX_CONFIDENCE_SPREAD_BPS == 20
FEE_RATE_UNITS_PER_BPS == 100
U16_MAX == 65535

or_zero(option) == IF option = {} THEN 0 ELSE CHOOSE v \in option : TRUE

\* The confidence interval in basis points of the (positive) price.
confidence_bps(q) ==
  IF or_zero(q.confidence) > 0 THEN (or_zero(q.confidence) * BPS) \div q.price ELSE 0

\* A confidence beyond the cap ignored instead of capped.
compute_confidence_adjusted_min_spread_bps_ignored(min_spread_bps, q) ==
  LET widening == IF q.price > 0 /\ confidence_bps(q) =< MAX_CONFIDENCE_SPREAD_BPS
                    THEN confidence_bps(q) ELSE 0
  IN least(min_spread_bps + widening, U16_MAX)

\* The pool's spread and a capped allowance for the confidence.
compute_confidence_adjusted_min_spread_bps(min_spread_bps, q) ==
  LET widening == IF q.price > 0
                    THEN least(confidence_bps(q), MAX_CONFIDENCE_SPREAD_BPS)
                    ELSE MAX_CONFIDENCE_SPREAD_BPS
  IN least(min_spread_bps + widening, U16_MAX)

\* Half the spread to each side of the price, both rounded down.
bid_floor(q, spread) == (q.price * (2 * BPS - spread)) \div (2 * BPS)
ask_floor(q, spread) == (q.price * (2 * BPS + spread)) \div (2 * BPS)

\* The market's bid where it is better for the trader.
effective_bid_tightened(q, spread) ==
  LET bid == or_zero(q.best_bid)
  IN IF bid > bid_floor(q, spread) THEN bid ELSE bid_floor(q, spread)

\* A missing or meaningless market bid taken as a very low one.
effective_bid_unfiltered(q, spread) ==
  least(or_zero(q.best_bid), bid_floor(q, spread))

\* The market's own bid or ask where it is further out.
effective_bid(q, spread) ==
  LET bid == or_zero(q.best_bid)
  IN IF bid > 0 /\ bid < bid_floor(q, spread) THEN bid ELSE bid_floor(q, spread)

effective_ask(q, spread) ==
  LET ask == or_zero(q.best_ask)
  IN IF ask > 0 /\ ask > ask_floor(q, spread) THEN ask ELSE ask_floor(q, spread)

\* compute_effective_bid_ask_mantissas has a result.
bid_ask_defined(q, spread) ==
  /\ q.price > 0
  /\ effective_bid(q, spread) > 0
  /\ effective_bid(q, spread) =< effective_ask(q, spread)
  /\ effective_ask(q, spread) =< I64_MAX

\* The quotient is cut to 64 bits; the saturations after it are within the cap.
fee_for_confidence(q) == (confidence_bps(q) % U64_RANGE) * FEE_RATE_UNITS_PER_BPS

\* The cap off by one.
compute_dynamic_fee_rate_capped_at_one(base_trade_fee_rate, q) ==
  least(base_trade_fee_rate + (IF q.price > 0 THEN fee_for_confidence(q) ELSE 0),
        FEE_RATE_DENOMINATOR_VALUE)

compute_dynamic_fee_rate(base_trade_fee_rate, q) ==
  least(base_trade_fee_rate + (IF q.price > 0 THEN fee_for_confidence(q) ELSE 0),
        FEE_RATE_DENOMINATOR_VALUE - 1)

spread_for(q, cache) ==
  compute_confidence_adjusted_min_spread_bps(cache.min_spread_bps, q)

\* compute_update_fields has a result, and what it is.
update_fields_defined(q, cache) == bid_ask_defined(q, spread_for(q, cache))

compute_update_fields(q, cache) ==
  [ bid              |-> effective_bid(q, spread_for(q, cache)),
    ask              |-> effective_ask(q, spread_for(q, cache)),
    exponent         |-> q.exponent,
    dynamic_fee_rate |-> compute_dynamic_fee_rate(cache.base_trade_fee_rate, q) ]

=============================================================================
