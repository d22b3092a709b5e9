------------------------------ MODULE MCQuotes ------------------------------
(***************************************************************************)
(* Values for the constants of SwapQuotes and of QuoteWidening, and one    *)
(* run of both: each moves while the other rests where it has nothing more *)
(* to ask.                                                                 *)
(***************************************************************************)
EXTENDS SwapQuotes, QuoteWidening

\* Reserves from one unit up, prices either side of par and far from it, and
\* fee rates from none to more than half.
Spots == {[num |-> n, den |-> d] : n, d \in {1, 3}}
Rates == {0, 3000, 400000, 600000}

SmallTerms ==
  [ input_vault : {1, 6, 13}, output_vault : {2, 13},
    trade_fee_rate : Rates, creator_fee_rate : {0, 200000},
    protocol_fee_rate : {700000}, fund_fee_rate : {0, 300000},
    is_creator_fee_on_input : BOOLEAN, spot : Spots ]

\* Sums of a config's rates stay below one (rates_allowed).
AllowedTerms ==
  {t \in SmallTerms : t.trade_fee_rate + t.creator_fee_rate < FEE_RATE_DENOMINATOR_VALUE}

\* No fee, fees that round, fees that reach their cap, and the maximum rate.
SmallSchedules ==
  {[bps |-> b, max |-> m] : b \in {0, 1, 3333, 9999, 10000}, m \in {0, 1, 4, 100}}

\* The terms do not matter to a transfer, nor its fee to a quote.
SmallCases ==
  [terms : AllowedTerms, schedule : {[bps |-> 0, max |-> 0]}]
    \union [terms : {CHOOSE t \in AllowedTerms : TRUE}, schedule : SmallSchedules]

Option(s) == {{}} \union {{v} : v \in s}

\* Prices down to one unit and none, where half a spread is less than a unit
\* and where it is many, with market sides inside, outside and meaningless.
SmallStarts ==
  [ price : {-1, 0, 1, 2, 3, 100, 20000}, exponent : {-1}, confidence : {{}},
    best_bid : Option({-1, 0, 1, 99, 20500}), best_ask : Option({0, 2, 101, 25000}) ]

\* The spreads a pool may have, from the least to the most, and any rate.
SmallCaches ==
  [min_spread_bps : {1, 40, 1000}, base_trade_fee_rate : {0, 2500, 999999}]

SmallConfidences == {0, 1, 2, 30, 60, 2000}

-----------------------------------------------------------------------------
\* Nothing left to ask of a swap, and no price that can lose confidence.
NoMoreAsked ==
  /\ amount = MAX_AMOUNT
  /\ \E c \in {CHOOSE c \in SmallCases : TRUE} : terms = c.terms /\ schedule = c.schedule
NoConfidenceLeft ==
  /\ q = [price |-> 0, exponent |-> -1, confidence |-> {2000}, best_bid |-> {}, best_ask |-> {}]
  /\ cache = [min_spread_bps |-> 1, base_trade_fee_rate |-> 0]

AllQuotesSpec ==
  /\ \/ QuotesInit /\ NoConfidenceLeft
     \/ WideningInit /\ NoMoreAsked
  /\ [][ \/ AskMore /\ UNCHANGED wideningVars
         \/ LoseConfidence /\ UNCHANGED quoteVars ]_<<quoteVars, wideningVars>>

=============================================================================
