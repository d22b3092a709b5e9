---------------------------- MODULE FollowedPool ----------------------------
(***************************************************************************)
(* The pool, its keepers and the network between them as the followed      *)
(* price of FollowedPrice: the offers are the pushes in the network, the   *)
(* quote is the pool's cached one.                                         *)
(***************************************************************************)
EXTENDS Keeper

terms_of(quote) ==
  [ bid |-> quote.bid, ask |-> quote.ask, exponent |-> quote.exponent,
    fee |-> quote.dynamic_fee_rate ]

offer_of(tx) ==
  [by |-> tx.signer, seq |-> tx.seq, kept |-> tx.awaited, terms |-> terms_of(tx.quote)]

offers == {offer_of(tx) : tx \in txs}

quote_in_force ==
  IF quoted.seq = 0
    THEN {}
    ELSE {[by |-> quoted.by, seq |-> quoted.seq, terms |-> terms_of(oracle)]}

Followed == INSTANCE FollowedPrice
              WITH Follower <- Bots, Key <- Keys, Feed <- Prices,
                   prices <- published, opened <- created,
                   spread <- pool.min_spread_bps, keeper <- oracle.keeper,
                   quote <- quote_in_force

\* Every step of a bot, of the network and of anybody else is one of the
\* followed price or changes nothing of it: two processes' tasks, lost answers,
\* retries and restarts come to no more than offers given up, the quote is always
\* one that its keeper offered of a published price with the spread the pool was
\* opened with, and no bot offers beside or behind what it still stands for.
ImplementsFollowed == Followed!Spec

=============================================================================
