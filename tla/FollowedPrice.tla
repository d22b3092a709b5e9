---------------------------- MODULE FollowedPrice ----------------------------
(***************************************************************************)
(* What the keepers promise those who trade with a pool, without processes *)
(* and their caches, subscriptions, errors or restarts: a quote that       *)
(* follows a published price.                                              *)
(*                                                                         *)
(* Every quote is an offer that somebody made of one published price, with *)
(* the pool's spread around it.  Offers may be lost, and come late; but    *)
(* who still stands behind an offer has made no newer one, so that only an *)
(* offer long given up can take the quote back to an older price.          *)
(***************************************************************************)
EXTENDS Integers, Sequences

CONSTANTS Follower, Key, Feed

ONE == 10000    \* a spread of the whole price

VARIABLES
  prices,   \* published, the oldest first
  opened,
  spread,   \* of the pool, in parts of ONE, chosen when it opens
  keeper,   \* whose offers the pool takes
  offers,   \* on their way: [by, seq, kept, terms], kept if by stands behind it;
            \* the terms are [bid, ask, exponent, fee]
  quote     \* in force: at most one [by, seq, terms]

followedVars == <<prices, opened, spread, keeper, offers, quote>>

Init == /\ prices = <<>>
        /\ opened = FALSE
        /\ spread = 0
        /\ keeper \in Key
        /\ offers = {}
        /\ quote = {}

PriceComes ==
  /\ \E price \in Feed : prices' = Append(prices, price)
  /\ UNCHANGED <<opened, spread, keeper, offers, quote>>

Open == /\ ~opened
        /\ opened' = TRUE
        /\ spread' \in Nat
        /\ keeper' \in Key
        /\ UNCHANGED <<prices, offers, quote>>

KeeperChosen == /\ opened
                /\ keeper' \in Key
                /\ UNCHANGED <<prices, opened, spread, offers, quote>>

\* Half the spread or more on each side of the price.
around(terms, price) ==
  /\ terms.exponent = price.exponent
  /\ 2 * ONE * terms.bid =< price.price * (2 * ONE - spread)
  /\ 2 * ONE * (terms.ask + 1) > price.price * (2 * ONE + spread)

\* Nobody makes an offer beside one they stand behind, nor of a price older than
\* any they have offered and that may still be, or is, taken.
Offer(o) ==
  /\ opened
  /\ o.by \in Follower
  /\ o.kept
  /\ o.seq \in 1 .. Len(prices)
  /\ around(o.terms, prices[o.seq])
  /\ \A other \in offers :
       other.by = o.by => ~other.kept /\ other.seq =< o.seq
  /\ \A q \in quote : q.by = o.by => q.seq =< o.seq
  /\ offers' = offers \union {o}
  /\ UNCHANGED <<prices, opened, spread, keeper, quote>>

GiveUp(f) ==
  /\ offers' = {IF o.by = f THEN [o EXCEPT !.kept = FALSE] ELSE o : o \in offers}
  /\ UNCHANGED <<prices, opened, spread, keeper, quote>>

Take(o) ==
  /\ o.by = keeper
  /\ quote' = {[by |-> o.by, seq |-> o.seq, terms |-> o.terms]}
  /\ offers' = offers \ {o}
  /\ UNCHANGED <<prices, opened, spread, keeper>>

Lose(o) ==
  /\ offers' = offers \ {o}
  /\ UNCHANGED <<prices, opened, spread, keeper, quote>>

Next ==
  \/ PriceComes \/ Open \/ KeeperChosen
  \/ \E o \in offers' : Offer(o)
  \/ \E f \in Follower : GiveUp(f)
  \/ \E o \in offers : Take(o) \/ Lose(o)

Spec == Init /\ [][Next]_followedVars

=============================================================================
