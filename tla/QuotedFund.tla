----------------------------- MODULE QuotedFund -----------------------------
(***************************************************************************)
(* What the program promises those who hold the tokens of a pool, without  *)
(* vaults, fees, rates, rounding or instructions: a fund of some assets,   *)
(* divided into shares, that trades at a quoted price.                     *)
(*                                                                         *)
(* No share is issued or redeemed at the cost of the others, no trade pays *)
(* more than the quote, and no reserve is ever used up.                    *)
(***************************************************************************)
EXTENDS Integers

CONSTANT Asset

VARIABLES
  reserves,   \* what the holders own of each asset
  shares,     \* how many shares it is divided into
  price       \* the quote for each asset sold to the fund, as a fraction
              \* [num, den] of the other asset: set by others, at any time

fundVars == <<reserves, shares>>

Init == /\ reserves = [a \in Asset |-> 0]
        /\ shares = 0

\* No reserve falls per share.
Undiluted ==
  \A a \in Asset : reserves'[a] * shares >= reserves[a] * shares'

SomeLeft == \A a \in Asset : reserves'[a] > 0

\* The first holder brings some of every asset.
Open == /\ shares = 0
        /\ shares' > 0
        /\ SomeLeft

\* New shares for at least their part of the reserves.
Issue == /\ shares > 0
         /\ shares' > shares
         /\ Undiluted

\* Shares given back, never the last, for at most their part of the reserves.
Redeem == /\ shares' < shares
          /\ shares' > 0
          /\ SomeLeft
          /\ Undiluted

\* The asset "in" is bought for the asset "out", at the quote or cheaper.
Trade(in, out) ==
  /\ shares > 0
  /\ shares' = shares
  /\ SomeLeft
  /\ reserves'[out] < reserves[out]
  /\ \A a \in Asset \ {in, out} : reserves'[a] = reserves[a]
  /\ price[in].num \in Nat \ {0} /\ price[in].den \in Nat \ {0}
  /\ (reserves[out] - reserves'[out]) * price[in].den
       =< (reserves'[in] - reserves[in]) * price[in].num

\* Fees or gifts.
Gain == /\ shares > 0
        /\ shares' = shares
        /\ \A a \in Asset : reserves'[a] >= reserves[a]

Next == \/ Open
        \/ Issue
        \/ Redeem
        \/ Gain
        \/ \E in, out \in Asset : Trade(in, out)

Spec == Init /\ [][Next]_fundVars

=============================================================================
