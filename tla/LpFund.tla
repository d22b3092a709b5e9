------------------------------- MODULE LpFund -------------------------------
(***************************************************************************)
(* The pool as the fund of QuotedFund: the shares are lp_supply, the       *)
(* reserves what the vaults hold beyond the fees they owe, the quote the   *)
(* one each swap is priced at.                                             *)
(***************************************************************************)
EXTENDS Pool

\* The swap that sells token t to the pool.
selling(t) == IF t = 0 THEN "ZeroForOne" ELSE "OneForZero"

quoted_prices == [t \in Token |-> spot(selling(t))]

Fund == INSTANCE QuotedFund
          WITH Asset <- Token, reserves <- net_reserves, shares <- lp_supply,
               price <- quoted_prices

\* Every instruction, in every order, is a step of the fund or changes nothing
\* of it: pool tokens are minted and burned without loss to the other holders,
\* all swaps pay the quote with its skew or less, fees come out of the trade and
\* not out of the reserves, and collecting them touches no reserve.
ImplementsFund == Fund!Spec

=============================================================================
