---------------------------- MODULE ObservedPool ----------------------------
(***************************************************************************)
(* The observations of the pool as those of ObservedPrice: the prices are  *)
(* those of the reserves, and 0 before there are any.                      *)
(***************************************************************************)
EXTENDS Pool

observed_prices ==
  IF created
    THEN [price_0 |-> token_price_x32(0), price_1 |-> token_price_x32(1)]
    ELSE [price_0 |-> 0, price_1 |-> 0]

Observed == INSTANCE ObservedPrice
              WITH Prices <- [price_0 : Nat, price_1 : Nat], price <- observed_prices

\* Whatever moves the reserves, only swaps touch the observation account, and
\* each does so once, with the prices it found and not those it left: what
\* ObservationRing shows of such an account it shows of the pool's.
ImplementsObserved == Observed!ObservedSpec

=============================================================================
