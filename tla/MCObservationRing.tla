-------------------------- MODULE MCObservationRing --------------------------
(***************************************************************************)
(* Values for the constants of ObservationRing.                            *)
(***************************************************************************)
EXTENDS ObservationRing

\* Prices around par, as Q32.32 numbers with Q32 = 2.
TwoPrices == {[price_0 |-> 1, price_1 |-> 4], [price_0 |-> 4, price_1 |-> 1]}

=============================================================================
