---------------------------- MODULE ObservedPrice ----------------------------
(***************************************************************************)
(* What the observations of a pool depend on: module Pool reduced to its   *)
(* observation account, the clock and the prices in its reserves, which    *)
(* anything may move.                                                      *)
(***************************************************************************)
EXTENDS Observation

CONSTANTS
  Prices,      \* [price_0, price_1] of the reserves: each token in the other
  MAX_TIME     \* the clock stops here (bound of the model)

ASSUME ObservedAssumption ==
  /\ Prices \subseteq [price_0 : Nat, price_1 : Nat]
  /\ MAX_TIME \in Nat

VARIABLES
  observation, \* ObservationState
  clock,       \* block timestamp
  price        \* the prices in the reserves

observedVars == <<observation, clock, price>>

ObservedInit ==
  /\ observation = EmptyObservation
  /\ clock = 1
  /\ price \in Prices

\* A swap observes the prices it found and leaves others.
SwapObserved ==
  /\ observation' = update_observation(observation, clock, price.price_0, price.price_1)
  /\ price' \in Prices
  /\ UNCHANGED clock

\* A gift, a deposit or a withdrawal moves them, unobserved.
PriceMoves ==
  /\ price' \in Prices
  /\ UNCHANGED <<observation, clock>>

SecondPasses ==
  /\ clock < MAX_TIME
  /\ clock' = clock + 1
  /\ UNCHANGED <<observation, price>>

ObservedNext == SwapObserved \/ PriceMoves \/ SecondPasses

ObservedSpec == ObservedInit /\ [][ObservedNext]_observedVars

=============================================================================
