--------------------------- MODULE ObservationRing ---------------------------
(***************************************************************************)
(* The observations of a pool over time: module ObservedPrice with         *)
(* history variables that say what the account should hold.                *)
(***************************************************************************)
EXTENDS ObservedPrice

VARIABLES
  total,  \* at each second up to the last swap, the sum of the prices of those
          \* before it, each the one found by the swap that next came
  first,  \* the second of the first swap, 0 before it
  last    \* the second of the last swap, 0 before the first

ringVars == <<observation, clock, price, total, first, last>>

RingInit ==
  /\ ObservedInit
  /\ total = [s \in 0 .. 0 |-> [price_0 |-> 0, price_1 |-> 0]]
  /\ first = 0
  /\ last = 0

\* The seconds since the last swap are counted at the prices this one finds.
total_with_swap ==
  [s \in 0 .. clock |->
     IF s =< last
       THEN total[s]
       ELSE [price_0 |-> total[last].price_0 + price.price_0 * (s - last),
             price_1 |-> total[last].price_1 + price.price_1 * (s - last)]]

Swap ==
  /\ SwapObserved
  /\ total' = total_with_swap
  /\ first' = IF first = 0 THEN clock ELSE first
  /\ last' = clock

RingNext ==
  \/ Swap
  \/ (PriceMoves \/ SecondPasses) /\ UNCHANGED <<total, first, last>>

RingSpec == RingInit /\ [][RingNext]_ringVars

-----------------------------------------------------------------------------
(* Properties. *)

\* Slot s has been written.
written(s) == observation.observations[s].block_timestamp > 0

\* The slot after s in the ring.
following(s) == IF s = OBSERVATION_NUM - 1 THEN 0 ELSE s + 1

\* The cumulative prices of slot s are those of second then, counted from the
\* second of the first observation.
holds_total(s, then) ==
  LET slot == observation.observations[s]
  IN /\ slot.price_0
          = (total[then].price_0 - total[first].price_0) % CumulativeModulus
     /\ slot.price_1
          = (total[then].price_1 - total[first].price_1) % CumulativeModulus

\* No second is lost and none counted twice, whether swaps come every second,
\* several in one or after a long pause, whatever moves the price in between,
\* and when the accumulators wrap: the newest slot holds the sum up to the last
\* swap, every other one the sum at some second of the duration it stood for.
EverySecondCounted ==
  observation.initialized =>
    /\ holds_total(observation.index, last)
    /\ \A s \in Slots \ {observation.index} :
         written(s) =>
           \E second \in 0 .. OBSERVATION_UPDATE_DURATION_DEFAULT - 1 :
             LET then == observation.observations[s].block_timestamp + second
             IN then =< last /\ holds_total(s, then)

\* Going back from the newest slot, every written one is older by the duration
\* of a slot or more: so the ring reaches back (OBSERVATION_NUM - 1) durations
\* however often the pool is traded on.
RingReachesBack ==
  \A s \in Slots :
    s # observation.index /\ written(s) =>
      observation.observations[s].block_timestamp
          + OBSERVATION_UPDATE_DURATION_DEFAULT
        =< observation.observations[following(s)].block_timestamp

=============================================================================
