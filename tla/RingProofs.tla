----------------------------- MODULE RingProofs -----------------------------
(***************************************************************************)
(* Theorems about module ObservationRing, for every size of the ring, any  *)
(* duration of a slot, any prices and any width of the accumulators.       *)
(*                                                                         *)
(* What holds them is that the account was last updated in the second of   *)
(* the last swap: a swap that finds time to account for accounts for all   *)
(* of it.  And the last swap is never as far from the newest slot as the   *)
(* duration of one, so the slot left behind holds the sum of a second it   *)
(* stood for.                                                              *)
(***************************************************************************)
EXTENDS ObservationRing, TLAPS

-----------------------------------------------------------------------------
(* Sums that wrap. *)

\* Only one number below the modulus is left of another by multiples of it.
LEMMA OneRemainder ==
  ASSUME NEW m \in Nat \ {0}, NEW r \in 0 .. m - 1, NEW s \in 0 .. m - 1,
         NEW j \in Int, NEW k \in Int, m * j + r = m * k + s
  PROVE  r = s
<1>1. m * j \in Int /\ m * k \in Int
  OBVIOUS
<1>2. ASSUME j + 1 =< k PROVE FALSE
  <2>1. m * (j + 1) =< m * k
    BY <1>2
  <2>2. m * (j + 1) = m * j + m
    OBVIOUS
  <2> QED BY <1>1, <2>1, <2>2
<1>3. ASSUME k + 1 =< j PROVE FALSE
  <2>1. m * (k + 1) =< m * j
    BY <1>3
  <2>2. m * (k + 1) = m * k + m
    OBVIOUS
  <2> QED BY <1>1, <2>1, <2>2
<1>4. j = k
  BY <1>2, <1>3
<1> QED BY <1>1, <1>4

LEMMA Remainder ==
  ASSUME NEW a \in Int, NEW m \in Nat \ {0}
  PROVE  a % m \in 0 .. m - 1 /\ a \div m \in Int /\ a = m * (a \div m) + (a % m)
OBVIOUS

\* What is added to a wrapped sum might as well be added before it wraps.
LEMMA WrappedSum ==
  ASSUME NEW a \in Int, NEW b \in Int, NEW m \in Nat \ {0}
  PROVE  ((a % m) + b) % m = (a + b) % m
<1> DEFINE r == a % m
           j == a \div m
           s == (r + b) % m
           k == (r + b) \div m
           t == (a + b) % m
           l == (a + b) \div m
<1>1. r \in 0 .. m - 1 /\ j \in Int /\ a = m * j + r
  BY Remainder
<1> HIDE DEF r, j
<1>2. s \in 0 .. m - 1 /\ k \in Int /\ r + b = m * k + s
  <2>1. r + b \in Int
    BY <1>1
  <2> QED BY <2>1, Remainder
<1>3. t \in 0 .. m - 1 /\ l \in Int /\ a + b = m * l + t
  BY Remainder
<1> HIDE DEF s, k, t, l
<1>4. m * (j + k) = m * j + m * k /\ m * j \in Int /\ m * k \in Int /\ m * l \in Int
  BY <1>1, <1>2, <1>3
<1>5. m * (j + k) + s = m * l + t
  BY <1>1, <1>2, <1>3, <1>4
<1>6. s = t
  <2>1. j + k \in Int
    BY <1>1, <1>2
  <2> QED BY <1>2, <1>3, <1>5, <2>1, OneRemainder
<1> QED BY <1>6 DEF r, s, t

-----------------------------------------------------------------------------
(* The invariant. *)

Sums == [price_0 : Nat, price_1 : Nat]
Slot == [block_timestamp : Nat, price_0 : Nat, price_1 : Nat]
Account == [ initialized : BOOLEAN, index : Slots,
             observations : [Slots -> Slot], last_update_timestamp : Nat ]

RingTypes ==
  /\ observation \in Account
  /\ clock \in Nat \ {0}
  /\ price \in Prices
  /\ last \in 0 .. clock
  /\ total \in [0 .. last -> Sums]
  /\ first \in Nat

\* The second of the last update and of the newest slot.
updated == observation.last_update_timestamp
opened  == newest(observation).block_timestamp

\* Of an account o and sums tot, counted from second f: holds_total.
Held(o, tot, f, s, then) ==
  /\ o.observations[s].price_0 = (tot[then].price_0 - tot[f].price_0) % CumulativeModulus
  /\ o.observations[s].price_1 = (tot[then].price_1 - tot[f].price_1) % CumulativeModulus

\* EverySecondCounted, of an account after a swap in second now.
Counted(o, tot, f, now) ==
  /\ Held(o, tot, f, o.index, now)
  /\ \A s \in Slots \ {o.index} :
       o.observations[s].block_timestamp > 0 =>
         \E second \in 0 .. OBSERVATION_UPDATE_DURATION_DEFAULT - 1 :
           /\ o.observations[s].block_timestamp + second =< now
           /\ Held(o, tot, f, s, o.observations[s].block_timestamp + second)

LEMMA CountedIs ==
  EverySecondCounted
    <=> (observation.initialized => Counted(observation, total, first, last))
BY DEF EverySecondCounted, Counted, Held, holds_total, written

LEMMA CountedIsNext ==
  EverySecondCounted'
    <=> (observation'.initialized => Counted(observation', total', first', last'))
BY DEF EverySecondCounted, Counted, Held, holds_total, written

\* Before the first swap nothing is written.
NothingYet ==
  ~observation.initialized =>
    /\ first = 0 /\ last = 0
    /\ \A s \in Slots : observation.observations[s].block_timestamp = 0

\* After it, the account was last updated in the second of the last swap, which
\* lies within the newest slot's duration.
UpdatedBySwap ==
  observation.initialized =>
    /\ updated = last
    /\ first \in 1 .. last
    /\ opened \in 1 .. last
    /\ last < opened + OBSERVATION_UPDATE_DURATION_DEFAULT

RingInv ==
  /\ RingTypes
  /\ NothingYet
  /\ UpdatedBySwap
  /\ EverySecondCounted
  /\ RingReachesBack

LEMMA PriceNat ==
  ASSUME NEW p \in Prices PROVE p.price_0 \in Nat /\ p.price_1 \in Nat
BY ObservedAssumption

LEMMA SizesPositive ==
  /\ OBSERVATION_NUM \in Nat \ {0}
  /\ OBSERVATION_UPDATE_DURATION_DEFAULT \in Nat \ {0}
  /\ CumulativeModulus \in Nat \ {0}
  /\ Slots = 0 .. OBSERVATION_NUM - 1
  /\ 0 \in Slots
BY ObservationAssumption DEF Slots

LEMMA EmptyIsAccount ==
  /\ EmptyObservation \in Account
  /\ ~EmptyObservation.initialized
  /\ \A s \in Slots : EmptyObservation.observations[s].block_timestamp = 0
BY SizesPositive DEF EmptyObservation, Account, Slot

LEMMA InvInit == RingInit => RingInv
<1> SUFFICES ASSUME RingInit PROVE RingInv
  OBVIOUS
<1> USE DEF RingInit, ObservedInit
<1>1. observation \in Account /\ ~observation.initialized
  BY EmptyIsAccount
<1>2. \A s \in Slots : observation.observations[s].block_timestamp = 0
  BY EmptyIsAccount
<1>3. total \in [0 .. last -> Sums]
  BY DEF Sums
<1>4. RingTypes
  BY <1>1, <1>3 DEF RingTypes
<1>5. NothingYet
  BY <1>2 DEF NothingYet
<1>6. UpdatedBySwap /\ EverySecondCounted
  BY <1>1 DEF UpdatedBySwap, EverySecondCounted
<1>7. RingReachesBack
  BY <1>2 DEF RingReachesBack, written
<1> QED BY <1>4, <1>5, <1>6, <1>7 DEF RingInv

-----------------------------------------------------------------------------
(* The steps that leave the account alone. *)

LEMMA IdleInv ==
  ASSUME RingInv, clock' \in Nat \ {0}, clock =< clock', price' \in Prices,
         UNCHANGED <<observation, total, first, last>>
  PROVE  RingInv'
<1>1. RingTypes'
  BY DEF RingInv, RingTypes
<1>2. NothingYet' /\ RingReachesBack'
  BY DEF RingInv, NothingYet, RingReachesBack, written
<1>3. UpdatedBySwap'
  BY DEF RingInv, UpdatedBySwap, updated, opened, newest
<1>4. EverySecondCounted'
  BY CountedIs, CountedIsNext DEF RingInv
<1> QED BY <1>1, <1>2, <1>3, <1>4 DEF RingInv

-----------------------------------------------------------------------------
(* A swap. *)

\* The account after a swap that has seconds to account for.
Advanced(o, target, slot, now) ==
  /\ o.initialized
  /\ o.index = target
  /\ o.last_update_timestamp = now
  /\ o.observations = [observation.observations EXCEPT ![target] = slot]

\* What a swap does to the account: the first one starts the clock, a second
\* one in a second does nothing, any other accounts for the time since.
SwapOutcome ==
  /\ observation' \in Account
  /\ ~observation.initialized =>
       Advanced(observation', observation.index,
                [block_timestamp |-> clock, price_0 |-> 0, price_1 |-> 0], clock)
  /\ observation.initialized /\ updated = clock => observation' = observation
  /\ observation.initialized /\ updated < clock =>
       \E target \in Slots :
         /\ slot_full(observation, clock)
              => target = next_observation_index(observation)
         /\ ~slot_full(observation, clock) => target = observation.index
         /\ Advanced(observation', target,
              accumulated(observation, clock - updated, price.price_0, price.price_1,
                          IF slot_full(observation, clock) THEN clock ELSE opened),
              clock)

LEMMA SwapCases ==
  ASSUME RingInv, SwapObserved
  PROVE  SwapOutcome
<1> DEFINE o == observation
           dt == since_last_update(o, clock)
           target == IF slot_full(o, clock) THEN next_observation_index(o) ELSE o.index
           stamp  == IF slot_full(o, clock) THEN clock ELSE newest(o).block_timestamp
           slot   == accumulated(o, dt, price.price_0, price.price_1, stamp)
           opening == [block_timestamp |-> clock, price_0 |-> 0, price_1 |-> 0]
<1>1. /\ o \in Account /\ clock \in Nat \ {0} /\ price \in Prices
      /\ observation' = update_observation(o, clock, price.price_0, price.price_1)
  BY DEF RingInv, RingTypes, SwapObserved
<1>2. /\ o.initialized \in BOOLEAN /\ o.index \in Slots
      /\ o.observations \in [Slots -> Slot] /\ o.last_update_timestamp \in Nat
  BY <1>1 DEF Account
<1>3. newest(o) \in Slot /\ updated \in Nat /\ opened \in Nat
      /\ newest(o).block_timestamp = opened /\ o.last_update_timestamp = updated
  BY <1>2 DEF newest, Slot, updated, opened
<1>4. target \in Slots
  <2>1. next_observation_index(o) \in Slots
    BY <1>2, SizesPositive DEF next_observation_index
  <2> QED BY <1>2, <2>1
<1>5. CASE ~o.initialized
  <2>1. observation' = [o EXCEPT !.initialized = TRUE,
                                 !.observations[o.index] = opening,
                                 !.last_update_timestamp = clock]
    BY <1>1, <1>5 DEF update_observation
  <2>2. opening \in Slot
    BY <1>1 DEF Slot
  <2> HIDE DEF o, opening
  <2>3. observation' \in Account
    <3>1. [o.observations EXCEPT ![o.index] = opening] \in [Slots -> Slot]
      BY <1>2, <2>2
    <3>2. observation' = [ initialized |-> TRUE, index |-> o.index,
             observations |-> [o.observations EXCEPT ![o.index] = opening],
             last_update_timestamp |-> clock ]
      BY <1>1, <2>1 DEF Account
    <3> QED BY <1>1, <1>2, <3>1, <3>2 DEF Account
  <2>4. Advanced(observation', o.index, opening, clock)
    BY <1>1, <1>2, <2>1 DEF Account, Advanced, o
  <2> QED BY <1>5, <2>3, <2>4 DEF o, opening, SwapOutcome
<1>6. ASSUME o.initialized
      PROVE  /\ last_update(o) = updated /\ dt = clock - updated /\ updated =< clock
             /\ since_last_observation(o, clock) = clock - opened
             /\ opened =< updated
  <2>1. /\ opened \in 1 .. updated /\ updated =< clock
    BY <1>1, <1>6 DEF RingInv, RingTypes, UpdatedBySwap
  <2>2. last_update(o) = updated
    BY <1>3, <2>1 DEF last_update
  <2> QED BY <1>1, <1>3, <2>1, <2>2
          DEF since_last_update, since_last_observation, elapsed
<1>7. CASE o.initialized /\ updated = clock
  <2>1. dt = 0
    BY <1>1, <1>6, <1>7
  <2>2. observation' = [o EXCEPT !.last_update_timestamp = last_update(o)]
    BY <1>1, <1>7, <2>1 DEF update_observation
  <2>3. observation' = o
    BY <1>1, <1>3, <1>6, <1>7, <2>2 DEF Account
  <2> QED BY <1>1, <1>7, <2>3 DEF SwapOutcome
<1>8. CASE o.initialized /\ updated < clock
  <2>1. dt # 0 /\ since_last_observation(o, clock) # 0
    BY <1>1, <1>3, <1>6, <1>8
  <2>2. observation' = [o EXCEPT !.observations[target] = slot,
                                 !.index = target,
                                 !.last_update_timestamp = clock]
    BY <1>1, <1>8, <2>1 DEF update_observation
  <2>3. slot \in Slot
    <3>1. dt \in Nat /\ price.price_0 \in Nat /\ price.price_1 \in Nat
      BY <1>1, <1>3, <1>6, <1>8, PriceNat
    <3>2. price.price_0 * dt \in Nat /\ price.price_1 * dt \in Nat
      BY <3>1
    <3>3. newest(o).price_0 \in Nat /\ newest(o).price_1 \in Nat
      BY <1>3 DEF Slot
    <3>4. newest(o).price_0 + price.price_0 * dt \in Nat
      BY <3>2, <3>3
    <3>5. newest(o).price_1 + price.price_1 * dt \in Nat
      BY <3>2, <3>3
    <3>6. CumulativeModulus \in Nat \ {0}
      BY SizesPositive
    <3> HIDE DEF dt
    <3>7. /\ (newest(o).price_0 + price.price_0 * dt) % CumulativeModulus \in Nat
          /\ (newest(o).price_1 + price.price_1 * dt) % CumulativeModulus \in Nat
      BY <3>4, <3>5, <3>6
    <3>8. stamp \in Nat
      BY <1>1, <1>3
    <3> QED BY <3>7, <3>8 DEF accumulated, Slot
  <2> HIDE DEF o, target, slot
  <2>4. observation' \in Account
    BY <1>1, <1>2, <1>4, <2>2, <2>3 DEF Account
  <2>5. Advanced(observation', target, slot, clock)
    BY <1>1, <1>2, <1>4, <1>8, <2>2 DEF Account, Advanced, o
  <2>6. slot = accumulated(observation, clock - updated, price.price_0, price.price_1,
                 IF slot_full(observation, clock) THEN clock ELSE opened)
    BY <1>3, <1>6, <1>8 DEF slot, o
  <2>7. /\ slot_full(observation, clock) => target = next_observation_index(observation)
        /\ ~slot_full(observation, clock) => target = observation.index
    BY DEF target, o
  <2>8. updated # clock
    BY <1>1, <1>3, <1>8
  <2> QED BY <1>4, <1>8, <2>4, <2>5, <2>6, <2>7, <2>8 DEF o, SwapOutcome
<1>9. o.initialized => updated =< clock
  BY <1>6
<1> HIDE DEF o, dt, target, stamp, slot, opening
<1>10. ~o.initialized \/ (o.initialized /\ updated = clock)
         \/ (o.initialized /\ updated < clock)
  BY <1>1, <1>3, <1>9
<1> QED BY <1>5, <1>7, <1>8, <1>10

\* What a swap makes of the history: the seconds from the last swap on are
\* counted at the price it found.
LEMMA Remembered ==
  ASSUME RingInv, Swap
  PROVE  /\ SwapObserved /\ clock' = clock /\ price' \in Prices /\ last' = clock
         /\ clock \in Nat \ {0} /\ last \in Nat /\ last =< clock
         /\ total' \in [0 .. clock -> Sums]
         /\ \A s \in 0 .. last : total'[s] = total[s] /\ total[s] \in Sums
         /\ total'[clock].price_0 = total[last].price_0 + price.price_0 * (clock - last)
         /\ total'[clock].price_1 = total[last].price_1 + price.price_1 * (clock - last)
<1>1. /\ SwapObserved /\ clock' = clock /\ price' \in Prices /\ last' = clock
      /\ total' = total_with_swap
  BY DEF Swap, SwapObserved
<1>2. /\ clock \in Nat \ {0} /\ last \in Nat /\ last =< clock
      /\ total \in [0 .. last -> Sums]
      /\ price.price_0 \in Nat /\ price.price_1 \in Nat
  <2>1. price \in Prices
    BY DEF RingInv, RingTypes
  <2> QED BY <2>1, PriceNat DEF RingInv, RingTypes
<1>3. last \in 0 .. last
  BY <1>2
<1>4. total[last] \in Sums
  BY <1>2, <1>3
<1>5. total[last].price_0 \in Nat /\ total[last].price_1 \in Nat
  BY <1>4 DEF Sums
<1>6. \A s \in 0 .. clock :
        /\ s =< last => total'[s] = total[s]
        /\ s > last =>
             total'[s] = [price_0 |-> total[last].price_0 + price.price_0 * (s - last),
                          price_1 |-> total[last].price_1 + price.price_1 * (s - last)]
  BY <1>1, <1>2 DEF total_with_swap
<1>7. \A s \in 0 .. last : total'[s] = total[s] /\ total[s] \in Sums
  <2>1. TAKE s \in 0 .. last
  <2>2. s \in 0 .. clock /\ s =< last
    BY <1>2
  <2>3. total'[s] = total[s]
    BY <1>6, <2>2
  <2> QED BY <1>2, <2>3
<1>8. total' \in [0 .. clock -> Sums]
  <2>1. ASSUME NEW s \in 0 .. clock PROVE total'[s] \in Sums
    <3>0. s \in Nat
      BY <1>2
    <3>1. CASE s =< last
      <4>1. s \in 0 .. last
        BY <1>2, <3>0, <3>1
      <4> QED BY <1>7, <4>1
    <3>2. CASE s > last
      <4>1. s - last \in Nat
        BY <1>2, <3>0, <3>2
      <4>2. /\ price.price_0 * (s - last) \in Nat /\ price.price_1 * (s - last) \in Nat
        BY <1>2, <4>1
      <4>3. /\ total[last].price_0 + price.price_0 * (s - last) \in Nat
            /\ total[last].price_1 + price.price_1 * (s - last) \in Nat
        BY <1>5, <4>2
      <4>4. total'[s] = [price_0 |-> total[last].price_0 + price.price_0 * (s - last),
                         price_1 |-> total[last].price_1 + price.price_1 * (s - last)]
        BY <1>6, <3>2
      <4> QED BY <4>3, <4>4 DEF Sums
    <3> QED BY <1>2, <3>0, <3>1, <3>2
  <2> QED BY <1>1, <2>1 DEF total_with_swap
<1>9. /\ total'[clock].price_0 = total[last].price_0 + price.price_0 * (clock - last)
      /\ total'[clock].price_1 = total[last].price_1 + price.price_1 * (clock - last)
  <2>1. CASE clock = last
    <3>1. total'[clock] = total[last]
      BY <1>3, <1>7, <2>1
    <3>2. clock - last = 0
      BY <1>2, <2>1
    <3>3. /\ price.price_0 * (clock - last) = 0 /\ price.price_1 * (clock - last) = 0
      BY <1>2, <3>2
    <3> QED BY <1>5, <3>1, <3>3
  <2>2. CASE clock > last
    <3>1. clock \in 0 .. clock
      BY <1>2
    <3>2. total'[clock]
            = [price_0 |-> total[last].price_0 + price.price_0 * (clock - last),
               price_1 |-> total[last].price_1 + price.price_1 * (clock - last)]
      BY <1>6, <2>2, <3>1
    <3> QED BY <3>2
  <2>3. clock = last \/ clock > last
    BY <1>2
  <2> QED BY <2>1, <2>2, <2>3
<1> QED BY <1>1, <1>2, <1>7, <1>8, <1>9

\* The invariant after a swap, with its account and count in hand.
LEMMA NextInv ==
  ASSUME RingTypes', observation'.initialized, UpdatedBySwap', RingReachesBack',
         Counted(observation', total', first', last')
  PROVE  RingInv'
<1>1. EverySecondCounted'
  BY CountedIsNext
<1>2. NothingYet'
  BY DEF NothingYet
<1> QED BY <1>1, <1>2 DEF RingInv

LEMMA FirstSwapInv ==
  ASSUME RingInv, Swap, ~observation.initialized
  PROVE  RingInv'
<1> DEFINE opening == [block_timestamp |-> clock, price_0 |-> 0, price_1 |-> 0]
           i == observation.index
<1>1. /\ SwapObserved /\ clock' = clock /\ price' \in Prices /\ last' = clock
      /\ clock \in Nat \ {0} /\ total' \in [0 .. clock -> Sums]
  BY Remembered
<1>2. /\ observation' \in Account
      /\ Advanced(observation', i, opening, clock)
  BY <1>1, SwapCases DEF SwapOutcome
<1>3. /\ i \in Slots /\ observation.observations \in [Slots -> Slot]
      /\ first = 0 /\ \A s \in Slots : observation.observations[s].block_timestamp = 0
  BY DEF RingInv, RingTypes, NothingYet, Account
<1>4. first' = clock
  BY <1>3 DEF Swap
<1>5. /\ observation'.initialized /\ observation'.index = i
      /\ observation'.last_update_timestamp = clock
      /\ observation'.observations[i] = opening
      /\ \A s \in Slots \ {i} :
           observation'.observations[s] = observation.observations[s]
  BY <1>2, <1>3 DEF Advanced
<1>6. RingTypes'
  BY <1>1, <1>2, <1>4 DEF RingTypes
<1>7. updated' = clock /\ opened' = clock
  BY <1>5 DEF updated, opened, newest
<1>8. UpdatedBySwap'
  BY <1>1, <1>4, <1>7, SizesPositive DEF UpdatedBySwap
<1>9. RingReachesBack'
  BY <1>3, <1>5 DEF RingReachesBack, written
<1>10. Counted(observation', total', clock, clock)
  <2>1. Held(observation', total', clock, i, clock)
    <3>1. total'[clock] \in Sums
      BY <1>1
    <3>2. /\ total'[clock].price_0 - total'[clock].price_0 = 0
          /\ total'[clock].price_1 - total'[clock].price_1 = 0
      BY <3>1 DEF Sums
    <3>3. 0 % CumulativeModulus = 0
      BY SizesPositive
    <3> QED BY <1>5, <3>2, <3>3 DEF Held
  <2>2. \A s \in Slots \ {i} : ~(observation'.observations[s].block_timestamp > 0)
    BY <1>3, <1>5
  <2> QED BY <1>5, <2>1, <2>2 DEF Counted
<1> QED BY <1>1, <1>4, <1>5, <1>6, <1>8, <1>9, <1>10, NextInv

LEMMA SameSecondInv ==
  ASSUME RingInv, Swap, observation.initialized, updated = clock
  PROVE  RingInv'
<1>1. /\ SwapObserved /\ clock' = clock /\ price' \in Prices /\ last' = clock
      /\ clock \in Nat \ {0} /\ total' \in [0 .. clock -> Sums]
      /\ \A s \in 0 .. last : total'[s] = total[s]
  BY Remembered
<1>2. observation' = observation
  BY <1>1, SwapCases DEF SwapOutcome
<1>3. /\ first \in 1 .. last /\ last = clock /\ total \in [0 .. last -> Sums]
  BY DEF RingInv, RingTypes, UpdatedBySwap
<1>4. total' = total
  BY <1>1, <1>3
<1>5. first' = first
  BY <1>1, <1>3 DEF Swap
<1> QED BY <1>1, <1>2, <1>3, <1>4, <1>5, IdleInv

\* Slots that follow one slot are one.
LEMMA FollowingInjective ==
  ASSUME NEW s \in Slots, NEW t \in Slots, following(s) = following(t)
  PROVE  s = t
BY SizesPositive DEF following

LEMMA FollowingIsSlot == ASSUME NEW s \in Slots PROVE following(s) \in Slots
BY SizesPositive DEF following

LEMMA LaterSwapInv ==
  ASSUME RingInv, Swap, observation.initialized, updated < clock
  PROVE  RingInv'
<1> DEFINE D     == OBSERVATION_UPDATE_DURATION_DEFAULT
           M     == CumulativeModulus
           u     == updated
           i     == observation.index
           o     == observation.observations
           n     == observation'.observations
           full  == slot_full(observation, clock)
           stamp == IF full THEN clock ELSE opened
           slot  == accumulated(observation, clock - u, price.price_0, price.price_1, stamp)
<1>0. /\ SwapObserved /\ clock' = clock /\ price' \in Prices /\ last' = clock
      /\ clock \in Nat \ {0} /\ last \in Nat /\ last =< clock
      /\ total' \in [0 .. clock -> Sums]
      /\ \A s \in 0 .. last : total'[s] = total[s] /\ total[s] \in Sums
      /\ total'[clock].price_0 = total[last].price_0 + price.price_0 * (clock - last)
      /\ total'[clock].price_1 = total[last].price_1 + price.price_1 * (clock - last)
  BY Remembered
<1>1. /\ observation' \in Account
      /\ \E target \in Slots :
           /\ full => target = next_observation_index(observation)
           /\ ~full => target = i
           /\ Advanced(observation', target, slot, clock)
  BY <1>0, SwapCases DEF SwapOutcome
<1>2. PICK target \in Slots :
        /\ full => target = next_observation_index(observation)
        /\ ~full => target = i
        /\ Advanced(observation', target, slot, clock)
  BY <1>1
<1>3. /\ i \in Slots /\ price.price_0 \in Nat /\ price.price_1 \in Nat
      /\ o \in [Slots -> Slot] /\ u \in Nat /\ opened \in Nat
      /\ opened = o[i].block_timestamp
  BY PriceNat DEF RingInv, RingTypes, Account, updated, opened, newest, Slot
<1>4. first \in 1 .. u /\ opened \in 1 .. u /\ u < opened + D /\ u = last
  BY DEF RingInv, UpdatedBySwap
<1>5. first' = first
  <2>1. first # 0
    BY <1>3, <1>4
  <2> QED BY <2>1 DEF Swap
<1>6. /\ observation'.initialized /\ observation'.index = target
      /\ observation'.last_update_timestamp = clock
      /\ n[target] = slot /\ \A s \in Slots \ {target} : n[s] = o[s]
  BY <1>2, <1>3 DEF Advanced
<1>7. full <=> clock - opened >= D
  <2>1. opened =< clock
    BY <1>0, <1>4
  <2> QED BY <1>0, <1>3, <2>1
          DEF slot_full, since_last_observation, elapsed, opened
<1>8. /\ slot.block_timestamp = stamp
      /\ slot.price_0 = (o[i].price_0 + price.price_0 * (clock - u)) % M
      /\ slot.price_1 = (o[i].price_1 + price.price_1 * (clock - u)) % M
  BY DEF accumulated, newest
<1>9. stamp \in 1 .. clock /\ clock < stamp + D
  <2>1. u < clock /\ D \in Nat \ {0}
    BY SizesPositive
  <2> HIDE DEF full, u, D
  <2>2. CASE full
    <3>1. stamp = clock
      BY <2>2
    <3> QED BY <1>0, <2>1, <3>1
  <2>3. CASE ~full
    <3>1. stamp = opened /\ ~(clock - opened >= D)
      BY <1>7, <2>3
    <3> HIDE DEF stamp
    <3>2. clock < opened + D
      <4>1. clock \in Nat /\ opened \in Nat /\ D \in Nat
        BY <1>0, <1>3, <2>1
      <4> QED BY <3>1, <4>1
    <3>3. opened >= 1 /\ opened =< clock
      BY <1>0, <1>3, <1>4, <2>1
    <3> QED BY <1>0, <1>3, <3>1, <3>2, <3>3
  <2> QED BY <2>2, <2>3
<1>10. RingTypes'
  BY <1>0, <1>1, <1>3, <1>5 DEF RingInv, RingTypes
<1>11. updated' = clock /\ opened' = stamp
  BY <1>6, <1>8 DEF updated, opened, newest
<1> HIDE DEF full, stamp, slot, u, i, o, n, D, M
<1>12. UpdatedBySwap'
  <2>1. first' \in 1 .. last' /\ opened' \in 1 .. last'
    BY <1>0, <1>3, <1>4, <1>5, <1>9, <1>11 DEF u
  <2>2. last' < opened' + OBSERVATION_UPDATE_DURATION_DEFAULT
    BY <1>0, <1>9, <1>11 DEF D
  <2> QED BY <1>0, <1>11, <2>1, <2>2 DEF UpdatedBySwap
<1>13. /\ u \in 0 .. last /\ first \in 0 .. last
      /\ total[u] \in Sums /\ total[first] \in Sums
      /\ total'[u] = total[u] /\ total'[first] = total[first]
  <2>1. u \in 0 .. last /\ first \in 0 .. last
    BY <1>0, <1>3, <1>4
  <2> QED BY <1>0, <2>1
<1>14. RingReachesBack'
  <2> SUFFICES ASSUME NEW s \in Slots, s # target, n[s].block_timestamp > 0
               PROVE  n[s].block_timestamp + D =< n[following(s)].block_timestamp
    BY <1>6 DEF RingReachesBack, written, n, D
  <2>1. n[s] = o[s]
    BY <1>6
  <2>2. s # i => o[s].block_timestamp + D =< o[following(s)].block_timestamp
    BY <2>1 DEF RingInv, RingReachesBack, written, o, i, D
  <2>3. CASE full
    <3>1. target = following(i)
      BY <1>2, <2>3 DEF next_observation_index, following, i
    <3>2. CASE s = i
      <4>1. n[following(s)].block_timestamp = clock
        BY <1>6, <1>8, <2>3, <3>1, <3>2 DEF stamp
      <4>2. o[i].block_timestamp + D =< clock
        BY <1>0, <1>3, <1>7, <2>3, SizesPositive DEF D
      <4> QED BY <2>1, <3>2, <4>1, <4>2
    <3>3. CASE s # i
      <4>1. following(s) \in Slots \ {target}
        BY <1>3, <3>1, <3>3, FollowingInjective, FollowingIsSlot
      <4> QED BY <1>6, <2>1, <2>2, <3>3, <4>1
    <3> QED BY <3>2, <3>3
  <2>4. CASE ~full
    <3>1. target = i /\ n[i].block_timestamp = o[i].block_timestamp
      BY <1>2, <1>3, <1>6, <1>8, <2>4 DEF stamp
    <3>2. n[following(s)].block_timestamp = o[following(s)].block_timestamp
      BY <1>6, <3>1, FollowingIsSlot
    <3> QED BY <2>1, <2>2, <3>1, <3>2
  <2> QED BY <2>3, <2>4
<1>15. Counted(observation', total', first, clock)
  <2>1. Counted(observation, total, first, u)
    BY <1>4, CountedIs DEF RingInv
  <2>2. /\ o[i].price_0 = (total[u].price_0 - total[first].price_0) % M
        /\ o[i].price_1 = (total[u].price_1 - total[first].price_1) % M
    BY <2>1 DEF Counted, Held, o, i, M
  <2>3. Held(observation', total', first, target, clock)
    <3>1. M \in Nat \ {0}
      BY SizesPositive DEF M
    <3>2. /\ price.price_0 * (clock - u) \in Int /\ price.price_1 * (clock - u) \in Int
      BY <1>0, <1>3
    <3>3. /\ total[u].price_0 - total[first].price_0 \in Int
          /\ total[u].price_1 - total[first].price_1 \in Int
      BY <1>13 DEF Sums
    <3>4. slot.price_0 = (total[u].price_0 - total[first].price_0
                            + price.price_0 * (clock - u)) % M
      BY <1>8, <2>2, <3>1, <3>2, <3>3, WrappedSum
    <3>5. slot.price_1 = (total[u].price_1 - total[first].price_1
                            + price.price_1 * (clock - u)) % M
      BY <1>8, <2>2, <3>1, <3>2, <3>3, WrappedSum
    <3>6. total'[clock].price_0 - total'[first].price_0
            = total[u].price_0 - total[first].price_0 + price.price_0 * (clock - u)
      <4>1. total'[clock].price_0 = total[u].price_0 + price.price_0 * (clock - u)
        BY <1>0, <1>4
      <4>2. total'[first].price_0 = total[first].price_0
        BY <1>13
      <4>3. total[u].price_0 \in Int /\ total[first].price_0 \in Int
        BY <1>13 DEF Sums
      <4> QED BY <3>2, <4>1, <4>2, <4>3
    <3>7. total'[clock].price_1 - total'[first].price_1
            = total[u].price_1 - total[first].price_1 + price.price_1 * (clock - u)
      <4>1. total'[clock].price_1 = total[u].price_1 + price.price_1 * (clock - u)
        BY <1>0, <1>4
      <4>2. total'[first].price_1 = total[first].price_1
        BY <1>13
      <4>3. total[u].price_1 \in Int /\ total[first].price_1 \in Int
        BY <1>13 DEF Sums
      <4> QED BY <3>2, <4>1, <4>2, <4>3
    <3> QED BY <1>6, <3>4, <3>5, <3>6, <3>7 DEF Held, n, M
  <2>4. ASSUME NEW s \in Slots \ {target}, n[s].block_timestamp > 0
        PROVE  \E second \in 0 .. D - 1 :
                 /\ n[s].block_timestamp + second =< clock
                 /\ Held(observation', total', first, s, n[s].block_timestamp + second)
    <3>1. n[s] = o[s] /\ n[s].block_timestamp \in Nat
      BY <1>3, <1>6, <2>4 DEF Slot
    <3>2. ASSUME NEW then \in 0 .. last, Held(observation, total, first, s, then)
          PROVE  Held(observation', total', first, s, then)
      BY <1>0, <1>13, <3>1, <3>2 DEF Held, n, o
    <3>3. CASE s = i
      <4>1. u - opened \in 0 .. D - 1 /\ opened + (u - opened) = u /\ u =< clock
        <5>1. u < clock /\ D \in Nat \ {0}
          BY SizesPositive DEF u, D
        <5> QED BY <1>0, <1>3, <1>4, <5>1
      <4>2. Held(observation, total, first, i, u)
        BY <2>1 DEF Counted, i
      <4>3. n[s].block_timestamp = opened
        BY <1>3, <3>1, <3>3
      <4> QED BY <1>13, <3>2, <3>3, <4>1, <4>2, <4>3
    <3>4. CASE s # i
      <4>1. PICK second \in 0 .. D - 1 :
              /\ o[s].block_timestamp + second =< u
              /\ Held(observation, total, first, s, o[s].block_timestamp + second)
        BY <2>1, <2>4, <3>1, <3>4 DEF Counted, o, i, D
      <4>2. o[s].block_timestamp + second \in 0 .. last /\ u =< clock
        <5>1. /\ second \in Nat /\ o[s].block_timestamp \in Nat
              /\ u \in Nat /\ clock \in Nat /\ last =< clock /\ u = last
          BY <1>0, <1>3, <1>4, <3>1, SizesPositive DEF D
        <5> QED BY <4>1, <5>1
      <4>3. o[s].block_timestamp + second =< clock
        BY <1>0, <1>3, <3>1, <4>1, <4>2, SizesPositive DEF D
      <4> QED BY <3>1, <3>2, <4>1, <4>2, <4>3
    <3> QED BY <3>3, <3>4
  <2> QED BY <1>6, <2>3, <2>4 DEF Counted, n, D
<1> QED BY <1>0, <1>5, <1>6, <1>10, <1>12, <1>14, <1>15, NextInv

-----------------------------------------------------------------------------
(* The theorems. *)

LEMMA InvStep == RingInv /\ [RingNext]_ringVars => RingInv'
<1> SUFFICES ASSUME RingInv, [RingNext]_ringVars PROVE RingInv'
  OBVIOUS
<1>a. clock \in Nat \ {0} /\ price \in Prices
  BY DEF RingInv, RingTypes
<1>1. CASE (PriceMoves \/ SecondPasses) /\ UNCHANGED <<total, first, last>>
  BY <1>a, <1>1, IdleInv DEF PriceMoves, SecondPasses
<1>2. CASE Swap
  <2>1. CASE ~observation.initialized
    BY <1>2, <2>1, FirstSwapInv
  <2>2. CASE observation.initialized /\ updated = clock
    BY <1>2, <2>2, SameSecondInv
  <2>3. CASE observation.initialized /\ updated < clock
    BY <1>2, <2>3, LaterSwapInv
  <2>4. observation.initialized => updated < clock \/ updated = clock
    BY DEF RingInv, RingTypes, UpdatedBySwap
  <2> QED BY <2>1, <2>2, <2>3, <2>4
<1>3. CASE UNCHANGED ringVars
  BY <1>a, <1>3, IdleInv DEF ringVars
<1> QED BY <1>1, <1>2, <1>3 DEF RingNext

LEMMA InvAlways == RingSpec => []RingInv
BY InvInit, InvStep, PTL DEF RingSpec

\* However the swaps fall and the accumulators wrap, every slot holds the sum
\* of the prices of all seconds up to its own, none lost and none twice, each at
\* the price found by the swap that next came.
THEOREM EverySecondAlwaysCounted == RingSpec => []EverySecondCounted
<1>1. RingInv => EverySecondCounted
  BY DEF RingInv
<1> QED BY <1>1, InvAlways, PTL

\* Slots are the duration apart or more, so that a ring of any size reaches
\* back as far as it should, however often the pool is traded on.
THEOREM RingAlwaysReachesBack == RingSpec => []RingReachesBack
<1>1. RingInv => RingReachesBack
  BY DEF RingInv
<1> QED BY <1>1, InvAlways, PTL

=============================================================================
