---------------------------- MODULE Observation ----------------------------
(***************************************************************************)
(* The price observations of a pool (programs/cp-swap/src/states/oracle.rs)*)
(* as operators on the observation account: a ring of cumulative prices,   *)
(* the index of the newest and the time of the last update.                *)
(***************************************************************************)
EXTENDS Integers

CONSTANTS
  OBSERVATION_NUM,                      \* slots in the ring (100 in the code)
  OBSERVATION_UPDATE_DURATION_DEFAULT,  \* seconds one slot accumulates (15)
  CumulativeModulus                     \* the accumulators wrap here (2^128)

ASSUME ObservationAssumption ==
  /\ OBSERVATION_NUM \in Nat \ {0}
  /\ OBSERVATION_UPDATE_DURATION_DEFAULT \in Nat \ {0}
  /\ CumulativeModulus \in Nat \ {0}

Slots == 0 .. OBSERVATION_NUM - 1

\* The zeroed account that initialize creates.
EmptyObservation ==
  [ initialized  |-> FALSE,
    index        |-> 0,
    observations |-> [s \in Slots |-> [block_timestamp |-> 0,
                                       price_0 |-> 0, price_1 |-> 0]],
    last_update_timestamp |-> 0 ]

elapsed(now, then) == IF now >= then THEN now - then ELSE 0

next_observation_index(o) ==
  IF o.index = OBSERVATION_NUM - 1 THEN 0 ELSE o.index + 1

newest(o) == o.observations[o.index]

\* The newest observation with the price accumulated over dt seconds.
accumulated(o, dt, price_0, price_1, timestamp) ==
  [ block_timestamp |-> timestamp,
    price_0 |-> (newest(o).price_0 + price_0 * dt) % CumulativeModulus,
    price_1 |-> (newest(o).price_1 + price_1 * dt) % CumulativeModulus ]

\* Seconds since the newest slot was opened, and since anything was
\* accumulated (an account from before that field was added has 0 in it).
since_last_observation(o, now) == elapsed(now, newest(o).block_timestamp)

last_update(o) ==
  IF o.last_update_timestamp = 0
    THEN newest(o).block_timestamp ELSE o.last_update_timestamp

since_last_update(o, now) == elapsed(now, last_update(o))

\* A new slot every second something changed.
slot_full_each_second(o, now) == since_last_observation(o, now) >= 1

slot_full(o, now) ==
  since_last_observation(o, now) >= OBSERVATION_UPDATE_DURATION_DEFAULT

\* One call of ObservationState::update.  The first one only starts the clock;
\* a second one in the same second writes nothing; within the duration of the
\* newest slot its accumulators advance in place, its timestamp kept; after it
\* the next slot is written.
update_observation(o, now, price_0, price_1) ==
  LET dt      == since_last_update(o, now)
      target  == IF slot_full(o, now) THEN next_observation_index(o) ELSE o.index
      stamp   == IF slot_full(o, now) THEN now ELSE newest(o).block_timestamp
  IN CASE ~o.initialized ->
            [o EXCEPT !.initialized = TRUE,
                      !.observations[o.index] =
                        [block_timestamp |-> now, price_0 |-> 0, price_1 |-> 0],
                      !.last_update_timestamp = now]
       [] o.initialized /\ (dt = 0 \/ since_last_observation(o, now) = 0) ->
            [o EXCEPT !.last_update_timestamp = last_update(o)]
       [] OTHER ->
            [o EXCEPT !.observations[target] =
                        accumulated(o, dt, price_0, price_1, stamp),
                      !.index = target,
                      !.last_update_timestamp = now]

=============================================================================
