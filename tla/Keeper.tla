------------------------------- MODULE Keeper -------------------------------
(***************************************************************************)
(* The oracle keepers (bot/src) and the pool they serve.  A bot's process  *)
(* loads the pool and its config once, then runs two tasks: a subscriber   *)
(* that writes the latest price into a cell, and a loop that reads the     *)
(* cell, submits a push and waits for it.  Between the bot and the program *)
(* of module Pool is the network: a push may be lost, its answer may be    *)
(* lost, and a push its bot has given up on may still land, until its      *)
(* blockhash expires.  A process that ends is started again (infra/lib).   *)
(***************************************************************************)
EXTENDS Pool, OracleMath, Sequences, FiniteSets

CONSTANTS
  Bots,          \* keys that have a bot
  Prices,        \* what Pyth Lazer may publish
  FEED_ID,       \* PYTH_FEED_ID of the bots
  MAX_PRICES,    \* prices published (bound of the model)
  MAX_INFLIGHT,  \* pushes in the network at a time (bound of the model)
  MAX_CRASHES    \* processes killed (bound of the model)

\* An optional field: the set of its value, or the empty set.
Option(values) == {o \in SUBSET values : \A v, w \in o : v = w}

ASSUME KeeperAssumption ==
  /\ Bots \subseteq Keys
  /\ I64_MAX \in Nat
  /\ U64_RANGE \in Nat \ {0}
  /\ Prices \subseteq [ complete : BOOLEAN, price : Int, exponent : Int,
                        confidence : Option(Int), best_bid : Option(Int),
                        best_ask : Option(Int) ]
  /\ Quotes = {}    \* quotes are pushed by the bots only
  /\ MAX_PRICES \in Nat /\ MAX_INFLIGHT \in Nat /\ MAX_CRASHES \in Nat

VARIABLES
  published,  \* prices published, the oldest first
  bot,        \* each bot's process: where it is, its cache and its cell
  txs,        \* pushes submitted and neither executed nor expired
  quoted,     \* history: the push behind the pool's quote
  crashes     \* number of processes killed

keeperVars == <<vars, published, bot, txs, quoted, crashes>>

\* A process that is not running.  cell is the position in published of the
\* price in the watch cell, since that of the first price of the subscription.
NoProcess ==
  [ pc |-> "down", min_spread_bps |-> 0, base_trade_fee_rate |-> 0,
    stream |-> FALSE, since |-> 0, cell |-> 0 ]

waiting == {"sending", "landed", "rejected"}
running(k) == bot[k].pc \in {"up"} \union waiting

KeeperInit ==
  /\ Init
  /\ published = <<>>
  /\ bot = [k \in Bots |-> NoProcess]
  /\ txs = {}
  /\ quoted = [by |-> Admin, seq |-> 0]
  /\ crashes = 0

-----------------------------------------------------------------------------
(* Start of a process (load_blocking): two reads, one after the other.     *)

LoadPool(k) ==
  /\ bot[k].pc = "down"
  /\ created
  /\ oracle.keeper = k
  /\ pool.pyth_price_feed_id = FEED_ID
  /\ pool.min_spread_bps # 0
  /\ bot' = [bot EXCEPT ![k].pc = "loading",
                        ![k].min_spread_bps = pool.min_spread_bps]
  /\ UNCHANGED <<vars, published, txs, quoted, crashes>>

LoadConfig(k) ==
  /\ bot[k].pc = "loading"
  /\ amm_config.trade_fee_rate < FEE_RATE_DENOMINATOR_VALUE
  /\ bot' = [bot EXCEPT ![k].pc = "up",
                        ![k].base_trade_fee_rate = amm_config.trade_fee_rate,
                        ![k].stream = TRUE,
                        ![k].since = Len(published)]
  /\ UNCHANGED <<vars, published, txs, quoted, crashes>>

-----------------------------------------------------------------------------
(* Prices and the subscriber. *)

Publish(price) ==
  /\ Len(published) < MAX_PRICES
  /\ published' = Append(published, price)
  /\ UNCHANGED <<vars, bot, txs, quoted, crashes>>

\* A cell that keeps its first value.
ReceiveOnce(k) ==
  /\ running(k)
  /\ bot[k].stream
  /\ bot[k].cell = 0
  /\ \E n \in bot[k].since .. Len(published) :
       /\ n > 0
       /\ published[n].complete
       /\ bot' = [bot EXCEPT ![k].cell = n]
  /\ UNCHANGED <<vars, published, txs, quoted, crashes>>

\* Messages taken in any order.
ReceiveAnyOrder(k) ==
  /\ running(k)
  /\ bot[k].stream
  /\ \E n \in bot[k].since .. Len(published) :
       /\ n > 0 /\ n # bot[k].cell
       /\ published[n].complete
       /\ bot' = [bot EXCEPT ![k].cell = n]
  /\ UNCHANGED <<vars, published, txs, quoted, crashes>>

\* The next message of the subscription that build_quote can use; those the
\* tick loop did not see are overwritten.
Receive(k) ==
  /\ running(k)
  /\ bot[k].stream
  /\ \E n \in bot[k].since .. Len(published) :
       /\ n > bot[k].cell
       /\ published[n].complete
       /\ bot' = [bot EXCEPT ![k].cell = n]
  /\ UNCHANGED <<vars, published, txs, quoted, crashes>>

\* The stream ends: the subscriber returns, the loop and the cell stay.
StreamCloses(k) ==
  /\ running(k)
  /\ bot[k].stream
  /\ bot' = [bot EXCEPT ![k].stream = FALSE]
  /\ UNCHANGED <<vars, published, txs, quoted, crashes>>

-----------------------------------------------------------------------------
(* The tick loop. *)

\* There is a price to push; without one a tick changes nothing.
can_push(k) ==
  /\ bot[k].cell # 0
  /\ update_fields_defined(published[bot[k].cell], bot[k])

push_of(k) ==
  [ signer |-> k, seq |-> bot[k].cell, awaited |-> TRUE,
    quote |-> compute_update_fields(published[bot[k].cell], bot[k]) ]

\* A tick that does not wait for its push.
PushWithoutWaiting(k) ==
  /\ bot[k].pc = "up"
  /\ can_push(k)
  /\ Cardinality(txs) < MAX_INFLIGHT
  /\ txs' = txs \union {push_of(k)}
  /\ UNCHANGED <<vars, published, bot, quoted, crashes>>

Push(k) ==
  /\ bot[k].pc = "up"
  /\ can_push(k)
  /\ Cardinality(txs) < MAX_INFLIGHT
  /\ txs' = txs \union {push_of(k)}
  /\ bot' = [bot EXCEPT ![k].pc = "sending"]
  /\ UNCHANGED <<vars, published, quoted, crashes>>

Succeed(k) ==
  /\ bot[k].pc = "landed"
  /\ bot' = [bot EXCEPT ![k].pc = "up"]
  /\ UNCHANGED <<vars, published, txs, quoted, crashes>>

\* InvalidOracleKeeper missing from FATAL_CODES.
ExitNever(k) ==
  /\ bot[k].pc = "rejected"
  /\ bot' = [bot EXCEPT ![k].pc = "up"]
  /\ UNCHANGED <<vars, published, txs, quoted, crashes>>

\* Every error of update_pool_oracle is one of FATAL_CODES: the process ends.
ExitFatal(k) ==
  /\ bot[k].pc = "rejected"
  /\ bot' = [bot EXCEPT ![k] = NoProcess]
  /\ UNCHANGED <<vars, published, txs, quoted, crashes>>

\* The push left as it was.
still_awaited(k) == txs

\* No process waits for the pushes of k any more.
given_up(k) ==
  {IF tx.signer = k THEN [tx EXCEPT !.awaited = FALSE] ELSE tx : tx \in txs}

\* Any other error, whatever became of the push: the next tick tries again.
Transient(k) ==
  /\ bot[k].pc \in waiting
  /\ bot' = [bot EXCEPT ![k].pc = "up"]
  /\ txs' = given_up(k)
  /\ UNCHANGED <<vars, published, quoted, crashes>>

Crash(k) ==
  /\ crashes < MAX_CRASHES
  /\ bot[k].pc # "down"
  /\ bot' = [bot EXCEPT ![k] = NoProcess]
  /\ txs' = given_up(k)
  /\ crashes' = crashes + 1
  /\ UNCHANGED <<vars, published, quoted>>

-----------------------------------------------------------------------------
(* The network and the program. *)

\* The bot that still waits for tx gets the answer.
answered(tx, answer) ==
  bot' = IF tx.awaited THEN [bot EXCEPT ![tx.signer].pc = answer] ELSE bot

Land(tx) ==
  /\ UpdatePoolOracle(tx.signer, tx.quote)
  /\ quoted' = [by |-> tx.signer, seq |-> tx.seq]
  /\ answered(tx, "landed")
  /\ txs' = txs \ {tx}
  /\ UNCHANGED <<published, crashes>>

Reject(tx) ==
  /\ ~push_accepted(tx.signer, tx.quote)
  /\ answered(tx, "rejected")
  /\ txs' = txs \ {tx}
  /\ UNCHANGED <<vars, published, quoted, crashes>>

Expire(tx) ==
  /\ txs' = txs \ {tx}
  /\ UNCHANGED <<vars, published, bot, quoted, crashes>>

-----------------------------------------------------------------------------
\* Everything that others do to the pool: its creator, its admin, liquidity
\* providers, traders and the clock.
Others == Next /\ UNCHANGED <<published, bot, txs, quoted, crashes>>

\* The bots, and what lies between them and the program.
Serve ==
  \/ \E price \in Prices : Publish(price)
  \/ \E k \in Bots : \/ LoadPool(k) \/ LoadConfig(k)
                     \/ Receive(k) \/ StreamCloses(k)
                     \/ Push(k) \/ Succeed(k) \/ ExitFatal(k)
                     \/ Transient(k) \/ Crash(k)
  \/ \E tx \in txs : Land(tx) \/ Reject(tx) \/ Expire(tx)

KeeperNext == Others \/ Serve

KeeperSpec == KeeperInit /\ [][KeeperNext]_keeperVars

\* The tasks of a process keep running and an ended process is started again;
\* a call of the RPC returns; no push outlives its blockhash; and pushes, as
\* answers, are not lost for ever.
KeeperFairness ==
  /\ \A k \in Bots : /\ WF_keeperVars(LoadPool(k))
                     /\ WF_keeperVars(LoadConfig(k))
                     /\ WF_keeperVars(Receive(k))
                     /\ WF_keeperVars(Push(k))
                     /\ WF_keeperVars(Transient(k))
                     /\ SF_keeperVars(Succeed(k) \/ ExitFatal(k))
                     /\ SF_keeperVars(\E tx \in txs : /\ tx.signer = k
                                                      /\ tx.awaited
                                                      /\ Land(tx) \/ Reject(tx))
  /\ WF_keeperVars(\E tx \in txs : Land(tx) \/ Reject(tx) \/ Expire(tx))

FairKeeperSpec == KeeperSpec /\ KeeperFairness

-----------------------------------------------------------------------------
(* Properties. *)

KeeperTypeOK ==
  /\ published \in Seq(Prices) /\ Len(published) =< MAX_PRICES
  /\ bot \in [Bots -> [ pc : {"down", "loading", "up"} \union waiting,
                        min_spread_bps : Nat, base_trade_fee_rate : Nat,
                        stream : BOOLEAN,
                        since : 0 .. MAX_PRICES, cell : 0 .. MAX_PRICES ]]
  /\ \A tx \in txs : /\ tx.signer \in Bots
                     /\ tx.seq \in 1 .. Len(published)
                     /\ tx.awaited => bot[tx.signer].pc = "sending"
  /\ quoted.by \in Keys /\ quoted.seq \in 0 .. Len(published)
  /\ crashes \in 0 .. MAX_CRASHES

\* Half the spread the pool was created with, below and above a price.
pool_bid(q) == (q.price * (2 * BPS - pool.min_spread_bps)) \div (2 * BPS)
pool_ask(q) == (q.price * (2 * BPS + pool.min_spread_bps)) \div (2 * BPS)

honours(quote, q) ==
  /\ quote.exponent = q.exponent
  /\ quote.bid =< pool_bid(q) /\ pool_ask(q) =< quote.ask
  /\ \A bid \in q.best_bid : bid > 0 => quote.bid =< bid
  /\ \A ask \in q.best_ask : ask > 0 => quote.ask >= ask

\* The quote in the pool is around a price that was published, never inside the
\* market's own bid and ask, and on each side as far from the price as the pool
\* was created to be.  The program stores min_spread_bps and does not enforce
\* it: only the bots do, from a copy they made at startup.
QuoteHonoursPool == quoted.seq # 0 => honours(oracle, published[quoted.seq])

\* No trade gets more out of the pool than half the pool's spread off a price
\* that was published, moved by the skew cap if it rebalances: whatever the
\* others do, whichever bot's quote is in force and however late it landed, at
\* that price the liquidity providers' reserves never fall in a swap.
PublishedPriceNeverBeaten ==
  [][ \A direction \in TradeDirection :
        Swapped(direction) =>
          /\ quoted.seq # 0
          /\ LET q == published[quoted.seq]
             IN NoLossAt(worst_price_of(direction, pool_bid(q), pool_ask(q), q.exponent))
    ]_keeperVars

\* The program turns a push down only if its bot has been replaced as keeper:
\* no price, however odd, makes a bot compute a quote or a fee that the program
\* refuses, which would end its process at every start.
OnlyReplacedRejected ==
  [][ \A k \in Bots :
        bot[k].pc = "sending" /\ bot'[k].pc = "rejected" => oracle.keeper # k
    ]_keeperVars

\* A push that a bot still waits for never replaces a newer quote of that bot:
\* the pool's quote goes back in time only when a push already given up lands.
NoOvertaking ==
  [][ quoted'.by = quoted.by /\ quoted'.seq < quoted.seq =>
        \E tx \in txs \ txs' : ~tx.awaited ]_keeperVars

\* The newest price is one a quote can be made of.
newest_usable ==
  /\ published # <<>>
  /\ published[Len(published)].complete
  /\ update_fields_defined(published[Len(published)],
                           [min_spread_bps |-> pool.min_spread_bps])

\* k is the pool's keeper and its process, if it runs, has a live stream.
serving(k) ==
  created /\ oracle.keeper = k /\ (running(k) => bot[k].stream)

\* While the keeper is not replaced and its stream lives, the pool comes to the
\* newest price and stays there, through lost pushes, lost answers, late pushes
\* and restarts.  (A stream that ends in a process that runs on is excluded:
\* such a bot pushes its last price for ever.)
NewestPriceReachesPool ==
  \A k \in Bots :
    <>[](serving(k) /\ newest_usable) => <>[](quoted.seq = Len(published))

\* A bot that is no longer the keeper stops pushing: its process ends, unless it
\* has nothing to push, whatever the network loses.
ReplacedKeeperStops ==
  \A k \in Bots :
    <>[](created /\ oracle.keeper # k) => <>[](~running(k) \/ ~can_push(k))

\* The config's trade rate is the floor of the fee ("read once at startup,
\* refreshed on config change", README.md:60): once the rate stays put, the
\* served pool comes to charge at least that.
FeeFollowsConfig ==
  \A k \in Bots, rate \in Rates :
    <>[](serving(k) /\ newest_usable /\ amm_config.trade_fee_rate = rate)
      => <>[](effective_trade_fee_rate >= rate)

=============================================================================
