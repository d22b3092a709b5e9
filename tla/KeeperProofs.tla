---------------------------- MODULE KeeperProofs ----------------------------
(***************************************************************************)
(* Theorems about module Keeper, for every value of its constants.         *)
(*                                                                         *)
(* That no bot is turned down unless replaced rests on what is in the      *)
(* network: every push there passes the program's tests but the keeper's   *)
(* (PushesAcceptable).  That a quote is not overtaken rests on each bot's  *)
(* cell being ahead of its pushes (CellAhead) and on the awaited push      *)
(* being the newest of its bot (AwaitedNewest).  That quotes, and so the   *)
(* trades on them, honour the published prices rests on every push in the  *)
(* network doing so (PushesHonour).  With all three, the pool and its      *)
(* keepers implement the followed price of FollowedPrice (FollowedStep);   *)
(* and what Pool promises by itself it keeps in their company.             *)
(***************************************************************************)
EXTENDS FollowedPool, LpFundProofs, SequenceTheorems

-----------------------------------------------------------------------------
(* What a bot makes of a price. *)

Fields == [bid : Int, ask : Int, exponent : Int, dynamic_fee_rate : Nat]

\* The program's tests of a push, but for its signer.
acceptable(quote) ==
  quote.bid > 0 /\ quote.ask >= quote.bid
    /\ quote.dynamic_fee_rate < FEE_RATE_DENOMINATOR_VALUE

\* An absent value counts as 0, a present one as itself.
LEMMA OrZeroInt == ASSUME NEW S \in SUBSET Int PROVE or_zero(S) \in Int
<1>1. CASE S = {}
  BY <1>1 DEF or_zero
<1>2. CASE S # {}
  <2>1. (CHOOSE v \in S : TRUE) \in S
    BY <1>2
  <2> QED BY <1>2, <2>1 DEF or_zero
<1> QED BY <1>1, <1>2

\* Confidence is not negative, in basis points of a positive price.
LEMMA ConfidenceNat ==
  ASSUME NEW q \in Prices, q.price > 0
  PROVE  confidence_bps(q) \in Nat
<1>1. q.price \in Nat \ {0} /\ or_zero(q.confidence) \in Int
  BY OrZeroInt, KeeperAssumption
<1> DEFINE c == or_zero(q.confidence)
<1>2. ASSUME c > 0 PROVE (c * BPS) \div q.price \in Nat
  <2>1. c * BPS \in Nat
    BY <1>1, <1>2 DEF BPS
  <2> HIDE DEF c
  <2> QED BY <1>1, <2>1
<1> QED BY <1>1, <1>2 DEF confidence_bps

LEMMA SpreadNat ==
  ASSUME NEW q \in Prices, NEW s \in Nat, q.price > 0
  PROVE  compute_confidence_adjusted_min_spread_bps(s, q) \in Nat
BY ConfidenceNat
   DEF compute_confidence_adjusted_min_spread_bps, least, MAX_CONFIDENCE_SPREAD_BPS,
       U16_MAX

\* The dynamic fee stays below the whole input, however large the confidence.
LEMMA FeeCapped ==
  ASSUME NEW q \in Prices, NEW base \in Nat, q.price > 0
  PROVE  /\ compute_dynamic_fee_rate(base, q) \in Nat
         /\ compute_dynamic_fee_rate(base, q) < FEE_RATE_DENOMINATOR_VALUE
<1>1. confidence_bps(q) % U64_RANGE \in Nat
  BY ConfidenceNat, KeeperAssumption
<1>2. fee_for_confidence(q) \in Nat
  BY <1>1 DEF fee_for_confidence, FEE_RATE_UNITS_PER_BPS
<1> QED BY <1>2 DEF compute_dynamic_fee_rate, least, FEE_RATE_DENOMINATOR_VALUE

\* What a bot pushes passes the program's tests.
LEMMA FieldsAcceptable ==
  ASSUME NEW q \in Prices, NEW cache,
         cache.min_spread_bps \in Nat, cache.base_trade_fee_rate \in Nat,
         update_fields_defined(q, cache)
  PROVE  /\ compute_update_fields(q, cache) \in Fields
         /\ acceptable(compute_update_fields(q, cache))
<1>1. q.price \in Int /\ q.exponent \in Int
  BY KeeperAssumption
<1>2. or_zero(q.best_bid) \in Int /\ or_zero(q.best_ask) \in Int
  BY OrZeroInt, KeeperAssumption
<1> DEFINE s == spread_for(q, cache)
<1>3. /\ q.price > 0
      /\ effective_bid(q, s) > 0
      /\ effective_bid(q, s) =< effective_ask(q, s)
  BY DEF update_fields_defined, bid_ask_defined
<1>4. s \in Nat
  BY <1>3, SpreadNat DEF spread_for
<1>5. bid_floor(q, s) \in Int /\ ask_floor(q, s) \in Int
  <2> HIDE DEF s
  <2>1. q.price * (2 * BPS - s) \in Int /\ q.price * (2 * BPS + s) \in Int
    BY <1>1, <1>4 DEF BPS
  <2> QED BY <2>1 DEF bid_floor, ask_floor, BPS
<1>6. effective_bid(q, s) \in Int /\ effective_ask(q, s) \in Int
  <2> HIDE DEF s
  <2> QED BY <1>2, <1>5 DEF effective_bid, effective_ask
<1>7. /\ compute_dynamic_fee_rate(cache.base_trade_fee_rate, q) \in Nat
      /\ compute_dynamic_fee_rate(cache.base_trade_fee_rate, q)
           < FEE_RATE_DENOMINATOR_VALUE
  BY <1>3, FeeCapped
<1>8. compute_update_fields(q, cache)
        = [ bid              |-> effective_bid(q, s),
            ask              |-> effective_ask(q, s),
            exponent         |-> q.exponent,
            dynamic_fee_rate |->
              compute_dynamic_fee_rate(cache.base_trade_fee_rate, q) ]
  BY DEF compute_update_fields
<1> HIDE DEF s
<1> QED BY <1>1, <1>3, <1>6, <1>7, <1>8 DEF Fields, acceptable
-----------------------------------------------------------------------------
(* The invariant. *)

Process ==
  [ pc : {"down", "loading", "up"} \union waiting,
    min_spread_bps : Nat, base_trade_fee_rate : Nat, stream : BOOLEAN,
    since : 0 .. MAX_PRICES, cell : 0 .. MAX_PRICES ]

Pushes == [signer : Bots, seq : Nat, awaited : BOOLEAN, quote : Fields]

\* What a keeper reads of the pool and its config.
PoolRead == amm_config \in AmmConfig /\ pool.min_spread_bps \in Nat

\* Only a created pool has bots and pushes.
CreatedBefore ==
  ~created => txs = {} /\ \A k \in Bots : bot[k].pc = "down"

PushesAcceptable == \A tx \in txs : acceptable(tx.quote)

\* A bot waits for one push at a time.
OneAwaited ==
  \A tx, other \in txs :
    tx.awaited /\ other.awaited /\ tx.signer = other.signer => tx = other

\* A process has positions of published prices only.
CellsPublished ==
  \A k \in Bots : bot[k].cell =< Len(published) /\ bot[k].since =< Len(published)

Types ==
  /\ KeeperTypeOK
  /\ CellsPublished
  /\ txs \subseteq Pushes
  /\ OneAwaited
  /\ PoolRead

Network == CreatedBefore /\ PushesAcceptable

-----------------------------------------------------------------------------
(* Types. *)

\* Of the network, only what its users see: pushes come from running bots, keep
\* their quotes, and are awaited no more than before.
LEMMA GivenUp ==
  ASSUME NEW k \in Bots, txs \subseteq Pushes, NEW tx \in given_up(k)
  PROVE  /\ tx \in Pushes
         /\ tx.awaited => tx \in txs /\ tx.signer # k
         /\ \E old \in txs : /\ tx.signer = old.signer
                             /\ tx.seq = old.seq
                             /\ tx.quote = old.quote
<1>1. PICK old \in txs :
        tx = IF old.signer = k THEN [old EXCEPT !.awaited = FALSE] ELSE old
  BY DEF given_up
<1>2. old \in Pushes
  OBVIOUS
<1> QED BY <1>1, <1>2 DEF Pushes

LEMMA TypesInit == KeeperInit => Types
<1> SUFFICES ASSUME KeeperInit PROVE Types
  OBVIOUS
<1> USE PoolAssumption, KeeperAssumption DEF KeeperInit
<1>1. published \in Seq(Prices) /\ Len(published) = 0
  OBVIOUS
<1>2. NoProcess \in Process
  BY DEF NoProcess, Process, waiting
<1>3. bot \in [Bots -> Process]
  BY <1>2
<1>4. amm_config \in AmmConfig /\ pool = NoPool
  <2>1. PICK rates \in Configs : amm_config = create_amm_config(rates)
    BY DEF Init
  <2>2. rates \in [trade : Nat, protocol : Nat, fund : Nat, creator : Nat]
    BY <2>1
  <2> QED BY <2>1, <2>2 DEF create_amm_config, AmmConfig, Init
<1>5. CellsPublished
  BY <1>1, <1>2 DEF CellsPublished, NoProcess
<1> QED BY <1>1, <1>3, <1>4, <1>5
        DEF Types, KeeperTypeOK, OneAwaited, Process, PoolRead, NoPool

\* Of what keepers read, the others open the pool, choose its keeper and change
\* the config.
Opened ==
  /\ ~created /\ created' = TRUE
  /\ \E keeper \in Keys, args \in PoolArgs :
       /\ args_allowed(args)
       /\ pool'.min_spread_bps = args.min_spread_bps
       /\ oracle' = unseeded_oracle(keeper)

KeeperSet == created /\ \E keeper \in Keys : oracle' = [oracle EXCEPT !.keeper = keeper]

LEMMA NextRead ==
  ASSUME Next
  PROVE  \/ Opened
         \/ UNCHANGED <<created, pool>> /\ (UNCHANGED oracle \/ KeeperSet)
<1>1. CASE CreatePool
  <2>1. PICK creator \in Keys, keeper \in Keys, amounts \in InitAmounts,
             args \in PoolArgs :
               \/ Initialize(creator, amounts, args, keeper)
               \/ \E payer \in Keys, fee_on \in CreatorFeeOn :
                    InitializeWithPermission(payer, creator, amounts, args, keeper, fee_on)
    BY <1>1 DEF CreatePool
  <2>2. \E fee_on, enabled :
          create_pool(creator, amounts, args, keeper, fee_on, enabled)
    BY <2>1 DEF Initialize, InitializeWithPermission
  <2>3. /\ ~created /\ created' = TRUE /\ args_allowed(args)
        /\ pool'.min_spread_bps = args.min_spread_bps
        /\ oracle' = unseeded_oracle(keeper)
    BY <2>2 DEF create_pool
  <2> QED BY <2>3 DEF Opened
<1>2. CASE ChangeLiquidity \/ CollectFees \/ External
  BY <1>2 DEF ChangeLiquidity, Deposit, Withdraw, CollectFees, CollectProtocolFee,
              CollectFundFee, CollectCreatorFee, External, SendToVault, BurnLp, Tick,
              adminVars
<1>3. CASE Swap
  BY <1>3 DEF Swap, SwapBaseInput, SwapBaseOutput, settle, adminVars
<1>4. CASE Administer
  <2>1. UpdateAmmConfig => UNCHANGED <<created, pool, oracle>>
    BY DEF UpdateAmmConfig, UpdateTradeFeeRate, UpdateProtocolFeeRate,
           UpdateFundFeeRate, UpdateCreatorFeeRate, UpdateCreatePoolFee,
           SetDisableCreatePool, SetNewProtocolOwner, SetNewFundOwner, config_unchanged
  <2>2. ~ \E signer \in Keys, quote \in Quotes : UpdatePoolOracle(signer, quote)
    BY KeeperAssumption
  <2> QED BY <1>4, <2>1, <2>2
          DEF Administer, CreatePermissionPda, ClosePermissionPda, UpdatePoolStatus,
              SetOracleKeeper, oracle_unchanged, KeeperSet
<1> QED BY <1>1, <1>2, <1>3, <1>4 DEF Next

\* What the others do leaves the keepers' part alone and the pool readable.
LEMMA OthersTypes ==
  ASSUME Types, Settings, Others
  PROVE  Types'
<1>1. UNCHANGED <<published, bot, txs, quoted, crashes>>
  BY DEF Others
<1>2. PoolRead'
  <2>1. Settings'
    BY SettingsStep DEF Others
  <2> QED BY <2>1 DEF PoolRead, Settings, SettingsTypeOK
<1> QED BY <1>1, <1>2 DEF Types, KeeperTypeOK, CellsPublished, OneAwaited

\* A step of one process that leaves the network alone, and an awaited push
\* awaited.
LEMMA ProcessReplaced ==
  ASSUME Types, NEW k \in Bots, NEW p \in Process, bot' = [bot EXCEPT ![k] = p],
         \A tx \in txs : tx.signer = k /\ tx.awaited => p.pc = "sending",
         p.cell =< Len(published), p.since =< Len(published),
         UNCHANGED <<amm_config, pool, published, txs, quoted, crashes>>
  PROVE  Types'
<1>1. bot \in [Bots -> Process] /\ bot' \in [Bots -> Process]
  BY DEF Types, KeeperTypeOK, Process
<1>2. \A tx \in txs : tx.awaited => bot'[tx.signer].pc = "sending"
  BY <1>1 DEF Types, KeeperTypeOK
<1>3. KeeperTypeOK'
  BY <1>1, <1>2 DEF Types, KeeperTypeOK, Process
<1>4. CellsPublished'
  BY <1>1 DEF Types, CellsPublished
<1> QED BY <1>3, <1>4 DEF Types, OneAwaited, PoolRead

\* The two reads of a starting process and its subscriber.
LEMMA StartTypes ==
  ASSUME Types, NEW k \in Bots,
         LoadPool(k) \/ LoadConfig(k) \/ Receive(k) \/ StreamCloses(k)
  PROVE  Types'
<1>0. bot[k].cell =< Len(published) /\ bot[k].since =< Len(published)
  BY DEF Types, CellsPublished
<1>1. bot \in [Bots -> Process] /\ bot[k] \in Process
  BY DEF Types, KeeperTypeOK, Process
<1>2. UNCHANGED <<amm_config, pool, published, txs, quoted, crashes>>
  BY DEF LoadPool, LoadConfig, Receive, StreamCloses, vars
<1>3. PICK p \in Process :
        /\ bot' = [bot EXCEPT ![k] = p]
        /\ bot[k].pc = "sending" => p.pc = "sending"
        /\ p.cell =< Len(published) /\ p.since =< Len(published)
  <2>1. CASE LoadPool(k)
    <3> DEFINE p == [bot[k] EXCEPT !.pc = "loading",
                                   !.min_spread_bps = pool.min_spread_bps]
    <3>1. pool.min_spread_bps \in Nat
      BY DEF Types, PoolRead
    <3>2. p \in Process /\ bot[k].pc # "sending" /\ bot' = [bot EXCEPT ![k] = p]
      BY <1>1, <2>1, <3>1 DEF LoadPool, Process
    <3>3. p.cell = bot[k].cell /\ p.since = bot[k].since
      BY <1>1 DEF Process
    <3> QED BY <1>0, <3>2, <3>3
  <2>2. CASE LoadConfig(k)
    <3> DEFINE p == [bot[k] EXCEPT !.pc = "up",
                                   !.base_trade_fee_rate = amm_config.trade_fee_rate,
                                   !.stream = TRUE,
                                   !.since = Len(published)]
    <3>1. amm_config.trade_fee_rate \in Nat /\ Len(published) \in 0 .. MAX_PRICES
      BY KeeperAssumption, LenProperties DEF Types, KeeperTypeOK, PoolRead, AmmConfig
    <3>2. p \in Process /\ bot[k].pc # "sending" /\ bot' = [bot EXCEPT ![k] = p]
      BY <1>1, <2>2, <3>1 DEF LoadConfig, Process
    <3>3. p.cell = bot[k].cell /\ p.since = Len(published)
      BY <1>1 DEF Process
    <3> HIDE DEF p
    <3>4. p.cell =< Len(published) /\ p.since =< Len(published)
      BY <1>0, <3>1, <3>3
    <3> QED BY <3>2, <3>4
  <2>3. CASE Receive(k)
    <3>1. PICK n \in bot[k].since .. Len(published) :
            n > bot[k].cell /\ bot' = [bot EXCEPT ![k].cell = n]
      BY <2>3 DEF Receive
    <3> DEFINE p == [bot[k] EXCEPT !.cell = n]
    <3>2. n \in 0 .. MAX_PRICES /\ n =< Len(published)
      <4>1. bot[k].since \in Nat
        BY <1>1 DEF Process
      <4>2. Len(published) \in 0 .. MAX_PRICES
        BY KeeperAssumption, LenProperties DEF Types, KeeperTypeOK
      <4> QED BY <3>1, <4>1, <4>2, KeeperAssumption
    <3>3. p \in Process /\ p.pc = bot[k].pc /\ bot' = [bot EXCEPT ![k] = p]
      BY <1>1, <3>1, <3>2 DEF Process
    <3>4. p.cell = n /\ p.since = bot[k].since
      BY <1>1 DEF Process
    <3> QED BY <1>0, <3>2, <3>3, <3>4
  <2>4. CASE StreamCloses(k)
    <3> DEFINE p == [bot[k] EXCEPT !.stream = FALSE]
    <3>1. p \in Process /\ p.pc = bot[k].pc /\ bot' = [bot EXCEPT ![k] = p]
      BY <1>1, <2>4 DEF StreamCloses, Process
    <3>2. p.cell = bot[k].cell /\ p.since = bot[k].since
      BY <1>1 DEF Process
    <3> QED BY <1>0, <3>1, <3>2
  <2> QED BY <2>1, <2>2, <2>3, <2>4
<1>4. \A tx \in txs : tx.signer = k /\ tx.awaited => p.pc = "sending"
  BY <1>3 DEF Types, KeeperTypeOK
<1> QED BY <1>2, <1>3, <1>4, ProcessReplaced

\* A push answered: nobody waits for another one of its bot.
LEMMA AnswerTypes ==
  ASSUME Types, NEW tx \in txs, NEW answer \in waiting, answered(tx, answer),
         txs' = txs \ {tx},
         quoted' \in {quoted, [by |-> tx.signer, seq |-> tx.seq]},
         UNCHANGED <<amm_config, pool, published, crashes>>
  PROVE  Types'
<1>1. tx \in Pushes /\ tx.signer \in Bots /\ tx.seq \in 1 .. Len(published)
  BY DEF Types, KeeperTypeOK
<1>2. bot \in [Bots -> Process] /\ bot[tx.signer] \in Process
  BY <1>1 DEF Types, KeeperTypeOK, Process
<1> DEFINE p == IF tx.awaited THEN [bot[tx.signer] EXCEPT !.pc = answer]
                              ELSE bot[tx.signer]
<1>3. /\ p \in Process /\ bot' = [bot EXCEPT ![tx.signer] = p]
      /\ p.cell = bot[tx.signer].cell /\ p.since = bot[tx.signer].since
      /\ ~tx.awaited => p = bot[tx.signer]
  BY <1>1, <1>2 DEF answered, Process
<1> HIDE DEF p
<1>4. bot' \in [Bots -> Process] /\ CellsPublished'
  BY <1>1, <1>2, <1>3 DEF Types, CellsPublished
<1>5. ASSUME NEW other \in txs', other.awaited PROVE bot'[other.signer].pc = "sending"
  <2>1. other \in txs /\ other # tx /\ bot[other.signer].pc = "sending"
    BY <1>5 DEF Types, KeeperTypeOK
  <2>2. other.signer = tx.signer => ~tx.awaited
    BY <1>5, <2>1 DEF Types, OneAwaited
  <2>3. other.signer \in Bots
    BY <2>1 DEF Types, KeeperTypeOK
  <2> QED BY <1>2, <1>3, <2>1, <2>2, <2>3
<1>6. quoted'.by \in Keys /\ quoted'.seq \in 0 .. Len(published)
  BY <1>1, KeeperAssumption DEF Types, KeeperTypeOK
<1>7. KeeperTypeOK'
  BY <1>4, <1>5, <1>6 DEF Types, KeeperTypeOK, Process
<1> QED BY <1>4, <1>7 DEF Types, OneAwaited, PoolRead

LEMMA PublishTypes ==
  ASSUME Types, NEW price \in Prices, Publish(price)
  PROVE  Types'
<1>1. /\ published \in Seq(Prices)
      /\ published' = Append(published, price)
      /\ Len(published) < MAX_PRICES
      /\ UNCHANGED <<amm_config, pool, bot, txs, quoted, crashes>>
  BY DEF Publish, vars, Types, KeeperTypeOK
<1>2. /\ published' \in Seq(Prices) /\ Len(published) \in Nat
      /\ Len(published') = Len(published) + 1
  BY <1>1, AppendProperties, LenProperties
<1>3. CellsPublished'
  <2>1. ASSUME NEW k \in Bots
        PROVE  bot[k].cell =< Len(published') /\ bot[k].since =< Len(published')
    <3>1. bot[k].cell \in Nat /\ bot[k].since \in Nat
      BY KeeperAssumption DEF Types, KeeperTypeOK
    <3>2. bot[k].cell =< Len(published) /\ bot[k].since =< Len(published)
      BY DEF Types, CellsPublished
    <3> QED BY <1>2, <3>1, <3>2
  <2> QED BY <1>1, <2>1 DEF CellsPublished
<1>4. KeeperTypeOK'
  <2>1. \A tx \in txs : tx.seq \in 1 .. Len(published')
    BY <1>2 DEF Types, KeeperTypeOK
  <2>2. quoted.seq \in 0 .. Len(published')
    BY <1>2 DEF Types, KeeperTypeOK
  <2>3. Len(published') =< MAX_PRICES
    BY <1>1, <1>2, KeeperAssumption
  <2> QED BY <1>1, <1>2, <2>1, <2>2, <2>3 DEF Types, KeeperTypeOK
<1> QED BY <1>1, <1>3, <1>4 DEF Types, OneAwaited, PoolRead

\* What a bot submits is a push, and an acceptable one.
LEMMA PushOf ==
  ASSUME Types, NEW k \in Bots, can_push(k)
  PROVE  /\ push_of(k) \in Pushes
         /\ push_of(k).seq \in 1 .. Len(published)
         /\ push_of(k).seq = bot[k].cell
         /\ push_of(k).signer = k
         /\ acceptable(push_of(k).quote)
<1> DEFINE q == published[bot[k].cell]
<1>1. /\ bot[k].cell \in Nat
      /\ bot[k].min_spread_bps \in Nat /\ bot[k].base_trade_fee_rate \in Nat
  BY KeeperAssumption DEF Types, KeeperTypeOK
<1>2. bot[k].cell \in 1 .. Len(published)
  BY <1>1, LenProperties DEF Types, KeeperTypeOK, CellsPublished, can_push
<1>3. q \in Prices
  BY <1>2, ElementOfSeq DEF Types, KeeperTypeOK
<1>4. update_fields_defined(q, bot[k])
  BY DEF can_push
<1> HIDE DEF q
<1>5. /\ compute_update_fields(q, bot[k]) \in Fields
      /\ acceptable(compute_update_fields(q, bot[k]))
  BY <1>1, <1>3, <1>4, FieldsAcceptable
<1>6. push_of(k) = [ signer |-> k, seq |-> bot[k].cell, awaited |-> TRUE,
                     quote |-> compute_update_fields(q, bot[k]) ]
  BY DEF push_of, q
<1> QED BY <1>2, <1>5, <1>6 DEF Pushes

LEMMA PushTypes ==
  ASSUME Types, NEW k \in Bots, Push(k)
  PROVE  Types'
<1>1. /\ bot[k].pc = "up"
      /\ txs' = txs \union {push_of(k)}
      /\ bot' = [bot EXCEPT ![k].pc = "sending"]
      /\ UNCHANGED <<amm_config, pool, published, quoted, crashes>>
  BY DEF Push, vars
<1>2. /\ push_of(k) \in Pushes /\ push_of(k).signer = k
      /\ push_of(k).seq \in 1 .. Len(published)
  BY PushOf DEF Push
<1>3. bot \in [Bots -> Process]
  BY DEF Types, KeeperTypeOK, Process
<1>4. /\ bot' \in [Bots -> Process] /\ bot'[k].pc = "sending"
      /\ \A j \in Bots : /\ bot'[j].cell = bot[j].cell /\ bot'[j].since = bot[j].since
                         /\ j # k => bot'[j] = bot[j]
  BY <1>1, <1>3 DEF Process, waiting
<1>5. CellsPublished'
  BY <1>1, <1>4 DEF Types, CellsPublished
<1>6. \A tx \in txs' : /\ tx.signer \in Bots
                       /\ tx.seq \in 1 .. Len(published)
                       /\ tx.awaited => bot'[tx.signer].pc = "sending"
  BY <1>1, <1>2, <1>4 DEF Types, KeeperTypeOK
<1>7. KeeperTypeOK'
  BY <1>1, <1>4, <1>6 DEF Types, KeeperTypeOK, Process
<1>8. OneAwaited'
  BY <1>1, <1>2 DEF Types, OneAwaited, KeeperTypeOK
<1> QED BY <1>1, <1>2, <1>5, <1>7, <1>8 DEF Types, PoolRead

\* The end of a wait, and of a process.
LEMMA ReturnTypes ==
  ASSUME Types, NEW k \in Bots, Succeed(k) \/ ExitFatal(k)
  PROVE  Types'
<1>1. bot \in [Bots -> Process] /\ bot[k] \in Process /\ NoProcess \in Process
  BY KeeperAssumption DEF Types, KeeperTypeOK, Process, NoProcess, waiting
<1>2. /\ bot[k].pc # "sending"
      /\ UNCHANGED <<amm_config, pool, published, txs, quoted, crashes>>
  BY DEF Succeed, ExitFatal, vars
<1>3. bot[k].cell =< Len(published) /\ bot[k].since =< Len(published)
  BY DEF Types, CellsPublished
<1>4. Len(published) \in Nat
  BY LenProperties DEF Types, KeeperTypeOK
<1>5. PICK p \in Process : /\ bot' = [bot EXCEPT ![k] = p]
                           /\ p.cell =< Len(published) /\ p.since =< Len(published)
  <2>1. CASE Succeed(k)
    <3> DEFINE p == [bot[k] EXCEPT !.pc = "up"]
    <3>1. p \in Process /\ bot' = [bot EXCEPT ![k] = p]
      BY <1>1, <2>1 DEF Succeed, Process
    <3>2. p.cell = bot[k].cell /\ p.since = bot[k].since
      BY <1>1 DEF Process
    <3> QED BY <1>3, <3>1, <3>2
  <2>2. CASE ExitFatal(k)
    <3>1. NoProcess.cell =< Len(published) /\ NoProcess.since =< Len(published)
      BY <1>4 DEF NoProcess
    <3> QED BY <1>1, <2>2, <3>1 DEF ExitFatal
  <2> QED BY <2>1, <2>2
<1>6. \A tx \in txs : tx.signer = k /\ tx.awaited => p.pc = "sending"
  BY <1>2 DEF Types, KeeperTypeOK
<1> QED BY <1>2, <1>5, <1>6, ProcessReplaced

\* A process that waits no more, or is killed, gives its pushes up.
LEMMA GiveUpTypes ==
  ASSUME Types, NEW k \in Bots, Transient(k) \/ Crash(k)
  PROVE  Types'
<1>1. /\ txs' = given_up(k)
      /\ UNCHANGED <<amm_config, pool, published, quoted>>
      /\ crashes' \in 0 .. MAX_CRASHES
  BY KeeperAssumption DEF Transient, Crash, vars, Types, KeeperTypeOK
<1>2. /\ bot \in [Bots -> Process] /\ NoProcess \in Process
      /\ NoProcess.cell = 0 /\ NoProcess.since = 0
  BY KeeperAssumption DEF Types, KeeperTypeOK, Process, NoProcess, waiting
<1>3. /\ bot' \in [Bots -> Process]
      /\ \A j \in Bots : j # k => bot'[j] = bot[j]
      /\ \/ bot'[k].cell = bot[k].cell /\ bot'[k].since = bot[k].since
         \/ bot'[k].cell = 0 /\ bot'[k].since = 0
  <2>1. CASE Transient(k)
    BY <1>2, <2>1 DEF Transient, Process
  <2>2. CASE Crash(k)
    BY <1>2, <2>2 DEF Crash
  <2> QED BY <2>1, <2>2
<1>4. Len(published) \in Nat
  BY LenProperties DEF Types, KeeperTypeOK
<1>5. CellsPublished'
  BY <1>1, <1>3, <1>4 DEF Types, CellsPublished
<1>6. ASSUME NEW tx \in txs'
      PROVE  /\ tx \in Pushes
             /\ tx.signer \in Bots /\ tx.seq \in 1 .. Len(published)
             /\ tx.awaited => tx \in txs /\ bot'[tx.signer].pc = "sending"
  <2>1. /\ tx \in Pushes
        /\ tx.awaited => tx \in txs /\ tx.signer # k
        /\ \E old \in txs : tx.signer = old.signer /\ tx.seq = old.seq
    BY <1>1, GivenUp DEF Types
  <2>2. tx.signer \in Bots /\ tx.seq \in 1 .. Len(published)
    BY <2>1 DEF Types, KeeperTypeOK
  <2>3. tx.awaited => bot[tx.signer].pc = "sending"
    BY <2>1 DEF Types, KeeperTypeOK
  <2> QED BY <1>3, <2>1, <2>2, <2>3
<1>7. KeeperTypeOK'
  BY <1>1, <1>3, <1>6 DEF Types, KeeperTypeOK, Process
<1> QED BY <1>1, <1>5, <1>6, <1>7 DEF Types, OneAwaited, PoolRead

LEMMA NetworkTypes ==
  ASSUME Types, NEW tx \in txs, Land(tx) \/ Reject(tx) \/ Expire(tx)
  PROVE  Types'
<1>1. CASE Land(tx)
  <2>1. UNCHANGED <<amm_config, pool>>
    BY <1>1 DEF Land, UpdatePoolOracle, oracle_unchanged
  <2> QED BY <1>1, <2>1, AnswerTypes DEF Land, waiting
<1>2. CASE Reject(tx)
  BY <1>2, AnswerTypes DEF Reject, waiting, vars
<1>3. CASE Expire(tx)
  BY <1>3 DEF Expire, vars, Types, KeeperTypeOK, CellsPublished, OneAwaited, PoolRead
<1> QED BY <1>1, <1>2, <1>3

LEMMA TypesStep == Settings /\ Types /\ [KeeperNext]_keeperVars => Types'
<1> SUFFICES ASSUME Settings, Types, [KeeperNext]_keeperVars PROVE Types'
  OBVIOUS
<1>1. CASE UNCHANGED keeperVars
  BY <1>1 DEF keeperVars, vars, Types, KeeperTypeOK, CellsPublished, OneAwaited, PoolRead
<1> QED BY <1>1, OthersTypes, PublishTypes, StartTypes, PushTypes, ReturnTypes,
           GiveUpTypes, NetworkTypes DEF KeeperNext, Serve

-----------------------------------------------------------------------------
(* The network. *)

LEMMA NetworkStep == Types /\ Network /\ [KeeperNext]_keeperVars => Network'
<1> SUFFICES ASSUME Types, Network, [KeeperNext]_keeperVars PROVE Network'
  OBVIOUS
<1> USE DEF Network, CreatedBefore, PushesAcceptable
<1>0. bot \in [Bots -> Process]
  BY DEF Types, KeeperTypeOK, Process
<1>1. CASE Others
  <2>1. created => created'
    BY <1>1, NextRead DEF Others, Opened
  <2> QED BY <1>1, <2>1 DEF Others
<1>2. ASSUME NEW price \in Prices, Publish(price) PROVE Network'
  BY <1>2 DEF Publish, vars
<1>3. ASSUME NEW k \in Bots,
             LoadPool(k) \/ LoadConfig(k) \/ Receive(k) \/ StreamCloses(k)
                         \/ Succeed(k) \/ ExitFatal(k)
      PROVE  Network'
  <2>1. created /\ UNCHANGED <<created, txs>>
    BY <1>0, <1>3 DEF LoadPool, LoadConfig, Receive, StreamCloses, Succeed, ExitFatal,
                      running, waiting, vars
  <2> QED BY <2>1
<1>4. ASSUME NEW k \in Bots, Push(k) PROVE Network'
  <2>1. created /\ UNCHANGED created /\ txs' = txs \union {push_of(k)}
    BY <1>4 DEF Push, vars
  <2>2. acceptable(push_of(k).quote)
    BY <1>4, PushOf DEF Push
  <2> QED BY <2>1, <2>2
<1>5. ASSUME NEW k \in Bots, Transient(k) \/ Crash(k) PROVE Network'
  <2>1. created /\ UNCHANGED created /\ txs' = given_up(k)
    BY <1>5 DEF Transient, Crash, waiting, vars
  <2>2. \A tx \in txs' : acceptable(tx.quote)
    BY <2>1, GivenUp DEF Types
  <2> QED BY <2>1, <2>2
<1>6. ASSUME NEW tx \in txs, Land(tx) \/ Reject(tx) \/ Expire(tx) PROVE Network'
  <2>1. created /\ UNCHANGED created /\ txs' \subseteq txs
    BY <1>6 DEF Land, Reject, Expire, UpdatePoolOracle, oracle_unchanged, vars
  <2> QED BY <2>1
<1>7. CASE UNCHANGED keeperVars
  BY <1>7 DEF keeperVars, vars
<1> QED BY <1>1, <1>2, <1>3, <1>4, <1>5, <1>6, <1>7 DEF KeeperNext, Serve

LEMMA NetworkInit == KeeperInit => Network
BY DEF KeeperInit, Network, CreatedBefore, PushesAcceptable, NoProcess, Init

-----------------------------------------------------------------------------
(* The pool under its keepers. *)

\* What the bots and the network do to the pool: a push that lands writes the
\* cached quote, nothing else.
LEMMA ServeAccounts ==
  ASSUME Settings, Ledger, Types, Serve
  PROVE  /\ Settings' /\ Ledger'
         /\ UNCHANGED <<created, pool, lp_supply, lp_mint_supply, protocol_fees, fund_fees,
                        creator_fees, vault, observation, clock>>
<1>1. CASE UNCHANGED vars
  <2>1. Settings' /\ Ledger'
    BY <1>1, SettingsStep, LedgerStep
  <2> QED BY <1>1, <2>1 DEF vars
<1>2. ASSUME NEW tx \in txs, Land(tx)
      PROVE  /\ Settings' /\ Ledger'
             /\ UNCHANGED <<created, pool, lp_supply, lp_mint_supply, protocol_fees,
                            fund_fees, creator_fees, vault, observation, clock>>
  <2>1. tx.quote \in Fields
    BY DEF Types, Pushes
  <2>2. /\ oracle' = [oracle EXCEPT !.bid = tx.quote.bid,
                                    !.ask = tx.quote.ask,
                                    !.exponent = tx.quote.exponent,
                                    !.dynamic_fee_rate = tx.quote.dynamic_fee_rate,
                                    !.last_update = clock]
        /\ UNCHANGED <<amm_config, permissions, status, created, pool, lp_supply,
                       lp_mint_supply, protocol_fees, fund_fees, creator_fees, vault,
                       observation, clock>>
    BY <1>2 DEF Land, UpdatePoolOracle, oracle_unchanged, feeVars
  <2>3. Settings'
    BY <2>1, <2>2 DEF Settings, SettingsTypeOK, RatesBounded, rates_allowed, Fields
  <2>4. Ledger'
    BY <2>2 DEF Ledger, LedgerTypeOK, LpSupplyCoversHolders, ReservesLeft,
                NothingBeforeCreation, vault_amount_without_fee, accrued_fees
  <2> QED BY <2>2, <2>3, <2>4
<1> QED BY <1>1, <1>2
        DEF Serve, Publish, LoadPool, LoadConfig, Receive, StreamCloses, Push, Succeed,
            ExitFatal, Transient, Crash, Reject, Expire

LEMMA AccountsStep ==
  Settings /\ Ledger /\ Types /\ [KeeperNext]_keeperVars => Settings' /\ Ledger'
<1>1. keeperVars' = keeperVars => vars' = vars
  BY DEF keeperVars
<1> QED BY <1>1, ServeAccounts, SettingsStep, LedgerStep DEF KeeperNext, Others

-----------------------------------------------------------------------------
(* The theorems about what the program turns down. *)

Accounts == Settings /\ Ledger

LEMMA KeeperInvariants == KeeperSpec => [](Accounts /\ Types /\ Network)
<1>1. KeeperInit => Accounts /\ Types /\ Network
  BY SettingsInit, LedgerInit, TypesInit, NetworkInit DEF KeeperInit, Accounts
<1>2. Accounts /\ Types /\ Network /\ [KeeperNext]_keeperVars
        => Accounts' /\ Types' /\ Network'
  BY AccountsStep, TypesStep, NetworkStep DEF Accounts
<1> QED BY <1>1, <1>2, PTL DEF KeeperSpec

\* No bot ever waits for a push that is no longer in the network or was given up,
\* and every position a process or a push holds is that of a published price.
THEOREM KeeperTypesAlwaysOK == KeeperSpec => []KeeperTypeOK
<1>1. Types /\ Network => KeeperTypeOK
  BY DEF Types
<1> QED BY <1>1, KeeperInvariants, PTL

\* A bot learns that the program has turned its push down only after another key
\* has become the keeper: for no price, market side or confidence, and for no
\* rate or spread it may have read, does it push what the program refuses.
THEOREM OnlyReplacedKeepersAreRejected == KeeperSpec => OnlyReplacedRejected
<1> DEFINE Refused(k) == bot[k].pc = "sending" /\ bot'[k].pc = "rejected"
           A == \A k \in Bots : Refused(k) => oracle.keeper # k
<1>1. ASSUME Types, Network, [KeeperNext]_keeperVars PROVE A
  <2> SUFFICES ASSUME NEW k \in Bots, Refused(k) PROVE oracle.keeper # k
    OBVIOUS
  <2>0. bot \in [Bots -> Process]
    BY <1>1 DEF Types, KeeperTypeOK, Process
  <2>1. PICK tx \in txs : Reject(tx) /\ bot'[k] # bot[k]
    <3>1. ~ UNCHANGED bot
      OBVIOUS
    <3>2. ~Others /\ ~ \E price \in Prices : Publish(price)
      BY <3>1 DEF Others, Publish
    <3>3. ASSUME NEW j \in Bots,
                 LoadPool(j) \/ LoadConfig(j) \/ Receive(j) \/ StreamCloses(j)
                   \/ Push(j) \/ Succeed(j) \/ ExitFatal(j) \/ Transient(j) \/ Crash(j)
          PROVE  FALSE
      <4>1. CASE LoadPool(j) \/ LoadConfig(j)
        BY <2>0, <4>1 DEF LoadPool, LoadConfig, Process
      <4>2. CASE Receive(j)
        <5>1. PICK n \in bot[j].since .. Len(published) : bot' = [bot EXCEPT ![j].cell = n]
          BY <4>2 DEF Receive
        <5> QED BY <2>0, <5>1 DEF Process
      <4>5. CASE StreamCloses(j)
        BY <2>0, <4>5 DEF StreamCloses, Process
      <4>3. CASE Push(j) \/ Succeed(j) \/ Transient(j)
        BY <2>0, <4>3 DEF Push, Succeed, Transient, Process
      <4>4. CASE ExitFatal(j) \/ Crash(j)
        BY <2>0, <4>4 DEF ExitFatal, Crash, NoProcess
      <4> QED BY <3>3, <4>1, <4>2, <4>3, <4>4, <4>5
    <3>4. ASSUME NEW tx \in txs, Land(tx) \/ Expire(tx) PROVE FALSE
      BY <2>0, <3>1, <3>4 DEF Land, Expire, answered, Process
    <3>5. ~ UNCHANGED keeperVars
      BY <3>1 DEF keeperVars
    <3>6. KeeperNext
      BY <1>1, <3>5
    <3>7. \E tx \in txs : Reject(tx)
      BY <3>2, <3>3, <3>4, <3>6 DEF KeeperNext, Serve
    <3>8. bot'[k] # bot[k]
      OBVIOUS
    <3> QED BY <3>7, <3>8
  <2>2. tx.signer = k
    BY <2>0, <2>1, <1>1 DEF Reject, answered, Types, KeeperTypeOK
  <2>3. created /\ acceptable(tx.quote)
    BY <1>1 DEF Network, CreatedBefore, PushesAcceptable
  <2> QED BY <2>1, <2>2, <2>3 DEF Reject, push_accepted, acceptable
<1>2. KeeperSpec => [][A]_keeperVars
  BY <1>1, KeeperInvariants, PTL DEF KeeperSpec
<1> QED BY <1>2 DEF OnlyReplacedRejected

-----------------------------------------------------------------------------
(* Order. *)

\* No push of k is past this position, and no later one is before it.
frontier(k) == IF bot[k].cell = 0 THEN bot[k].since ELSE bot[k].cell

CellAhead ==
  \A k \in Bots :
    /\ ~running(k) => bot[k].cell = 0
    /\ running(k) => /\ bot[k].since =< frontier(k)
                     /\ \A tx \in txs : tx.signer = k => tx.seq =< frontier(k)
                     /\ quoted.by = k => quoted.seq =< frontier(k)

AwaitedNewest ==
  \A tx \in txs :
    tx.awaited =>
      /\ quoted.by = tx.signer => quoted.seq =< tx.seq
      /\ \A other \in txs : other.signer = tx.signer => other.seq =< tx.seq

Order == CellAhead /\ AwaitedNewest

LEMMA OrderInit == KeeperInit => Order
BY DEF KeeperInit, Order, CellAhead, AwaitedNewest, NoProcess, running, waiting

\* Neither the network nor the quote gets anything new: only processes move, and
\* their cells only ahead.
LEMMA OrderKept ==
  ASSUME Types, Types', Order,
         \A tx \in txs' :
           /\ tx.awaited => tx \in txs
           /\ \E old \in txs : tx.signer = old.signer /\ tx.seq = old.seq,
         UNCHANGED quoted,
         \A k \in Bots :
           \/ bot'[k].pc \in {"down", "loading"} /\ bot'[k].cell = 0
           \/ /\ running(k) /\ running(k)'
              /\ bot'[k].since = bot[k].since
              /\ \/ bot'[k].cell = bot[k].cell
                 \/ bot'[k].cell > bot[k].cell /\ bot'[k].cell >= bot[k].since
  PROVE  Order'
<1>1. AwaitedNewest'
  <2> SUFFICES ASSUME NEW tx \in txs', tx.awaited
               PROVE  /\ quoted.by = tx.signer => quoted.seq =< tx.seq
                      /\ \A other \in txs' : other.signer = tx.signer => other.seq =< tx.seq
    BY DEF AwaitedNewest
  <2>1. tx \in txs
    OBVIOUS
  <2> QED BY <2>1 DEF Order, AwaitedNewest
<1>2. CellAhead'
  <2> SUFFICES ASSUME NEW k \in Bots
               PROVE  /\ ~running(k)' => bot'[k].cell = 0
                      /\ running(k)' =>
                           /\ bot'[k].since =< frontier(k)'
                           /\ \A tx \in txs' : tx.signer = k => tx.seq =< frontier(k)'
                           /\ quoted.by = k => quoted.seq =< frontier(k)'
    BY DEF CellAhead
  <2>1. CASE bot'[k].pc \in {"down", "loading"} /\ bot'[k].cell = 0
    BY <2>1 DEF running, waiting
  <2>2. CASE /\ running(k) /\ running(k)'
             /\ bot'[k].since = bot[k].since
             /\ \/ bot'[k].cell = bot[k].cell
                \/ bot'[k].cell > bot[k].cell /\ bot'[k].cell >= bot[k].since
    <3>1. /\ bot[k].cell \in Nat /\ bot[k].since \in Nat /\ bot'[k].cell \in Nat
      BY KeeperAssumption DEF Types, KeeperTypeOK
    <3>2. frontier(k) \in Nat /\ frontier(k)' \in Nat /\ frontier(k) =< frontier(k)'
      BY <2>2, <3>1 DEF frontier
    <3>3. /\ bot[k].since =< frontier(k)
          /\ \A tx \in txs : tx.signer = k => tx.seq =< frontier(k)
          /\ quoted.by = k => quoted.seq =< frontier(k)
      BY <2>2 DEF Order, CellAhead
    <3>4. /\ \A tx \in txs : tx.seq \in Nat
          /\ quoted.seq \in Nat
      BY LenProperties DEF Types, KeeperTypeOK, Pushes
    <3>5. ASSUME NEW tx \in txs', tx.signer = k PROVE tx.seq =< frontier(k)'
      BY <3>2, <3>3, <3>4, <3>5
    <3>6. bot'[k].since =< frontier(k)' /\ (quoted.by = k => quoted.seq =< frontier(k)')
      BY <2>2, <3>1, <3>2, <3>3, <3>4
    <3> QED BY <2>2, <3>5, <3>6
  <2> QED BY <2>1, <2>2
<1> QED BY <1>1, <1>2 DEF Order

\* OrderKept, when only k moves.
LEMMA OrderKeptBy ==
  ASSUME Types, Types', Order, NEW k \in Bots,
         \A tx \in txs' :
           /\ tx.awaited => tx \in txs
           /\ \E old \in txs : tx.signer = old.signer /\ tx.seq = old.seq,
         UNCHANGED quoted,
         \A j \in Bots : j # k => bot'[j] = bot[j],
         \/ bot'[k].pc \in {"down", "loading"} /\ bot'[k].cell = 0
         \/ /\ running(k) /\ bot'[k].pc \in {"up"} \union waiting
            /\ bot'[k].since = bot[k].since
            /\ \/ bot'[k].cell = bot[k].cell
               \/ bot'[k].cell > bot[k].cell /\ bot'[k].cell >= bot[k].since
  PROVE  Order'
<1>1. \A j \in Bots : ~running(j) => bot[j].pc \in {"down", "loading"} /\ bot[j].cell = 0
  BY DEF Types, KeeperTypeOK, Order, CellAhead, running
<1>2. ASSUME NEW j \in Bots
      PROVE  \/ bot'[j].pc \in {"down", "loading"} /\ bot'[j].cell = 0
             \/ /\ running(j) /\ running(j)'
                /\ bot'[j].since = bot[j].since
                /\ \/ bot'[j].cell = bot[j].cell
                   \/ bot'[j].cell > bot[j].cell /\ bot'[j].cell >= bot[j].since
  BY <1>1 DEF running
<1> QED BY <1>2, OrderKept

LEMMA ProcessOrder ==
  ASSUME Types, Types', Order, NEW k \in Bots,
         LoadPool(k) \/ Receive(k) \/ StreamCloses(k) \/ Succeed(k) \/ ExitFatal(k)
           \/ Transient(k) \/ Crash(k)
  PROVE  Order'
<1>0. bot \in [Bots -> Process]
  BY DEF Types, KeeperTypeOK, Process
<1>1. \A tx \in txs' :
        /\ tx.awaited => tx \in txs
        /\ \E old \in txs : tx.signer = old.signer /\ tx.seq = old.seq
  <2>1. CASE txs' = txs
    BY <2>1
  <2>2. CASE txs' = given_up(k)
    BY <2>2, GivenUp DEF Types
  <2> QED BY <2>1, <2>2
          DEF LoadPool, Receive, StreamCloses, Succeed, ExitFatal, Transient, Crash
<1>2. UNCHANGED quoted
  BY DEF LoadPool, Receive, StreamCloses, Succeed, ExitFatal, Transient, Crash
<1>3. CASE LoadPool(k)
  <2>1. bot[k].cell = 0
    BY <1>3 DEF LoadPool, Order, CellAhead, running, waiting
  <2>2. /\ \A j \in Bots : j # k => bot'[j] = bot[j]
        /\ bot'[k].pc = "loading" /\ bot'[k].cell = bot[k].cell
    BY <1>0, <1>3 DEF LoadPool, Process
  <2> QED BY <1>1, <1>2, <2>1, <2>2, OrderKeptBy
<1>4. CASE Receive(k)
  <2>1. PICK n \in bot[k].since .. Len(published) :
          n > bot[k].cell /\ bot' = [bot EXCEPT ![k].cell = n]
    BY <1>4 DEF Receive
  <2>2. /\ \A j \in Bots : j # k => bot'[j] = bot[j]
        /\ bot'[k].pc = bot[k].pc /\ bot'[k].cell = n /\ bot'[k].since = bot[k].since
    BY <1>0, <2>1 DEF Process
  <2>3. bot[k].since \in Nat /\ Len(published) \in Nat
    BY <1>0, KeeperAssumption, LenProperties DEF Process, Types, KeeperTypeOK
  <2>4. n >= bot[k].since
    BY <2>3
  <2>5. running(k) /\ bot'[k].pc \in {"up"} \union waiting
    BY <1>4, <2>2 DEF Receive, running
  <2> QED BY <1>1, <1>2, <2>1, <2>2, <2>4, <2>5, OrderKeptBy
<1>5. CASE StreamCloses(k) \/ Succeed(k) \/ Transient(k)
  <2>1. /\ \A j \in Bots : j # k => bot'[j] = bot[j]
        /\ bot'[k].cell = bot[k].cell /\ bot'[k].since = bot[k].since
        /\ bot'[k].pc \in {bot[k].pc, "up"}
    <3>1. CASE StreamCloses(k)
      BY <1>0, <3>1 DEF StreamCloses, Process
    <3>2. CASE Succeed(k)
      BY <1>0, <3>2 DEF Succeed, Process
    <3>3. CASE Transient(k)
      BY <1>0, <3>3 DEF Transient, Process
    <3> QED BY <1>5, <3>1, <3>2, <3>3
  <2>2. running(k)
    BY <1>5 DEF StreamCloses, Succeed, Transient, running, waiting
  <2>3. bot'[k].pc \in {"up"} \union waiting
    BY <2>1, <2>2 DEF running
  <2> QED BY <1>1, <1>2, <2>1, <2>2, <2>3, OrderKeptBy
<1>6. CASE ExitFatal(k) \/ Crash(k)
  <2>1. /\ \A j \in Bots : j # k => bot'[j] = bot[j]
        /\ bot'[k].pc = "down" /\ bot'[k].cell = 0
    BY <1>0, <1>6 DEF ExitFatal, Crash, NoProcess
  <2> QED BY <1>1, <1>2, <2>1, OrderKeptBy
<1> QED BY <1>3, <1>4, <1>5, <1>6

\* A process starts behind every price its key has pushed.
LEMMA LoadConfigOrder ==
  ASSUME Types, Types', Order, NEW k \in Bots, LoadConfig(k)
  PROVE  Order'
<1>0. bot \in [Bots -> Process]
  BY DEF Types, KeeperTypeOK, Process
<1>1. UNCHANGED <<published, txs, quoted>> /\ bot[k].cell = 0
  BY DEF LoadConfig, Order, CellAhead, running, waiting
<1>2. /\ \A j \in Bots : j # k => bot'[j] = bot[j]
      /\ bot'[k].cell = bot[k].cell /\ bot'[k].since = Len(published)
      /\ bot'[k].pc = "up"
  BY <1>0 DEF LoadConfig, Process
<1>3. frontier(k)' = Len(published) /\ Len(published) \in Nat
  BY <1>1, <1>2, LenProperties DEF frontier, Types, KeeperTypeOK
<1>4. /\ \A tx \in txs : tx.seq =< Len(published)
      /\ quoted.seq =< Len(published)
  BY <1>3 DEF Types, KeeperTypeOK
<1>5. AwaitedNewest'
  BY <1>1 DEF Order, AwaitedNewest
<1>6. ASSUME NEW j \in Bots
      PROVE  /\ ~running(j)' => bot'[j].cell = 0
             /\ running(j)' =>
                  /\ bot'[j].since =< frontier(j)'
                  /\ \A tx \in txs : tx.signer = j => tx.seq =< frontier(j)'
                  /\ quoted.by = j => quoted.seq =< frontier(j)'
  <2>1. CASE j = k
    BY <1>1, <1>2, <1>3, <1>4, <2>1
  <2>2. CASE j # k
    <3>1. bot'[j] = bot[j]
      BY <1>2, <2>2
    <3> QED BY <3>1 DEF Order, CellAhead, running, frontier
  <2> QED BY <2>1, <2>2
<1> QED BY <1>1, <1>5, <1>6 DEF Order, CellAhead

\* What k pushes is the newest it has, and the only push k waits for.
LEMMA PushOrder ==
  ASSUME Types, Types', Order, NEW k \in Bots, Push(k)
  PROVE  Order'
<1>0. bot \in [Bots -> Process]
  BY DEF Types, KeeperTypeOK, Process
<1> DEFINE new == push_of(k)
<1>1. /\ bot[k].pc = "up" /\ can_push(k)
      /\ txs' = txs \union {new} /\ UNCHANGED quoted
      /\ bot' = [bot EXCEPT ![k].pc = "sending"]
  BY DEF Push
<1>2. /\ \A j \in Bots : /\ j # k => bot'[j] = bot[j]
                         /\ bot'[j].cell = bot[j].cell /\ bot'[j].since = bot[j].since
      /\ running(k) /\ running(k)'
  BY <1>0, <1>1 DEF running, waiting, Process
<1>3. new.signer = k /\ new.seq = bot[k].cell /\ frontier(k) = bot[k].cell
  BY <1>1, PushOf DEF can_push, frontier
<1> HIDE DEF new
<1>4. /\ \A tx \in txs : tx.signer = k => tx.seq =< new.seq
      /\ quoted.by = k => quoted.seq =< new.seq
      /\ new.seq \in Nat
  <2>1. bot[k].cell \in Nat
    BY <1>0, KeeperAssumption DEF Process
  <2> QED BY <1>2, <1>3, <2>1 DEF Order, CellAhead
<1>5. AwaitedNewest'
  <2>1. ASSUME NEW tx \in txs', tx.awaited
        PROVE  /\ quoted.by = tx.signer => quoted.seq =< tx.seq
               /\ \A other \in txs' : other.signer = tx.signer => other.seq =< tx.seq
    <3>1. CASE tx = new
      BY <1>1, <1>3, <1>4, <3>1
    <3>2. CASE tx \in txs
      <4>1. tx.signer # k
        BY <1>1, <2>1, <3>2 DEF Types, KeeperTypeOK
      <4> QED BY <1>1, <1>3, <2>1, <3>2, <4>1 DEF Order, AwaitedNewest
    <3> QED BY <1>1, <3>1, <3>2
  <2> QED BY <1>1, <2>1 DEF AwaitedNewest
<1>6. ASSUME NEW j \in Bots
      PROVE  /\ ~running(j)' => bot'[j].cell = 0
             /\ running(j)' =>
                  /\ bot'[j].since =< frontier(j)'
                  /\ \A tx \in txs' : tx.signer = j => tx.seq =< frontier(j)'
                  /\ quoted.by = j => quoted.seq =< frontier(j)'
  <2>1. frontier(j)' = frontier(j) /\ bot'[j].since = bot[j].since
    BY <1>2 DEF frontier
  <2>2. running(j)' = running(j)
    BY <1>2 DEF running
  <2>3. /\ ~running(j) => bot'[j].cell = 0
        /\ running(j) => /\ bot[j].since =< frontier(j)
                         /\ \A tx \in txs : tx.signer = j => tx.seq =< frontier(j)
                         /\ quoted.by = j => quoted.seq =< frontier(j)
    BY <1>2 DEF Order, CellAhead
  <2>4. ASSUME NEW tx \in txs', tx.signer = j, running(j) PROVE tx.seq =< frontier(j)
    BY <1>1, <1>3, <1>4, <2>3, <2>4
  <2> QED BY <1>1, <2>1, <2>2, <2>3, <2>4
<1> QED BY <1>1, <1>5, <1>6 DEF Order, CellAhead

\* What lands is behind its bot's cell, and behind the push its bot waits for.
LEMMA LandOrder ==
  ASSUME Types, Types', Order, NEW tx \in txs, Land(tx)
  PROVE  Order'
<1>0. bot \in [Bots -> Process] /\ tx.signer \in Bots
  BY DEF Types, KeeperTypeOK, Process
<1>1. /\ txs' = txs \ {tx} /\ answered(tx, "landed")
      /\ quoted' = [by |-> tx.signer, seq |-> tx.seq]
  BY DEF Land
<1>2. \A j \in Bots : /\ bot'[j].cell = bot[j].cell /\ bot'[j].since = bot[j].since
                      /\ running(j)' = running(j)
  <2>1. CASE ~tx.awaited
    BY <1>1, <2>1 DEF answered, running
  <2>2. CASE tx.awaited
    <3>1. bot[tx.signer].pc = "sending"
      BY <2>2 DEF Types, KeeperTypeOK
    <3> QED BY <1>0, <1>1, <2>2, <3>1 DEF answered, running, waiting, Process
  <2> QED BY <2>1, <2>2
<1>3. \A j \in Bots : frontier(j)' = frontier(j)
  BY <1>2 DEF frontier
<1>4. AwaitedNewest'
  BY <1>1 DEF Order, AwaitedNewest
<1>5. CellAhead'
  BY <1>1, <1>2, <1>3 DEF Order, CellAhead
<1> QED BY <1>4, <1>5 DEF Order

LEMMA LostOrder ==
  ASSUME Types, Types', Order, NEW tx \in txs, Reject(tx) \/ Expire(tx)
  PROVE  Order'
<1>0. bot \in [Bots -> Process] /\ tx.signer \in Bots
  BY DEF Types, KeeperTypeOK, Process
<1>1. txs' = txs \ {tx} /\ UNCHANGED quoted
  BY DEF Reject, Expire
<1>2. \A j \in Bots : /\ bot'[j].cell = bot[j].cell /\ bot'[j].since = bot[j].since
                      /\ running(j)' = running(j)
  <2>1. CASE bot' = bot
    BY <2>1 DEF running
  <2>2. CASE tx.awaited /\ Reject(tx)
    <3>1. bot[tx.signer].pc = "sending"
      BY <2>2 DEF Types, KeeperTypeOK
    <3> QED BY <1>0, <2>2, <3>1 DEF Reject, answered, running, waiting, Process
  <2> QED BY <2>1, <2>2 DEF Reject, Expire, answered
<1>3. \A j \in Bots : frontier(j)' = frontier(j)
  BY <1>2 DEF frontier
<1>4. AwaitedNewest'
  BY <1>1 DEF Order, AwaitedNewest
<1>5. CellAhead'
  BY <1>1, <1>2, <1>3 DEF Order, CellAhead
<1> QED BY <1>4, <1>5 DEF Order

LEMMA OrderStep == Settings /\ Types /\ Order /\ [KeeperNext]_keeperVars => Order'
<1> SUFFICES ASSUME Settings, Types, Order, [KeeperNext]_keeperVars PROVE Order'
  OBVIOUS
<1>0. Types'
  BY TypesStep
<1>1. CASE UNCHANGED <<bot, txs, quoted>>
  BY <1>1 DEF Order, CellAhead, AwaitedNewest, frontier, running
<1>2. CASE Others
  BY <1>1, <1>2 DEF Others
<1>3. ASSUME NEW price \in Prices, Publish(price) PROVE Order'
  BY <1>1, <1>3 DEF Publish
<1>4. CASE UNCHANGED keeperVars
  BY <1>1, <1>4 DEF keeperVars
<1> QED BY <1>0, <1>2, <1>3, <1>4, ProcessOrder, LoadConfigOrder, PushOrder, LandOrder,
           LostOrder DEF KeeperNext, Serve

LEMMA OrderInvariants == KeeperSpec => [](Accounts /\ Types /\ Network /\ Order)
<1>1. Accounts /\ Types /\ Network /\ Order /\ [KeeperNext]_keeperVars => Order'
  BY OrderStep DEF Accounts
<1>2. KeeperInit => Order
  BY OrderInit
<1> QED BY <1>1, <1>2, KeeperInvariants, PTL DEF KeeperSpec

\* The quote on chain is replaced by an older one of the same bot only by a push
\* that bot has given up: no loss, delay, crash or restart makes a push that is
\* still waited for undo a later price.
THEOREM NothingAwaitedOvertaken == KeeperSpec => NoOvertaking
<1> DEFINE A == quoted'.by = quoted.by /\ quoted'.seq < quoted.seq =>
                  \E tx \in txs \ txs' : ~tx.awaited
<1>1. ASSUME Types, Order, [KeeperNext]_keeperVars PROVE A
  <2> SUFFICES ASSUME quoted'.by = quoted.by, quoted'.seq < quoted.seq
               PROVE  \E tx \in txs \ txs' : ~tx.awaited
    OBVIOUS
  <2>1. quoted.seq \in Nat
    BY <1>1, LenProperties DEF Types, KeeperTypeOK
  <2>2. quoted' # quoted
    BY <2>1
  <2>3. PICK tx \in txs : Land(tx)
    <3>1. KeeperNext
      BY <1>1, <2>2 DEF keeperVars
    <3> QED BY <2>2, <3>1
            DEF KeeperNext, Others, Serve, Publish, LoadPool, LoadConfig, Receive,
                StreamCloses, Push, Succeed, ExitFatal, Transient, Crash, Reject, Expire
  <2>4. quoted'.by = tx.signer /\ quoted'.seq = tx.seq /\ txs' = txs \ {tx}
    BY <2>3 DEF Land
  <2>5. tx.seq \in Nat
    BY <1>1 DEF Types, Pushes
  <2>6. ~tx.awaited
    BY <1>1, <2>1, <2>4, <2>5 DEF Order, AwaitedNewest
  <2> QED BY <2>4, <2>6
<1>2. KeeperSpec => [][A]_keeperVars
  BY <1>1, OrderInvariants, PTL DEF KeeperSpec
<1> QED BY <1>2 DEF NoOvertaking

-----------------------------------------------------------------------------
(* How wide the quotes are. *)

\* An optional value, when there is one.
LEMMA OrZeroIs ==
  ASSUME NEW o \in Option(Int), NEW v \in o
  PROVE  or_zero(o) = v
<1>1. (CHOOSE w \in o : TRUE) \in o
  OBVIOUS
<1>2. (CHOOSE w \in o : TRUE) = v
  BY <1>1 DEF Option
<1> QED BY <1>2 DEF or_zero

\* The pool's spread is within the bot's, for any confidence.
LEMMA SpreadCovers ==
  ASSUME NEW q \in Prices, NEW s \in Nat, s =< U16_MAX, q.price > 0
  PROVE  compute_confidence_adjusted_min_spread_bps(s, q) >= s
<1> DEFINE w == least(confidence_bps(q), MAX_CONFIDENCE_SPREAD_BPS)
<1>1. w \in Nat
  BY ConfidenceNat DEF least, MAX_CONFIDENCE_SPREAD_BPS
<1>2. compute_confidence_adjusted_min_spread_bps(s, q) = least(s + w, U16_MAX)
  BY DEF compute_confidence_adjusted_min_spread_bps
<1> HIDE DEF w
<1> QED BY <1>1, <1>2 DEF least, U16_MAX

\* Half a wider spread on each side of a price is no nearer to it, both rounded
\* down.
LEMMA FloorsWiden ==
  ASSUME NEW p \in Nat \ {0}, NEW m \in Nat, NEW s \in Nat, m =< s
  PROVE  /\ (p * (2 * BPS - s)) \div (2 * BPS) \in Int
         /\ (p * (2 * BPS + s)) \div (2 * BPS) \in Int
         /\ (p * (2 * BPS - s)) \div (2 * BPS) =< (p * (2 * BPS - m)) \div (2 * BPS)
         /\ (p * (2 * BPS + m)) \div (2 * BPS) =< (p * (2 * BPS + s)) \div (2 * BPS)
<1> DEFINE d == 2 * BPS
<1>1. d \in Nat \ {0}
  BY DEF BPS
<1> HIDE DEF d
<1>2. /\ p * (d - s) \in Int /\ p * (d - m) \in Int
      /\ p * (d + s) \in Int /\ p * (d + m) \in Int
  BY <1>1
<1>3. p * (d - s) =< p * (d - m) /\ p * (d + m) =< p * (d + s)
  <2>1. p * (s - m) >= 0
    OBVIOUS
  <2>2. /\ p * (d - m) = p * (d - s) + p * (s - m)
        /\ p * (d + s) = p * (d + m) + p * (s - m)
    BY <1>1
  <2> QED BY <1>2, <2>1, <2>2
<1>4. /\ (p * (d - s)) \div d =< (p * (d - m)) \div d
      /\ (p * (d + m)) \div d =< (p * (d + s)) \div d
  BY <1>1, <1>2, <1>3, DivMonotone
<1>5. (p * (d - s)) \div d \in Int /\ (p * (d + s)) \div d \in Int
  BY <1>1, <1>2, DivInt
<1> QED BY <1>4, <1>5 DEF d

\* What a bot with the pool's spread makes of a price.
LEMMA FieldsHonour ==
  ASSUME NEW q \in Prices, NEW cache,
         cache.min_spread_bps \in Nat, cache.min_spread_bps =< U16_MAX,
         cache.min_spread_bps = pool.min_spread_bps,
         update_fields_defined(q, cache)
  PROVE  honours(compute_update_fields(q, cache), q)
<1> DEFINE s == spread_for(q, cache)
           low == bid_floor(q, s)
           high == ask_floor(q, s)
           bid == effective_bid(q, s)
           ask == effective_ask(q, s)
           m == pool.min_spread_bps
<1>1. q.price \in Nat \ {0} /\ q.best_bid \in Option(Int) /\ q.best_ask \in Option(Int)
  BY KeeperAssumption DEF update_fields_defined, bid_ask_defined
<1>2. m \in Nat /\ s \in Nat /\ s >= m
  <2>1. cache.min_spread_bps \in Nat /\ m = cache.min_spread_bps
    OBVIOUS
  <2>2. s \in Nat
    BY <1>1, <2>1, SpreadNat DEF spread_for
  <2>3. s >= cache.min_spread_bps
    BY <1>1, SpreadCovers DEF spread_for
  <2> HIDE DEF m, s
  <2> QED BY <2>1, <2>2, <2>3
<1> HIDE DEF s
<1>3. low \in Int /\ high \in Int /\ low =< pool_bid(q) /\ pool_ask(q) =< high
  BY <1>1, <1>2, FloorsWiden DEF bid_floor, ask_floor, pool_bid, pool_ask
<1>4. pool_bid(q) \in Int /\ pool_ask(q) \in Int
  <2>1. m =< m
    BY <1>2
  <2> QED BY <1>1, <1>2, <2>1, FloorsWiden DEF pool_bid, pool_ask
<1> HIDE DEF low, high
<1>5. or_zero(q.best_bid) \in Int /\ or_zero(q.best_ask) \in Int
  BY <1>1, OrZeroInt DEF Option
<1>6. /\ bid \in Int /\ bid =< low
      /\ ask \in Int /\ ask >= high
  BY <1>3, <1>5 DEF effective_bid, effective_ask, low, high
<1>7. ASSUME NEW b \in q.best_bid, b > 0 PROVE bid =< b
  <2>1. or_zero(q.best_bid) = b /\ b \in Int
    BY <1>1, <1>7, OrZeroIs DEF Option
  <2> QED BY <1>3, <1>7, <2>1 DEF effective_bid, low
<1>8. ASSUME NEW a \in q.best_ask, a > 0 PROVE ask >= a
  <2>1. or_zero(q.best_ask) = a /\ a \in Int
    BY <1>1, <1>8, OrZeroIs DEF Option
  <2> QED BY <1>3, <1>8, <2>1 DEF effective_ask, high
<1> HIDE DEF bid, ask, m
<1>9. bid =< pool_bid(q) /\ pool_ask(q) =< ask
  BY <1>3, <1>4, <1>6
<1>10. /\ compute_update_fields(q, cache).bid = bid
       /\ compute_update_fields(q, cache).ask = ask
       /\ compute_update_fields(q, cache).exponent = q.exponent
  BY DEF compute_update_fields, bid, ask, s
<1> QED BY <1>7, <1>8, <1>9, <1>10 DEF honours

\* A bot's copy of the spread is the pool's, which creation fixes.
SpreadsRead ==
  /\ pool.min_spread_bps \in Nat /\ pool.min_spread_bps =< 1000
  /\ \A k \in Bots : bot[k].pc # "down" => bot[k].min_spread_bps = pool.min_spread_bps

PushesHonour == \A tx \in txs : honours(tx.quote, published[tx.seq])

\* Only a pushed quote has a bid.
QuotePushed ==
  /\ ~created => quoted.seq = 0
  /\ oracle.bid > 0 => quoted.seq # 0

Width == SpreadsRead /\ PushesHonour /\ QuotePushed /\ QuoteHonoursPool

LEMMA WidthInit == KeeperInit => Width
BY PoolAssumption
   DEF KeeperInit, Init, Width, SpreadsRead, PushesHonour, QuotePushed, QuoteHonoursPool,
       NoProcess, NoPool, unseeded_oracle

\* What creation accepts.
LEMMA SpreadAllowed ==
  ASSUME NEW args, args_allowed(args)
  PROVE  args.min_spread_bps \in Nat /\ args.min_spread_bps =< 1000
<1>1. args.min_spread_bps \in 1 .. 1000
  BY DEF args_allowed
<1> DEFINE n == args.min_spread_bps
<1>2. n \in 1 .. 1000 => n \in Nat /\ n =< 1000
  <2> HIDE DEF n
  <2> QED BY SMTT(60)
<1> QED BY <1>1, <1>2

\* A pool is created before any bot reads its spread; what else others do leaves
\* its spread and quote alone.
LEMMA OthersWidth ==
  ASSUME Settings, Types, Network, Width, Others
  PROVE  Width'
<1>1. UNCHANGED <<published, bot, txs, quoted>>
  BY DEF Others
<1>2. CASE Opened
  <2>1. PICK keeper \in Keys, args \in PoolArgs :
          /\ args_allowed(args)
          /\ pool'.min_spread_bps = args.min_spread_bps
          /\ oracle' = unseeded_oracle(keeper)
    BY <1>2 DEF Opened
  <2>2. /\ txs = {} /\ \A k \in Bots : bot[k].pc = "down"
        /\ quoted.seq = 0 /\ created'
    BY <1>2 DEF Opened, Network, CreatedBefore, Width, QuotePushed
  <2>3. SpreadsRead'
    BY <1>1, <2>1, <2>2, SpreadAllowed DEF SpreadsRead
  <2>4. PushesHonour' /\ QuoteHonoursPool'
    BY <1>1, <2>2 DEF PushesHonour, QuoteHonoursPool
  <2>5. QuotePushed'
    BY <1>1, <2>1, <2>2 DEF QuotePushed, unseeded_oracle
  <2> QED BY <2>3, <2>4, <2>5 DEF Width
<1>3. CASE UNCHANGED <<created, pool>> /\ (UNCHANGED oracle \/ KeeperSet)
  <2>1. /\ oracle'.bid = oracle.bid /\ oracle'.ask = oracle.ask
        /\ oracle'.exponent = oracle.exponent
    BY <1>3 DEF KeeperSet, Settings, SettingsTypeOK
  <2>2. SpreadsRead' /\ PushesHonour' /\ QuotePushed'
    BY <1>1, <1>3, <2>1
       DEF Width, SpreadsRead, PushesHonour, QuotePushed, honours, pool_bid, pool_ask
  <2>3. QuoteHonoursPool'
    BY <1>1, <1>3, <2>1 DEF Width, QuoteHonoursPool, honours, pool_bid, pool_ask
  <2> QED BY <2>2, <2>3 DEF Width
<1> QED BY <1>2, <1>3, NextRead DEF Others

\* Prices already published stay where they are.
LEMMA PublishWidth ==
  ASSUME Types, Width, NEW price \in Prices, Publish(price)
  PROVE  Width'
<1>1. /\ published' = Append(published, price)
      /\ UNCHANGED <<pool, oracle, created, bot, txs, quoted>>
  BY DEF Publish, vars
<1>2. \A n \in 1 .. Len(published) : published'[n] = published[n]
  BY <1>1, AppendProperties DEF Types, KeeperTypeOK
<1>3. PushesHonour'
  BY <1>1, <1>2
     DEF Types, KeeperTypeOK, Width, PushesHonour, honours, pool_bid, pool_ask
<1>4. QuoteHonoursPool'
  <2>1. quoted.seq # 0 => quoted.seq \in 1 .. Len(published)
    BY LenProperties DEF Types, KeeperTypeOK
  <2> QED BY <1>1, <1>2, <2>1 DEF Width, QuoteHonoursPool, honours, pool_bid, pool_ask
<1> QED BY <1>1, <1>3, <1>4 DEF Width, SpreadsRead, QuotePushed

\* A process that leaves the pool and its quote alone, and in the network only
\* pushes that were there.
LEMMA ProcessWidth ==
  ASSUME Types, Width, NEW k \in Bots,
         LoadPool(k) \/ LoadConfig(k) \/ Receive(k) \/ StreamCloses(k)
           \/ Succeed(k) \/ ExitFatal(k) \/ Transient(k) \/ Crash(k)
  PROVE  Width'
<1>0. bot \in [Bots -> Process]
  BY DEF Types, KeeperTypeOK, Process
<1>1. UNCHANGED <<pool, oracle, created, published, quoted>>
  BY DEF LoadPool, LoadConfig, Receive, StreamCloses, Succeed, ExitFatal, Transient,
         Crash, vars
<1>2. \A tx \in txs' : \E old \in txs : tx.seq = old.seq /\ tx.quote = old.quote
  <2>1. CASE txs' = txs
    BY <2>1
  <2>2. CASE txs' = given_up(k)
    BY <2>2, GivenUp DEF Types
  <2> QED BY <2>1, <2>2 DEF LoadPool, LoadConfig, Receive, StreamCloses, Succeed,
                            ExitFatal, Transient, Crash
<1>3. PushesHonour'
  BY <1>1, <1>2 DEF Width, PushesHonour, honours, pool_bid, pool_ask
<1>4. /\ \A j \in Bots : j # k => bot'[j] = bot[j]
      /\ bot'[k].pc # "down" =>
           \/ bot'[k].min_spread_bps = pool.min_spread_bps
           \/ bot[k].pc # "down" /\ bot'[k].min_spread_bps = bot[k].min_spread_bps
  <2>1. CASE LoadPool(k) \/ LoadConfig(k)
    BY <1>0, <2>1 DEF LoadPool, LoadConfig, Process
  <2>2. CASE Receive(k)
    <3>1. PICK n \in bot[k].since .. Len(published) : bot' = [bot EXCEPT ![k].cell = n]
      BY <2>2 DEF Receive
    <3> QED BY <1>0, <3>1 DEF Process
  <2>3. CASE StreamCloses(k) \/ Succeed(k) \/ Transient(k)
    BY <1>0, <2>3 DEF StreamCloses, Succeed, Transient, running, waiting, Process
  <2>4. CASE ExitFatal(k) \/ Crash(k)
    BY <1>0, <2>4 DEF ExitFatal, Crash, NoProcess
  <2> QED BY <2>1, <2>2, <2>3, <2>4
<1>5. SpreadsRead'
  BY <1>1, <1>4 DEF Width, SpreadsRead
<1>6. QuotePushed' /\ QuoteHonoursPool'
  BY <1>1 DEF Width, QuotePushed, QuoteHonoursPool, honours, pool_bid, pool_ask
<1> QED BY <1>3, <1>5, <1>6 DEF Width

\* What a bot submits is around the price it was made of.
LEMMA PushHonours ==
  ASSUME Types, Width, NEW k \in Bots, Push(k)
  PROVE  honours(push_of(k).quote, published[push_of(k).seq])
<1>1. bot[k].pc = "up" /\ can_push(k)
  BY DEF Push
<1>2. /\ bot[k].min_spread_bps = pool.min_spread_bps
      /\ pool.min_spread_bps \in Nat /\ pool.min_spread_bps =< U16_MAX
  BY <1>1 DEF Width, SpreadsRead, U16_MAX
<1>3. published[bot[k].cell] \in Prices
  <2>1. push_of(k).seq \in 1 .. Len(published) /\ push_of(k).seq = bot[k].cell
    BY <1>1, PushOf
  <2> QED BY <2>1, ElementOfSeq DEF Types, KeeperTypeOK
<1>4. honours(compute_update_fields(published[bot[k].cell], bot[k]),
              published[bot[k].cell])
  BY <1>1, <1>2, <1>3, FieldsHonour DEF can_push
<1> QED BY <1>4 DEF push_of

LEMMA PushWidth ==
  ASSUME Types, Width, NEW k \in Bots, Push(k)
  PROVE  Width'
<1>0. bot \in [Bots -> Process]
  BY DEF Types, KeeperTypeOK, Process
<1>1. /\ bot[k].pc = "up"
      /\ txs' = txs \union {push_of(k)}
      /\ bot' = [bot EXCEPT ![k].pc = "sending"]
      /\ UNCHANGED <<pool, oracle, created, published, quoted>>
  BY DEF Push, vars
<1>2. PushesHonour'
  BY <1>1, PushHonours DEF Width, PushesHonour, honours, pool_bid, pool_ask
<1>3. \A j \in Bots : /\ bot'[j].min_spread_bps = bot[j].min_spread_bps
                      /\ bot'[j].pc # "down" => bot[j].pc # "down"
  BY <1>0, <1>1 DEF Process
<1>4. SpreadsRead'
  BY <1>1, <1>3 DEF Width, SpreadsRead
<1>5. QuotePushed' /\ QuoteHonoursPool'
  BY <1>1 DEF Width, QuotePushed, QuoteHonoursPool, honours, pool_bid, pool_ask
<1> QED BY <1>2, <1>4, <1>5 DEF Width

\* What a push that lands makes of the quote.
LEMMA LandQuote ==
  ASSUME Settings, Types, NEW tx \in txs, Land(tx)
  PROVE  /\ created /\ oracle.keeper = tx.signer /\ oracle'.keeper = tx.signer
         /\ oracle'.bid = tx.quote.bid /\ oracle'.ask = tx.quote.ask
         /\ oracle'.exponent = tx.quote.exponent
         /\ oracle'.dynamic_fee_rate = tx.quote.dynamic_fee_rate
         /\ quoted' = [by |-> tx.signer, seq |-> tx.seq] /\ tx.seq # 0
<1>1. /\ created /\ oracle.keeper = tx.signer
      /\ oracle' = [oracle EXCEPT !.bid = tx.quote.bid,
                                  !.ask = tx.quote.ask,
                                  !.exponent = tx.quote.exponent,
                                  !.dynamic_fee_rate = tx.quote.dynamic_fee_rate,
                                  !.last_update = clock]
      /\ quoted' = [by |-> tx.signer, seq |-> tx.seq]
  BY DEF Land, UpdatePoolOracle, push_accepted
<1>2. tx.seq # 0
  BY DEF Types, KeeperTypeOK
<1> QED BY <1>1, <1>2 DEF Settings, SettingsTypeOK

\* What lands becomes the quote as it was computed.
LEMMA NetworkWidth ==
  ASSUME Settings, Types, Width, NEW tx \in txs, Land(tx) \/ Reject(tx) \/ Expire(tx)
  PROVE  Width'
<1>0. bot \in [Bots -> Process] /\ tx.signer \in Bots
  BY DEF Types, KeeperTypeOK, Process, Pushes
<1>1. /\ UNCHANGED <<pool, created, published>> /\ txs' \subseteq txs
  BY DEF Land, Reject, Expire, UpdatePoolOracle, oracle_unchanged, vars
<1>2. \A k \in Bots : /\ bot'[k].min_spread_bps = bot[k].min_spread_bps
                      /\ bot'[k].pc # "down" => bot[k].pc # "down"
  <2>1. CASE UNCHANGED bot
    BY <2>1
  <2>2. CASE tx.awaited
    <3>1. bot[tx.signer].pc = "sending"
      BY <2>2 DEF Types, KeeperTypeOK
    <3> QED BY <1>0, <2>2, <3>1 DEF Land, Reject, Expire, answered, Process
  <2> QED BY <2>1, <2>2 DEF Land, Reject, Expire, answered
<1>3. SpreadsRead' /\ PushesHonour'
  BY <1>1, <1>2 DEF Width, SpreadsRead, PushesHonour, honours, pool_bid, pool_ask
<1>4. CASE Land(tx)
  <2>1. /\ created /\ quoted'.seq = tx.seq /\ tx.seq # 0
        /\ oracle'.bid = tx.quote.bid /\ oracle'.ask = tx.quote.ask
        /\ oracle'.exponent = tx.quote.exponent
    BY <1>4, LandQuote
  <2>2. QuotePushed'
    BY <1>1, <2>1 DEF QuotePushed
  <2>3. QuoteHonoursPool'
    BY <1>1, <2>1 DEF Width, PushesHonour, QuoteHonoursPool, honours, pool_bid, pool_ask
  <2> QED BY <1>3, <2>2, <2>3 DEF Width
<1>5. CASE UNCHANGED <<oracle, quoted>>
  <2>1. QuotePushed' /\ QuoteHonoursPool'
    BY <1>1, <1>5 DEF Width, QuotePushed, QuoteHonoursPool, honours, pool_bid, pool_ask
  <2> QED BY <1>3, <2>1 DEF Width
<1> QED BY <1>4, <1>5 DEF Reject, Expire, vars

LEMMA WidthStep ==
  Settings /\ Types /\ Network /\ Width /\ [KeeperNext]_keeperVars => Width'
<1> SUFFICES ASSUME Settings, Types, Network, Width, [KeeperNext]_keeperVars
             PROVE  Width'
  OBVIOUS
<1>1. CASE UNCHANGED keeperVars
  BY <1>1 DEF keeperVars, vars, Width, SpreadsRead, PushesHonour, QuotePushed,
              QuoteHonoursPool, honours, pool_bid, pool_ask
<1> QED BY <1>1, OthersWidth, PublishWidth, ProcessWidth, PushWidth, NetworkWidth
        DEF KeeperNext, Serve

LEMMA WidthInvariants == KeeperSpec => [](Accounts /\ Types /\ Network /\ Width)
<1>1. Accounts /\ Types /\ Network /\ Width /\ [KeeperNext]_keeperVars => Width'
  BY WidthStep DEF Accounts
<1>2. KeeperInit => Width
  BY WidthInit
<1> QED BY <1>1, <1>2, KeeperInvariants, PTL DEF KeeperSpec

\* The quote a pool trades on is always around a price that was published, on
\* each side as far from it as the pool was created to be and no nearer than the
\* market itself, though the program checks none of it: not for any price, market
\* side or confidence, and not by any push that is late, repeated or of another
\* bot.
THEOREM QuoteAlwaysHonoursPool == KeeperSpec => []QuoteHonoursPool
<1>1. Accounts /\ Types /\ Network /\ Width => QuoteHonoursPool
  BY DEF Width
<1> QED BY <1>1, WidthInvariants, PTL

-----------------------------------------------------------------------------
(* What trades get. *)

\* The pool's own bid and ask around a price that was quoted.
LEMMA PoolSidesNat ==
  ASSUME Settings, Types, Width, oracle.bid > 0
  PROVE  LET q == published[quoted.seq]
         IN /\ quoted.seq # 0 /\ honours(oracle, q) /\ q \in Prices
            /\ pool_bid(q) \in Nat /\ pool_ask(q) \in Nat
<1> DEFINE q == published[quoted.seq]
           m == pool.min_spread_bps
<1>1. quoted.seq # 0 /\ honours(oracle, q)
  BY DEF Width, QuotePushed, QuoteHonoursPool
<1>2. q \in Prices
  <2>1. quoted.seq \in 1 .. Len(published)
    BY <1>1, LenProperties DEF Types, KeeperTypeOK
  <2> QED BY <2>1, ElementOfSeq DEF Types, KeeperTypeOK
<1>3. q.price \in Int
  BY <1>2, KeeperAssumption
<1>4. m \in Nat /\ m =< 1000 /\ oracle.bid \in Nat
  BY DEF Width, SpreadsRead, Settings, SettingsTypeOK
<1>5. oracle.bid =< pool_bid(q)
  BY <1>1 DEF honours
<1> HIDE DEF q, m
<1>6. /\ pool_bid(q) = (q.price * (2 * BPS - m)) \div (2 * BPS)
      /\ pool_ask(q) = (q.price * (2 * BPS + m)) \div (2 * BPS)
  BY DEF pool_bid, pool_ask, m
<1>7. 2 * BPS \in Nat \ {0} /\ 2 * BPS - m \in Nat /\ 2 * BPS + m \in Nat
  BY <1>4 DEF BPS
<1> DEFINE d == 2 * BPS
           low == q.price * (d - m)
           high == q.price * (d + m)
<1>8. d \in Nat \ {0} /\ low \in Int /\ high \in Int
  BY <1>3, <1>7
<1>9. /\ low \div d \in Int /\ d * (low \div d) =< low
      /\ high \div d \in Int /\ high < d * (high \div d) + d
  <2> HIDE DEF low, high, d
  <2> QED BY <1>8, DivInt
<1>10. q.price > 0
  <2>1. low > 0
    <3> DEFINE b == low \div d
    <3>1. b \in Nat \ {0} /\ d * b =< low
      BY <1>4, <1>5, <1>6, <1>9
    <3> HIDE DEF b, low, d
    <3>2. d * b > 0
      BY <1>8, <3>1
    <3> QED BY <1>8, <3>1, <3>2
  <2>2. q.price =< 0 => low =< 0
    BY <1>3, <1>7
  <2> QED BY <1>3, <1>8, <2>1, <2>2
<1>11. high >= 0
  BY <1>3, <1>7, <1>10
<1>12. high \div d >= 0
  <2> HIDE DEF high, d
  <2> QED BY <1>8, <1>11, BpsPositive
<1> QED BY <1>1, <1>2, <1>4, <1>5, <1>6, <1>9, <1>12 DEF q

\* Whatever the others do, whichever bot's push is in force and however late it
\* came, a trade leaves the liquidity providers' reserves worth as much as
\* before, or more, at half the pool's spread off a price that was published,
\* moved by the skew cap if the trade rebalances.
THEOREM PublishedPriceNeverWasBeaten == KeeperSpec => PublishedPriceNeverBeaten
<1> DEFINE Inv == Accounts /\ Types /\ Network /\ Width
           Step == \A direction \in TradeDirection :
                     Swapped(direction) =>
                       /\ quoted.seq # 0
                       /\ LET q == published[quoted.seq]
                          IN NoLossAt(worst_price_of(direction, pool_bid(q),
                                                     pool_ask(q), q.exponent))
<1>1. Inv /\ Inv' /\ [KeeperNext]_keeperVars => Step
  <2> SUFFICES ASSUME Settings, Ledger, Types, Width, Ledger', [KeeperNext]_keeperVars,
                      NEW direction \in TradeDirection, Swapped(direction)
               PROVE  /\ quoted.seq # 0
                      /\ LET q == published[quoted.seq]
                         IN NoLossAt(worst_price_of(direction, pool_bid(q),
                                                    pool_ask(q), q.exponent))
    BY DEF Accounts
  <2>1. [Next]_vars
    <3>1. ASSUME UNCHANGED <<vault, protocol_fees, fund_fees, creator_fees>>
          PROVE  FALSE
      <4>1. \A t \in Token : vault_amount_without_fee(t)' = vault_amount_without_fee(t)
        BY <3>1 DEF vault_amount_without_fee, accrued_fees
      <4>2. \A t \in Token : vault_amount_without_fee(t) \in Int
        BY NetInt DEF Ledger
      <4>3. input_of(direction) \in Token
        BY DEF input_of, Token
      <4> QED BY <4>1, <4>2, <4>3 DEF Swapped
    <3>2. ~Serve
      BY <3>1, ServeAccounts
    <3>3. CASE UNCHANGED keeperVars
      BY <3>3 DEF keeperVars
    <3> QED BY <3>2, <3>3 DEF KeeperNext, Others
  <2>2. AnySwap
    BY <2>1, OnlySwapsSwap, SwapIsAnySwap
  <2> DEFINE q == published[quoted.seq]
  <2>3. oracle.bid > 0
    BY <2>2, SwapQuoted
  <2>4. /\ quoted.seq # 0 /\ honours(oracle, q)
        /\ pool_bid(q) \in Nat /\ pool_ask(q) \in Nat
    BY <2>3, PoolSidesNat
  <2> HIDE DEF q
  <2>5. /\ oracle.bid =< pool_bid(q) /\ pool_ask(q) =< oracle.ask
        /\ oracle.exponent = q.exponent
    BY <2>4 DEF honours
  <2>6. NoLossAt(worst_price_of(direction, pool_bid(q), pool_ask(q), oracle.exponent))
    BY <2>2, <2>4, <2>5, SwapWithinQuote
  <2> QED BY <2>4, <2>5, <2>6 DEF q
<1>2. Inv /\ Inv' /\ [KeeperNext]_keeperVars => [Step]_keeperVars
  BY <1>1
<1> HIDE DEF Step, Inv
<1>3. KeeperSpec => []Inv
  BY WidthInvariants DEF Inv
<1>4. KeeperSpec => [][Step]_keeperVars
  BY <1>2, <1>3, PTL DEF KeeperSpec
<1> QED BY <1>4 DEF PublishedPriceNeverBeaten, Step

-----------------------------------------------------------------------------
(* The followed price. *)

\* What an offer keeps of a push tells pushes apart.
LEMMA OffersDiffer ==
  ASSUME NEW tx \in Pushes, NEW other \in Pushes, offer_of(tx) = offer_of(other)
  PROVE  tx = other
<1>1. /\ tx.signer = other.signer /\ tx.seq = other.seq
      /\ tx.awaited = other.awaited
      /\ terms_of(tx.quote) = terms_of(other.quote)
  BY DEF offer_of
<1>2. /\ tx.quote.bid = other.quote.bid /\ tx.quote.ask = other.quote.ask
      /\ tx.quote.exponent = other.quote.exponent
      /\ tx.quote.dynamic_fee_rate = other.quote.dynamic_fee_rate
  BY <1>1 DEF terms_of
<1>3. tx.quote \in Fields /\ other.quote \in Fields
  BY DEF Pushes
<1>4. tx.quote = other.quote
  BY <1>2, <1>3 DEF Fields
<1> QED BY <1>1, <1>4 DEF Pushes

LEMMA OfferGone ==
  ASSUME Types, NEW tx \in txs, txs' = txs \ {tx}
  PROVE  offer_of(tx) \in offers /\ offers' = offers \ {offer_of(tx)}
<1>1. txs \subseteq Pushes
  BY DEF Types
<1>2. \A other \in txs : offer_of(other) = offer_of(tx) => other = tx
  BY <1>1, OffersDiffer
<1> QED BY <1>2 DEF offers

LEMMA OffersGivenUp ==
  ASSUME Types, NEW k \in Bots, txs' = given_up(k)
  PROVE  offers' = {IF o.by = k THEN [o EXCEPT !.kept = FALSE] ELSE o : o \in offers}
<1> DEFINE up(o) == IF o.by = k THEN [o EXCEPT !.kept = FALSE] ELSE o
           down(tx) == IF tx.signer = k THEN [tx EXCEPT !.awaited = FALSE] ELSE tx
<1>1. ASSUME NEW tx \in txs PROVE offer_of(down(tx)) = up(offer_of(tx))
  <2>1. tx \in Pushes
    BY DEF Types
  <2>2. CASE tx.signer = k
    <3>1. /\ down(tx).signer = tx.signer /\ down(tx).seq = tx.seq
          /\ down(tx).awaited = FALSE /\ down(tx).quote = tx.quote
      BY <2>1, <2>2 DEF Pushes
    <3> QED BY <2>2, <3>1 DEF offer_of
  <2>3. CASE tx.signer # k
    BY <2>3 DEF offer_of
  <2> QED BY <2>2, <2>3
<1>2. txs' = {down(tx) : tx \in txs}
  BY DEF given_up
<1> HIDE DEF up, down
<1>3. offers' = {up(o) : o \in offers}
  BY <1>1, <1>2 DEF offers
<1> QED BY <1>3 DEF up

\* Half the pool's spread or more on each side, without the quotients.
LEMMA HonoursAround ==
  ASSUME Width, NEW quote \in Fields, NEW q \in Prices, honours(quote, q)
  PROVE  Followed!around(terms_of(quote), q)
<1> DEFINE m == pool.min_spread_bps
           d == 2 * BPS
           low == q.price * (d - m)
           high == q.price * (d + m)
<1>1. q.price \in Int /\ m \in Nat /\ quote.bid \in Int /\ quote.ask \in Int
  BY KeeperAssumption DEF Fields, Width, SpreadsRead
<1>2. d \in Nat \ {0} /\ low \in Int /\ high \in Int
  BY <1>1 DEF BPS
<1>3. /\ quote.bid =< low \div d /\ high \div d =< quote.ask
      /\ quote.exponent = q.exponent
  BY DEF honours, pool_bid, pool_ask
<1> HIDE DEF low, high, d
<1>4. /\ low \div d \in Int /\ d * (low \div d) =< low
      /\ high \div d \in Int /\ high < d * (high \div d) + d
  BY <1>2, DivInt
<1> DEFINE b == low \div d
           a == high \div d
<1>5. d * quote.bid =< low /\ d * (quote.ask + 1) > high
  <2>1. b \in Int /\ a \in Int /\ quote.bid =< b /\ a =< quote.ask
        /\ d * b =< low /\ high < d * a + d
    BY <1>3, <1>4
  <2> HIDE DEF a, b
  <2>2. d * quote.bid =< d * b /\ d * a =< d * quote.ask
    BY <1>1, <1>2, <2>1
  <2>3. d * (quote.ask + 1) = d * quote.ask + d
    BY <1>1, <1>2
  <2> QED BY <1>1, <1>2, <2>1, <2>2, <2>3
<1>6. /\ 2 * Followed!ONE * quote.bid =< q.price * (2 * Followed!ONE - m)
      /\ 2 * Followed!ONE * (quote.ask + 1) > q.price * (2 * Followed!ONE + m)
  BY <1>5 DEF low, high, d, BPS, Followed!ONE
<1> QED BY <1>3, <1>6 DEF Followed!around, terms_of

\* What others do: the pool is opened, its keeper chosen, or nothing is followed.
LEMMA OthersFollow ==
  ASSUME Settings, Settings', Width, Others
  PROVE  [Followed!Next]_Followed!followedVars
<1>1. UNCHANGED <<published, txs, quoted, offers>>
  BY DEF Others, offers
<1>2. oracle.keeper \in Keys /\ oracle'.keeper \in Keys
  BY DEF Settings, SettingsTypeOK
<1>3. CASE Opened
  <2>1. ~created /\ created' = TRUE /\ pool'.min_spread_bps \in Nat
    BY <1>3, SpreadAllowed DEF Opened
  <2>2. quote_in_force = {} /\ quote_in_force' = {}
    BY <1>1, <2>1 DEF Width, QuotePushed, quote_in_force
  <2>3. Followed!Open
    BY <1>1, <1>2, <2>1, <2>2 DEF Followed!Open
  <2> QED BY <2>3 DEF Followed!Next
<1>4. CASE UNCHANGED <<created, pool>> /\ KeeperSet
  <2>1. /\ oracle'.bid = oracle.bid /\ oracle'.ask = oracle.ask
        /\ oracle'.exponent = oracle.exponent
        /\ oracle'.dynamic_fee_rate = oracle.dynamic_fee_rate
    BY <1>4 DEF KeeperSet, Settings, SettingsTypeOK
  <2>2. UNCHANGED quote_in_force
    BY <1>1, <2>1 DEF quote_in_force, terms_of
  <2>3. created
    BY <1>4 DEF KeeperSet
  <2>4. Followed!KeeperChosen
    BY <1>1, <1>2, <1>4, <2>2, <2>3 DEF Followed!KeeperChosen
  <2> QED BY <2>4 DEF Followed!Next
<1>5. CASE UNCHANGED <<created, pool, oracle>>
  <2>1. UNCHANGED quote_in_force
    BY <1>1, <1>5 DEF quote_in_force
  <2> QED BY <1>1, <1>5, <2>1 DEF Followed!followedVars
<1> QED BY <1>3, <1>4, <1>5, NextRead DEF Others

\* A process that pushes stands behind no other offer, nor ever made a later one.
LEMMA PushFollows ==
  ASSUME Types, Network, Order, Width, NEW k \in Bots, Push(k)
  PROVE  Followed!Next
<1> DEFINE new == push_of(k)
           o == offer_of(new)
<1>1. /\ bot[k].pc = "up" /\ can_push(k) /\ txs' = txs \union {new}
      /\ UNCHANGED <<created, pool, oracle, published, quoted>>
  BY DEF Push, vars
<1>2. /\ new \in Pushes /\ new.signer = k /\ new.seq \in 1 .. Len(published)
      /\ new.seq = bot[k].cell /\ new.awaited
  BY <1>1, PushOf DEF push_of
<1>3. honours(new.quote, published[new.seq])
  BY PushHonours
<1> HIDE DEF new
<1>4. created
  BY <1>1 DEF Network, CreatedBefore
<1>5. published[new.seq] \in Prices /\ new.quote \in Fields
  BY <1>2, ElementOfSeq DEF Types, KeeperTypeOK, Pushes
<1>6. Followed!around(o.terms, published[new.seq])
  BY <1>3, <1>5, HonoursAround DEF offer_of
<1>7. /\ \A tx \in txs : tx.signer = k => ~tx.awaited /\ tx.seq =< new.seq
      /\ quoted.by = k => quoted.seq =< new.seq
  <2>1. running(k) /\ frontier(k) = new.seq
    BY <1>1, <1>2 DEF running, frontier, can_push
  <2>2. /\ \A tx \in txs : tx.signer = k => tx.seq =< new.seq
        /\ quoted.by = k => quoted.seq =< new.seq
    BY <2>1 DEF Order, CellAhead
  <2>3. \A tx \in txs : tx.signer = k => ~tx.awaited
    BY <1>1 DEF Types, KeeperTypeOK
  <2> QED BY <2>2, <2>3
<1>8. \A other \in offers : other.by = o.by => ~other.kept /\ other.seq =< o.seq
  BY <1>2, <1>7 DEF offers, offer_of
<1>9. \A q \in quote_in_force : q.by = o.by => q.seq =< o.seq
  BY <1>2, <1>7 DEF quote_in_force, offer_of
<1>10. offers' = offers \union {o}
  BY <1>1 DEF offers
<1>11. o.by = k /\ o.kept /\ o.seq = new.seq
  BY <1>2 DEF offer_of
<1>12. UNCHANGED quote_in_force
  BY <1>1 DEF quote_in_force
<1> HIDE DEF o
<1>13. Followed!Offer(o)
  BY <1>1, <1>2, <1>4, <1>6, <1>8, <1>9, <1>10, <1>11, <1>12 DEF Followed!Offer
<1> QED BY <1>10, <1>13 DEF Followed!Next

\* A process that waits no more, or is killed, stands behind nothing.
LEMMA GiveUpFollows ==
  ASSUME Types, NEW k \in Bots, Transient(k) \/ Crash(k)
  PROVE  Followed!Next
<1>1. txs' = given_up(k) /\ UNCHANGED <<created, pool, oracle, published, quoted>>
  BY DEF Transient, Crash, vars
<1>2. UNCHANGED quote_in_force
  BY <1>1 DEF quote_in_force
<1>3. offers' = {IF o.by = k THEN [o EXCEPT !.kept = FALSE] ELSE o : o \in offers}
  BY <1>1, OffersGivenUp
<1>4. Followed!GiveUp(k)
  BY <1>1, <1>2, <1>3 DEF Followed!GiveUp
<1> QED BY <1>4 DEF Followed!Next

\* A push that lands is an offer taken; one that does not, an offer lost.
LEMMA NetworkFollows ==
  ASSUME Settings, Types, NEW tx \in txs, Land(tx) \/ Reject(tx) \/ Expire(tx)
  PROVE  Followed!Next
<1> DEFINE o == offer_of(tx)
<1>1. o \in offers /\ offers' = offers \ {o}
  BY OfferGone DEF Land, Reject, Expire
<1>2. UNCHANGED <<created, pool, published>>
  BY DEF Land, Reject, Expire, UpdatePoolOracle, oracle_unchanged, vars
<1>3. CASE Land(tx)
  <2>1. /\ oracle.keeper = tx.signer /\ oracle'.keeper = tx.signer
        /\ oracle'.bid = tx.quote.bid /\ oracle'.ask = tx.quote.ask
        /\ oracle'.exponent = tx.quote.exponent
        /\ oracle'.dynamic_fee_rate = tx.quote.dynamic_fee_rate
        /\ quoted' = [by |-> tx.signer, seq |-> tx.seq] /\ tx.seq # 0
    BY <1>3, LandQuote
  <2>2. o.by = tx.signer /\ o.seq = tx.seq /\ o.terms = terms_of(tx.quote)
    BY DEF offer_of
  <2>3. terms_of(oracle)' = terms_of(tx.quote)
    BY <2>1 DEF terms_of
  <2>4. quote_in_force' = {[by |-> o.by, seq |-> o.seq, terms |-> o.terms]}
    BY <2>1, <2>2, <2>3 DEF quote_in_force
  <2> HIDE DEF o
  <2>5. Followed!Take(o)
    BY <1>1, <1>2, <2>1, <2>2, <2>4 DEF Followed!Take
  <2> QED BY <1>1, <2>5 DEF Followed!Next
<1>4. CASE Reject(tx) \/ Expire(tx)
  <2>1. UNCHANGED <<oracle, quoted, quote_in_force>>
    BY <1>4 DEF Reject, Expire, vars, quote_in_force
  <2> HIDE DEF o
  <2>2. Followed!Lose(o)
    BY <1>1, <1>2, <2>1 DEF Followed!Lose
  <2> QED BY <1>1, <2>2 DEF Followed!Next
<1> QED BY <1>3, <1>4

LEMMA FollowedStep ==
  ASSUME Settings, Settings', Types, Network, Order, Width, [KeeperNext]_keeperVars
  PROVE  [Followed!Next]_Followed!followedVars
<1>1. ASSUME UNCHANGED <<created, pool, oracle, published, txs, quoted>>
      PROVE  UNCHANGED Followed!followedVars
  <2>1. UNCHANGED <<offers, quote_in_force>>
    BY <1>1 DEF offers, quote_in_force
  <2> QED BY <1>1, <2>1 DEF Followed!followedVars
<1>2. CASE UNCHANGED keeperVars
  BY <1>1, <1>2 DEF keeperVars, vars
<1>3. ASSUME NEW price \in Prices, Publish(price) PROVE Followed!Next
  <2>1. /\ published' = Append(published, price)
        /\ UNCHANGED <<created, pool, oracle, txs, quoted>>
    BY <1>3 DEF Publish, vars
  <2>2. UNCHANGED <<offers, quote_in_force>>
    BY <2>1 DEF offers, quote_in_force
  <2>3. Followed!PriceComes
    BY <2>1, <2>2 DEF Followed!PriceComes
  <2> QED BY <2>3 DEF Followed!Next
<1>4. ASSUME NEW k \in Bots,
             LoadPool(k) \/ LoadConfig(k) \/ Receive(k) \/ StreamCloses(k)
               \/ Succeed(k) \/ ExitFatal(k)
      PROVE  UNCHANGED Followed!followedVars
  BY <1>1, <1>4 DEF LoadPool, LoadConfig, Receive, StreamCloses, Succeed, ExitFatal, vars
<1> QED BY <1>2, <1>3, <1>4, OthersFollow, PushFollows, GiveUpFollows, NetworkFollows
        DEF KeeperNext, Serve

LEMMA FollowedInitially == KeeperInit => Followed!Init
<1> SUFFICES ASSUME KeeperInit PROVE Followed!Init
  OBVIOUS
<1>1. /\ published = <<>> /\ created = FALSE /\ pool = NoPool /\ txs = {}
      /\ oracle = unseeded_oracle(Admin) /\ quoted.seq = 0
  BY DEF KeeperInit, Init
<1>2. pool.min_spread_bps = 0 /\ oracle.keeper \in Keys
  BY <1>1, PoolAssumption DEF NoPool, unseeded_oracle
<1> QED BY <1>1, <1>2 DEF Followed!Init, offers, quote_in_force

\* The pool and its keepers implement the followed price: every quote is an offer
\* that its keeper made of a published price with the pool's spread, and crashes,
\* restarts, lost answers and retries only ever give an offer up, so that nobody
\* offers beside or behind what they stand for.
THEOREM KeepersFollowThePrice == KeeperSpec => ImplementsFollowed
<1> DEFINE Inv == Accounts /\ Types /\ Network /\ Order /\ Width
<1>1. Inv /\ Inv' /\ [KeeperNext]_keeperVars
        => [Followed!Next]_Followed!followedVars
  BY FollowedStep DEF Accounts
<1>2. Inv => Accounts /\ Types /\ Network /\ Order /\ Width
  OBVIOUS
<1>3. KeeperSpec => []Inv
  BY OrderInvariants, WidthInvariants, PTL
<1> HIDE DEF Inv
<1> QED BY FollowedInitially, <1>1, <1>3, PTL
       DEF KeeperSpec, ImplementsFollowed, Followed!Spec

-----------------------------------------------------------------------------
(* The pool under its keepers, whose quotes are any a bot may compute. *)

\* A step of the keepers is none of the fund, and none the observations see.
LEMMA KeptPoolImplements ==
  Accounts /\ Types /\ Accounts' /\ [KeeperNext]_keeperVars
    => [Fund!Next]_(Fund!fundVars) /\ [Observed!ObservedNext]_(Observed!observedVars)
<1> SUFFICES ASSUME Settings, Ledger, Types, Ledger', [KeeperNext]_keeperVars
             PROVE  /\ [Fund!Next]_(Fund!fundVars)
                    /\ [Observed!ObservedNext]_(Observed!observedVars)
  BY DEF Accounts
<1>1. CASE Next \/ UNCHANGED vars
  BY <1>1, FundStep, ObservedStep
<1>2. CASE Serve
  <2>1. UNCHANGED <<vault, protocol_fees, fund_fees, creator_fees, lp_supply,
                    observation, clock>>
    BY <1>2, ServeAccounts
  <2>2. UNCHANGED Fund!fundVars
    BY <2>1, FundUnchanged
  <2>3. Observed!ObservedNext
    BY <2>1, PricesExist DEF Observed!ObservedNext, Observed!PriceMoves, ObservedPair
  <2> QED BY <2>2, <2>3
<1> QED BY <1>1, <1>2 DEF KeeperNext, Others, keeperVars

\* Whatever quotes its keepers push, and whenever they land, the pool owns more
\* than it owes.
THEOREM ReservesLeftByKeepers == KeeperSpec => []ReservesLeft
<1>1. Accounts /\ Types /\ Network => ReservesLeft
  BY DEF Accounts, Ledger
<1> QED BY <1>1, KeeperInvariants, PTL

\* To its holders it is still the fund: a push changes its quote and nothing else.
THEOREM KeepersMeetFund == KeeperSpec => ImplementsFund
<1>1. KeeperInit => Fund!Init
  BY FundInitially DEF KeeperInit
<1> QED BY <1>1, KeptPoolImplements, KeeperInvariants, PTL
       DEF KeeperSpec, ImplementsFund, Fund!Spec

\* And its observations are still those of ObservedPrice: they see trades, never
\* a push.
THEOREM KeepersAreObserved == KeeperSpec => ImplementsObserved
<1>1. KeeperInit => Observed!ObservedInit
  BY ObservedInitially DEF KeeperInit
<1> QED BY <1>1, KeptPoolImplements, KeeperInvariants, PTL
       DEF KeeperSpec, ImplementsObserved, Observed!ObservedSpec

\* Nor does a push, or anything but a swap, lower what a pool token is worth.
THEOREM ValuePerShareNeverFellByKeepers == KeeperSpec => ValuePerShareNeverFalls
<1> DEFINE Step == created /\ ~(\E direction \in TradeDirection : Swapped(direction)) =>
                     \A t \in Token : vault_amount_without_fee(t)' * lp_supply
                                        >= vault_amount_without_fee(t) * lp_supply'
<1>1. (Accounts /\ Types) /\ (Accounts /\ Types)' /\ [KeeperNext]_keeperVars => Step
  BY KeptPoolImplements, FundKeepsValue DEF Accounts
<1>2. (Accounts /\ Types) /\ (Accounts /\ Types)' /\ [KeeperNext]_keeperVars => [Step]_vars
  BY <1>1
<1> HIDE DEF Step
<1>3. KeeperSpec => [][Step]_vars
  BY <1>2, KeeperInvariants, PTL DEF KeeperSpec
<1> QED BY <1>3 DEF ValuePerShareNeverFalls, Step

=============================================================================
