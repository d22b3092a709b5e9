# A verification project for the Nomad AMM

The repository is a Solana automated market maker that quotes around a price an
off-chain keeper pushes (a fork of Raydium's constant-product program). This
directory models its on-chain program, its keeper bot, its command-line client
and the network between them in TLA+, model-checks the models on small instances
with TLC, and proves their safety properties with TLAPS for every value of the
constants.

Paths below are relative to `src/`; `cp/` stands for `programs/cp-swap/src/`.

## 1. The system

| Part | State | Operations |
|---|---|---|
| **Pool** (`cp/states/pool.rs`, `cp/instructions/`) | `PoolState`: fee counters, `lp_supply`, status byte, cached quote; two token vaults and an LP mint owned by the token program | `initialize`, `initialize_with_permission`, `deposit`, `withdraw`, `swap_base_input`, `swap_base_output`, `collect_creator_fee` |
| **Curve** (`cp/curve/`) | none: pure arithmetic | virtual reserves from the cached quote, inventory skew, fees, conversion of pool tokens |
| **Transfers** (`cp/utils/token.rs`) | none of its own | transfers, mint, burn; the Token-2022 transfer fee and its inverse |
| **Observations** (`cp/states/oracle.rs`) | `ObservationState`: ring of cumulative prices | `update`, on every swap |
| **Configuration** (`cp/states/config.rs`, `permission.rs`, `cp/instructions/admin/`) | `AmmConfig` (four rates, owners), permission accounts | `create_amm_config`, `update_amm_config`, permissions, status, `set_oracle_keeper`, fee collections |
| **Oracle cache** (`cp/instructions/admin/update_oracle.rs`) | five fields of `PoolState` | `update_pool_oracle`, by the pool's keeper |
| **Keeper bot** (`bot/src/`) | watch cell with the latest price, values cached at startup, transactions in flight | subscriber task, tick loop, push, error classification |
| **Client math** (`client/src/oracle_math.rs`) | none | confidence-adjusted spread, effective bid and ask |
| **Client command line** (`client/src/main.rs`, `client/src/instructions/`) | while a command runs: what it read of the pool, the transaction it sent | `Deposit`, `Withdraw`, `SwapBaseIn`, `SwapBaseOut`: read, preview, set a limit by the slippage, send |
| Other commands and the decoding of logs, `cli/`, infrastructure, backtest (`infra/`, `scripts/`) | none that lasts | not modelled, section 8 |

**How they interact.** A transaction of the program is atomic: an instruction
either does all of its effects or, on any error or panic, none. So each
instruction is one action of the models, and concurrency is the interleaving of
instructions by traders, liquidity providers, creators, the keeper and the
admin, and of the things done past the program: anybody may send tokens to a
vault or burn pool tokens at the mint. The pool and its config share state (a
swap reads rates and quote at the moment it executes), and so do the pool and
the token program (balances, the LP mint's supply). The observation account is
written by swaps only. The keeper is a distributed process: it sees prices late,
sends transactions that may be lost, delayed or reordered, and restarts. The
client reads the pool, its config, both vaults and the LP mint at one moment, and
its transaction meets the pool as others have left it since: only the limit it
computed protects the user.

**What is hard.** Solvency is a relation between four counters that different
instructions move: the vault, and three fee counters subtracted from it at every
use. Rounding goes through an integer square root, floors and ceilings, and must
never favour the caller. The pool quotes on *virtual* reserves that can exceed
the real ones. Rates are bounded in sums but changed one at a time. Skew
rewards rebalancing trades, and must not reward a round trip. The observations
keep two clocks and a ring. The client repeats the program's arithmetic in a copy
of its own, on a state that may be stale when it is used, and rounds its limits
in floating point.

**What makes each part correct.**

- Pool: it always owns more than it owes (`ReservesLeft`), its count of pool
  tokens covers the holders (`LpSupplyCoversHolders`), no pool token is diluted
  (`ValuePerShareNeverFalls`), fees are booked in the right token
  (`CreatorFeesWhereAgreed`).
- Curve: a trader never gets more than the quote with its skew cap
  (`QuoteNeverBeaten`), a round trip never gains (`RoundTripCosts`,
  `FeeCoveredRoundTripCosts`), exact-output is the inverse of exact-input
  (`ExactOutputPaysTheLeast`).
- Transfers: the sum sent is the least that delivers (`TransferArrivesExactly`).
- Observations: every second counted once (`EverySecondCounted`), the ring as
  long as its duration promises (`RingReachesBack`), every swap observed once, at
  the price it found (`ImplementsObserved`).
- Configuration: the sums of rates bounded in every order of changes
  (`RatesBounded`).
- As a whole, the program is to the holders of pool tokens a fund that trades at
  a quoted price and is never diluted (`ImplementsFund`).
- Client command line: a command on a pool nobody touches does what it printed
  (`PreviewExact`) and is not refused for the limit it set (`FreshOrderTaken`);
  on a pool others have changed it costs its user no more than the slippage
  (`SlippageHonoured`).
- Client math: an uncertain price gets a wide quote (`WidensWithUncertainty`),
  every price that can be quoted is (`EveryPriceQuoted`).
- Keeper: the pool's quote is around a published price and as wide as the pool
  asks (`QuoteHonoursPool`), so that no trade beats that price
  (`PublishedPriceNeverBeaten`), comes to the newest price
  (`NewestPriceReachesPool`), goes back in time only through a push given up
  (`NoOvertaking`); a bot stops if and only if it is replaced
  (`OnlyReplacedRejected`, `ReplacedKeeperStops`). As a whole, to those who trade
  with the pool, the keepers are a quote that follows a published price
  (`ImplementsFollowed`).

## 2. The modules

| Module | Models | Notes |
|---|---|---|
| `Fees` | `cp/curve/fees.rs` | operators on integers |
| `OracleCurve` | `cp/curve/oracle_curve.rs` | failures of checked arithmetic are separate predicates (`..._defined`, `..._serviceable`, `representable`) |
| `SwapCalculator` | `cp/curve/calculator.rs`, the LP conversion of `constant_product.rs` | results are records like `SwapResult` |
| `TransferFee` | `cp/utils/token.rs` over the Token-2022 extension (external) | a schedule is `[bps, max]` |
| `Observation` | `cp/states/oracle.rs` | one operator, `update_observation`, on the account |
| `Pool` | every instruction, the config, the permissions, the oracle cache, the vaults and the clock | one action per instruction |
| `QuotedFund` | what the program promises holders of pool tokens, without vaults, fees, rates or rounding | the abstract specification |
| `LpFund` | `Pool` as a `QuotedFund`: the refinement mapping | `INSTANCE QuotedFund WITH` |
| `RoundTrip` | `Pool` with one history variable, the reserves when a series of swaps began | |
| `ObservedPrice` | the observation account, the clock and a price that anything may move: what the observations of a pool depend on | an abstraction of `Pool` |
| `ObservedPool` | `Pool` as an `ObservedPrice`: the refinement mapping | `INSTANCE ObservedPrice WITH` |
| `ObservationRing` | `ObservedPrice` with the history the account should summarise | |
| `SwapQuotes` | one quote per behaviour, compared with its definition by search | |
| `OracleMath` | `client/src/oracle_math.rs`, the fee of `bot/src/keeper.rs` | an optional field is a set of at most one value |
| `QuoteWidening` | one price after another that differs in its confidence, on `OracleMath` | |
| `Keeper` | `bot/src/`: the processes, composed with `Pool` through a network | `EXTENDS Pool`; the program's part is `UpdatePoolOracle` |
| `FollowedPrice` | what the keepers promise those who trade, without processes, caches, subscriptions, errors or restarts | the abstract specification |
| `FollowedPool` | `Keeper` as a `FollowedPrice`: the refinement mapping | `INSTANCE FollowedPrice WITH` |
| `Client` | `client/src/main.rs`: the commands that move tokens, composed with `Pool` and whoever else uses it | `EXTENDS Pool`; the program's part is the instruction of that name |
| `MC*` | values for the constants; `MCQuotes` runs `SwapQuotes` and `QuoteWidening` in one | |
| `CurveProofs`, `PoolProofs`, `LpFundProofs`, `RoundTripProofs`, `KeeperProofs`, `ClientProofs` | lemmas on the operators; the theorems on `Pool`, on its refinements and its quote, on `RoundTrip`, on `Keeper` with its refinement, and on `Client` | |
| `ArithmeticProofs`, `RingProofs` | the theorems on `SwapQuotes` and `QuoteWidening`, and on `ObservationRing` | |

**From code to model.** A variable of `Pool` is an account or a group of fields
of one: `pool` holds what only creation writes, `oracle` the keeper and the
cached quote, `status` the set of operations whose bit disables them, each
`..._fees` a function from token (0 or 1) to an amount, `vault` the balances at
the token program, `lp_mint_supply` the mint's supply, which the program's own
`lp_supply` does not follow when a holder burns. A guard is a `require!`, an
`assert!`, a `checked_...` that fails or a panic: the transaction has no effect,
so the action is not enabled. Definitions keep the names of the code;
actions have the instruction's name in camel case. `PROJECT.json` gives the
lines of each definition.

**Abstractions.** Keys are model values; accounts' addresses, seeds and mints
are gone, with the constraints that tie them. Amounts are integers and every
stored amount is at most `U64_MAX`; the 128-bit conversions that can fail are
kept (`representable` with `U128_MAX`). `DecimalsShift` is the difference of the
mints' decimals, `Q32` the fixed point of the observed price. What a first
depositor brings, how much is swapped, deposited or given, which limits are
named and what the keeper pushes are sets given by the configuration.

**The keeper.** `bot[k]` is the process of key `k`: where it is (`down`,
`loading` between the two reads of `load_blocking`, `up` in the loop, `sending`
while `send_blocking` waits, `landed` or `rejected` when the answer has come but
the loop has not seen it), its `PoolCache`, whether its stream lives, and its
watch cell. The cell holds a position in `published`, the prices in the order
Pyth Lazer published them, so that new and old can be told apart; the subscriber
may skip prices, as one written between two ticks is overwritten. `txs` is the
set of pushes in the network; `awaited` is history, whether a bot still waits
for this one. `Land` is `UpdatePoolOracle` of `Pool`, `Reject` its refusal,
`Expire` a lost transaction. `Transient` and `Crash` may happen with the push
still in `txs`: it can then land at any later time. A tick without a price, or
with one the math refuses, changes nothing and is no action. Abstractions: a new
subscription on a fixed-rate channel first brings the current price; a program
error always shows its name in the text `classify_error` searches, and the four
names are all the errors `update_pool_oracle` has.

The composition is `KeeperNext == Others \/ Serve`: any step of `Pool`, by its
admin, creator, holders, traders and the clock, or a step of the bots and of the
network. `Quotes`, what somebody without a bot would push, is empty in this
composition: an owner of the keeper's key may push any quote with a client of
their own, and then what `Keeper` says of quotes is said of the bots' only.

**The followed price.** `FollowedPool` maps the pushes in the network to offers,
each somebody's, of one published price, and kept while a process waits for it;
and the pool's cached quote to the quote in force. A push is `Offer`, `Land` is
`Take`, `Reject` and `Expire` are `Lose`; `Transient` and `Crash`, at whatever
moment, are `GiveUp`. What happens inside a process (`LoadPool`, `LoadConfig`,
`Receive`, `StreamCloses`, `Succeed`, `ExitFatal`) and whatever others do, but
for opening the pool and choosing its keeper, changes nothing of it.

**The fund.** `LpFund` maps `lp_supply` to the fund's shares, what each vault
holds beyond the fees it owes to its reserves, and the price at which the pool
would execute a swap now, skew included, to its quote. Creation opens the fund,
a deposit is `Issue`, a withdrawal `Redeem`, a swap `Trade`, a gift `Gain`;
collections, rates, quotes, permissions and the clock leave the fund alone. The
bid and the ask move as the keeper likes, so `price` is in no step's frame.

**The observed price.** A swap computes both prices of the reserves before it
moves a token, and accumulates the whole time since the last update at them
(`SwapObserved`). Between two swaps gifts, deposits and withdrawals move the price
unobserved (`PriceMoves`), so `total`, the history of `ObservationRing`, counts
the seconds since the last swap at the price the next one finds, whatever it was
meanwhile. `ObservedPool` maps the pool's reserves to that price.

**A series of swaps.** In `RoundTrip`, `mark` holds the reserves when the present
series began. A series ends when the quote is pushed anew or the pool mints or
burns pool tokens; time, gifts, collections and administration may come in it, as
none of them takes from the reserves.

**The client.** A command is one action, `Command...`, as what it reads comes
from `get_multiple_accounts`, one snapshot; `order` is the transaction it sends
with what it printed (`quoted`), and `fresh` is history: whether the accounts
the instruction reads are still as the command read them. The transaction is sent
without a preflight (`rpc.rs`), so it is executed by the program (`Execute`), or
fails with no effect (`Fail`: refused, dropped, expired). `Others` is any step of
`Pool`, so anybody may trade, deposit, withdraw, push a quote or change a rate
between the two. The slippage is a rational, and `amount_with_slippage` yields
every value the `f64` product can round to: where the exact product is a whole
number, the number or the one beyond it. Amounts are taken to be below 2^53, what
an `f64` holds exactly. `as u64` casts cut to `U64_MAX` (`as_u64`), an `unwrap`
that fails or a panic ends the command without a transaction. The arguments that
utils.rs swaps are swapped in the model: the transfer fee of a deposit or a
withdrawal is that of `EPOCH`. A mint's older and newer fee schedules are one
(`TransferFeeOf`), as in `Pool`.

## 3. What the runs check

`CHECK_DEADLOCK FALSE` everywhere: the clock and amounts stop at bounds of the
model. No fairness is assumed of the program, which is passive: nothing in it
happens without a caller. The keeper's liveness runs assume `KeeperFairness`:

- the bot's two tasks keep running, and an ended process is started again
  (`infra/lib/infra-stack.ts`): weak fairness of `LoadPool`, `LoadConfig`,
  `Receive`, `Push`;
- a call of the RPC returns, with a timeout if nothing else: weak fairness of
  `Transient`; and no transaction outlives its blockhash: weak fairness of
  executing or losing one;
- the network does not lose *every* push nor *every* answer: strong fairness of
  executing an awaited push and of the loop seeing its answer. Single pushes and
  answers are still lost, any finite number of times.

Nothing makes a stream live: a stream may end for ever, and such a bot, whose
loop goes on pushing its last price, is excluded by the hypothesis `serving`.

| Run | Instance | What it shows |
|---|---|---|
| `pool_swap` | reserves 6:6, all four rates positive (25% trade, 25% creator, shares 50%), quotes near par with a dynamic fee and at four times par, swaps of 2 and 5 in both modes, collections of up to 3, all sides of creator fees; the admin acts in the first second; a pool the admin has left as it was is quoted then and in the second, in which it opens, also between trades, and is traded with in that second and one more (`SwapNext`); rates of 0 and 60%, two keys, a feedless pool and quotes the program refuses | `TypeOK`, `ReservesLeft`, `CreatorFeesWhereAgreed`, `QuoteNeverBeaten`, `ImplementsFund`, `ImplementsObserved`. Rates this high make every fee at least one unit, and the distant quote makes the virtual output exceed the real one, so the serviceability test is what keeps the reserves. `RatesBounded` under every order of rate changes, with permissions, owners, status and keeper changing. |
| `pool_liquidity` | mints with a 20% fee capped at 2 and a 100% fee capped at 1, deposits and withdrawals of 1 and 3 pool tokens, gifts of 3, burns, swaps of 5 at 4 and at half par with half their input as fee, all collections; at most 7 pool tokens and 2 units of fees owed in each token, quoted in the second in which the pool opens (`FewShares`) | `LpSupplyCoversHolders`, `ReservesLeft`, `ValuePerShareNeverFalls`, `ImplementsFund`. A pool of 6 is emptied to the locked tokens and filled again, with fees owed; every conversion rounds. |
| `pool_dynamic_fee` | a creator's rate of 25% and a dynamic fee of 90% | violation of `InputFeeBelowOne`, section 6. |
| `round_trip` | reserves of 1000:1000 kept within 900 and 1070, swaps of 3, 8, 20 and 31, no fee; a pool without skew and one with the steepest skew the program accepts; quotes without spread at par (the skew follows every trade) and near twice par (the skew is at its cap), and one whose spread just covers the cap | `RoundTripCosts` where the spread covers the skew: no series of swaps on one quote, whatever its directions and sizes, takes one token out without leaving another in. `QuoteNeverBeaten` on a pool large enough for 10% of skew to exceed the rounding: only rebalancing trades get it, up to the cap. |
| `round_trip_coarse` | reserves of 4000:4000, a fee of 0.25%, a skew capped at 0.1%, a quote of 1.0 in tenths without spread | violation of `FeeCoveredRoundTripCosts`, section 6 |
| `quotes` | reserves from one unit up, four prices, trade rates from none to 60%, creator fee on either side; transfer fees from none to 100%, caps from none up; keeper's prices from -1 to 20000, market sides missing, meaningless, inside and outside, spreads of 1, 40 and 1000 | `ExactOutputPaysTheLeast`: `swap_base_output` gives the smallest input `swap_base_input` would need. `TransferArrivesExactly`: the grossed-up sum delivers the amount, and no smaller one does. `EveryPriceQuoted`, `WidensWithUncertainty` |
| `observation_ring` | three slots of three seconds, accumulators modulo 11, twelve seconds, two prices between which the pool is moved by swaps and by others | `EverySecondCounted`, `RingReachesBack`: with the ring and the accumulators both wrapping. |
| `keeper_safety` | two bots, each of which may be made keeper, in any order; two prices out of a wide market with a confidence of the whole price and a tight market; two pushes in the network, one killed process, one process at a time whose stream has ended; reserves of 6:6 without fees or skew, and swaps of 2 in both modes on whatever quote is left when the network is empty and the bots are down (`BoundedSpec`) | `KeeperTypeOK`, `QuoteHonoursPool`, `OnlyReplacedRejected`, `NoOvertaking`, `PublishedPriceNeverBeaten`, `ImplementsFollowed` |
| `keeper_live` | one bot that may be replaced and come back, two prices out of a usable one, zero and an incomplete one, two pushes in the network, one killed process, a rate that changes | `NewestPriceReachesPool`, `ReplacedKeeperStops` under `KeeperFairness` |
| `keeper_fee` | one bot, never replaced, a rate that is raised | violation of `FeeFollowsConfig`, section 6 |
| `client` | reserves of 400:400 near which the pool is kept (`NearOpening`), mint 1 with a fee of a third capped at 90, skew in force from an imbalance of a tenth, two quotes, one with a dynamic fee, others' swaps of 90, a slippage of a tenth, orders of 50, an `EPOCH` of 60 | `FreshOrderTaken`, `PreviewExact`, `SlippageHonoured`: every command, then any interference, then the transaction or its failure |
| `client_limits` | the same with an `EPOCH` of 20 | violation of `DepositLimitAllowsFee`, section 6 |

**Bounds.** Rounding hazards show at the smallest amounts, where one unit is a
large part of the reserve, so reserves of 6 with fees of a quarter exercise
every floor and ceiling; a larger pool is needed only where a rate of 10% has to
matter, in `round_trip`, or a slippage, in `client`. `U64_MAX` (11 to 14, or 1070,
2000 and 4200) bounds
every stored amount, as the program's checked additions bound them by 2^64 - 1,
so overflow guards are reached. `MAX_TIME` of 2 lets a pool open and trade,
3 lets it observe a price over a second; time matters more in `observation_ring`
only. `MAX_PRICES` of 2 has an
older and a newer price, `MAX_INFLIGHT` of 2 lets a push given up wait behind
the next one or land after it, and `MAX_CRASHES` of 1 restarts a process with a
push of the one before still in the network (processes also end by themselves
when replaced, without bound). In the keeper's runs (`BoundedNext`) the pool opens
before the bots start, and is traded with in `keeper_safety` after they have
stopped: a swap reads of all that the bots do the quote only, and a bot reads of the
pool only what no swap changes, so that trading earlier meets no other quote. The
theorems have no such order. In `pool_swap` a pool whose rates, owners, status
or keeper the admin has changed is not traded with (`SwapNext`): every instruction
of the admin leaves the ledger alone, and one set of rates that rounds at every step
is enough to trade with. Here too the theorems know no order. One pool and one
config are enough: pools share nothing but the config they read.

Each property of a passing run has a mutant in `PROJECT.json`: a
plausible slip in one definition, beside that definition in its module, under
which TLC finds the property violated.

## 4. The properties

- `ReservesLeft`: a created pool has, of each token, more in the vault than the
  fees it owes. Without it `vault_amount_without_fee` fails or the observed
  price divides by zero, for every later caller.
- `LpSupplyCoversHolders`: `lp_supply >= lp_mint_supply + LOCK_LP_AMOUNT`.
- `ValuePerShareNeverFalls` (action property): no step but a swap lowers the
  reserve of either token per pool token.
- `QuoteNeverBeaten` (action property): valued at the bid or ask the trade was
  made against, moved by the skew cap only if the trade rebalances, the reserves
  do not shrink in a swap.
- `ImplementsFund` (refinement, temporal): every behaviour of the pool is one of
  `QuotedFund`. Shares are issued for at least their part of the reserves,
  redeemed for at most it and never all of them, a trade pays the quote or less,
  no reserve is used up, and whatever else happens, the fees above all, takes
  nothing from the fund.
- `RoundTripCosts`: on one quote, swaps never leave less of one token and no more
  of the other, if the spread covers the skew: if the bid moved up by the skew's
  cap and the ask moved down by it do not cross (`SkewCovered`). A comment of
  `cp/curve/oracle_curve.rs` calls the cap the bound, and promises the rest.
- `FeeCoveredRoundTripCosts`: the same where not the spread but the fee of every
  trade covers the skew's cap (`FeeCoversSkew`), the other half of the comment's "in
  fees + spread". Violated, section 6.
- `ImplementsObserved` (refinement, temporal): every behaviour of the pool is one
  of `ObservedPrice`.
- `CreatorFeesWhereAgreed`, `RatesBounded`, `TypeOK`.
- `ExactOutputPaysTheLeast`, `TransferArrivesExactly`: a closed form against its
  definition by search.
- `EverySecondCounted`, `RingReachesBack`: the account against a history kept
  second by second.
- `EveryPriceQuoted`, `WidensWithUncertainty` (action property): the keeper's
  arithmetic has a result the program takes, and a wider one for a less certain
  price.
- `QuoteHonoursPool`: the cached quote is on each side of a published price by
  half the pool's spread or more, and outside the market's own sides. The program
  does not enforce any of it.
- `PublishedPriceNeverBeaten` (action property): a swap leaves the reserves worth
  no less at half the pool's spread off a published price, moved by the skew cap if
  the trade rebalances. It is `QuoteNeverBeaten` from a price of the market instead
  of the quote, which whoever pushes it could choose: it takes the curve, the bots'
  arithmetic, their caches and the network to be right together.
- `ImplementsFollowed` (refinement, temporal): every behaviour of the pool with its
  keepers is one of `FollowedPrice`. Each quote is an offer its keeper made, of a
  published price, with the pool's spread around it; nobody offers beside what they
  stand behind, nor of an older price than they have offered before.
- `OnlyReplacedRejected`, `NoOvertaking` (action properties),
  `NewestPriceReachesPool`, `ReplacedKeeperStops` (liveness).
- `FreshOrderTaken`: the limit of a transaction in flight, against what the
  program would compare it with in the pool as it is now. It names the cases the
  client does not get right even on an unchanged pool: skew, which previews leave
  out; mints with a transfer fee, section 6; and a withdrawal worth so little
  that the slippage is less than the unit by which its preview rounds up.
- `PreviewExact` (action property): what an executed order moves is what was
  printed, if the pool is as it was read; a withdrawal may pay a unit less.
- `SlippageHonoured` (action property): what it moves is within the slippage,
  whatever happened in between.

## 5. The proofs

All of them are checked by `tlapm` with Z3, Zenon and LS4, and hold for all
values of the constants that satisfy the named assumptions of `Pool`
(`PoolAssumption`: the inputs are of the types the instructions take, the locked
amount is positive, transfer-fee schedules are schedules) and of `Observation`,
or of the module the theorem is about.

`PoolProofs` proves `Spec => []P` for P each of `TypeOK`, `ReservesLeft`,
`LpSupplyCoversHolders`, `RatesBounded` and `CreatorFeesWhereAgreed`.

*The inductive invariant.* `ReservesLeft` is not inductive. That a swap leaves
reserves depends on the shares of the fee not exceeding it, hence on
`RatesBounded`; that a withdrawal leaves some depends on the withdrawn pool
tokens being fewer than `lp_supply`, hence on `LpSupplyCoversHolders` and the
locked amount; that creation establishes it depends on no fee being owed before
(`NothingBeforeCreation`). The invariant is `Settings /\ Ledger`:

- `Settings == SettingsTypeOK /\ RatesBounded`: what admins, keepers and
  creators set. `SettingsStep` proves it by itself.
- `Ledger == LedgerTypeOK /\ LpSupplyCoversHolders /\ ReservesLeft /\
  NothingBeforeCreation`: what is counted in tokens. One lemma per group of
  actions: `CreationLedger`, `DepositLedger`, `WithdrawLedger`, `SwapLedger`
  with `InstructionSettles`, `PayoutLedger` and `CollectLedger`,
  `ExternalLedger`; `LedgerStep` puts them together under `Settings /\ Ledger`.

*The arithmetic*, in `CurveProofs`, is stated of the operators with
`ASSUME ... PROVE` and cited by name: divisions (`DivNat`, `DivBelow`,
`DivAtMost`, `FloorDivBound`, `TwoFloorsBound`, `CeilDivBound`), the gross-up
(`PreFeeAmountBound`), transfer fees (`CreditedBound`, `SentDelivers`), the
square root (`SqrtExists`, `SqrtSpec`, `SqrtOfProduct`), virtual reserves
(`VirtualReserves`, `OutputPrice`, `InputPrice`), the fees' shares
(`SharesFit`), and the two results the swap needs, `SwapBaseInputSound` and
`SwapBaseOutputSound`: what a trader pays covers the fees and the swapped
input, and some of the real output stays. `WorthBound` is what a withdrawal needs.
The lemmas on instructions (`DepositAmounts`, `WithdrawAmounts`,
`InstructionSettles`, `SettleReserves`) hold for any amount and limit that are
u64, so that the modules below and the client's can use them.

`LpFundProofs` proves `Spec => ImplementsFund` by `Settings /\ Ledger`: one lemma
per kind of step says which step of the fund it is (`CreationOpens`,
`DepositIssues`, `WithdrawRedeems`, `SwapTrades`, `GiftGains`,
`CollectKeepsReserves`, `FundUnchanged`), and `FundStep` joins them. That no step
but a swap dilutes a pool token is then a consequence of the abstraction, not of
the instructions: `FundKeepsValue` looks at the fund's steps only, and gives
`Spec => ValuePerShareNeverFalls`.

`LpFundProofs` also proves `Spec => ImplementsObserved`, by `Settings /\ Ledger`:
that reserves are left (`ReservesLeft`) is what makes the observed prices exist
(`PricesExist`); a swap is an update with the prices found (`SwapObserves`), and
no other step writes the account (`ObservedStep`). So what `RingProofs` shows of
an observation account under any price, it shows of the pool's.

`LpFundProofs` proves `Spec => QuoteNeverBeaten` as well. A swap takes at most what its
spot price gives (`SwapAtSpot`); the skew is on the side that rebalances the pool
and its cap at most (`ImbalanceSign`, `SkewBound`, `SkewBetweenCaps`), and a
shifted quote is monotone in the shift (`ShiftMonotone`, `FractionMonotone`), so
the spot is never worse for the pool than the price the property names
(`PriceWithinWorst`). That is stated of a swap of any amount and limit
(`SwapQuoted`, `SwapWithinQuote`), and nothing but a swap moves the two reserves
apart (`OnlySwapsSwap`), so that the compositions can use it.

`RoundTripProofs` proves `RoundTripSpec => []RoundTripCosts`. No trade by itself need be
bad for the trader, and the reserves at the quote's own prices may shrink in a
series: what never shrinks is their worth at a *settlement price* between the two
sides, the bid moved up by the cap of the skew. If the spread covers the skew,
that price is at most the ask moved down by the cap, so every price a swap can
get is on the pool's side of it (`PricesAroundSettlement`), and every swap leaves
the reserves worth no less there (`SwapSettled`). The inductive invariant,
`Settled`, is that: the reserves are worth at least what `mark` is, at the
settlement price. Less of one token and no more of the other would be worth less
(`WorthMonotone`). No step that leaves quote and pool tokens alone takes from the
reserves (`SeriesKeepsPool`). `PlainPoolsAreCovered` says that the condition always
holds of a pool without skew, as the program takes no quote whose ask is below its
bid.

`ClientProofs` proves `ClientSpec => P` for `[]FreshOrderTaken`, `PreviewExact`
and `SlippageHonoured`, from the assumptions above and `ClientAssumption`, for
any slippage, order and schedule of transfer fees.

- The inductive invariant is `Settings /\ Ledger /\ ClientInv`. Every step of the
  composition is a step of `Pool` as its own theorems know it, or leaves it alone
  (`ClientStep`), though an order's amount and limit are none of the constants
  `Pool`'s own actions choose from. `ClientInv` holds what binds an order to its
  preview (`Orders`: its limit is a slippage away from what it quoted) and, while
  it is fresh, to the pool (`Current`: what it quoted is what the program computes
  now, which no step that leaves `pool_accounts` alone can change).
- `SlippageDown` and `SlippageUp` bound a limit whatever the rounding was;
  `PreviewIsProgram` says that without skew the client's terms are the program's.
- For each instruction, an effect lemma (`BaseInEffect`, `BaseOutEffect`,
  `DepositEffect`, `WithdrawEffect`) relates what moves to the limit it passed.
- What `Pool` promises by itself it keeps in the composition: `ClientSpec =>
  []ReservesLeft`, `=> ImplementsFund`, `=> ImplementsObserved`. The lemmas on
  instructions above are stated of any amount and limit (`AnySwap`), so that an
  executed order is a step of both abstractions (`ExecuteIsStep`), as is any step
  of others (`ClientImplements`). So `ClientSpec => ValuePerShareNeverFalls`, and
  by `OnlySwapsSwapByClients` `ClientSpec => QuoteNeverBeaten`: the slippage a user
  grants is never taken beyond the quote.

`KeeperProofs` proves `KeeperSpec => P` for `[]KeeperTypeOK`,
`OnlyReplacedRejected`, `NoOvertaking`, `[]QuoteHonoursPool`,
`PublishedPriceNeverBeaten` and `ImplementsFollowed`, from the assumptions above and
`KeeperAssumption`, which gives prices their types and says that it is the bots who
push, for any bots, prices, bounds and doings of others. The inductive invariant is
`Accounts /\ Types /\ Network /\ Order /\ Width`, the first of them `Settings /\
Ledger` of `PoolProofs`: a step of others keeps it as there, and of what it holds the
bots change only the quote (`ServeAccounts`).

- Types need more than `KeeperTypeOK`: what is in the network has the type of a
  push, every position is a published price's (`CellsPublished`), and a bot
  waits for one push at a time (`OneAwaited`), or the answer to one would leave
  the other awaited by nobody.
- `OnlyReplacedRejected` rests on `Network`: bots and pushes exist only once the
  pool does (`CreatedBefore`), and every push passes the program's tests but the
  signer's (`PushesAcceptable`). That is arithmetic on any price and confidence:
  `ConfidenceNat`, `SpreadNat`, `FeeCapped`, `FieldsAcceptable`.
- `NoOvertaking` rests on `Order`: each process's cell is at or ahead of every
  push of its key and of the quote if it is that key's (`CellAhead`), also after
  a restart, when the subscription starts at the present price; and an awaited
  push is the newest of its key (`AwaitedNewest`).
- `QuoteHonoursPool` rests on `Width`: the spread a bot has copied is the pool's,
  which creation fixes and bounds and nothing changes (`SpreadsRead`); every push in
  the network honours the price it was computed from, whenever it lands
  (`PushesHonour`). One price at a time it is `SpreadCovers`, `FloorsWiden` and
  `FieldsHonour`: a wider spread only moves each side away from the price.
- `PublishedPriceNeverBeaten` joins that to the pool's own theorem: no swap beats
  the quote, a shifted side is monotone in the side it is shifted from, and the
  quote's sides are outside those the property names (`PoolSidesNat`).
- `ImplementsFollowed` needs the whole invariant, one lemma per kind of step
  (`OthersFollow`, `PushFollows`, `GiveUpFollows`, `NetworkFollows`), joined by
  `FollowedStep`. That a new push is no older than any other of its bot, in the
  network or in force, is `CellAhead`; that it is around its price is `Width`
  (`HonoursAround`); that pushes given up or gone are so one by one is `OffersDiffer`,
  as two pushes never map to one offer. Proving that is what put the fee among an
  offer's terms: two pushes of one price, computed by a process and by the one
  started after it, between which the config's rate was raised, may agree in all
  else, and one may land while the other is on its way. `keeper_safety`, where no
  rate changes, does not meet it.
- What `Pool` promises by itself it keeps with its keepers: `KeeperSpec =>
  []ReservesLeft`, `=> ImplementsFund`, `=> ImplementsObserved`, `=>
  ValuePerShareNeverFalls`, as a push is a step of the fund and of the observed price
  that moves the quote alone (`KeptPoolImplements`).

`ArithmeticProofs` is about one computation at a time, so that its invariants are
types and the arguments are arithmetic.

- `TransferAlwaysArrives`: at least an amount arrives of exactly those sums that
  exceed it by the cap of the fee or pay for the rate (`Arrives`). The gross-up
  is the least of them (`PreFeeIsLeast`), and one unit more sent is at most one
  more delivered (`CreditedStep`), so that the least is exact (`LeastIsExact`).
- `ExactOutputAlwaysLeast`: each stage of an exact-input swap gives at least an
  amount exactly from the input on that the stage of the exact-output swap asks
  for it: `LeftFromGrossUp` for either fee, `GivenFromInput` for the curve, which
  `BuysFromInput` puts one behind the other.
- `QuotesAlwaysWiden`: the spread, both floors and the fee are each monotone in
  the confidence. `PricesAlwaysQuoted`: two units of price leave a positive bid
  at any spread a pool can have.

`RingProofs` proves `RingSpec => []EverySecondCounted` and `RingSpec =>
[]RingReachesBack` for a ring of any size, slots of any duration, accumulators of
any width, and a price that anything moves at any time. The strengthening,
`UpdatedBySwap`, says that the account was last updated in the second of the last
swap, so that a swap that finds time to account for accounts for all of it and
for nothing else, and that this second lies within the newest slot's duration, so
that a slot left behind holds the sum of a second it stood for. `WrappedSum` lets
the accumulators wrap at any moment.

## 6. What the checks found

**The dynamic fee is bounded alone.** `update_pool_oracle` bounds the dynamic
fee on its own (`cp/instructions/admin/update_oracle.rs:38`), while a swap adds
the creator's rate to it. For the config's trade rate, which the dynamic fee
replaces, the program asserts that the sum is below one (`cp/lib.rs:59`,
`cp/instructions/admin/update_config.rs:48` and `:59`). In `pool_dynamic_fee`
the sum reaches 115%: exact-input swaps fail for every amount and exact-output
swaps panic at the `unwrap` of `cp/curve/calculator.rs:193` until the next push.

**The fee floor is the startup's.** `README.md:60` says the bot refreshes what it
reads of the pool and its config when the config changes. It reads them once
(`bot/src/main.rs:47-53`). `keeper_fee` shows a pool whose rate is raised while
its keeper goes on pushing a dynamic fee computed from the old one, which is what
swaps charge, until the process happens to be restarted.

**A deposit's maximum allows for the wrong fee.** `get_transfer_inverse_fee` takes
the epoch and then the amount (`client/src/instructions/utils.rs:101`: "Calculate
the fee for output amount"), and is called with the amount and then the epoch at
`utils.rs:63` and `:68`, as is `get_transfer_fee` at `:91` and `:96`; the swap
commands pass the two in order (`client/src/main.rs:543`, `:704`). So what
`main.rs:295` adds to the maximum of a deposit is the fee of the epoch's number.
In `client_limits` the epoch is early, the fee of its number less than the
deposit's, and a deposit into a pool nobody has touched would be refused.

**A coarse price is shifted by more than the cap.** The comment at
`cp/curve/oracle_curve.rs:69-72` lets the skew move the quote "up to `max_bps`" and
calls that the bound: "round-trip through skew should always cost more in fees +
spread than it gives back". `shift_mantissa_by_signed_bps` truncates (`:207`), so
that shifting down by one basis point takes at least a whole unit of the mantissa,
which of a mantissa of 10 is a tenth of the price. In `round_trip_coarse` each trade
pays 25 basis points and the cap is 10. In a pool of 4000:4000 at 1.0, 123 of
token 0 are sold for 118 of token 1, which brings the skew to its cap, and bought
back for 116 at a price of 0.9; the pool has 2 of token 1 less than before, and
nothing for it. Where the spread covers the cap it does not happen, whatever the
mantissa, as both sides are then truncated (`RoundTripCosts`, proved). The program
takes such a quote from whoever is its keeper
(`cp/instructions/admin/update_oracle.rs:28-38`); the bots leave at least a unit
between bid and ask, and prices of Pyth have more digits.

## 7. Checked only, or out of reach

- Every invariant and action property of the passing runs is proved, but for what
  the next item names. `RoundTripCosts` has the condition `SkewCovered`, and the
  program checks the cap and the spread of a pool apart, and the spread not at all
  when a quote is pushed, so that the condition is up to the creator and the keeper.
- Where neither spread nor fee covers the skew, no property is stated of a round
  trip, and none would hold. The skew moves in whole basis points and lags behind
  the reserves: in a pool of R tokens, selling d of them across the boundary of a
  basis point at the old skew and buying them back at the next gains about
  d/10^4 - 2d^2/R, some 12 units of 10^10. In the small pools of the runs the rounding
  keeps more than that, and larger ones are beyond the integers TLC computes with.
- Out of the prover's reach: the keeper's liveness under fairness
  (`NewestPriceReachesPool`, `ReplacedKeeperStops`), which takes `ENABLED`, and what
  a definition by recursion computes for every input.
- Violated, hence not theorems: `InputFeeBelowOne`, `FeeCoveredRoundTripCosts`,
  `FeeFollowsConfig`, `DepositLimitAllowsFee`, section 6.

## 8. Not modelled

- `client/src/main.rs`: `InitializePool` passes its arguments on, and the
  commands that decode an instruction or a log
  (`client/src/instructions/events_instructions_parse.rs`) print what others did;
  neither reads state and acts on it. So does
  `client/src/instructions/token_instructions.rs`, which builds instructions that
  create and fund token accounts.
- `cli/`: each command builds one transaction of the administration in `Pool`,
  from its arguments.
- `cp/states/events.rs`, `cp/error.rs`, `cp/utils/account_load.rs`: payloads,
  codes, memory layout.
- `infra/`, `scripts/lvr-backtest`: deployment and offline analysis.
- In `cp/`: the two swap functions of `constant_product.rs`, which no
  instruction calls; the lamports of `create_pool_fee`; accounts' addresses and
  ownership; the range check of a shifted mantissa against `i64`.

Notes from reading the code: the spread floor `min_spread_bps` is stored and
bounded on chain but never enforced there (`update_pool_oracle` takes any
`ask >= bid`); the keeper's confidence in basis points is cut to 64 bits
(`bot/src/keeper.rs:90`), so that of a price of a few units with a confidence
near the largest `i64` the fee may come out low, which `WidensWithUncertainty`
excepts; an observation slot keeps the timestamp of its opening while its
sums advance.

## 9. Plan

1. *Done*: `Fees`, `OracleCurve`, `SwapCalculator`, `TransferFee`,
   `Observation`, `Pool`; the runs of section 3; the theorems of `PoolProofs`.
2. *Done*: `OracleMath`, `QuoteWidening`, `Keeper`, their runs and theorems.
3. *Done*: the fund a pool promises, the refinement, checked and proved, with
   `ValuePerShareNeverFalls` and `QuoteNeverBeaten`.
4. *Done*: the client composed with the pool, its runs and theorems.
5. *Done*: the theorems on the width of the quotes, on the arithmetic and on the
   observations.
6. *Done*: `RoundTripCosts` stated for every pool and proved; the observations
   with a price that moves between swaps, and the pool shown to keep them so.
7. *Done*: the pool's own promises as theorems of its composition with a client,
   and with its keepers.
8. *Done*: the followed price, which `KeeperSpec` is shown to implement, and what it
   means for a trade (`PublishedPriceNeverBeaten`), checked and proved.
9. *Models left*: a mint whose older and newer fee schedules differ, with the
   epoch in which the newer takes effect between a preview and its transaction.
