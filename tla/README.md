# MarginGuard: TLA+ models, model checks and proofs

MarginGuard is a risk engine for perpetual futures: it opens and closes
positions, marks them to market, accrues funding and liquidates accounts below
maintenance margin, paying bankruptcy losses from an insurance fund and
socialising what the fund cannot pay. The code is a workspace of Rust crates;
the paths below are relative to `src/crates/`.

This directory holds TLA+ modules translated from that code, TLC
configurations that check them on small instances, and TLAPS proofs of the
results that matter most for every value of the constants.

    tlc -workers 2 -config Concurrent.cfg MCContention     # a run
    tlapm RiskEngineProofs.tla                             # a proof module

`PROJECT.json` lists the runs, which definition stands for which source lines,
the findings, the hazards and the theorems.

## 1. The system

| Component | State | Operations | Talks to |
| --- | --- | --- | --- |
| Money and margin arithmetic (`marginguard-types`, `core/src/margin.rs`) | none | saturating i128 amounts, notional, equity, margins, funding payment, liquidation test | used by the engine, the API and the advisor |
| Insurance fund (`core/src/insurance.rs`) | balance | `credit`, `cover` | owned by the engine, under its lock |
| Risk engine (`core/src/engine.rs`) | markets, fund, statistics, under one mutex (`EngineState`) | `apply` of OpenPosition, ClosePosition, UpdateMarket, AccrueFunding, LiquidateMarket; reads of markets, stats and fund | calls the rate limiter, the store and the event sink; called by the API and the simulator |
| Position store (port `core/src/ports.rs`, `infra/src/store.rs`) | map by account and market, index by market, under an `RwLock` | upsert, get, remove, by_market, count | called by engine and API |
| Event bus (`infra/src/bus.rs`) | a bounded broadcast channel | publish, subscribe | fed by the engine, read by GraphQL subscriptions |
| Rate limiter (`resilience/src/limiter.rs`) | tokens, refill mark, under a mutex | try_acquire | asked by the engine before each command |
| Circuit breaker (`resilience/src/breaker.rs`) | failure count, opening time, half-open flag, under a mutex | allow, on_success, on_failure, state | nothing uses it yet |
| Retry, timeout (`resilience/src/retry.rs`, `timeout.rs`) | attempt counter | retry, with_timeout | used by the LLM narrator |
| Risk advisor (`marginguard-ai`) | none | heuristic tiers; LLM narration with fallback | called by the GraphQL query `riskAdvice` |
| GraphQL API (`marginguard-api`) | none | mutations that apply commands, queries, subscriptions | engine, store, advisor, bus |
| Postgres store (`infra/src/pg.rs`) | a table | the port's operations, one SQL statement each; `ensure_schema` | not wired into the node |
| Oracle, simulator (`infra/src/oracle.rs`, `node/src/simulate.rs`) | the price of a random walk; counters of a scenario | opens a book, walks the mark, settles funding, sweeps, reports | engine |
| Node (`node/src/lib.rs`, `startup.rs`) | none | serve or simulate; build the engine; stop on a signal | all of the above |

**Where it is hard.** `RiskEngine` is a handle over `Arc`s. The server applies
each request on its own task, and `apply` awaits the store between lock
sections: nothing holds the engine's lock, or any other lock, for a whole
command. So

- two commands interleave between lock sections and store calls, and act on
  copies of positions and marks that are stale by the time they are written
  back (`accrue_funding`, `liquidate_market`) or tested (`open`);
- a command fails half way: `?` after a store or sink error returns and drops
  the events of what was already done; `close` removes the position before the
  fallible market lookup;
- events are published after the lock is released, in an order that need not
  be that of their effects;
- the fund is shared by all sweeps and may run dry in the middle of one;
- the limiter reads the clock before it has the lock, so its refill mark can
  move backwards;
- calls guarded by the breaker overlap, so outcomes arrive late;
- `riskAdvice` reads the position, its health and the market in separate calls,
  and commands take effect in between;
- a subscriber may be slower than the bus, whose channel then overwrites what
  it has not read, and the stream drops the notice of it;
- the advisor's endpoint answers late, wrongly or not at all, and two timers of
  the same length watch it;
- over a durable store positions outlive the process that opened them, while
  fund, markets and statistics do not, and a process may die between the removal
  of a position and its settlement with the fund;
- amounts saturate or truncate in several places of one computation, and the
  liquidation price is a second formula for the test the sweep makes.

**What makes each part correct.** *Arithmetic*: amounts stay in range, `cover`
splits a shortfall exactly. *Fund*: it never goes negative and holds what it
was given less what it paid; a loss is socialised only once the fund is empty.
*Engine*: a sweep takes out all and only underwater positions; funding over a
matched book nets to zero; statistics and events agree with what was done;
every command returns. *Stream*: a reader can rebuild the book, and never sees
what has not happened. *Store*: the two indexes are one map. *Limiter*: grants
stay within the rate and no refill is lost. *Breaker*: callers are turned away
exactly while it cools down. *Bus*: a subscriber sees events in order and loses
only what was overwritten. *Advisor*: the tiers agree with the liquidation test,
the source of an advice is named truly, and an answer comes in bounded time.
*Restarts*: no position is settled twice, and a fault loses no more than the one
in hand. *Simulator*: its report adds up, and a run fails only for reasons that
its arguments explain.

## 2. The modules

| Module | Models |
| --- | --- |
| `MarginMath` | `Usd` arithmetic (saturating, truncating division, and the wrapping subtraction of `liquidation_price`) and the formulas of `margin.rs` and `position.rs` |
| `InsuranceFund` | `credit` and `cover` |
| `WaterfallLedger` | abstract specification of the fund: fees flow in, losses are paid as far as the balance goes |
| `RiskEngine` | the engine with its store, its sink and the tasks that serve requests |
| `RiskEngineProps` | type invariant, safety, action and liveness properties of the engine |
| `RiskEngineClaims` | what comments and docs say of the engine and the engine does not do |
| `Contention` | the engine with a history of the positions that two commands have held at the same time |
| `AtomicEngine` | abstract specification of the engine: each command is one step |
| `Simulation` | the node with one request in flight: it serves a client, or walks a scenario of the simulator |
| `DurableNode` | the engine over the Postgres store, with crashes and restarts |
| `MCRiskEngine`, `MCContention`, `MCSimulation`, `MCDurableNode` | their small instances |
| `PositionStore` | abstract specification of the store: the port's operations on a map |
| `MemoryStore` | the in-memory store with `by_key` and `by_market` |
| `RateLimiter`, `CircuitBreaker` | the two resilience primitives with concurrent callers |
| `EventBus` | the broadcast channel and the two subscriptions that read it |
| `Advice` | account health and the heuristic advisor's verdict, as operators |
| `Narrator` | one call of the networked advisor, with retry, backoff and timeout |
| `Server` | the engine together with the bus's subscribers and the `riskAdvice` query |
| `MCServer`, `MCNarrator` | their small instances |
| `MarginMathProofs`, `RiskEngineProofs`, `SimulationProofs`, `DurableNodeProofs`, `ServerProofs`, `MemoryStoreProofs`, `RateLimiterProofs` | theorems about the module they are named for |
| `ResilienceProofs` | theorems about `CircuitBreaker` and `Narrator` |

`RiskEngine` extends `InsuranceFund`, which extends `MarginMath`.
`RiskEngineProps` instantiates `WaterfallLedger`, and `MemoryStore`
instantiates `PositionStore`, under refinement mappings. `Server` extends
`RiskEngineProps` and `Advice` and instantiates `EventBus` with the engine's
`bus` as its log; `Narrator` extends `Advice`. `Simulation` and `DurableNode`
extend `RiskEngineProps` too and add to its steps; `Simulation` instantiates
`AtomicEngine`. `Contention` extends `RiskEngineProps` and adds a history
variable to it and no step; `RiskEngineProofs` extends `Contention`.

### RiskEngine

`positions` is the store, `markets`, `insurance` and `stats` are `EngineState`,
`bus` is what the sink has sent. Each element of `Tasks` is a request in
progress: `pc[t]` is where it is in its command and `req[t]` the locals it
holds: the market snapshot (`view`), the position snapshots it has still to
visit (`todo`), the one in hand (`cur`), its events (`evs`) and the loss its
sweep has socialised (`social`). `book` is a history variable: the fees, the
shortfalls and the socialised losses that the waterfall has moved.

One action is one lock section of the engine or one call of a port:

| Command | Actions | Code |
| --- | --- | --- |
| OpenPosition | `OpenGet` (key free, margin sufficient), `OpenUpsert`, `OpenCount` | `open` |
| ClosePosition | `CloseRemove`, `CloseMark` (fails without a mark), `CloseCount` | `close` |
| UpdateMarket | `UpdateMarket` | `update_market` |
| AccrueFunding | `FundMarket`, `FundScan`, `FundUpsert` per position, `FundCount` | `accrue_funding` |
| LiquidateMarket | `LiqMarket`, `LiqScan`, then per position `LiqRemove`, `LiqSettle`, `LiqCount`, and `LiqFinish` | `liquidate_market` |
| all | `Publish` per event; `StoreFails`, `SinkFails` | `apply`, the ports' errors |

`by_market` returns positions in the order of a hash set, so `FundUpsert` and
`LiqRemove` take any element of `todo`. `StoreFails` stands for a store call
that did nothing and for one that was applied and whose answer was lost; both
end the command and drop its locals. A command that is refused at its first
test (rate limited, key taken, margin too low, no position, no market) changes
nothing and is not a step. Leverage, margin mode, index price and the metrics
counters are never read by the engine and are left out.

### Contention

No lock spans a command, so commands that overlap do harm one another: section 6
lists how. `Contention` says how far the harm goes. A task *holds* the positions
whose copies it has, is about to store or has taken out, and those it has events
of that are not yet published (`Holding`). `contested` collects the keys that two
tasks have held at the same time; the properties speak of the others. `Next`
is that of `RiskEngine`, conjoined with the new value of `contested`.

### Simulation and AtomicEngine

`RunInit` chooses what `run` in `lib.rs` dispatches to: serving (`args = None`)
or one scenario of `Scenarios`. `at` is where `run_simulation` is: each of its
calls of `apply` is an action (`SimStart`, `SimOpen`, `SimStep`, `SimFund`,
`SimSweep`) that begins a command of `RiskEngine`, and `Turn` makes it wait for
the command before it, as `.await?` does. `SimFail` is every `?` and `map_err`
of the function: a price out of range, a margin below the initial margin, a
command refused by the limiter (`SimThrottled`). `NextPrice` is the oracle's
step with any noise of the range `-vol ..= vol`. `SimReport` is the report.

`AtomicEngine` says what the five commands promise to a client that waits for
its answers. It has no tasks, snapshots, store calls or events. Its `Sweep` does
not say in which order positions are settled: it fixes the fees, the losses and
who is taken out, and lets the fund end anywhere that loses no dollar but the fees
that would lift it over the largest amount, and that socialises only what an
empty fund could not pay. `committed` is the engine's
state whenever no command is in progress; `ImplementsAtomic` is the refinement
`positions <- committed.positions`, and so on.

### DurableNode

`RiskEngine`'s `positions` become rows of a table that outlives the process, and
`StoreFails` is the connection breaking before or after the server has run the
statement. `Boot` is `build_engine` over an existing table: `ensure_schema`
leaves the rows alone, everything else starts afresh. `ShutDown` waits for the
requests in flight, as `with_graceful_shutdown` does; `Crash` comes between any
two steps. `SerialAssumption` allows one client, who may repeat a failed
request: what two clients do to each other is section 6. `seen` is history: how
often each key was opened, closed, settled and charged, and how many accruals
were begun and ended over it. `faults` counts what cut a command short.

### The others

`MemoryStore` has one action per call, since each call holds the lock
throughout; `reply` is what the call returned. `RateLimiter` splits
`try_acquire_n` where the code does, between reading the clock (`ReadClock`)
and the bucket's lock (`Admit` or `Refuse`); `granted[s]` is a history of what
was granted to readings of the clock from `s` on, `waited` how long callers
have waited for the lock in all. Tokens are whole numbers there: the rounding
of `f64` is not modelled. `CircuitBreaker` has `ReadState`, `Enter` (`allow`
answered true), `OnSuccess` and `OnFailure`, with a `log` of the outcomes; its
counter of failures does not wrap at 2^32.

`EventBus` keeps everything that was sent in `log`; the channel holds its last
`Slots` elements. A subscription is the place of its receiver (`next`), its feed
and the indices it has forwarded (`shown`); `since` and `missed` are history.
`Receive` and `SkipLag` are the two things the receiver's stream may yield, an
event and the notice that it lagged, which `filter_map(r.ok())` drops. The
channel and its receiver are tokio's and modelled as the code relies on them;
a subscription, once begun, does not end.

`Server` has one action per read of `risk_advice`: `QueryPosition`, the two
halves of `account_health` (`QueryAgain` from the store, `QueryMark` under the
lock), and `QueryMarket` with the verdict of the heuristic. `marks` and `kept`
are history: the marks that prevailed while the query ran, and whether its
position was left alone. `Advice` gives ratios the width `I64Max`, as
`i64::try_from(..).unwrap_or(i64::MAX)` does, including what it does to a ratio
far below zero.

`Narrator` is one `assess` call: `Narrate` (is the backend enabled), `Answered`
or `TimedOut` for each attempt, `Sleep` between attempts, `Settle` for what
`retry` and `assess` do with an outcome. `Shifted` is the table of `1u32 << n`
that `backoff` can reach.

## 3. The runs

| Run | What it shows |
| --- | --- |
| `sequential` | The node with one request in flight, `MCSimulation`. Serving: two accounts, two markets of which one never gets a mark, six commands, positions exactly on, just off and far below maintenance margin, a matched book, and a funding rate at which amounts saturate. Simulating: thirteen scenarios, each with every walk its noise allows. `ImplementsAtomic`: every command is one step of the abstract engine. `ReplayRebuildsEngine`: the stream rebuilds the book, its funding, the marks and `open_positions`. `LiquidationPriceIsEdge`: on one side of `liquidation_price` a sweep spares the position, past it it takes it out. `SweepClearsMarket`, `SweepSparesHealthy`: a sweep leaves no underwater position and takes no other. `FundingZeroSum`: a tick over a matched book nets to zero. `ReportAddsUp`, `ShortsSurviveFall`, `FailureExplained`: what a scenario reports, who survives a fall, and why a run fails. |
| `concurrent` | Two requests in flight, every interleaving of six commands over one market, `MCContention`. `TypeOK`: no step reads what the task does not hold. `WaterfallAudited`: draws and socialised losses of the events are those of the fund. `CountersMatchEvents`. `ImplementsLedger`: every step is a step of the abstract fund or leaves it alone. `UncontestedReplay`: a position that no command holds and no two commands have held at once is told as it is stored. `SweepSparesUncontested`: a sweep takes out such a position only if it is underwater at the mark the sweep read. `MarkInForceAnnounced`: the last mark announced may be an older one, but the mark in force is then one of the last two announced, or still to be announced. |
| `port_failures` | Two requests in flight and four commands, where any store call or publish may fail, or be applied and lose its answer. `WaterfallConserves`: the fund stays conserved. `EventsNeverAhead`: no event announces what was not done. `CommandReturns`: every command that was started returns. |
| `restarts` | One client over the durable store, two accounts, six commands, failing store calls and two restarts. `SettledOnce`: a position is stored, in hand, paid out or settled, and only one of these. `FaultLosesAtMostOne`: a fault costs at most the position its command had in hand. `ChargedOncePerAttempt`: a repeated accrual charges once per attempt. `SweepRecovers`: a sweep that no fault cuts short clears the market of what an earlier process or sweep left behind. |
| `memory_store` | `IndexExact` and `ImplementsPort` over all sequences of calls. |
| `rate_limiter` | `GrantsWithinRate` and `RefusedOnlyOverRate` with two racing callers. |
| `circuit_breaker` | `RejectsWhileCooling` with calls that overlap openings, cooldowns and trials. |
| `server` | One client of the engine, one subscriber of a channel of two slots, one query. `LosesOnlyOverwritten`, `SubscriberCatchesUp`: what a slow subscriber loses, and that it goes on. `AlertsAccountForLosses`: a subscriber that kept up knows of every liquidation and socialised dollar. `VerdictOfSomeMark`: the verdict is right for a mark that prevailed while the query ran. |
| `narrator` | `SourceTruthful`, `AttemptsJustified`, `AnswersInTime` for a disabled and an enabled backend, zero to three attempts, and every endpoint. |
| `claim_*` | One statement of the docs each, which TLC refutes; see section 6. |

**Bounds.** `MaxCommands` bounds the commands of a behaviour. Six suffice for
open, open, mark, crash, and two overlapping commands after that, which is what
it takes for two sweeps to race over a fund that runs dry, or for an accrual
to race with a close. The instances take prices and sizes of the unit tests in
whole dollars (`SCALE = 1`): ten contracts at 100, margins of 60 and 64, and a
fund seeded with 5. At 96 a long with 60 is underwater and solvent and one with
64 exactly on its maintenance margin; at 90 they are bankrupt by 40 and 36.
`concurrent` has two longs with 64 and the marks 96 and 90: a tick at 96 costs
each of them 9 and puts it underwater, so that one is liquidated for a fee and
at 90 the other runs the fund dry, in the same behaviour of six commands. In
`port_failures`, with longs of 60, sweeps take fees at 96 and run the fund dry at
90, but four commands are too few for both in one behaviour.
`UsdMax` is 10^8, since TLC's integers have 32 bits; no amount of `concurrent`
and `port_failures` saturates. In `sequential` the same commands have ten
micro-units to the dollar (`SCALE = 10`) and `UsdMax` is 2 * 10^7, so that a
rate of -3000 basis points on a notional of 9000 micro-units saturates the
product before it is divided. `MAX_PRICE` is 2000 micro-units there (200
dollars), which a rally of a few steps leaves; `Burst` (the limiter's capacity,
10000 in the code) is 13, which the longest scenario exceeds; `ServeCommands`
bounds the serving client at six. The scenarios are listed, with what each is
for, in `MCSimulation`: a slow fall, a gap that empties the fund (`Seed` 50), a
fall to the lowest price, two rallies, start prices of 0, 1, 2, 3 and 201 dollars,
no accounts, no steps, negative volatility. In `restarts` six commands are enough
for two opens and a mark, a sweep that a crash cuts short, a mark for the new
process and a second sweep; `MaxRestarts = 2` lets the second process die too.
Its marks (`GapMarks`) leave both longs underwater at once. Accounts and
tasks are symmetric where every account may send the same commands.
`MemoryStore` needs no bound. `RateLimiter` runs to tick 4 with a bucket of 2,
so that it empties and refills twice; `CircuitBreaker` to tick 6 with a
cooldown of 2, and five reported calls. `port_failures` and `server` stop at
four commands: open, mark, sweep and one more, with up to two events from one
sweep, so that a channel of two slots is overrun while a subscriber waits. In
`server` the width `I64Max` is 400, so that the ratio of the bankrupt position
(-444 bps at 90) leaves its range as a ratio below -2^63 would, and the initial
ratio of 600 as well. `Narrator` has no bound but the number of attempts; times
are those of `llm.rs` in microseconds: answers at once, after 2.5 s, at the
deadline of 4 s and after a minute.

**Fairness.** `FairSpec` assumes weak fairness of `Continue(t)` for each task:
the runtime goes on polling a request it has accepted, its lock sections do not
block for ever (each is short and holds no other lock) and the in-memory store
answers. Nothing is assumed of `Start`: clients need not send anything,
nor of `StoreFails`. `ServerSpec` assumes weak fairness of a subscriber's
`Poll`: a client that stays connected keeps reading. It assumes nothing of the
engine there; that commands cease, after `MaxCommands`, is what lets a subscriber
catch up at all.

Each property has a mutant of the code in `PROJECT.json` that its run refutes.

## 4. The proofs

The proofs hold for every value of the constants that satisfies
`MathAssumption` (`SCALE`, the ceilings and the range of `Usd` are positive
whole numbers), `RatioAssumption`, `EngineAssumption` (commands are well typed,
the seed is in range, `None` is no position, and finitely many requests are
served at a time), `ReplayAssumption` (`None` is no entry of a rebuilt book),
`StoreAssumption`, `LimiterAssumption`, `BreakerAssumption`,
`NarratorAssumption`, `ServerAssumption` (at least one slot),
`SerialAssumption` (one client and finitely many keys, for `DurableNode`),
`SimulationAssumption` (the scenarios are well typed and name distinct accounts)
and
`VerdictAssumption` (the maintenance rate is below `I64Max`, and that rate of the
largest notional value is an amount; true of the code's constants for every rate
below 10^12 basis points). TLC evaluates these assumptions on every run of the modules.

Some theorems are about a mode of the engine and name it as a hypothesis:
`OneAtATime` (one request in flight, as in the simulator and for a client that
waits for each answer) where the property is false of commands that overlap, and
`~StoreMayFail`, `~SinkMayFail` where a failing port breaks it. The runs that
check these properties have the same settings. Three more hypotheses are about
the parameters, and the code's defaults (500 and 250 basis points) satisfy them:
an initial margin of at most five per cent (`FailuresHaveReasons`: the simulator
posts six), a maintenance margin no larger than the initial one
(`ShortsSurvive`, `ReportsAddUp`) and one of at most one half
(`LiquidationPriceBoundsSweeps`, as `EdgeSlack` says).

- **`TypeCorrect`**: `Spec => []TypeOK`. `TypeOK` is inductive as it stands,
  because `HoldsWhatItReads` ties what a task holds to where it is: a task at
  `liq_settle` holds a view and a position, one at `publish` an event. Without
  it no step could be shown to produce a typed event. `MarginMathProofs` gives
  the ranges of the arithmetic; `MovedType` says once what a step must put into
  its task's locals, and each action cites it.
- **`FundConserved`**: `Spec => []WaterfallConserves`. Inductive together with
  `TypeOK`. `FundStep` reduces the step to three cases: the fund is left alone,
  a fee is taken, or a loss is covered; `CoverSplits` says that `cover` splits
  a loss exactly. Port failures are included.
- **`LedgerImplemented`**: `Spec => ImplementsLedger`, the refinement of
  `WaterfallLedger`, from the same three cases.
- **`IndexCorrect`**, **`PortImplemented`**: the in-memory store's index is
  exact, and every call is a call of the port. `IndexExact` is inductive with
  the types; `UnlistTakesOff` says what `remove` leaves of the index.
- **`LimiterBounds`**, **`LimiterFair`**: the two properties of the limiter
  for any number of callers. The invariant bounds the tokens from both sides
  *at the refill mark* instead of at the clock: tokens left plus tokens granted
  since any time are at most capacity and refill (`SpentIsRefilled`), and the
  bucket holds all that was refilled since some time at which it was full
  (`FullOnce`). The second needs `GrantedAntitone` when a late caller moves the
  mark back past that time.
- **`ServerImplementsBus`**: `ServerSpec => BusSpec`. Every step of the engine
  appends one event or none (`EngineSends`, which needs `TypeOK` for the type of
  what a task has yet to publish), and nothing else touches the stream.
- **`SubscribersLoseOnlyOverwritten`**: `ServerSpec => []LosesOnlyOverwritten`,
  proved of `BusSpec` and carried over. `ReadingOK` says it of one subscription,
  with the place of its receiver; one lemma for each of sending, subscribing,
  receiving and skipping keeps it, and `ReaderMoves` says that a subscription's
  step leaves the others alone.
- **`NarrationHonest`**, **`AttemptsBounded`**, **`AdviceInTime`**: the three
  properties of the networked advisor. While it tries, all its attempts ended
  in errors that may pass and its advice is the heuristic's (`Trying`);
  `BackoffBounded` gives the delays, whose jitter is at most half of the cap.
- **`FundingBalances`**: what a long pays a short of the same size receives, for
  any mark and any rate, from `ShareNegates`: truncation toward zero is
  symmetric, and a share in basis points is never the one amount that has no
  negation.
- **`AdviceOfSomeMark`**: `ServerSpec => []VerdictOfSomeMark`. The arithmetic is
  `DistanceHonest`: if the difference of two ratios, each truncated, saturated
  and narrowed to i64, is not positive, then equity is within a basis point of
  the maintenance margin. It needs `VerdictAssumption`: with amounts near the end
  of i128 the saturated ratio would say less. `QueryOK` says of a query in
  progress what its history knows: the mark of its market is among its marks,
  and while its position stays it holds that position.
- **`BreakerRejects`**: `Spec => []RejectsWhileCooling`. The property speaks of
  the reports so far; `InnerTracksLog` ties the three fields of `Inner` to them
  (the counter is the length of the last streak of failures, `opened_at` the
  time of its last one, `half_open` implies that the cooldown has passed).
- **`DurableNode`**: `PositionsSettledOnce`, `FundingChargedOnce`,
  `FundConservedAfterRestart` and `DurableTypeCorrect`, with any store failures
  and any number of restarts. `DurableInv` is `TypeOK`,
  `SettledOnce` itself and `Visits`: what a sweep or an accrual has still to
  visit is stored and distinct, so that a removal finds what the scan read; an
  idle client holds nothing; and a key about to be opened is free. `Visits`
  holds because there is one client, and is what two clients break. Then every
  step moves a position from one place to another (`CountStep`) or moves none
  (`QuietStep`). The fund's conservation splits the steps as the core module's
  proof does, a restart being the one new step. For `ChargedOncePerAttempt` a second
  invariant, `TickInv`, counts the accrual in progress:
  begun one ahead of charged for a key it has still to visit, charged one ahead
  of done for a key it has visited.

- **The stream and the engine** (`RiskEngineProofs`, any number of tasks). For
  each figure that a reader of the stream adds up (liquidations, settlements,
  announcements, dollars drawn, socialised and announced) `Surplus` is what the
  engine has recorded less what the bus has carried and less what the tasks hold
  and have yet to publish (`InFlight`, a sum over the tasks). A step of one task
  moves the surplus by its `Drift`, which is zero for every step of a command and
  at least zero when a port fails and a command's events are dropped. The
  strengthening is `TasksInOrder`: what a task holds at each label, such as an
  event of a liquidation that is made one step before it is counted. From
  `Surplus >= 0` follows **`EventsFollowEngine`**, under any port failure; from
  `Surplus = 0`, when nothing is in flight, **`StreamAuditsWaterfall`** and
  **`StreamAuditsCounters`**. The announcements are exact as long as a sweep's own
  sum does not saturate, which the property says.
- **Commands that overlap** (any number of tasks). `ContentionInv` says of each
  key that is not contested: if no task holds it, the stream shows it as it is
  stored; and what the one task that holds it has of it is right (`HandOK`): a
  copy still to visit is what is stored, a position taken out is gone, and an
  event still to be sent is all that a reader lacks (`Bridges`). `Kept` is what a
  step of one task has to keep, one lemma per action; `ContentionFrame` carries it
  to the other tasks, which do not hold the key, or it would be contested. The
  strengthening is `Shapely`: a task names a position in one place at a time, so
  that a removal or an event concerns one copy. From it
  **`UncontestedPositionsTold`** (no failing port) and **`SweepsSpareUncontested`**
  (any failing port). **`MarksAnnounced`** counts instead: once the update in force
  has been announced, the announcements after it and those still to come
  (`Awaited`) are together fewer than the tasks (`Overtaken`), since each task has
  at most one update to announce (`MarksAlone`).
- **One request in flight**: `SoloInv` says that the market snapshot a command
  holds is still the market, that the position snapshots it has still to visit
  are what is stored, and that a sweep has to visit all and only the positions
  underwater at its mark. Overlapping commands break each of them. From it
  **`SweepsClearMarket`** (the store not failing) and **`SweepsSpareHealthy`**
  (with any failing port), and for `DurableNode` **`SweepsRecover`**, with crashes and
  restarts. `TickAccounted` adds what a funding tick has settled to what the
  positions still to visit pay, by side and size, whatever they paid before; a
  matched book pays nothing in total (`PairsCancel`: a finite set whose elements
  have opposites can be taken apart two by two; `FundingBalances` for each pair):
  **`FundingNetsToZero`**.
- **`StreamRebuildsEngine`**: `ReplayInv` holds of what the bus has carried
  followed by what the client has yet to publish. Rebuilding from that log gives
  the stored positions, but for one that has been stored and not yet told of
  (`PictureInv`). The count of open positions is what the log tells, give or take
  the close or liquidation that is told a step before it is counted
  (`OpenTallies`), and covers the stored positions (`CountCovers`), so that its
  saturating decrement never saturates. `RebuiltAppend` says that one more event
  is one more step of the fold.
- **`ServerRunsEngine`**: `ServerSpec => Spec`, so the theorems above hold of the
  engine inside the server. With it **`AlertsTellAllLosses`**: of the events a
  subscriber of the alerts has not missed, those that the filter drops add nothing
  to either figure.
- **`FaultsLoseAtMostOne`**: every step is `Balanced`: a position that was opened,
  stored or in hand is afterwards paid out, settled, stored, in hand or dropped.
  A command drops only the key it has in hand, and only in a fault; so the sum of
  what the keys have lost grows by at most one, with `faults`.

- **`LiquidationPriceBoundsSweeps`**: `Spec => []LiquidationPriceIsEdge`, with any
  number of tasks and any port failure. The arithmetic is in `MarginMathProofs`:
  `SparedInFractions` and `TakenInFractions` compare the sweep's truncated amounts
  with the fractions that the formula is about (three roundings cost less than
  three micro-dollars' worth of a position), `ReachCovers` turns that into prices
  (`EdgeSlack`), and `LongEdge` and `ShortEdge` say of which numbers the formula is
  the quotient. `RoomToSpare` is what keeps the test from saturating: margin and
  largest value fit into an amount together, and so does the maintenance rate of
  that value. Offers are assumed to have it (with the code's constants a posted
  margin below 10^38 has); `RoomInv` carries it to what is stored, is about to be
  stored, and waits in the snapshot of a tick to be written back.
- **Runs of the node** (`SimulationProofs`). The core's theorems are proved of
  `AnySpec`, the engine serving any command of its API, of which `Spec` is one
  instance and, by **`RunsEngine`**, `RunSpec` another: `RunInv` says where the
  simulator is and that its offers and marks are well typed. So
  **`RunsConserveFund`**, **`RunSweepsClear`**, **`RunSweepsSpare`**,
  **`RunFundingNets`** and **`RunStreamRebuilds`** are the engine's theorems, of the
  specification that `sequential` checks; **`RunPricesBoundSweeps`** is the edge
  theorem with the scenarios' offers.
- **`FailuresHaveReasons`**: `RunSpec => []FailureExplained`. Six per cent of ten
  contracts, cut to whole dollars, is at least half of one contract's price, which is
  the initial margin, but for prices of one and three dollars (`MarginCovers`); a walk that cannot rise stays a price (`FallingPrice`).
- **`ShortsSurvive`**: `RunSpec => []ShortsSurviveFall`. `FallInv` follows every
  short account: its position is about to be stored or stored, met the initial
  margin when it was offered and has never on balance paid funding, and no mark
  is above its entry. Such a position is never underwater
  (`GainsMeetMargin`), so no sweep has it to visit.
- **`ReportsAddUp`**: `RunSpec => []ReportAddsUp`. `CountInv` counts while the
  scenario walks: accounts opened are those still stored, in hand or liquidated;
  the settlements of the ticks so far are at least one per tick for each survivor
  and at most one per tick for each account; and after a sweep nobody is
  underwater. `TicksCount` gives the number of ticks in closed form.
- **`CommandsAreAtomic`**: `RunSpec => ImplementsAtomic`, the refinement of
  `AtomicEngine`, for any book. `Midway` relates the engine in the middle of a
  command to `committed`, its state when the command began: during an accrual the
  keys no longer to visit are charged and the others are as they were; during a
  sweep the keys taken out are gone, those settled have been paid for (`Paid`, the
  fund after any subset of the sweep in any order) and counted. At the last step
  of a command `Midway` is `Whole(committed, EngineState)`, and `WholeIsAtomic`
  says that this is a step of `AtomicEngine`. Nothing is assumed about saturation:
  `Paid` lets fees overflow the fund, never a loss.

**Induction.** The library's induction theorems take a predicate as a parameter,
which the installed provers cannot instantiate. `MarginMathProofs` states
induction over a *set* instead (`NatSetInduction`, from the well-foundedness of
`<`; `FiniteSetInduction`), and from it what the sums (`SumFunctionOnSet`) and
the fold of the stream obey: their recursive functions exist, and adding,
removing or changing an element does to the sum what it should.

Only model-checked: the two liveness properties, `CommandReturns` and
`SubscriberCatchesUp`, since the prover does not reason about fairness. The
`claim_*` runs show statements that are false. Every other property that a run
checks is the statement of a theorem.

## 5. Why these properties

The tests of the repository run one command at a time against stores that do
not fail. The properties aim at what they cannot reach: `PROJECT.json` lists
the hazards with their lines. Where the code does not have a property under
concurrency, the run that checks it has one request in flight, and the
concurrent runs check what does hold however commands interleave: the fund,
the audit trail of the waterfall, the counters, how far the announced mark may
lag, and that overlapping commands falsify the record of no position, and
liquidate no healthy one, but those that two of them have held at once. `WaterfallAudited` and
`CountersMatchEvents` hold even when two sweeps settle one position twice; the
double settlement itself is the finding `claim_one_draw`.

## 6. Where code and documentation disagree

- `claim_open_count` (`engine.rs:274`): closing in a market without a mark
  fails after the position has left the store; `open_positions` keeps counting
  it.
- `claim_removed` (`engine.rs:330`): an accrual writes back a position that was
  closed or liquidated since it was read.
- `claim_one_draw` (`engine.rs:380`): two sweeps liquidate one position twice
  and the fund pays twice.

Met on the way and in the model, without a run of its own: a solvent liquidation
credits the fee only (`engine.rs:393`), where `engine.rs:344-346` says that the
fee "and any solvent surplus" go to the fund; the rest of the collateral goes
nowhere (`Sweep` of `AtomicEngine` says the same). `liquidation_price` returns
nothing also for a long whose collateral exceeds its entry value, where
`margin.rs:50-51` names only too high a maintenance rate. A half-open breaker
admits every caller (`breaker.rs:90`), where `breaker.rs:16` speaks of a single
trial; nothing uses the breaker yet. A deeply bankrupt position reports the
largest possible margin ratio (`margin.rs:39`); its tier is right all the same,
which is what `VerdictOfSomeMark` shows.

The same cause as in `claim_removed` and `claim_one_draw`, that no lock spans a
command, also lets two opens of one key both succeed, an accrual overwrite
another's settlement, two market updates be published in the wrong order, and a
sweep take out a healthy position opened after its scan. `UncontestedReplay`,
`SweepSparesUncontested` and `MarkInForceAnnounced` bound what these do: all but the
market updates concern positions that two commands held at the same time. Funding over an
unmatched book does not net to zero, the order of a sweep is that of a hash set,
and a socialised loss goes unannounced when a port fails later in the sweep.
Without the term `waited`, `GrantsWithinRate` is false: the limiter refills
the same time twice after a late caller.

## 7. What is not modelled, and why

- *GraphQL inputs and views.* Names and their lengths, leverage, `to_micros` and
  the conversions of `dto.rs` are stateless and checked by unit tests; what they
  let through is a well-typed command, which is where the models begin. Any
  posted margin is an amount here, as `to_micros` may yield.
- *Rows of the Postgres store.* `row_to_position` and its inverse are textual
  conversions; a row that does not parse is one more `StoreFails`.
- *f64.* The rounding of `liquidation_price` and of the limiter's tokens: TLA+ has
  no floating point, and both would have to be bit-exact to say anything.
- *The oracle's hash*: any noise of its range is allowed instead. Arguments near
  the end of i64, for which the oracle's sums wrap, are left out.
- *Wiring and I/O*: command line, HTTP routes, telemetry, metrics counters, the
  advisor's prompts and wording, the simulator's printed report.
- *Counters that wrap*: sequence numbers, statistics and failure counts at 2^32
  and 2^64 are natural numbers here.
- `is_bankrupt`, which nothing calls. `liquidation_price` is called by tests and a
  benchmark only; it is modelled because it is part of the library's interface.

The `riskAdvice` query is modelled with the heuristic advisor in its last step;
`Narrator` models the networked one by itself, since it shares no state with
the engine. `VerdictOfSomeMark` says nothing of a query whose position was
settled, closed or replaced while it ran: such an advice mixes what it read.
`DurableNode` has one client. A statement that the database still runs after its
connection broke is taken to end before the next request.
