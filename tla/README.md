# DuBu: a verification development

TLA+ models of DuBu, a market maker on one sequencer chain: an off-chain engine
(`engine/`, Rust) that quotes a proprietary pool and signs RFQ orders, the
contracts (`contracts/`, Solidity) those quotes and orders are settled by, and
the aggregator (`aggregator/`, TypeScript) that routes over them. The models are
checked by TLC on small instances and, where it matters most, proved for every
value of their constants with TLAPS.

Paths below are relative to the repository; `updater/` stands for
`engine/crates/dubu-updater/src/` and `core/` for `engine/crates/dubu-core/src/`.

## 1. The system

### Components, their state and their operations

| Component | State it keeps | Operations that change it | Modelled |
|---|---|---|---|
| Transmit path (`updater/tx.rs`) | nonce book (`Nonces`: `next`, `free`), the tracked transactions per pair, the landed nonce, the escalation of a nonce's fee, the stand-down after -32003 | seed and re-read the sequence, reserve a phase's nonces, sign, broadcast concurrently, fold the outcomes back, observe a landed nonce, poll receipts, sweep timeouts | `TxSender` |
| PropPool (`contracts/src/PropPool.sol`) | per pair the quote word, capacity word and used word; reserves; the oracle settings; the pauses | owner, manager, updater, guardian calls; deposit, withdraw, sync; four swaps | `PropPool`, `CapacityBudget` |
| PropCurve (`contracts/src/libraries/PropCurve.sol`) and its mirror (`core/curve.rs`) | none | forward prices, two inverse searches, ladder validation | `PropCurve`, `CurveSearch` |
| PmmSettle (`contracts/src/PmmSettle.sol`) | filled amounts by order, cancelled nonces, the reentrancy flag | `fillOrder`, `cancelNonce`, `cancelNonceSlot` | `PmmSettle` |
| RFQ maker (`updater/quoting.rs`, `serve.rs`, `maker.rs`) | the published markets, the chain clock, the book of reservations, the order counter | publish, retire, `POST /quote` | `RfqMaker` (over `PmmSettle`) |
| Killswitches and process lifecycle (`updater/risk.rs`, `main.rs`) | a latch per correlation group, its file, the last mark, the window of NAVs, the gross loss | mark, trip, persist, stay down, probe and resume, withdraw on exit | `KillSwitch`, `RiskMarks`, `Lifecycle` |
| Chain reader and health (`updater/chain/`) | the shared view, when a read last landed, when the block number last grew | read, publish, judge the chain down | `Lifecycle` |
| RPC pool (`updater/chain/mod.rs`) | per endpoint a token bucket and a penalty window | take a token, send, fail over, back off | `RpcPool` |
| Quote policy and loop (`updater/policy.rs`, `main.rs`) | what is in flight per pair, what the view shows | gates, triggers, arbitration of row and epoch, re-assertion of withdrawals | `QuoteLoop` |
| Jump detection (`updater/jump.rs`) | per pair the anchor, the state, the cool-off | observe, trip, contagion, resume | `QuoteLoop` |
| Row building (`updater/ladder.rs`, `spread.rs`, `skew.rs`, `core/inverse.rs`, `core/curve.rs`) | none | plan an epoch, widen, skew, solve, validate | `RowBuild` |
| Feeds and reference (`updater/feed/`, `fair_value.rs`, `skew.rs`) | per venue the link and the stored tick; per pair the estimator's anchor | connect, read, time out, record, combine, observe | `Feeds`, `Reference` |
| Hedge (`updater/hedge/`, `run_hedge` in `main.rs`) | per pair the believed position at the venue, its cool-off, the paper book; the positions the skew reads | a pass: poll, decide, commit, send, correct by what was filled or back out; publish | `Hedge` |
| Fill scan and markout (`updater/chain/heads.rs`, `chain/swaps.rs`, `markout.rs`) | the newest head, the cursor, the ring of log identities, the pending fills | hear a head, read ranges of logs and the blocks past the head, absorb, settle | `FillWatch` |
| Notifications (`updater/notify.rs`) | the bounded queue, the batch, the ledger of failures per class, quiet times | send, flush, batch, deliver, be silenced | `Notify` |
| Router and adapters (`contracts/src/Router.sol`, `adapters/`) | transient balances during a route | run a route of batches of hops of steps | `Router` |
| Aggregator (`aggregator/src`) | none between requests | split over two pools, compare with an RFQ, build the plan | `Router` |
| Configuration and start (`updater/config.rs`, `run` in `main.rs`) | how far a start has come, the tasks that died, the pairs the hedge serves | load and check, verify against the chain, load the key and the latches, start the tasks, wait, start the hedge | `Startup` |
| Web page, scripts, mocks | | | no (section 7) |

### How they interact

- The **quote loop** is one task. Each cycle takes the reader's latest chain view
  and the feeds' ticks, scans for jumps, decides rows and epochs per pair, and hands
  batches of intents to the **sender**; it publishes each market to the **RFQ maker**
  (shared, under one mutex), polls the sender's pending transactions and marks every
  group's **killswitch**.
- The **sender** assigns nonces synchronously, then broadcasts concurrently through
  the **RPC pool**; the sequencer runs an account's transactions in nonce order.
- Rows land in **PropPool**'s quote word and epochs in its capacity word; takers'
  swaps read both and write the used word and the reserves, in between calling
  tokens that may call back.
- **RFQ** requests arrive at any time. The order signed is not on the chain: a taker
  brings it to **PmmSettle** when it pleases until it expires, drawing on the
  maker's account and not on the pool's.
- A killswitch that latches, a chain that stops and a signal end the process after a
  last withdrawal of every pair; the latch is a file the next process reads.
- Beside the loop run the **hedge leg**, which reads the chain view and the feeds and publishes its positions to
  the skew, the **fill scan** at the end of each cycle, whose markout feeds the flow score, and the **notifier**, which
  everything hands events to and nothing waits for.
- The **aggregator** prices both pools, asks makers, and hands the caller a plan
  for the **Router**, which funds one adapter call after another.

### What is hard

Concurrency: broadcasts of one phase that are answered in any order; takers and
token callbacks between any two steps of the engine, of a swap or of a route. Failure:
transactions refused, lost, answered late or swallowed by an endpoint; latches that
cannot be written; a process that restarts while the sequencer still holds what it
sent. Ordering: nonces against intents, rows against epochs, an old view after a
newer one, a market published behind its own withdrawal. Time: timeouts racing late
landings and tickers, decaying capacity, expiring orders judged by two clocks, two
liveness signals. Rounding: two searches over integer curves, the widest ladder that
pays a target, slices of an order, shares of a route. `PROJECT.json` lists these as
hazards, each at its line with the properties that would catch it.

### What makes each component correct

- **Transmit path**: one signature per nonce while the book is trustworthy; every nonce
  that was handed out executes in the end.
- **PropPool**: the words written by different roles stay consistent; the used
  word counts for exactly one generation of capacity; no fill breaches the floor; the
  books never claim tokens the pool does not hold; trading against one ladder never
  costs the pool money by that ladder's own prices.
- **PropCurve**: both searches return what they are defined to and stop.
- **PmmSettle**: a fill is both legs or nothing; slices never beat the signed price;
  decay never passes its cap; a cancelled nonce is dead for good.
- **RFQ maker**: the same inventory is never promised twice while an order can be filled.
- **Killswitches**: only fills consume the budget; what is spent stays spent and latched,
  over every crash and failed write; nothing that quotes is sent for a latched group, and it goes dark for good.
- **Lifecycle**: a chain that stops is noticed by either signal; an outage that ends heals
  without a hand. A process that ends in order does not always leave its pools dark (section 6).
- **Quote loop**: a withdrawal takes effect although it is refused or overtaken, no order is
  signed from it to the resume, and it is never undone behind the ladder that caused it; the
  one a process ends with has the last word where it was placed last; a pool that may quote
  does not stay dark.
- **Row building**: the widest ladder within its bounds, that never trades better than its
  target and never asks for more quote than the pool has.
- **Feeds**: only the newest print of the current connection is priced from; a minority
  of venues cannot carry the reference away; no return spans an outage.
- **Hedge**: what the leg believes is what the exchange holds, and one holding is hedged once.
- **Fill scan**: a log is handed over at most once, and none is passed by unread. What a failed poll read is
  lost (section 6).
- **Notifications**: an event is told, or counted, or still waiting; none disappears.
- **Router**: nothing of a call stays behind, and a quote is paid.
- **Configuration**: what is accepted breaks no assumption of the parts it is handed to.

## 2. Modules

| Module | What it is |
|---|---|
| `TxSender` | the sender, a sequencer and a node's nonce answers; `MCTxSender`; `TxSenderProofs` |
| `NatSets` | lemmas on bounded sets of naturals, on quotients and products, on finite sums and on the curve's two directions (`BidGrows`, `AskGrows`, `AmountInBidIs`, `AmountOutAskIs`), shared by the proofs |
| `PropCurve` | the curve's formulas as operators; proved about in `NatSets` and `PropPoolProofs` |
| `CurveSearch` | the two inverse searches of `core/curve.rs` step by step, against `PropCurve`'s definitions; `PricingProofs` |
| `RowBuild` | extends `CurveSearch`: from a reference to a row; `MCRowBuild`; `PricingProofs` |
| `CapacityBudget` | the abstract specification of the capacity and used words |
| `PropPool` | the pool, which implements `CapacityBudget`; `MCPropPool`; `PropPoolProofs` |
| `PmmSettle` | the settlement contract; `MCSettlement`; `SettlementProofs` |
| `RfqMaker` | extends `PmmSettle`: the endpoint, its book and the cycle's publications; `MCSettlement`; `SettlementProofs` |
| `KillSwitch` | one latch: each operator a method of `risk.rs`, giving the record it leaves |
| `RiskMarks` | extends `KillSwitch`: what a mark measures; `MCBeside`; `BesideProofs` |
| `Hedge` | extends `RiskMarks`: the hedge leg over the pool's holdings; `MCBeside`; `BesideProofs` |
| `FillWatch` | heads, the Swap scan and the markout's queue; `MCBeside`; `BesideProofs` |
| `Notify` | the notifier's queue, batch and ledger; `MCBeside`; `BesideProofs` |
| `Lifecycle` | extends `KillSwitch`: processes, latch files, reader, health; `MCLifecycle`; `LifecycleProofs` |
| `QuoteLoop` | one pair's cycle: detector, policy, arbitration, withdrawals, RFQ publication; `MCQuoteLoop`; `QuoteLoopProofs` |
| `RpcPool` | endpoints, limiters and failover; `MCRpcPool` |
| `Reference` | the combination of venues as operators |
| `Feeds` | extends `Reference`: one socket in detail and the cycle that reads it; `MCStartup`; `PricingProofs` |
| `Router` | extends `PropCurve`: Router, decoder, adapters and the aggregator's plans; `MCSettlement`; `SettlementProofs` |
| `Startup` | one start, from the command line to the cycles of the quote loop; `MCStartup`; proved in `LifecycleProofs` |
| `MCPropPool`, `MCBeside`, `MCStartup`, `MCSettlement` | lanes side by side, of which a run takes one at its start: the pool, the rows of `MCRowBuild` and the sender of `MCTxSender`; the tasks beside the quote loop; a start and the feeds; the Router, PmmSettle and the maker's endpoint over it |

### TxSender and tx.rs

The process is one task, so the model has a program counter `engine`: `idle`,
`reserving` (the synchronous pass of `reserve_batch`, one `Reserve` per loop turn),
`flying` (the broadcasts), `folding` (`settle_broadcast`, one outcome at a time in
reservation order) and `polling` (`poll_pending`: `Receipt` per lookup, then
`Sweep`). The sequencer moves only where the code awaits (`Awaiting`).
`next` and `free` are `Nonces`; `pending` is the per-pair queues flattened into
one set whose `seat` is the position in the queue; `escalate` is the map of the
same name. `reread` is a history variable: the sequence was re-read while
transactions were outstanding (`resync_nonce`, a sweep that found landed
nonces), after which the code itself no longer claims one transaction per nonce.
The world is `chainNonce`, `executed` and `held`, and the external actions: a transaction is
accepted, replaces one it outbids by a tenth, is refused (the error
classes of `tx.rs`, one outcome each), is never sent, or is lost, at most
`MaxFaults` times. `Seed` answers with any pending count from the confirmed
one to the end of the held run: the node's answer truncates. `Crash` forgets everything in memory.

Abstracted: calldata, gas and hashes (a hash is what the transaction says), the
wording of errors, time (`age` in ticks up to the timeout).

### PropPool and PropPool.sol

The three words are records (`ladder` with `age`, `cap`, `used`); `Used` compares
generations as `_load` does. A swap is two steps: price and move the tokens
(`SwapExactIn`, `SwapExactOut`, `SwapPushed` push a frame on `call`), then
`Settle`, which writes the used word and the reserves; in between callbacks may
donate, and the lock (`Unlocked`) refuses the locked functions. Role functions
are accounts' own transactions (`OwnTransaction`). `kept` is a receiver that is
the pool itself. `net` is history: what a ladder's fills brought in. Inverse
conversions are used by their definition and `CurveSearch` shows the code's
searches return it.

Abstracted: packing (the words' widths appear as the bounds `MaxPrice`,
`GenModulus`), the caller's limit amount and deadline (they only add refusals), the oracle's
answer (a reference price or `Unreadable`), time beyond `MaxAge`. The transfers
of the four roles are not modelled: they change who calls and nothing else.

### PmmSettle and PmmSettle.sol

A fill is `FillOrder` (checks, `_consume`, `_price`), `TakerLeg`, `MakerLeg`; `leg`
other than `none` is the reentrancy flag. Between the legs, and before the
first, makers cancel and tokens move, which is what a callback can do; `Undo` is a
leg or a callback that reverts and restores what the transaction found. Orders
stand for their hashes, a signature is membership in `signed`; the malleability
and length checks of the signature are not modelled. `received` and `delivered`
are history.

### RfqMaker and quoting.rs, serve.rs, maker.rs

`view` is the reader's last `maker_deliverable`; `Publish` and `Retire` are what the
cycle and `withdraw_pair` do to a market; `AnswerQuote` is one accepted `POST /quote`
(sweep, price, check the room, reserve, sign) and `Refuse` one that is refused after
the sweep. `Clocks` is `chain_now`: the head's timestamp and what has
passed since, at most `ClockLag` behind the chain and never ahead of it. Without
a head the code falls back to the host's clock, which is not modelled. The book
and the counter die with the process (`Restart`); `life` is history, the orders of
this life. The maker's account is apart from the pool's
(`rfq_shares_pool_inventory` off), so no epoch is subtracted. The orders it signs
go straight into `PmmSettle`'s `signed`, and takers fill them there.

### KillSwitch, RiskMarks and risk.rs

`KillSwitch` is the part of a switch that outlives the process; `Halted`, `Resumed`,
`Accumulated`, `Verdict` and `Observed` are the methods of the same names. Whether a
record also reaches the disk is said by `Lifecycle`.

`RiskMarks` adds what a mark measures: the group's even share of the quote balance and
its base balances at the cycle's prices, from a view that is late (`Read`), with prices
that move and disappear (`Move`), fills at any price (`Fill`) and restarts that lose the
previous mark and the window. NAV, revaluation and trade result are computed in integers, rounding
as `value` does. `live` and `still` are history: which pairs were filled, whether any price
moved.

### Lifecycle and main.rs, chain/mod.rs, chain/view.rs

`phase` is where the process is: `loaded` (after `load_kills`), `probing`
(`chain_is_answering`), `resuming` (one latch at a time), `running`, `marking` (the end
of `run_cycle`, one group at a time), `halting` (the chain-down halt, one group at a
time), `withdrawing` (`withdraw_quotes`, one pair at a time), `down`. `mem` and `file` are
the latches in memory and on disk; every write is `Written` or `Unwritten`. `Poll` is one
turn of the reader, `readAge` and `blockAge` the two signals of `ChainHealth`. `life[p]`
is how long the pool still fills the pair if nobody sends: its `maxStaleSecs`, since a
dead process withdraws nothing. A send is two steps. `Broadcasts` leaves what it says on the
way: `arming[p]` counts the batches of `p` that quote (a row, an epoch or both), `closing` holds the pairs with a
withdrawal under way. `Land` executes any of them, in any order, or drops it, during any later step, also of a later
process: a cycle marks and latches, and a process ends, while its own rows are still on the way. The order of nonces
is left out here (any order is allowed); `QuoteLoop` and `TxSender` have it. `Cycle` sends for any of the pairs in `Quotable`, those
with a price (`Fed`) whose group is not latched in memory. `answers` says whether the read pool, the write pool
and the sequencer work; `Fail` and `Recover` change it. The operator removes a file while no
process runs (`Clear`). What a mark measures is any result and any drawdown. Notifications,
log lines and the RFQ server are left out.

### Hedge and hedge/, main.rs

The leg is a task: `Pass` polls the paper books and lets every band decide on one view (`Exposure`,
`Past`, `Crosses`, `OrderFor`), `Send`, `Write` and `Skip` work the orders off one at a time, `Publish` ends the pass. A live
order is committed to `pos` when it leaves (`Send`); `Execute` is the exchange, which fills all, a part in
whole lots or nothing; `Answered` replaces the commitment by what was filled and arms the cool-off, `Failed` takes it
back off: after a rejection rightly, after an error on the way whether or not the order was executed.
`misled` is history: the pairs where it was, and those a process before this one left
a position at (`HedgeStart` begins with an empty book). `RiskMarks` supplies the holdings, the view, the fills and the restarts.

Abstracted: prices, fees and the interpolated cost of a paper crossing (nothing decides by them), the clock's offset
to the exchange, time beyond the cool-off.

### FillWatch and chain/heads.rs, chain/swaps.rs, markout.rs

`heard` is the subscription's newest head, `shown` the reader's. `ScanFills` is a whole `scan_fills`: nothing to
read (`Idle`), a chunk that fails (`Interrupted`, which keeps what the chunks before it brought), or all
chunks and the blocks past the head (`ReadAll`), either followed by `settle`. `Answers` is what a node may return for a range: it may
leave out any log of its last `Late` blocks. `Reorg` moves a swap on, maybe to another place in its block. `Fails` is the end of a poll
after `absorb`: what was fresh is on no way to the markout any more, and is kept in `lost`. `finished`, `lost` and `holes`
are history. Abstracted: amounts, reference prices and scores; a block's time is its number.

### Notify and notify.rs

`Give` is `Notifier::send`, `Take` and `Absorb` the task receiving, `Expire`, `Flushed` and `LastClose` the three ways a
batch closes; `Deliver` posts it unless there is nothing to say or a 429's silence runs, `Posted` is the answer. `ledger`
is the failures held back per class during its quiet time (`hushed`). `given`, `told` are history. A message is the count of events it is made of.

### QuoteLoop and main.rs, policy.rs, jump.rs

One pair. Prices are relative: a price is how many steps the reference has moved away since it was
planned, up to `JumpSteps`, which counts as a jump and anything beyond; 0 is
the reference itself. So `Move` ages every price at once, and the market never comes back
to an old price: the case that would hide a late order. `queue` is the account's nonces from
the next to execute on, holes included: `Placed` is `reserve` (lowest hole first), `Released`
`release`; `done` is what executed without the sender knowing. `Scan` is the loop of `jump_scan` over the pairs at the top of the cycle; a trip, its own or another pair's, sets
`owed`. `WithdrawPair` is the pair's turn in the loop over the withdrawals owed, after those of other pairs were
awaited: the RFQ market is retired and a zero epoch sent. `Evaluate` is the rest: re-assertion,
publication, decisions, arbitration and the send. `End` is a process that leaves the loop: `Parting` is its withdrawal,
sent once, and `ended` says how that went: refused, placed below an epoch of its own (`HoleBelowAnEpoch`), or last. What is in `queue` then
executes without it. `view` is what the reader last published of
the pool's row and depth. `halted` latches the pair's group after any cycle
while another group keeps the loop running. Epochs carry a history field `behind`: the ladder
they count on.

Abstracted: the detector's threshold and the settled range (any outcome), heartbeats (any time),
capacities (`zero`, `low`, `full`), the gates of the whole book (chain, view age, pause), which
stay open; a send is accepted whole or has one intent refused.

### CurveSearch, RowBuild and core/curve.rs, ladder.rs, spread.rs, skew.rs, core/inverse.rs

`CurveSearch` is `amount_in_bid` and `amount_out_ask` of `core/curve.rs`, loop turn by loop turn: the guards (`Revert`, `WholeRoom`), the first bracket (`SeedBid`, `SeedAsk`), three
rounds of refinement and the bisection. The pool's searches in `PropCurve.sol` are the same statements. `Search` in `RowBuild` is one of its steps; the
planner searches a flat ladder at the reference, so `Plan` is enabled on those, with a reference in `1 .. PriceMax`, since `build` refuses others. `Plan` keeps both the epoch it sizes and, as `InForce`, the capacities the row is
solved for, which are the chain's where the chain holds an epoch. Then `Shape`
(half-spread, floor cap, skew, skewed mid, targets), `Solve` (`solve_bid`, `solve_ask`), `Build` (lift a
crossing ask, encode, the checks of `build`, among them that either side's capture trades for something: `BidFills`, `AskFills`). A basis point is `1/Bps` of a price and a fine unit `1/Fine`
of it, so that the rounding between the two units is as coarse as the prices are.

Abstracted: the domain errors, packing, and the width of the integers: a seed too large for its type is cut to the bracket.

### Feeds, Reference and feed/, fair_value.rs

One venue is modelled socket and all; `Others` hand the cycle any price or none. `Connect` clears ids and prices;
`Frame` is any frame (it restarts the read timer); `Book` and `Snapshot` are `record` and
`record_reset`. `Keepalive` is the ticker arm of the select, on every venue: its `Period` is the keepalive's or, where there is none, `Hourly`; the select is biased
and looks at the ticker before the read. `ReadTimesOut` is the read timeout, `PeerGoes` a peer that vanished without closing. `Cycle` is the cross-section, `Combined`, and the estimator's `observe` or `reset`.
`Reference` states the combination on functions from venues to prices; deviations are parts of
the median. `newest`, `quiet`, `gap`, `section` and `folded` are history.

### RpcPool and chain/mod.rs

A call takes a token at the endpoint it is at (`Refused` or `Send`), waits, is answered; an endpoint's fault moves it on
(`After`). Calls run side by side on shared limiters. `fate` is history: the endpoints that may have taken the request. Every pool is
pinned (`main.rs` 557, 565, 643), so the rotating start is left out.

### Router and Router.sol, adapters/, aggregator/

`Enter` pulls the input and takes the balances before it; `Step` is one turn of `_runHop`'s loop with its adapter, and `Advance` the
loops around it; `Finish` measures, refunds and pays; `Revert` restores what the call found. `Give` is a
token's callback between any two steps, or a stray transfer between calls. `PoolLeg` is `PropPoolAdapter` or
`UniV2Adapter` with its pool, `PmmLeg` is `PmmAdapter` with the order. `QuoteAmms` and `QuoteRfq` are the aggregator's answer, `Submit` the
caller sending it, with other calls possibly in between. The proprietary venue and the pair are asked for a direction by token, as the
aggregator asks them; a step says it by `reverse`, which for the pair means token0 or token1 (`TokenIn`): the two agree where the market's base is token0 (section 6).

Abstracted: weights are tenths; Permit2's signatures, deadlines and tokens that charge for a transfer are left out; the
proprietary pool is fresh, unpaused and without decay (all that only refuses).

### Startup and config.rs, main.rs

A `world` is all that a start finds: arguments, variables in three layers (`load_dotenv`), the file, keys, latch files and what is deployed. `ConfigOf` is the file over its defaults; `Parses` what serde and
`expand_env` refuse; `ConfigOk` is `Config::validate`, one operator for each of its functions; `Agrees` is `verify_against_chain`. `stage` is how far `run` has come: each action is one part of it and ends in the next
stage, in `refused` (an error is returned), `halted` (every group latched) or `panicked`. What the parts assert of their settings is stated apart from the checks, part by part: `LatchesExpect` (`KillSwitch::load`), `WiringExpects` (`spawn_feeds`, the
venues' clients, `VenueFeeds`, `Volatility`, `build_jump_book`), `VenueExpects` (`ws::run`, `pyth::run`, in tasks of their own, collected in `dead`) and `RowExpects` (`run_cycle`), over `HalfSpread`, which is `spread::compute`.

Abstracted: a float is its thousandths, an amount its digits and its decimals, a URL its scheme and the variables it names; a symbol, a name and an address are equal or not, or one of the few that a check singles out. An assertion about a field that is a
constant of the code is left out. `Lifecycle` has the latches over many starts in detail, here they are what `load_kills` finds.

## 3. Runs

Each run is `<name>.cfg` of its MC module.

| Run | Asks | Instance |
|---|---|---|
| `sender_liveness` | `SignedOnce`, `EveryNonceLands` | one pair with rows, epochs and withdrawals, account ceiling 1, two nonces, one restart, nothing lost |
| `pool` | `RoundTripNeverPays`, `QuotedSizeReachable`, `Backed`, `BudgetKept`, `FloorHeld`; `ReturnsExpected`, `SolverTight`, `CaptureAtTarget`, `SkewLeavesTheFloor`, `EpochIsPayable`; `SignedOnce` | three lanes: one pair, every role, two ladders, malformed capacities, decay, two refreshes, callbacks; every ladder over five prices, two scales, capacity to 9, target to 40, spreads, skews up and down, floors, widths, with and without an epoch on the chain; two pairs with rows and withdrawals, two nonces, one loss |
| `beside` | `IdleBookIsFree`; `HedgeBookTrue`, `HedgeOnlyOffsets`; `EachSwapOnce`; `Accounted` | four lanes: one group of two pairs, two prices and no price, two fills, one restart; the same holdings hedged, one pair at an exchange and one on paper; three blocks, two swaps, a reorg, failed reads, logs two blocks late; four events, one flush |
| `lifecycle` | `SpentBudgetStaysDown`, `LatchedIsNotQuoted`, `BudgetNeverRefunded`, `LatchedGoesDark`, `StallIsNoticed`, `OutageHeals` | two groups of a pair, two troubles of any kind, any number of processes, a batch and a withdrawal of a pair on their way |
| `quote_loop` | `RfqSilentWhileWithdrawn`, `EndsDark`, `EpochBehindItsLadder`, `WithdrawnGoesDark`, `DarkPoolComesBack` | a jump is two steps, two transactions in flight, one refused, one end |
| `settlement` | `RouterKeepsNothing`, `QuoteIsPaid`; `PaidAsFilled`, `PriceKept`; `LiveIsReserved`, `BaseWithinView` | three lanes: three written plans and the aggregator's, three tokens, four venues, two calls, one callback; two orders on one nonce, one decaying, one with a floor; two orders over quotes, two fair values, a clock one second late, one restart |
| `startup` | `OnlyTheWholePricePanics`; `QuoteIsCurrent`, `FewCannotMoveIt`, `NoReturnAcrossGap`, `SilenceEnds` | two lanes: the tests' own configuration with every edit, a larger one with every two; a venue beside three others, ids to 2, a keepalive shorter than the read timeout and the hourly ticker, longer than it |
| `rpc_submit_found` | `NeverSentNeverLeft`: violated | two broadcasts, two endpoints, bursts of one; section 6 |
| `route_found` | `HopCarriesTheOrder`: violated | `settlement` over a pair whose token0 is the market's quote; section 6 |
| `startup_found` | `AcceptedNeverPanics`: violated | the tests' configuration with a widening of 9969 bp or of 9999; section 6 |
| `fills_found` | `FailedPollIsReadAgain`: violated | the fills' lane of `beside`; section 6 |
| `feeds_found` | `QuietSocketDropped`: violated | the feed's lane of `startup` with a keepalive shorter than the read timeout; section 6 |

### Why the bounds are enough

- *Nonces, pairs.* A hole needs two nonces (the lower refused, the upper in flight), and a phase
  of two reserves across it; the pairs matter to the queues the sweep drops and to the walk order of
  retries. `MaxNonce = 2` with the restart of `sender_liveness` lets the second life meet the first one's
  transactions; the two pairs of `pool`'s lane have one life. Fees take the values base and escalated: what the code distinguishes is whether a price
  outbids, is anchored, or is at its ceiling.
- *Timeout, pause: one tick.* Ages are compared with the timeout only, and the races of a
  timeout with a late landing appear at one tick.
- *Curve and rows.* The prices include ladders flat over several sizes (price under one unit of
  quote), where rounding decides; capacities to 9 give every bracket shape of the
  three refinement rounds. A basis point of a tenth and a fine unit of a fortieth make every rounding of
  the row builder visible at prices under forty; widths from none to three quarters of a price make every bound of the solver the binding one. `OnChain` is no epoch, and one the planner would not post.
- *Pool.* `MaxGen` 2: a used word older by one and by two generations. `MaxAge` is one past
  the staleness limit and reaches the end of the decay window. `MaxBalance` is enough for a fill in
  each direction, a donation and a withdrawal. The 2^32 wrap of the generation lies outside. Two pairs on one
  reserve are the theorem `PoolBacked`'s, not the run's.
- *PmmSettle.* Amounts under six make the rounding of every slice visible; four
  seconds cover before, during and past decay and expiry.
- *RFQ.* Two orders suffice to promise the same inventory twice; three seconds with a time to live
  of two let one order expire while the other is signed. `MaxSigned` bounds orders over all lives. One pair: reservations
  are per pair, and with two on one token the property is false (section 6).
- *Lanes.* The four tasks of `beside` read nothing another one of them writes, so their interleavings add states and no behaviour: each is run while the others stand still. So are the lanes of `pool` (the words only change by what executes, a row is computed from what was read, the sender does not look inside its intents), of `settlement` (the Router and PmmSettle have no caller in common but the taker; the maker's endpoint has a market of its own) and of `startup` (what a start checks, and what a feed does long after). `Hedge` reads the holdings and
  the view of `RiskMarks` and takes its steps with it, marks and prices standing still.
- *RiskMarks.* Two pairs give the partial group; two fills let one be marked and one be missed; one restart between any two steps.
- *Hedge.* A lot of two leaves remainders and orders below it; an order of at most three fills in no, one or all lots; an execution is hidden once per pair. A carry of one gives a band inside the holdings.
- *FillWatch.* An overlap of two with logs as late as it, a range of three and a look-back of three: every chunk can fail, blocks are read two and three times, and a jump gives blocks up. Not reached: a poll that runs out of chunks, and a ring that evicts (`SeenCap` holds every log there can be, `MaxSwaps` and one more by the reorg): `EverySwapAccounted` covers a ring that does, `HandedAtMostOnce` does not. One reorg.
- *Notify.* Every bucket, the queue and the ledger's classes hold one or two, so each overflows within four events.
- *Lifecycle.* A half-written halt needs two groups; two troubles let a crash follow a failed write, or an outage follow a crash. `HaltAfter` of
  two ticks leaves a tick between a signal that stops and its limit; `StaleAfter` is one, since nothing asks how long a pool is lit, only whether it is for ever. `FlightMax` of one lets a batch and a withdrawal of a
  pair pass each other and outlive their process; a second batch could only repeat the first. `Fed` is the pair of one group; the other group is there for its latch, and its pair is never quoted. The theorems have any of the three. A loss of one and a budget of two let the total cross a restart. The loss is bounded since a latched switch stops counting.
- *QuoteLoop.* Drift and jump are the two distances that matter; the queue is bounded by the gate on two in flight and
  by the withdrawals, which are in flight once each. The one refusal falls on any intent of any batch, the last withdrawal included. The run ends once; what a next process finds is any row and depth, which is how it begins.
- *Router.* The plans have a fork, two hops, partial weights, two batches and an order smaller than its share; amounts of seven leave a remainder in every split. Two calls let a plan
  run between a quote and its submission.
- *Feeds.* Prices a third apart are beyond the threshold, 30 and 31 within it; four venues are the least for which two can disagree with two. Ids of 1 and 2 give lower, equal and higher. Ages saturate one past their limits. A keepalive of one is shorter than the read timeout of two, the hourly ticker of three longer: the two sides of `SilenceEnds`' condition, of which the run shows the second and `feeds_found` the first.
- *Startup.* An edit is a value on one side of one bound, and every bound of `validate` has edits on both its sides; two edits at once meet the checks that relate two fields (a delay and its ceiling, a cap and a pair's spread, the watchdog and the halt, a quorum and a
  pair's venues). Volatilities of 0, 5 and 200 bp leave the spread below the cap, near it and at it. Deadlines of one look each.

`CHECK_DEADLOCK FALSE` appears where the system may stop: `pool`, one of whose lanes builds or drops a row, `settlement`, whose calls are bounded, `startup`, which ends in a refusal or a panic, `beside`, whose events are
bounded, and `quote_loop`, whose process ends.

### Fairness

- `sender_liveness` (`LiveSpec`). The loop seeds, reserves and folds as its own control flow (weak fairness); each cycle it observes
  the landed nonce, offers a batch and polls whenever it may, but each of these is
  disabled while another runs, so they are strongly fair. `Broadcast` is strongly fair:
  signing does not fail for ever. `Delivering(n)` is strongly fair for every nonce: neither the local limiter nor
  a full pool refuses one nonce every time, the assumption behind the
  code's retries. `Execute` is strongly fair: the sequencer runs what is runnable.
  Nothing is assumed of losses, of restarts (at most one), nor of `WithdrawPair`, which takes no
  part. The run has no losses: with them the property is false (section 6).
- `lifecycle`. Weak fairness of the process's own steps, the reader, time, of what is on its way (it lands or is dropped while the chain works), and of `Start`. The last is an assumption on the deployment:
  `engine/deploy.sh` installs the engine to be restarted after a failure (line 17), the repository holds no unit file. No fairness of recovery, of writes or of signals.
- `quote_loop`. Weak fairness of the loop's steps, of execution, of reading, and of the end of a cool-off. Takers and the market may stop or go on for ever; the process need not end.

## 4. Theorems

Each holds for every value of the constants that meets the module's `ASSUME`.

**TxSenderProofs.** `TypeCorrect` by `TInv`, which adds that `pending` is finite, so that
`NextSeat` has a maximum. `NeverSignedTwice` (`SignedOnce`) and `OrderNeverLost` (`ReservedInOrder`, that `reserve_batch`'s
assertion never fires) by `BInv`: `SignedOnce` says nothing of the intents still to be given a nonce, and
order within `air` is preserved only because a phase draws from a book nothing else touches meanwhile: `PhaseOK`
ties `air` to the program counter, `BookOK` keeps every hole under `next` and nothing outstanding in an unseeded book, and
`TakenFromBelow` says that while reserving, what the phase has taken lies below whatever it will take
next, which needs `reserve`'s choice of the lowest hole.

**PropPoolProofs.** `TypeCorrect`, `LadderStaysValid` (`StoredLadderValid`), `PoolBacked` (`Backed`), `TradingNeverLoses`
(`RoundTripNeverPays`), `WordsKeepBudget` (`PropPool` implements `CapacityBudget`, `BudgetKept`) and `FillsLeaveTheFloor` (`FloorHeld`, an action property: from the frame, whose output was checked against
the floor before the transfers, and the lock, which lets nothing lower the reserve until the fill settles). The invariant
is `TInv`: types; `Single`, that the lock keeps at most one frame on `call`; `WordsOK`, that every
stored ladder is valid, that only listed pairs have one, and that no used word is ahead of its
capacity word's generation; and `FrameOK`, that the fill under way still fits its side's capacity next to what the
side took, at no better than the ladder's best price: only donations happen between its two steps. `Backed` is not inductive across a
swap: `MoneyOK` counts the input of a swap in flight as not yet accounted for and its output as still accounted for. `TradingNeverLoses` uses that a bid pays at most
its top price and an ask charges at least its bottom price per unit, each rounded against the taker: `BidWithinHigh` and `AskWithinLow`, at the head of the module, hold for every side and size.
`QuotedIsReachable` (`QuotedSizeReachable`): the least input that buys what was quoted is at most the input that was quoted, so it is taken, and by minimality it buys as much. On the ask side of a decayed epoch
what is taken is one less than the cost of what is left and one more, so the proof needs that costs grow with the size (`AskGrows`), and that the best price of a valid row is not zero (`AskIsNotFree`).

**SettlementProofs.** Of the settlement contract: `TypeCorrect`, `FilledIsPaid` (`PaidAsFilled`), `SplitNeverBeatsPrice` (`PriceKept`), `CapBoundsDecay`
(`DecayBounded`) and `CancelledForGood` (`CancelledStaysDead`), from `SettleInv`: types; `PaidInv`, that
`filled` is `received` plus, until the taker's leg, the fill under way, and that what an undone fill
restores was consistent too; `PriceInv`, the same for the price; `DecayInv`, that the output of the fill under way is at least
the quote less the cap. Of the maker: `LiveOrdersAreReserved` (`LiveIsReserved`), from `BookInv`: besides the property, the sweeping clock is never ahead of the chain's, and every order of this life carries the expiry of its own reservation.
`BaseNotPromisedTwice` (`BaseWithinView`): the base of the live orders is at most what the view shows. The property compares sums over sets of orders with sums over the book; `NatSets` proves the sums' laws
(`SumsExist` to `MeanBetween`) from the definition of `MapThenSumSet`, since the library states none. It is proved under `BaseIsOwn`: no two pairs share their base token, and no pair's base is another's quote. That is every shipped
configuration (one stablecoin quotes all pairs, and `PropPool` gives a pair to an unordered couple of tokens once); what happens without it is the hazard at `quoting.rs:457`.

Of the router: `NothingKept` (`RouterKeepsNothing`), for every plan, written or quoted, from `RouteInv`: types and loop indices (`AtInv`), that every pool has what it accounts for (`Covered`: gifts go nowhere else), that the order keeps its terms, and `FlowInv`. The property speaks of the
end of a call, where a token of the way may have been in the router four ways; `FlowInv` counts them between any two steps: what the router holds beyond what the call found, less what the hop under way has still to spend, is gifts, and while the next hop's token is being gained the count is taken
at the balance before the hop. That counting needs what `PassesAll` says: a hop under full weight, or an order smaller than its share, leaves the token behind. The two ends, the tokens sold and bought, need no such invariant: `Finish` measures and pays what is there.
`QuotesPay` (`QuoteIsPaid`) from `HonouredInv`: `Offer`, that an answer of the aggregator is one hop of one or two legs whose shares are the split's amounts, at most what its venues `Owe` when asked as they were; and `Due`, that a leg that is done has brought what it owed and that the other's venue is still as it was
asked. A leg may be sent more than its share (somebody gave tokens to the pool or the adapter), so the proof needs that a venue asked for more answers no less: `UniGrows` for the constant product with its fee, `PropOutIs` for the curve, of which `BidGrows` and `AskGrows` hold for every row and every used amount.

**LifecycleProofs.** `LifecycleTypeCorrect`, `SpentBudgetIsLatched` (`SpentBudgetStaysDown`), `LossIsKept` (`BudgetNeverRefunded`) and `LatchedStopsQuoting`
(`LatchedIsNotQuoted`), from `LifecycleInv`. None of the three properties is inductive: they speak of the file, and the process writes what it has in memory. `LatchInv` says
that while a process runs its memory is ahead of the disk (`AheadOfDisk`): a group latched on disk is latched in memory unless its resume is the write under way, the
loss in memory is at least the loss on disk, and a spent budget is latched in memory too. A failed write breaks none of it, a crash forgets the memory, a start copies the file.
`LatchedStopsQuoting` speaks of broadcasts: what was on its way when the group latched may still land and extend a pool's life, once each; `LatchedGoesDark` (model-checked) says where that ends. Of one start, `AcceptedHardlyPanics` (`OnlyTheWholePricePanics`), for every file, environment, chain, key and latch: `AcceptedStarts` derives all that the parts assert
from `ConfigOk`, `AcceptedQuotes` that the spread of a cycle lies between the configured one and the whole price unless the cap and the widening come to it. It assumes of a world only what serde gives (`WellTyped`). The checks of ranges are stated with
`Within`, since a literal interval of thousands is beyond the SMT backend.

**QuoteLoopProofs.** `NothingSignedWhileWithdrawn` (`RfqSilentWhileWithdrawn`), inductive by itself once a withdrawal owed is told from one made; `LastWithdrawalHolds` (`EndsDark`); and `ArmedAtItsOwnPrice` (`EpochBehindItsLadder`, an action property) from `LoopInv`. An epoch can only be planned on a ladder that is not the
present price's while the pool is lit in the view; the question is whether the pool can go dark before it lands. `StaleInv` says it cannot: such an epoch was sent to a lit pool, with no withdrawal before it in the nonce order and no hole a later withdrawal could be
placed in (a refused send leaves a hole only of a batch of two, and an epoch on an older ladder travels alone: `EvaluateSends`). That the pool was lit and not only seen so needs `OpenInv`: while the pair is neither withdrawn nor latched, no withdrawal is under way and a dark pool has been seen dark. It holds at a resume by
`CoolInv`, which is what the cool-off buys: withdrawn and cooled, the pool is dark, seen dark, and nothing on its way arms it. It holds for any number of refused sends and does not use the gate on transactions in flight; it rests on the assumption about the cool-off in section 5.
`LastWithdrawalHolds` from `EndInv`: once the process has ended with its withdrawal placed last, no epoch of its own lies behind that withdrawal in the nonce order, and when the withdrawal has executed the pool is dark. `OwedInv` says that a withdrawal is owed only inside a scan of a running process.

**PricingProofs.** Of the feeds: `OnlyTheNewestPrint` (`QuoteIsCurrent`), `ReturnsAreUnbroken` (`NoReturnAcrossGap`), `SilenceIsBounded`
(`SilenceEnds`) and `MinorityCannotMoveIt` (`FewCannotMoveIt`), from `FeedsInv`: `TickInv`, that the stored tick's id is the highest received since the connection or the last reset, although `record` drops ids that do not
increase; `AnchorInv`, that an anchor was never followed by a cycle without a price, and is forgotten by one; `QuietInv`, that where the read timeout is shorter than the ticker's period the silence is at most the read timer, or the ticker has started that timer again and has not run for longer than it; and that a cycle's cross-section has finitely many venues and positive prices. The last theorem is about the combination, not the steps. `KthIs` says that `Kth` exists and has its rank, without induction: it is the least value with enough values up to it, and
the greatest of those below it would be another. `KthBetween`: a majority meets the values up to the k-th, and does not fit under it. So the median lies between the majority's prices; every venue used is within the threshold of the median, the threshold below the slack (`ThresholdCapped`), and a mean lies between two of its values (`MeanBetween`).
It needs a quorum of at least one, which the configuration demands (`config.rs` 1087, 1955) and `ReferenceAssumption` names.

Of the curve's searches: `ReturnsExpectedHolds` (`ReturnsExpected`) from `SearchInv`, whose heart is `Bracket`: a bid's upper end buys the target and nothing under its lower end does, an ask's lower end is paid for and nothing above its upper end is, and the two never cross.
What a refinement has to show is that a price rounded one way never moves an end past the answer: `RoundedAverages` bounds the exact average between the two roundings, at the point where the round reads it, and averages move one way with the size.
Of the row: `SolverTightHolds` (`SolverTight`), `CaptureAtTargetHolds` (`CaptureAtTarget`), `EpochIsPayableHolds` (`EpochIsPayable`) and `SkewLeavesTheFloorHolds` (`SkewLeavesTheFloor`), from `RowInv`: the bracket invariant beneath; that what was planned does not cost the
budget (`PlanOK`); that the skewed mid lies between the two targets and under the fair for a skew down (`ShapeOK`); that the row is the solver's answer to this shape (`InputsOK`). The solver's two bounds are equivalences, for every width: the near price stays within its room exactly under `Boundary` (`ImpactFits`),
the far one exactly under `Endpoint` (`SpanFits`), so the width is the widest, and a row that was solved passes its own checks. The last theorem has a hypothesis, `SpreadsFit`: the half-spread of any spread and widening in use is at most 9999 whole basis points. The
configuration bounds the cap and the widening by that each (`config.rs` 870, 1317), not their sum; every shipped value meets it (30 and 25 against 9999). Above it, in the last basis point before the assertion of finding 2, the floor cap is computed from a spread cut to whole points and the property is false.

**BesideProofs.** `BookIsTheExchanges` (`HedgeBookTrue`) and `HedgesOnce` (`HedgeOnlyOffsets`) from `HedgeInv`. What the exchange
holds is bounded by holdings the leg may have read long before, so the invariant bounds every view (`HoldingsBounded`), says that orders exist inside a pass only and one per pair, due or out (`OnePerPair`), that `pos`
is the exchange's position plus what an order out may still do (`BookTrue`), and that wherever each decided order leaves a position, whether
filled, half filled or not at all, it still offsets a holding there can have been (`OffsetsAll`).
`EveryEventAccounted` (`Accounted`): the count of events is a sum over a queue, a record and the ledger's function, each of which one step disturbs in one place; the proof is the laws of those sums.
`IdleIsFree` (`IdleBookIsFree`) from `MarksInv`: while nobody has traded, the view and every kept mark are today's book (`OneBook`), so the trade result of any pair of marks is zero whatever the prices did; while no
price has moved either, every mark is the same and the window holds nothing higher (`OneMark`).
`EverySwapAccounted` (`NoneMissed`, half of `EachSwapOnce`: every swap was read, not that none was lost) from `ScanInv`: what the ring holds was handled (`ToSet(seen) \subseteq Handled`), and a block the cursor newly passes is in what the poll planned or in what a jump skipped. It holds for a
ring of any size: one that forgets repeats a swap, it loses none. `HandedAtMostOnce` (`EachSwapOnce`) from `OnceInv`: what was handled is in the ring, which holds no log twice, and there are few logs (`MovedOnce`: one swap moves, once). Its hypothesis, `RingHolds`, is that the ring
holds them all, one more than there are swaps: `SEEN_CAPACITY` is 4096 for the logs of a few blocks read again, and the run's ring meets it too. That only the logs still read again have to fit is not shown. The loop of `absorb` is a recursive function, which exists for every length
(`RunExists`) and keeps what each step keeps (`Absorbs`, `AbsorbsOnce`); `Ranked` says that the order of the fills is a permutation of them.

The theorems `LadderStaysValid`, `CapBoundsDecay` and `CancelledForGood` state definitions of their modules that no run checks: the proof replaces the run.

### Only model-checked

- Liveness (`EveryNonceLands`, `LatchedGoesDark`, `StallIsNoticed`, `OutageHeals`, `WithdrawnGoesDark`, `DarkPoolComesBack`) and what it needs of ENABLED, which TLAPS does not reach here.

## 5. Assumptions that carry weight

- One sequencer executes an account's nonces in order, and gives no reorganised block back.
- A write of a latch file replaces all of it or nothing (`rename`).
- The cool-off outlasts the landing of its withdrawal and a read of it (`CoolOff`: 30 seconds against 3 for a view).
- Tokens move what they are asked to move; they may call anybody in between.

## 6. Findings and divergences

1. **A transaction that may be in the sequencer is called never sent** (`rpc_submit_found`). `Rpc::call` answers with the last endpoint's error
   (`updater/chain/mod.rs:546`). When the first endpoint's send ends in a timeout and the fallback's limiter refuses without a socket, the answer is `BudgetExhausted` or
   `BackingOff`, of which `never_sent()` says "True when the request provably never left this process" (`chain/mod.rs:202-206`), and `settle_broadcast` (`tx.rs:1200`)
   gives the nonce back to be signed again. The submit pool has two endpoints when `submit_rpc_url` is set (`main.rs:641-643`).
2. **A configuration that loads can end the process in a cycle** (`startup_found`). `chain.degraded_extra_half_spread_bps` is accepted up to 9999 (`config.rs:870`) and added to the spread after the cap, to a clamp at `BPS_E2_MAX` (`spread.rs:236-239`).
   When it and `spread.half_spread_bps_max` come to 10000 or more, the first cycle of a degraded view whose volatility reaches the cap asserts `half_spread < BPS_E2_MAX` (`main.rs:2562`) of exactly that value, and the process dies with its pools armed, against "A bad config has to fail at
   startup rather than at 3am" (`config.rs:3`). The values shipped (30 and 25) are far from it; `AcceptedHardlyPanics` proves that it is the only such case among the assertions modelled.
3. **A leg on a UniswapV2 pair can name the wrong direction** (`route_found`). `buildRoute` packs `reverse` = not `sellingBase` into it (`route.ts:112`), under "`reverse` is unused by that adapter; the token order is carried by the hop" (`route.ts:110-111`). The Router chooses `sellBase` or `sellQuote` by that bit, and
   `UniV2Adapter` reads token0 or token1 by it (`UniV2Adapter.sol:22-40`). Where the market's quote is token0 of the pair, which among the shipped markets is mTSLA/mUSDC (`config.ts:92`, 99 and 139), the adapter finds no input and reverts the route, although the pair was quoted, by token. Met while proving `QuotesPay`,
   whose hypothesis `PassesAll` excludes such a plan.
4. **A failed poll loses fills** (`fills_found`). `SwapWatch::poll` admits the sealed fills to its ring and moves the cursor chunk by chunk; the read past the head and the timestamps then leave with `?` (`swaps.rs:283-287`). The fills go with the error and the ring never admits them again,
   against "a failed poll leaves the cursor put and the next poll re-reads the range" (`swaps.rs:3-5`), "The cursor only advances over ranges that were read, so a failed call is re-read rather than skipped" (`swaps.rs:243-245`) and the log line of `scan_fills`, "could not read Swap logs; the cursor is unchanged and the next cycle re-reads this range" (`main.rs:1967-1968`).
   `EachSwapOnce` counts such a fill as read, and says no more of it.
5. **A silent socket may never be dropped** (`feeds_found`). Every tick of the keepalive ends the select, and the timeout around the next read begins anew (`ws.rs:301-310`). On OKX and Bybit, whose keepalive is 20 s under a read timeout of 45 s, the timeout never runs out while the keepalive can be written, against "a
   socket that produces no frame at all for `read_timeout_ms` is dead regardless of what TCP believes. Forces a reconnect." (`ws.rs:12-14`). Without a keepalive the hourly ticker does the same (`ws.rs:105-107`): once, where the read timeout is under an hour, so that silence lasts up to twice the timeout (`SilenceEnds`); and for ever
   from an hour on, which `config.rs:1080` accepts. What the venue printed last still goes stale by its age, so the reference does not follow it.

Divergences between comments and code met while modelling, with no run of their own:

- *Sender.* `sweep_timeouts` removes a pair's whole queue but returns only the nonce of its first stuck transaction (`tx.rs:1357`); a second lost one
  is neither tracked nor free, while a test says the gap nonce must come back (`tx.rs:1866`): `sender_liveness` has no losses. A nonce forgotten that way may, once the sequence is re-read, be signed again under the fee the sequencer holds it at. `fees_for` ignores the fee
  asked for when the nonce carries an escalation (`tx.rs:873`); `tx.rs:925-927` says a withdrawal's tip is one flat number. `tx.rs:437` says `free` holds nonces nothing is outstanding at; after
  the sweep a freed nonce may still be held. `tx.rs:408` calls a timed-out transaction abandoned and not replaced; `release_for_retry` replaces it. `tx.rs:566` describes the account ceiling as a bound on everything;
  withdrawals pass it (`tx.rs:940`). `tx.rs:27-31` says a dark pair's capacity executes before its row; the loop pushes the row first (`main.rs:2779`), and a refilled hole can reverse
  any order (`main.rs:2770` says push order is execution order).
- *RFQ.* `Book::expire` keeps `expires_at > now` (`quoting.rs:268`) while PmmSettle fills at `block.timestamp == expiry` (`PmmSettle.sol:186`), so the order's last second is
  not reserved, against `quoting.rs:41-42` and 235: `LiveIsReserved` ends a second earlier. A bid's quote is reserved in base and valued at the next request's fair (`quoting.rs:444`), so after the fair falls the same quote is promised
  twice, against `quoting.rs:676`. Reservations are per pair while pairs share a quote token. `serve.rs:186` and 201 say the cycle calls `reserved` and `expire`; nothing does. A halted group's market stays published with its last
  fair until replaced (`main.rs:2294-2315` against `serve.rs:17-20`).
- *Feeds.* `fair_value.rs:538-540` bounds what losing a venue moves the reference by; the mean over the rest can move further.
  `config.rs` asks for a quorum of two where `updater.toml` sets one.
- *Lifecycle.* A process that ends in order may leave a pool armed, against "withdraw quotes, then exit" (`main.rs:8`): its withdrawals are sent once and nobody waits for them, and `reserve` takes the lowest free nonce (`tx.rs:451-458`), so a withdrawal in a hole an earlier refusal left executes before an epoch
  of the same process at a higher nonce, which arms the pool again until its row is stale. `EndsDark` excludes that case and a refusal by name; `LatchedGoesDark` holds all the same. A row or epoch broadcast in the cycle whose marks latch the group likewise lands after the latch is on disk.
- *Killswitches.* A latch that could not be written is not tried again. When one group's halt reached the disk and another's did not, and the probe of the next start fails, the process quotes the other group and nothing probes again until the next start.
  Errors of a start end the process without withdrawing. Each group's share of the quote is an even split, so a fill of one group shows in another's NAV (`main.rs:2924-2953` against `risk.rs:9-13`): the marks' lane of `beside` has one group.
- *Loop.* On contagion, the second pair's RFQ market is retired only after the first pair's withdrawal was awaited (`main.rs:1411-1426`): a request in between is signed on a pair the detector has withdrawn, against "The RFQ leg goes dark first, and synchronously" (`main.rs:1418`).
  `RfqSilentWhileWithdrawn` begins at the pair's own withdrawal. Capacity-first arbitration can hold a stale row back while epochs are used up as fast as they land.
  An epoch posted at an older fair is not planned again. Every pair's epoch is planned against the whole shared quote balance. `updater/ladder.rs` says the built maximum bid is at or below the fair; under a negative skew it need not be.
  The comment at `core/curve.rs:729-731` says that a lower end above the upper one is reachable in the ask's refinement, which has no guard against it; `ReturnsExpectedHolds` shows that it is not: the lower end is always paid for, and the cut never falls below a size that is.
  `build`'s check of the realised average cannot see an impact rounded the wrong way (`CaptureAtTarget` can), and the lift of the ask is reached only at a half-spread of zero.
- *Hedge.* A market order whose answer is lost to the transport is backed out ("Nothing reached the venue", `main.rs:1928`) although it may have been executed, and the next pass sends it again; `hedge/mod.rs:254-256`
  says a reply that never arrived corrects itself, since both sides are read; the venue's side is not. Positions are empty after a restart, so what the process before held is hedged a second time. `HedgeShared::position` keeps unknown apart from flat (`main.rs:1580-1584`), the cycle reads it with `.unwrap_or(0)` (2598-2604).
  A paper crossing deeper than the polled book is charged nothing for the part beyond it, and commits the quantity before it is cut to lots. A configuration of paper pairs only polls no book: every crossing is refused.
- *Fills.* After a failed chunk
  what was read is handed over with `at_secs` zero, against `swaps.rs:138`, and settles at once. A fill seen before its block has a timestamp is dropped and remembered. A reorg that changes a log's index makes it another log, counted twice, against `swaps.rs:9-11`.
  The last head stays while the socket is down (`main.rs:1951-1953`), and the range past it then grows beyond what `getLogs` answers. `skipped_blocks` counts a hole again in every poll that jumps over it. A scan that starts at the head reads up to an overlap of blocks before it.
- *Notifications.* A batch held by a 429 is not sent when the silence ends but when the next window closes. A flush is given up on a full queue, and returns while a silence holds the batch, so an exit's alert may be lost while `notify.rs` says the message is out. `PnlWindow` counts fills whose alert was dropped.
  The bucket of errors has no cap where the doc gives every bucket one; the failures of classes past the bound are never reported.
- *Configuration.* The comments at `config.rs:612` and 629 describe a watchdog of the polls the reader no longer has; checks are made before the values are rounded to the units the loop uses, so a positive `gamma`, drift or MAD can become zero.
  Two pairs that name one market of a venue share one subscription and the first is never fed (`feed/binance.rs:80-92` asserts it in debug builds only), while a pair "could never reach quorum" is said to be refused (`config.rs:1960`): `WaitForFeed` has it. `EndpointUrl::scheme` is documented as lower-cased (`config.rs:87`) and is not.
  `tx.in_flight_max` may be zero, and then nothing but withdrawals is ever sent (`tx.rs:724`). Nothing checks `[rfq]`'s spreads and sizes, `skew.spread_horizon_secs`, `chain.quote_interval_ms` or `[hedge]`; a hedge amount that does not parse is zero (`main.rs:1660`). Renaming a `jump_group` leaves its latch file behind (`main.rs:299`).
  The heartbeat is compared with `maxStaleSecs` once, at the start. A start that the RFQ leg refuses has already cleared an outage's latches. `main.rs:4` puts the latch before the key; the key is loaded first. Hedging on paper only needs the signed venue's credentials all the same (`main.rs:1622`).
- *Pool and router.* On a rounding plateau the input `getAmountIn` returns for a size nobody was quoted can be refused by exact-in (`PropPool.sol:774` against `PropPool.t.sol:1116`); `QuotedSizeReachable` speaks of sizes that
  were quoted. A hop after the first that is under full weight, or fills an order smaller than its share, leaves the intermediate token in the Router: `RouterKeepsNothing` says when it does not. `route.ts` says a wrong
  fund bit strands the input at the adapter; the adapters revert. The Router's `spent > maxIn` is never reached.

## 7. Not modelled

- *Flow* scores and the markout's references, *Pyth*, the venues' parsers, the estimators' arithmetic: measurement and inputs the models take as arbitrary.
- *Web page, scripts, mocks*: user interface. What a notification says. Of the configuration, the TOML, the syntax of addresses, and the sections that nothing checks.
- *PropPool*: the executable-top views, the roles' transfer functions, the generation's wrap. *Encodings*: packing, EIP-712, ECDSA, ABI, 256-bit arithmetic, `SafeTransfer`'s return data. *serve.rs*: the prop endpoint; a maker that shares the pool's account.
- That a block head wakes the loop earlier than its timer: the models let a cycle begin at any time.
- Most of the source that no definition is mapped to is tests inside the source files, configuration and output.

## 8. Plan

Written in this order, most important behaviour first: the transmit path; the pool and its curve; settlement and the RFQ book over it; killswitches and lifecycle; the quote loop; rows; feeds; the router and the aggregator; the RPC pool; the tasks beside the loop. What would come next:

1. The quote loop over `TxSender` instead of its own account queue, with two pairs and the gates of the whole book.
2. Two pairs on one quote token in `RfqMaker` and `RiskMarks`, once the code keeps a book across pairs.
3. The executable-top views of the curve; tokens that charge for a transfer, in the router's counts.
