# A TLA+ verification of cex-rs

cex-rs is a centralised spot exchange in two processes. `rs-gateway` takes HTTP
requests and appends each as a command to the Redis stream `engine-events`.
`rs-engine` reads the stream, executes the commands one at a time on its
in-memory state (balances, three order books), replies through a Redis list per
gateway, and publishes execution events to the stream `engine-executions`, which
the gateway's ledger worker stores in PostgreSQL and its WebSocket listener
forwards to clients. The engine recovers from a snapshot in PostgreSQL and the
rest of the stream.

The modules here model the engine (the book, the handlers with their accounting,
the process around them), the two readers of its events, and the gateway's
requests, rate limiter, accounts and WebSocket hub. Paths below are relative to
the repository.

## 1. Inventory

| Part | State | Operations | Where it is hard |
|---|---|---|---|
| Order book, `rs-engine/src/orderbook/` | `bids`, `asks` (price to FIFO queue of ids), `orders` (id to order), `next_order_id` | `add_order_with_id`, `execute_market_order_with_id`, `cancel_order`, `reset`; reads `can_fill_quantity`, `quote_cost_for_market_buy`, `fillable_qty_for_market_sell`, `get_state` | three maps kept in step through fills, partial fills and cancels; separate walks that must agree with the matching loop |
| Engine state and handlers, `rs-engine/src/state.rs`, `handlers/` | USD and asset balances (`available`, `locked`), three books, `next_order_id`, `fee_schedule` | `handle_order`, `handle_cancel`, `handle_onramp`, `handle_deposit`, `handle_reset`; reads | lock, fill by fill settlement, two fees rounded down, refund: unsigned subtractions everywhere |
| Engine process, `rs-engine/src/engine.rs`, `snapshot.rs`, `main.rs` | `last_id`, batch, `events_since_snapshot`; outside it the stream and `engine_snapshots` | load, replay, read, dispatch, reply, save and prune, reset, shutdown | crashes between any two effects; calls whose errors are dropped; a reset in several steps |
| Gateway requests, `rs-gateway/src/redis/listener.rs`, `routes/` | `pending` (identifier to waiting request) | `send_and_wait`, reply listener, `reset` | no timeout; a reset in two halves, concurrent with other requests |
| Ledger worker, `rs-gateway/src/ledger/worker.rs` | `last_id`, checkpoint row, `orders`, `trades`, `ledger_entries` | one transaction per batch | aborted transactions, restarts, two workers, resets |
| WebSocket hub, `rs-gateway/src/ws/` | clients, topics, users to clients | register, subscribe, authenticate, broadcast, unregister | three locks taken one after the other |
| WebSocket listener, `rs-gateway/src/ws/listener.rs` | `last_id`, from `$` on | read, translate, broadcast | what falls between two reads; whom a trade is told to |
| Rate limiter, `rs-gateway/src/rate_limit/` | token buckets, per worker thread | `check` (`cleanup` has no caller) | boundaries of refill and of Retry-After |
| Accounts, `rs-gateway/src/routes/auth.rs`, `auth/` | table `users`, tokens | `signup`, `signin`; deleted by `reset` | tokens that outlive their user; a signup in two halves |
| Order form, `rs-gateway/src/dto/mod.rs`, `routes/orders.rs` | none | `validate`, `place_order` | the same fields checked twice with different rules |
| Order status, `rs-gateway/src/routes/orders.rs` | none | `get_order` | three reads at three moments |
| Other history queries, metrics, hashing | none of their own | | plain reads, counters, library calls |

How they interact: the gateway and the engine share only Redis and PostgreSQL.
Within the engine everything is sequential (one task holds the state's lock for
a whole batch), so its hazards are long sequences of calls, arithmetic at
boundaries, and crashes; between the processes they are the interleavings of
appends, deletes, reads and restarts.

What makes each part correct:

* book: price-time priority, never crossed, both halves consistent, all or
  nothing for fill-or-kill, quotes that execution honours;
* handlers: money conserved, locks that match what is open, events from which a
  reader knows every balance and open order;
* process: the state is what the log makes it, answered commands survive, no
  command is lost unread but behind a reset, none is published twice, all are
  eventually executed;
* readers of the events: each event stored once, tables that agree with balances
  and books, forwarded in order, nobody stuck who has not lost Redis;
* gateway: everyone gets the answer to his own request, nothing is left behind,
  limits hold in every window, a token names one user for ever, an order keeps
  its meaning on the way to the engine;
* hub: private messages reach their owner only, subscribers miss nothing, who has
  left is out of its topics and of its user's set.

`PROJECT.json` lists the hazards one by one with the properties aimed at them.

## 2. Modules

| Module | Models | Used by |
|---|---|---|
| `Book` | the value `Orderbook` and the steps of its methods, as operators | `Orderbook`, `Engine` |
| `PriceTimePriority` | abstract: the resting orders are a set, an order trades with the best and oldest within its limit | refined by `Orderbook` |
| `Orderbook` | one book as a state machine | refined by each book of `Engine` |
| `Engine` | `EngineState` and the handlers that change it | `Ledger`, `WsFeed` |
| `Ledger` | what the worker's statements make of an event | `Exchange` |
| `WsFeed` | the private updates the listener makes of an event, and what a user then believes | `Exchange` |
| `Exchange` | composes engine, tables and updates | |
| `EngineLoop` | `run_engine_with_db`, recovery, snapshots, and the gateway's side of the log | `Operator` |
| `Operator` | composes `EngineLoop` with the signals that ask it to end | |
| `ExecutionStream` | the stream `engine-executions`, and a reset's steps on it | its readers |
| `LedgerWorker` | `run_worker`: batches, checkpoint, failures, and the reset's statements, each of which may fail | `StreamReaders` |
| `Sink` | abstract: the tables hold a growing prefix of the events, each once | refined by `LedgerWorker` |
| `WsListener` | the reading loop of `ws/listener.rs` | `StreamReaders` |
| `StreamReaders` | composes the stream, both readers and a reset | |
| `WsHub` | the hub's maps, lock by lock, with sessions and broadcasts | |
| `Gateway` | `send_and_wait`, the reply listener, restarts | `MCGateway` |
| `RateLimiter` | buckets and middleware | `MCGateway` |
| `OrderForm` | `validate`, `place_order`, the head of `handle_order` | `MCGateway` |
| `Accounts` | users, tokens, signup in two halves, reset | `MCGateway` |
| `OrderStatus` | `get_order` and its fallback | `MCGateway` |
| `MC...` | the instances for TLC | the runs |
| `FoldProofs` | sums, folds and walks over finite sets, for the proofs | |
| `BookProofs`, `OrderbookProofs` | proofs about `Book` and `Orderbook` | |
| `EngineLoopProofs` | proofs about `EngineLoop` | |
| `ExchangeProofs` | proofs about `Engine`, `Ledger`, `WsFeed` and `Exchange` | |
| `StreamProofs` | proofs about `LedgerWorker`, `WsListener` and `StreamReaders` | |
| `WsHubProofs` | proofs about `WsHub` | |
| `GatewayProofs` | proofs about `Gateway`, `RateLimiter`, `OrderForm`, `Accounts`, `OrderStatus` | |

Names follow the source where TLA+ allows it (`AddOrderWithId` is
`add_order_with_id`). Definitions whose comment begins with "Mutant of" are
deliberately wrong variants, used only to confirm that a property notices them.

### Book and Orderbook

The two `BTreeMap`s are `levels[side]`, functions from prices to sequences of
ids, and the `HashMap` is `orders`; each keeps its own domain, so an empty level
or an orphaned id could be reached if the code could reach it. A call is a start
action (id reserved, checks, early returns), one `MatchStep` per fill,
`Complete` (the rest of a gtc order is queued) and `Return`. The limit and the
market loop of the code are the same but for the optional cap, and are one
action here with `NoCap` for `None`. In the code an iteration stays with a level
until it is empty; taking the best level anew at each step is the same, as no
call adds to the side it consumes. `can_fill_quantity`,
`quote_cost_for_market_buy` and `fillable_qty_for_market_sell` are three copies
of one walk, `Sweep`: a fold over the levels, the best first (`TakeLevels`), of
the fold over a level's queue, the front first (`TakeLevel`). That this walk
agrees with the loop is `QuoteIsExact` and `FokAllOrNothing`, not an assumption.

### Engine

`handle_order` is `HandleOrder` (checks in the order of the code, funds locked,
id given out), `MatchStep` and `Complete` as above, one `SettleFill` per trade
(`apply_fill` and its `TradeExecuted`), `Reconcile` (refund, `OrderCreated`,
reply, `DepthUpdated`) and `Return`; `OrderRefused` is every early return. The
limit path, the market sell and the market buy of the code are one path here
with the lock, the limit and the refund chosen by type and side. Splitting it
into steps lets the invariants see the balances after each fill. The other
handlers are one action each.

`depth` is the last `DepthUpdated`. `minted` and `maker_fills` are history
variables. A missing balance reads as zero (`or_default`), which is why signup
needs no action. The deposits are of listed assets only, as the gateway's route
sees to it (`routes/balance.rs` 70). Products of `u64` wrap at `WordSize`;
balances are not wrapped, so that an underflow shows as a negative number. The
slippage cap is exact decimal arithmetic where the code uses `f64`.

### Ledger, WsFeed and Exchange

`Ledger` has one operator per event of `run_worker`: what its statements do to
`orders`, to the sums of `ledger_entries` by account and currency, and to the
traded quantity of each order. `WsFeed` has the private `OrderUpdate`s of
`ws/listener.rs` and the view of a user who got all of them. `Exchange` joins
each step of `Engine` that publishes an event with both, so that the tables and
views are those after every prefix of the events; that the worker really stores
a prefix, and the listener forwards one, is the matter of `StreamReaders`.

### EngineLoop

Entries of the stream are known by their position in `history`; positions stand
for stream ids and 0 for `0-0`. Handlers are deterministic, so the engine's
state is the sequence of commands applied since the last reset. Each effect of
the loop that a crash can separate is an action: `Dispatch` (handler and
execution events), `Reply`, `Count` (with `Save`), `Truncate`, `Del`; the
recovery is `Load`, `Xrange`, `ReplayRecord`, `GoLive`. `Crash` is possible
between any two. A crash between two events of one handler is covered by the
choice in `Dispatch` and the reading of `published` as "some or all".

`Faults` says which calls may fail, each with what the code then does (it drops
almost all errors). `Isolation` says how far clients keep clear of a reset:
`"none"`, not at all; `"reply"`, they wait for its reply; `"delete"`, they also
wait until the engine has deleted the stream, which nothing tells them. It is an
assumption on the environment, and the runs below show which properties need it.
Queries and refused orders are commands too: they change nothing but are
logged, counted and answered like the others.

### Operator

`wait_for_shutdown_signal` is called anew in every round of the loop, and the
listener it makes is dropped when XREAD wins the `select!`. So a signal is heard
only if it comes while the loop waits (`Signal`), and even then a batch that is
ready may be taken first (`Round`) and the signal is gone. `Heed` is the exit.

### ExecutionStream, LedgerWorker, WsListener and StreamReaders

An event is known by its position in all that was ever published. The worker
connects and reads its checkpoint (`Start`), reads a batch and opens a
transaction (`Read`), and ends it (`Commit`) in one of the ways the code allows:
stored; a statement failed, which aborts the transaction, so that the COMMIT
rolls it back without reporting an error; commit failed; or it took effect and
the acknowledgement was lost. When it cannot connect the task ends for good, and
when XREAD fails it retries on a connection that does not reconnect: both are
the state `"stuck"`, which lasts until the gateway is started again. `Stop` is
the end of the gateway.

A reset is the gateway's DELETE of each table (`DeleteRows`), its UPDATE of the
checkpoint (`ResetCheckpoint`), and the engine's reset with its DEL of the stream
(`EndReset`), one after the other while the worker, the listener and the engine
go on. Each of these calls may fail and the reset goes on without it, as the
errors are dropped; the gateway may end in between (`AbandonReset`); and the
stream may stay (`KeepStream`): the reset was not sent, the engine ended between
its reply and the DEL, or the DEL failed. `tainted` is a history variable: since
the stream was last deleted something failed that nobody makes good (the
checkpoint could not be read, a statement failed, an acknowledgement was lost, a
reset was left halfway).

The listener's XREAD is two steps, `Call` and `Return` or `Timeout`, because `$`
is resolved at the call.

### WsHub

Every critical section of `hub.rs` is a step: `authenticate` is two, `unregister`
three, a broadcast two (ids copied under one lock, sent to under another). A
session handles one message at a time and the listener one broadcast at a time.
A session may authenticate as often and as whomever it has tokens for; `proved`
remembers as whom.

### The parts of the gateway

`Gateway` has the map `pending` of each process, a reply queue per start of a
process (its UUID), and the engine as what answers the log in order, or not at
all for what it executed in a replay. `RateLimiter` counts time in ticks and a
bucket in ticks too, so that refills are whole numbers; each worker thread has
its own buckets, as the middleware is made in the server's factory closure.
`OrderForm` knows a word by its lower case and whether it was written so.
`Accounts` has the users table with its sequence, tokens as what they name, and
the engine's entries. `OrderStatus` follows one order through the engine, the
events not yet stored, and the tables, while its owner and another user query it.
The five share no variable, so `MCGateway` checks them in one run as a sum: a
behaviour is one of one part.

## 3. Runs

"Pass" is a complete exploration.

| Run | Instance | Checks | Shows |
|---|---|---|---|
| `orderbook` | 2 users, prices 0-2, quantities 0, 1, 3, ids to 4; 280 thousand states | `BookConsistent`, `FokAllOrNothing`, `ImplementsPriceTimePriority`, `QuoteIsExact` | the book is consistent, all-or-nothing for fok, quotes exactly, implements `PriceTimePriority` |
| `exchange` | 2 users, 1 market, prices 0-2, quantities 0, 1, 3, both fee schedules, 3 orders, 1 depth level; 551 thousand | `TypeOK`, `LocksMatchOrders`, `DepthPublished`, `ZeroSum`, `LedgerReconciles`, `RowsTrackBooks`, `AsksToldRight` | no underflow, locks match orders, money conserved, tables and updates agree with balances and books after every event |
| `engine_markets` | 2 users, 2 listed markets and an unlisted one, 3 orders; 289 thousand | `IdsGloballyUnique`, `BooksAreOrderbooks`, `OrdersAnswered` | the engine uses its books as `Orderbook` allows, and ends every order |
| `loop` | 4 entries, 2 crashes, snapshot every 2 commands, 1 kept, load, emit, save and prune may fail; 334 thousand | `StateIsLog`, `AckedSurvive`, `PublishedOnce`, `LoggedIsExecuted` | recovery is exact, no logged request is forgotten |
| `operator` | 3 entries, 2 ends, all faults, no isolation; 371 thousand | `AppliedInOrder`, `ErasedBehindReset`, `SignalsEnd` | even then no command counts twice in a state, none is erased unread but behind a reset, and repeated signals end the process |
| `streams` | 3 events, batches of 2, 1 reset at any moment, 1 crash, 1 failure of any call; 472 thousand | `CheckpointExact`, `InOrderNoGaps`, `ImplementsSink`, `CatchesUp`, `EventuallyForwarded` | stored once as the checkpoint says, forwarded without gaps, nobody stuck who has not lost Redis |
| `gateway` | 2 gateways, 2 requests, 1 restart, all faults; 2 tokens a bucket, 7 ticks; all forms of an order; 3 ids, 1 reset; an order of 3; 740 thousand | `OwnAnswer`, `NothingElseLeaks`, `SentIsAnswered`, `WorkerWithinLimit`, `RetryAfterSuffices`, `OrderSurvives`, `TokenNamesOneUser`, `HoldsWhatWasBrought`, `FoundWhileOpen`, `TradesCoverRow` | what each part of the gateway promises |
| `hub` | 2 clients, 2 users, 1 topic, 2 messages a client, 2 broadcasts; 2.8 million | `OnlyToOwners`, `GoneIsClean`, `AckedGetsAll` | the hub's separate locks do no harm |
| `loop_reset` | 3 entries, no crash, `Isolation = "reply"` | `NothingErasedUnread` violated | the reply to a reset comes too early |
| `loop_replies` | 2 entries, 1 crash | `ReplaySuppressesDuplicatesOnly` violated | requests answered never |
| `worker_lost` | 2 events, 1 failing statement | `NothingSkipped` violated | a failed batch is passed over |
| `ws_bids` | 2 users, 3 orders | `BidsToldRight` violated | the owner of a bid is told of another order |

**Deadlock** is checked but in `gateway` and `hub`: there clients come to their
bound and are all served or gone, the forms of an order end when it was executed
or refused, the clock at its bound. The other systems can always take another
step (a reset, a timeout of XREAD).

**Bounds.** For a book, quantities 1 and 3 give full, partial and multi-maker
fills, two non-zero prices give crossing, equality and two levels a side, four
ids give three makers and a taker; the reset makes ids start over. For the
exchange, three orders are two makers and a taker on one book or a self-trade with
a rest; fees of 40% and 60% make rounding matter at small prices and each of
maker and taker the higher; one depth level makes the truncation of 25 happen.
For the loop, four entries are two snapshot intervals, or one with a reset and a
command after it; two crashes let a recovery be interrupted and follow a recovery.
For the streams, three events with a batch of two give a full batch and a partial
one, on one side of a reset or on either, and a worker that is behind it; one
failure lands at any call. For the
gateway, two requests at one gateway or two, a restart between any steps; with
two tokens of 2 and of 5 ticks and a second of 3, a token is refilled faster than
a second by one limiter and slower by another, and 7 ticks see a bucket emptied
and refilled; three ids see a name given out again after a reset. For the hub,
two messages are an authentication and a subscription, a subscription and its
end, authentications as two users; the second broadcast is begun under all that happened since the first.
`MaxUsd`, `MaxStock`, `MaxOrderId`, `MaxEntries`, `MaxCrashes`, `MaxEvents`,
`MaxResets`, `MaxFailures`, `MaxTime`, `MaxId`, `MaxMessages` and
`MaxBroadcasts` are the named bounds on what grows; the proofs remove all of
them for what they prove.

**Symmetry** (`Permutations`) is used for users in `orderbook` and `exchange` and
for clients and users in `hub`: they appear in no comparison but equality, and
these runs check no liveness.

**Fairness.** In `Engine`, weak fairness of the steps of a handler: one task
runs it to the end without waiting for anyone. In `EngineLoop`, weak fairness of
the engine's own steps, and of `Load`, that is, somebody starts the engine again
after it ended; the repository has no supervisor, so this is on the operator. In
`Operator`, strong fairness of `Heed`, since `select!` polls its branches in
random order and so does not take a ready batch before a ready signal for ever;
strong fairness of a DEL that works (it does not fail every time); and the
operator repeats the signal. In `StreamReaders`, weak fairness of each task's next
step and of the rest of a reset; errors are bounded in number, and none is assumed
to end: a gateway need not be started again, so a worker that has lost Redis may
stay stuck. In `Gateway`, weak fairness of the handlers' own steps, the listener
tasks and the engine. No fairness is assumed of clients, crashes or shutdowns.

### What the violated properties say

* `NothingErasedUnread` under `"reply"`: the engine answers a reset, then deletes
  the stream; a request sent on that answer can be deleted unread.
* `ReplaySuppressesDuplicatesOnly`: replay leaves out replies and execution
  events of everything it executes, also of requests that were never executed
  before. Their clients wait for ever, and the ledger never learns of their
  trades.
* `NothingSkipped`: `run_worker` drops the error of each statement; the
  transaction is then aborted, COMMIT rolls it back and reports success, and
  `last_id` moves on. The events come back at the next restart, if no batch was
  stored before it.
* `BidsToldRight`: the buyer of a trade is always sent the taker's order id with
  a remaining quantity of 0, also when the buyer is the maker.

### Conditions, and what happens without them

Some properties hold under a condition that a constant states. Each can be seen
to fail by changing that constant in the run's configuration:

| Condition | Without it | Change | Fails |
|---|---|---|---|
| products stay below 2^64 (`order.rs` 46) | a bid locks the wrapped cost, rests, and its fill takes more than is locked, though "BOTH buyer and seller always have their payment in `locked` at this point" (`order.rs` 405) | `exchange`: `WordSize = 5` | `TypeOK` |
| fees up to 100% (`execution.rs` 112) | the seller's credit saturates at zero, the treasury gets the whole fee, and the ledger's sum is not the 0 that ARCHITECTURE.md 259 demands | `exchange`: a schedule of 20000 bps | `ZeroSum` |
| XRANGE does not fail (`engine.rs` 182) | the backlog is executed live, with its publisher, against "NO duplicate client replies emitted" (ARCHITECTURE.md 219) | `loop`: `Faults` with `"xrange"` | `AckedSurvive`, `PublishedOnce` |
| the truncation of the snapshots does not fail (`engine.rs` 246) | a snapshot from before the reset is loaded at the next start, and the reset is no longer in the stream | `loop`: `Faults` with `"truncate"` | `StateIsLog` |
| DEL does not fail (`engine.rs` 248) | what was before the reset is executed and published again | `loop`: `Faults` with `"del"` | `PublishedOnce` |
| one gateway (`worker.rs` 28) | two workers read one checkpoint and store every event twice | `streams`: two `Workers` | `CheckpointExact` |

### Other departures from the documents

Met while modelling, visible in the modules, and without a run of their own:

* "Clear all tables and streams" (README.md 190): rows of before a reset can stay,
  as a worker that was behind stores its batch after the DELETEs, and a DELETE
  that fails is passed over. `CheckpointExact` and `Sink` are about what is in the
  stream after the reset.
* "removing all its topic subscriptions and user mappings" (`hub.rs` 42): a client
  that authenticated as one user and then as another stays in the first one's set
  for ever, as `unregister` knows only the last; `GoneIsClean` says just that.
* `order.rs` 473 says that a bid's lock is "remaining_qty * price + maker_fee".
  Each fill rounds its own fee down, so a partly filled bid can have more left,
  and nothing ever frees the difference; `LocksMatchOrders` bounds it by one unit
  per fill.
* "Matching engine saves a final snapshot before terminating." (ARCHITECTURE.md
  388): `Shutdown` leaves the loop at once. Nothing is lost by it.
* "Intercepts `SIGINT` / `SIGTERM`" (ARCHITECTURE.md 386): a single signal that
  comes while a batch is executed is lost (`Signal`).
* A DEL that fails leaves the reset in the stream, `last_id` goes back to 0, and
  the engine executes the reset again, for as long as DEL fails.
* "Every event processed in sequence results in the exact same state every single
  time." (ARCHITECTURE.md 97): fees come from the environment (`state.rs` 60), so
  a start without snapshot replays at the fees of that day.
* "Always unregister client to prevent memory leaks on disconnect" (`session.rs`
  96): a connection that ends without Close frame or error is a disabled branch
  of `select!`; the session stays until a payload for it fails.
* "Read only new events arriving from this moment forward" (`ws/listener.rs` 26):
  until the first record each XREAD resolves `$` anew, and what comes between two
  calls is never forwarded.
* "burst of 20, refills 2 tokens/sec" (`middleware.rs` 19) is what each worker
  thread grants, not the gateway.
* "General endpoints (balance, orderbook)" (`middleware.rs` 23): `/orderbook`
  starts with `/order` and draws on the trading bucket (`LimiterOf`).
* "Username must contain only alphanumeric characters and underscores"
  (`dto/mod.rs` 23): the trimmed name is checked, the raw one stored.
* The row that `get_order` makes up from the engine's answer has always `SOL_USD`
  as market and what is left as original quantity (`Fallback`; `orders.rs` 182).

## 4. Proofs

Checked by TLAPS with Z3, Zenon and LS4; no statement is assumed but the named
`ASSUME`s on the constants.

**Orderbook** (`BookProofs`, `OrderbookProofs`), for any users, any sets of
natural prices and quantities, any bound on ids. The inductive invariant `IInv`
is `WellFormed(book)` (type, levels hold orders, orders are queued, queues in id
order, not crossed) with `TakerPending`: during a call the taker's id is
reserved, above every resting id and not in the book, which is what makes
`PushBack` keep id order and `Rest` not overwrite. `NotCrossed` is inductive only because
`Complete` rests an order when nothing crosses it any more, which needs that
`BestPrice` really is the extreme of a finite set of prices (`BestPriceIsBest`).
`BookProofs` shows that each operator keeps a well-formed book well formed; one
lemma on removal serves both the filled maker and the cancelled order. From
`IInv`: `TypeCorrect`, `BookAlwaysConsistent`, `QueuesAlwaysFifo`,
`NeverCrossed`, `NothingElseRests`, `RestingOrdersShrink`. For
`RefinesPriceTimePriority` the step to see is that the front of the best level
is the one candidate that comes before all others (`MakerIsFirst`).

The quotes are about a fold over a fold, and the loop takes the first order off
the front. `FoldProofs` shows what the folds compute: `FoldExists` and
`SumFacts` say, by well-founded induction on the subsets of a finite set
(`SubsetInduction`), that a fold is the value of a recursive function; in
`BookProofs`, `TakeLevelsWalks` says that the walk over the levels is a sequence of walks over one
queue each (`LevelsWalk`, `LevelWalk`). Then `SweepAfterFill`: the walk over the
book after a fill finds what the walk before it found but for the fill; and
`SweepAtEnd`: when the loop stops the walk finds nothing. With the invariant
`FillInv` (what a fill-or-kill order still wants, the walk still finds) they
give `QuotesAreExact` and `FokAlwaysAllOrNothing`.

**EngineLoop** (`EngineLoopProofs`), for every set of faults, any isolation,
interval, number of kept snapshots, entries and crashes: `LoopTypeCorrect` and
`AlwaysAppliedInOrder`. Invariant: the state holds nothing after `last_id`, the
batch only what is after it, each snapshot nothing after its own position. In the
same generality `ErasedOnlyBehindReset`: the DEL of a reset erases unread only
what is behind that reset. Its invariant `EInv` says of what the stream still
holds that nothing before `last_id` or a snapshot's position is unread, and before
an entry of the batch only other entries of the batch; a failed DEL, a crash and
an earlier reset keep that, since they set the position back or erase.

**Recovery** (`EngineLoopProofs`), under `Dependable`: clients keep clear of a
reset until the stream is deleted, and XRANGE, TRUNCATE and DEL do not fail;
load, emit, save and prune may. Invariant `RInv`: there is a position `e` up to which the
stream was erased, ending in a reset, everything up to it executed, and neither
the engine nor any snapshot stands before it; a reset that is not done is the
last entry; the engine's position and each snapshot are faithful to the log; the
batch is the next part of the stream; whatever was executed is behind the engine
or in the replay's batch. From it: `StateAlwaysLog`, `SnapshotsAlwaysFaithful`,
`AckedAlwaysSurvive`, `AlwaysPublishedOnce`. That the failures have to be left
out is in the table above. `ErasedOnlyBehindReset` is what holds without
`Dependable`, and `loop_reset` shows that no more does.

**Exchange** (`ExchangeProofs`), for any users, prices, quantities, fee
schedules, word size and bounds. It has six layers, the later ones on top of
the first:

* `EngineInv`: every book is well formed, its ids are below the engine's next id
  and its orders in no other book, and a call under way has reserved its id and
  consumes one book. From it `IdsAlwaysUnique`; with `PricesInv` (orders rest at
  prices that were asked for, no book is ahead of the engine's counter)
  `BooksKeepTheirContract`: every step of the engine is, on each of its three
  books, a step of `Orderbook` or none, so that all theorems about `Orderbook`
  hold of the engine's books. An instance has its own copy of every operator of
  `Book`, hence the three lemmas that the copies are equal.
* `LedgerInv`: types with `LedgerReconciles`, which is inductive as it stands,
  since every step that changes what an account holds, available and locked
  together, publishes the event that says so, and the others move money between
  the two (`SameTotals`). From it `LedgerAlwaysReconciles`. `EntriesSumToZero`
  needs `FeesUpTo100`: above it the seller's credit saturates at zero and the
  table above shows the sum fail.
* `TradesInv`, `RowsInv`: the trades of one call have distinct makers; the row of
  a maker is behind its book by exactly its unsettled trade; the taker has no row
  until `OrderCreated`; a maker that is still in the book was filled by all that
  was left of the taker. From them `RowsAlwaysTrack`.
* `ViewsInv`: the same of what the owner of an ask was told. From it
  `AsksAlwaysToldRight`.
* `DepthCurrent`: what was last published of a call's market is what
  `get_state` makes of its book, cut to its best levels. `DepthAlwaysRight` then is about the book alone:
  adding up along a queue gives the total of the orders at its price
  (`DepthAddsUp`, a sum under another name of its index set, `SumRenamed`), and
  the prices with fewer than `DepthLevels` before them are the best ones, or all
  (`BestOnes`).
* `LocksInv`: where every locked unit is, between any two trades of a call. From
  it `LocksAlwaysMatch` and `EngineTypeCorrect` (no balance is ever negative, so
  none of the unsigned subtractions underflows), both under `ProductsFit`.
  `LocksMatchOrders` is about idle states only and says nothing of a call under
  way, so the invariant carries it through one. `LocksRight`: the locked units of
  an asset are what the user's open asks, the unsettled trades and the part of
  the taker that may still rest have to deliver; the locked USD is what the open
  bids need, with what the call still holds of its own lock (or, for the makers
  of a sell, has still to take), and the dust, at most one unit per fill of a
  resting bid. `BudgetInv`: the lock of a bid suffices. It is a cost and the fee on
  the whole of it, at the higher rate for a limit order and at the taker's for a
  quote; what was spent and the unsettled trades come to no more than a value and
  the taker fee on it, since fees rounded down trade by trade add up to no more
  than the fee on the sum (`Share`); and that value with what is left (at the
  limit, or for a market order what its quote still finds, by `SweepAfterFill`)
  is within the cost. `AmountsInv`: nothing that rests or is to be paid wraps.
  `AvailableInv`: nothing available is negative.

`ProductsFit` says that a price times a quantity, as they are asked for, is below
the word size, times a fee rate and with the fee on it as well. It is what the
engine relies on at `order.rs` 46; without it a bid may lock the wrapped cost and
`TypeOK` fails, as the table above shows. It holds of the constants of every run
that checks the two invariants.

**Readers of the events** (`StreamProofs`), for any number of events, batches,
failures, errors, resets and crashes. `ListenerForwardsAll` without condition;
under `OneGateway` (a single worker) `CheckpointAlwaysExact` and
`WorkerKeepsPromise`, the safety half of `ImplementsSink`, over resets at any
moment whose calls may fail. The invariant: the stream is what was
published after some event `b`, nothing but published events is stored, an open
batch is the next part of the stream or lies before `b` and so touches nothing
that is still to be had; and, when no reset is under way and nothing failed that
nobody makes good, a worker that runs stands, as far as the stream goes, where
the checkpoint stands. That is why a worker that is behind a reset does no harm
to what comes after it.
That one worker is needed is in the table above.

**Hub** (`WsHubProofs`), for any clients, users, topics and any number of
messages and broadcasts, without condition: `PrivateMessagesOnlyToOwners`,
`AcknowledgedGetAll` and `UnregisteredIsClean`. What carries them is where a
session stands between two locks: an id is in a user's set only if its session
authenticated, or is about to, as that user, and is taken out of the last user's
set before the session is gone.

**Gateway** (`GatewayProofs`). `ClientsGetTheirOwnAnswer` and
`MapsHoldOnlyUnanswered` for any gateways, requests, restarts and faults (a
map holds only requests sent with the queue its gateway listens to now, and a
reply to one of them is still in that queue); `LimitHolds` and `WaitingSuffices` for every
capacity and rate (tokens in a bucket and requests let in within any window are
together bounded by the burst and the refill); `LoggedOrdersAreAccepted` for all
forms; `TokensKeepTheirUser` and `MoneyBroughtIsHeld` for any number of users
and resets (ids come from a sequence that a reset does not set back);
`OpenOrdersAreFound` for every order and any lag of the tables, and
`TradesAlwaysCoverRow` for every order and any sizes of batches. Its invariant
`CoverInv` says that row and trades agree at every point of the chain of events
not yet stored and that trades only grow along it; a committed batch moves along
the chain (`BatchWalks`, `ChainSplit`), so a query that reads the row and later
the trades finds no fewer trades than the row tells of.

The assumptions on constants are that quantities, prices and bounds are natural
numbers, slippages at most 100%, word and batch sizes not zero, that the values
that stand for nobody and nothing (`NoUser`, `NoRow`, `None`), the treasury and
the clearing account are not users, rows or requests, and that users are
finitely many; each is an `ASSUME` that TLC evaluates in the runs. Conditions that
only some theorems need (`FeesUpTo100`, `ProductsFit`, `Dependable`,
`OneGateway`) are hypotheses of those theorems.

The types of `Orderbook` and `EngineLoop`, the order of queues, the uncrossed
book, what rests, and faithful snapshots are proved and are in no run: the runs
check what implies or uses them.

**Only model-checked.** Liveness (`OrdersAnswered`, `LoggedIsExecuted`,
`SignalsEnd`, `CatchesUp`, `EventuallyForwarded`, `SentIsAnswered`, and the
fairness half of `ImplementsSink`), which TLAPS does not reach. Every invariant
that a passing run checks is also proved, some under the conditions above.

## 5. Not modelled

* `f64` rounding of slippage; overflow of a balance by additions.
* Fees that change between two starts (`state.rs` 60).
* Stream ids that collide within a millisecond or go back with the clock after a
  DEL: positions stand for ids and only grow.
* The engine and the readers of its events over a crash of the engine at the same
  time: `Exchange` takes the engine as running, `EngineLoop` takes its events as
  sent or not, `StreamReaders` takes the stream as given.
* The signals of the gateway, which actix handles; it ends as a crash does
  (`Restart`, `Stop`).
* Hashing, signatures and the expiry of tokens; metrics; history queries that are
  single reads; JSON.
* The database schema beyond the columns above, tests, benchmarks, deployment.

## 6. Plan

Done: all parts that keep state are modelled; the book, the process around the
engine, the readers of its events, the hub, the gateway's parts, and of the
engine its use of the books, the balances, the ledger, the depth and the updates
are proved. What is left is a composition of `EngineLoop` with `StreamReaders`: the
tables after a crash of the engine between a state change and its event.
