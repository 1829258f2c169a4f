# A TLA+ model of the investment bot

This directory holds a formal model of the trading bot in `src/`: TLA+ modules
translated from the code, TLC configurations that check them on small
instances, and theorems checked by TLAPS for every value of the constants.
Paths below are relative to `src/src/investment_bot/` unless they start with
`src/`, `docs/` or `tests/`.

## 1. The system

One Python process (`main.py`, FastAPI) serves an operator API. Synchronous
endpoints run on a thread pool; `AutoTradeService` adds a background loop. The
services are singletons built by `services/container.py` (`lru_cache`), so the
loop and all API threads share their state, and most of them have no lock.

| Component | State it keeps | Operations | What makes it correct |
|---|---|---|---|
| `LedgerStore` (`services/ledger_store.py`) | `ledger.json`, a temporary file, a lock per object | load, save, append a trade log, close the latest open trade log | the file is never torn; an acknowledged update is lost to an overlapping one only; locks are released; used by one thread it acts as an atomic ledger |
| `PaperBroker` (`services/paper_broker.py`) | cash, positions, last prices, orders, streaks; copy on file | submit, evaluate_exit_rules, mark_price, sync_exchange_position, reset, reload | money is conserved, buys in a row capped, logs complete, spent targets remembered, trailing stops only rise |
| `ExitEvaluator` (`features/exit/`) | none | position exit, strategy exit, live exit override | priorities of the exit reasons; the partial exit can be executed |
| `AutoTradeService` (`services/auto_trade_service.py`) | active flag, loop thread, time of the last submission, peak prices, scheduler | start, stop, run_once, the loop | one decision per run, cooldown, runs end, stop takes effect; stop-losses first, buys within the exposure limits |
| `LiveExecutionService`, `UpbitClient` | none (the exchange's orders) | preview_order, submit_order | no order without live mode and confirmation; sizes within the exchange's rules |
| `ShadowService`, `SemiLiveService`, `TradingCycleService` | caches of balances | one strategy cycle: signal, exits, routing, risk, submission | shadow cycles place no order; exits outrank entries; nothing bypasses risk |
| `RiskController` (`risk/controller.py`) | none | review | approved entries are affordable and executable, and can be sold partly |
| `RunHistoryStore`, `RunHistoryService` | one JSONL file per day, cached last identifier and modification time | append, list, reset | identifiers increase from entry to entry |
| `LiveTradeSyncService` | none (ledger) | sync an order into the trade logs | one log per order, idempotent |
| `AutoTradeScheduler` | list and number of its priority symbols | priority symbols; rotating batches that nothing calls | the symbols a run must look at are among them |
| `SchedulerService`, `FailSafeService`, `AlertService` | none | a batch of semi-live cycles with a fail-safe | stops when the limits are reached |
| `StrategySelectionService` | none | choose one candidate per symbol | the strategies that suit the regime are heard |
| `BacktestService`, replay adapter, `CandleStore` | replay cursor, candle file | replay, append candles | windows advance; candles are deduplicated |
| `AccountService`, `ExchangeRulesService`, selectors, classifier, strategies, market data | caches | reads and numeric scoring | rounding to the tick ladder |
| `Settings`, `TradingPolicy`, reports, dashboard, scripts | configuration | read-only summaries | not part of the trading state |

How they interact: the loop (or `POST /auto-trade/run-once`) calls `run_once`,
which reads the account, checks the cooldown, and for every symbol and strategy
calls `ShadowService.run_once` → `SemiLiveService` → `TradingCycleService.run`.
A cycle asks the strategy for a signal, lets the broker's exit rules override
it, has the risk controller size it, and submits it: to the exchange when live
mode is set and confirmed, to `PaperBroker` otherwise. `run_once` then decides
on one candidate and submits that through `LiveExecutionService`. The broker
persists into the ledger file; `LiveTradeSyncService` writes the same file
through a `LedgerStore` object of its own; every step writes the run history.

The behaviours that are hard here: load-edit-save on one file from several
threads and two store objects; crashes between the writes of one operation;
check-then-act on shared in-memory state (cash, streaks, cooldown); file
operations that raise after the account in memory has changed; exchange
calls that succeed and whose answer is lost; exceptions at every call of a run;
rounding at the minimum notional; state kept over from an earlier position;
an account read once and used while armed cycles trade; caches validated by
modification times.
`PROJECT.json` lists each of these at its line, with the property that watches
it or the reason why none does.

## 2. The modules

| Module | Models | Notes |
|---|---|---|
| `LedgerData` | the payload of the ledger file and the edits of it | constant level |
| `AtomicLedger` | what the callers of the store rely on | abstract specification |
| `LedgerStore` | `ledger_store.py` on a file system of inodes and names | refines `AtomicLedger` |
| `LedgerOverlap` | which acknowledged logs were overrun by another thread's write | `LedgerStore` with a history variable |
| `LedgerStoreProofs` | theorems about `LedgerStore`, `LedgerOverlap` and `LiveTradeSync` | TLAPS |
| `Orderings` | sorting by an order that may leave ties open | constant level |
| `OrderingsProofs` | least and greatest elements, induction over numbers and finite sets, recursive functions, sums | TLAPS |
| `Money` | rounding, prices, percentages | constant level |
| `MoneyProofs` | what each rounding is off by, monotonicity, shares and costs | TLAPS |
| `ExitRules` | `evaluate_position_exit` and `evaluate_strategy_exit` of `ExitEvaluator` | constant level |
| `RiskControl` | `RiskController.review` | constant level |
| `PaperBroker` | `paper_broker.py` | uses the ledger's operations as single steps |
| `PaperBrokerProofs` | theorems about `PaperBroker` | TLAPS |
| `TradingCycle` | `trading_cycle.py`, and what it reads of the strategies | extends `PaperBroker` and `RiskControl` |
| `TradingCycleProofs` | theorems about `TradingCycle` and `RiskControl` | TLAPS, extends `PaperBrokerProofs` |
| `AutoTrade` | the loop, `run_once`, shadow cycles, submission: who does what when | amounts are free choices |
| `AutoTradeProofs` | theorems about `AutoTrade` | TLAPS |
| `LiveSizing` | candidates, choice, live exit override, sizes, preview, ticks | constant level |
| `AutoTradeRound` | one `run_once` after another with the amounts | extends `LiveSizing` |
| `AutoTradeRoundProofs` | theorems about `AutoTradeRound` and `LiveSizing` | TLAPS |
| `LiveTradeSync` | `live_trade_sync_service.py` | extends `LedgerStore`, step by step; its theorems are in `LedgerStoreProofs` |
| `RunHistory` | `run_history_store.py` | |
| `OperatorJobs` | batches with fail-safe and alerts, replays, candle store | extends `RunHistory` |
| `OperatorJobsProofs` | theorems about `RunHistory` and `OperatorJobs` | TLAPS |
| `MC...` | constants for TLC | one for each module that is checked |

### LedgerStore

`disk` maps inodes to contents, `path` and `tmp` are the inodes the two names
denote. `write_text` is two steps (truncate, write) because another thread, or a
crash, can come in between; a write over another writer's text may leave a mixed
(`"torn"`) file. `os.replace` and the release of the lock are one step, which ends
the operation also when the temporary file is gone and the caller gets an
exception. `load()` takes no lock, opens and reads. `Edit` is what the operation
does with the loaded payload; it is part of the step that ends the load. `StoreOf`
says which `LedgerStore` object a thread uses: all on one, or two as
`container.py` builds them. `Crash` kills all threads at any point and keeps the
files. Trade identifiers are fresh (`uuid4`). Not modelled: the loss of written
data in a power failure (there is no `fsync`), and texts torn inside a multi-byte
character, on which `load` raises instead of standing in.

`LedgerOverlap` adds one history variable, `overrun`: the trades whose log was
renamed into place while another thread held a copy of the ledger that it was
about to write. Nothing of the code is added or changed.

### PaperBroker

`book` is the object's memory, `ledger` the file. `submit` is `Check` (pricing
and rejections; a rejected order changes nothing and is no step), then `Buy`,
`Sell` or `SellRejectedLate` (memory), then `LogTrade` (the trade logs on file),
then `Persist` (the account on file), in the order of the code. The process may
die between any two of them; `Crash` reloads memory through `Restored`.

Either operation of the file may raise: `os.replace` when another store on the
path has taken the temporary file away, `read_text` on a text torn inside a
character, the validation of a trade log, a full disk. `LogTradeRaises` ends
`submit` after memory has changed, with or without the log on file (another
store's rename may have put the text in place), and `Save` may raise in
`Persist`, `mark_price`, `sync_exchange_position` and `reset`. The exception
leaves the broker; what is in memory stays, and the next save that succeeds
writes it out. `unlogged` is history: the buys whose log was lost in this way.

Nothing in the class excludes a second thread: a fill, `_persist_state` (a load
and a save) and `evaluate_exit_rules` (a snapshot, then assignments) are several
statements without a lock, and the loop and the API workers share the object.
The model has the statements of a fill that touch memory as one step and a load
with its save as one step, which is what a single thread executes
(`SerialStoreIsAtomic`). It is a model of calls that do not overlap, and the
assumption `SerialUse`, which TLC evaluates and the proofs cite, says so. What is
checked and proved of `PaperBroker` and `TradingCycle` says nothing of calls that
do overlap: two checks before either fill overspend the cash, interleaved fills
lose quantities, an older stop may be assigned over a higher one.

Amounts are integers in units of the code's rounding; `Money` names the
rounding each formula applies, and round-half-even is modelled as
round-half-up. `dropped` is a history variable that adds up what the dust rule
forgets; it lets `BooksBalance` say that nothing else is lost. Left out: the
per-position realized profit, the opening time (the timeout rule takes its
outcome as a parameter) and read-only snapshots.

`sync_exchange_position` also adds to it what the exchange's numbers take from
cash and cost.

The assumptions on the constants say what a configuration must satisfy for the
arithmetic to make sense: positive prices and sizes, slippage and stop-loss below
the whole price, a fee of at most the amount it is taken from.

### TradingCycle and RiskControl

A cycle is `Evaluate` (signal, exits, routing, review and `mark_price`, all of
them calls that touch nothing but the account; when `mark_price` raises there is
no review), then `EndCycle` when nothing is
approved, or a submission: `SubmitToBroker` followed by the broker's own steps,
`RejectedByBroker`, or `SubmitToExchange` in an armed process, which leaves the
paper account alone. `Restart` is the broker's `Crash` with new settings for
the mode. `ChangeAccount` is what a shadow cycle does before it evaluates, or an
operator's reset. `Reviewed` follows `run` from the signal to the size; the
three exit sources meet in `ResolveExit`.

Candles are left out: a cycle chooses a price, a signal the strategy can give
(`Signals`: none of them buys or sells with a position open, `dca` and
`mean_reversion` have confidences of their own) and one of the constant
`Market`'s classifications, which are such as the classifier produces. The hour
(`blackout`) and the age of the position (`late`) are free choices.

Budgets are exact in the code until the quantity is rounded; here each share is
an amount. The code passes `min_order_notional` to the controller raised to
5000 in KRW; the model has one `MinNotional`, which is what the shipped
configuration gives.

### AutoTrade

`pc` names the next statement of a thread that touches shared state or calls out.
Loops run the steps of `_loop`, API workers call `run_once` (`job` "run") or a
single cycle (`job` "shadow", which stands for all endpoints that run one). Which
signals come up, what the account allows and whether a preview passes are free
choices. The gates of `submit_order` are `SubmitNothing` and `SubmitLive`;
`CreateAccepted` and `CreateLost` are the exchange accepting an order with and
without the client seeing the answer; `Fail` is an exception at any call out.
`orders` is the exchange's list; its fields `open` and `known` are history:
whether the run that placed the order is still going on, and whether the process
has noted the submission. The manual endpoint `POST /exchange/upbit/orders/submit`
is left out: it calls `submit_order`, whose gates are modelled, and touches
nothing else.

### LiveSizing and AutoTradeRound

`AutoTrade` says in which order threads act and leaves the amounts open; these
two say what the amounts are, one run at a time in an armed process. A run is
`StartConfigured`, `StartSelected` or `StartFallback` (which symbols, and what
the kept scheduler makes of the list), then for each symbol `FetchAsset` and
`Collect`, in between `CycleTrade` for the orders that the strategy cycles of an
armed process place themselves, then one of the `Decide` actions and
`_submit_trade`: `PreviewAllowed` and `Create`, `PreviewBlocked`, or `NextBuy`.
`view` is the account as it was read at the start, which the decision is made
on; `Preview` reads the account anew. `RunFails` is an exception at any point,
`Restart` a restart of the process, which forgets peaks and scheduler.

`Opinion` is what the strategies' cycles come to for a symbol, `Verdict` what
the selector's scoring comes to: free choices from constant sets. The peaks are
updated by the first strategy that asks; the others see the same price, so
`Collect` does it once.

Consequences of the code that the model shows and no property is about:

* A candidate to sell is always managed and worth the minimum, so the dust
  filter of `run_once` and the skips of `_handle_sell` never apply beyond that,
  and the preview trims a buy to the cash, so it blocks for want of cash only.
* A stop-loss whose position is worth the minimum, but not after slippage, is
  blocked by the preview in every run and still outranks everything else.
* The room of a buy is measured on the account of the start of the run; orders
  of armed cycles in between are not counted (`Undisturbed` in the properties).
* The scheduler is kept while the list of symbols is the same, with the number
  of priority symbols of the run that built it (`auto_trade_service.py:139`):
  after a fallback run the same list, now selected or with held symbols at its
  end, is cut off at `top_n`, and the rotating batches that were to cover the
  rest have size 0 and are never asked for.
* A peak survives the sale of the whole position and is used for the next one.

Python sorts lists of candidates and symbols; here `Orderings` says what sorting
gives, without an algorithm: `Listings` are the orders of a set that a sort may
give, `Foremost` the positions of a list that nothing beats, in the list's order.

Left out: locked balances (nothing is on order between two steps), markets that
the exchange has closed, equal scores of two symbols, and the blocked-candidate
diagnostics. Regimes are in the normalised spelling of `trading_policy.py`.

### LiveTradeSync

A synchronisation reads the trade logs (`Look`), and appends a log when the
order has none (`AppendMissing`), or closes the latest open log of a sell. Each
of these is an operation of `LedgerStore` and goes through all its steps, on a
store object of its own beside the broker's threads. `misread` is history: some
load has met a half-written file, which the two locks allow.

### RunHistory and OperatorJobs

`append()` is five steps without a lock: `CheckCache` (modification times),
`NumberEntry`, `WriteLine`, `CacheId`, `StampMtime`; `Reset`, midnight, a restart
and a line torn by it, and another process that appends come between them.
Modification times are those of the file system's clock, which `Tick`s.
`OutsideAppend` is taken to come between two appends of this process and to carry
a later time; an outside write within the clock's resolution goes unnoticed by
the code.

A thread of `OperatorJobs` runs a cycle, a batch or a replay, each followed by its
record. What a cycle does is in `TradingCycle`; here it yields a portfolio or
raises. `FailSafe` goes over all the batch's portfolios, as `evaluate_batch` does;
the properties state the limits on their own, without its two counters. `Merged`
gives the lists of candles that the store's sort may leave; with equal time stamps
gone there is one. The replay cursor is shared: operators are taken not to load or
advance while a replay runs (`NoReplay`).

## 3. The runs

| Run | Bounds | What it shows |
|---|---|---|
| `shared` | 2 threads, 1 store, 2 trades, crashes | the file is whole for readers and after crashes; no save raises; acknowledged logs are lost to an overlap only |
| `serial` | 1 thread, 3 trades, crashes | refinement of `AtomicLedger` |
| `torn` (violation) | 2 threads, 2 stores | two saves leave a corrupt ledger behind |
| `records` | 1 syncing thread, 1 broker thread, 2 stores, 2 orders | one trade log per order, locks are released, synchronisations end |
| `fills` | 1 thread, 2 symbols, 2 prices, 2 sizes, 3 orders, 2 faults | conservation of money, streak cap, logs, cost of fills, spent targets |
| `cycle` | 1 symbol, 3 prices, 2 confidences, 6 classifications, 2 reported holdings, 3 orders, 1 fault | typing; exits outrank signals, the first target is sold once, entries are affordable and can be sold partly, trailing stops only rise |
| `orders` | 1 loop, 1 worker, 3 instants, 2 orders, 2 buys | mode gates, one decision per run, cooldown |
| `live` | 2 loops, 1 order, 2 buys, 1 crash | runs end; a stop takes effect |
| `shadow` (violation) | 1 loop, 1 worker | a shadow cycle that trades |
| `round` | 2 symbols, 4 prices, 4 opinions, 31 verdicts, 2 orders | stop-losses first, buys in their room, acceptable orders, rising peaks |
| `trend` (violation) | as `round` | trend following never buys |
| `history` | 1 thread, 2 days, 2 time stamps, 4 entries, 1 restart | increasing identifiers, fail-safe, replay windows, candle store |

Why the bounds are enough. In `LedgerStore` an interference needs two threads,
and a lost update one trade beside another write. The broker's prices and sizes
are chosen so that the exposure limit, the cash limit, the streak cap, both
minimum checks, the dust rule, a stop, a target and a trailing stop all occur
within three orders; amounts are small so that rounding shows. A fault is a crash
or an operation of the file that raises: two of them let an append fail and the
process die before, or after, the account is persisted. In
`TradingCycle` a buy, a first target and a second sell need three orders; the
reported cash of 104 makes the cash the smallest cap of an entry, two
confidences make a budget above and below what the first target needs, and a
restart may arm the process. In `AutoTrade`
one order per run and a second one after the cooldown need two orders and one
instant more than the cooldown; two buys are needed for a fallback. In
`AutoTradeRound` two symbols compete for every decision, the prices rise, fall
below the stop and pull back from a profit, one order opens a position and a
second one disturbs the next run; an armed cycle may spend all the cash, which
is what makes a preview block. In `LiveTradeSync` the second synchronisation of
an order, a crash and a broker's save between any two steps are all within reach.
In `OperatorJobs` a batch of three cycles can reach each limit of the fail-safe
and be cut short, and a replay of three steps runs over the end of its series.

Fairness. `LedgerStore.FairSpec` assumes weak fairness of each thread's steps
inside `save()`: they wait for nothing. `LiveTradeSync.SyncSpec` assumes the same
of the broker's threads, and weak fairness of all steps of a synchronisation,
which waits for nothing but its own store's lock. `AutoTrade.FairSpec` assumes weak
fairness of each thread's own steps: the operating system schedules it,
`time.sleep(1)` returns, and every exchange call returns or raises within the
client's ten seconds (`services/upbit_client.py:72`). Nobody has to call the
API, start or stop the loop, and the clock need not advance.

Every run checks for deadlock.

### What the violated properties mean

* `torn`: `container.py:167` builds a second `LedgerStore` on the ledger path.
  Its lock does not exclude the broker's, and both write `ledger.json.tmp`.
* `shadow`: `trading_cycle.py:133` submits whenever the process is armed,
  whoever asked for the cycle.
* `trend`: `auto_trade_service.py:388` looks for `market_regime` in the decision,
  `ShadowService._decision_summary` puts it into the decision's `review`. The
  regime is then "unknown", for which only `mean_reversion` and `dca` are allowed;
  a buy of `trend_following`, which the cycle lets pass in trends only, is never
  a candidate. The test of this path has a shadow service with the missing key.

Divergences that no run is about. The lock of `save()` does not cover the
`load()` before it, so of two threads that edit at the same time one loses its
edit, an acknowledged trade log included: `LogsLostToOverlapOnly` says in `shared`
that this is the one way to lose a log, and `serial` has one thread, `records` one
that synchronises and one of the broker. With two threads of the
broker an order gets two logs without any half-written read: one loads the ledger
with the order in it, the other saves an older one without it, the next
synchronisation misses the log, the first brings it back, and a second log is
appended. `evaluator.py:39` compares a first-target
slice with the minimum before slippage and the broker after it, so a slice in
between is refused in every cycle. Two threads that record runs at the same time
may give one identifier twice. A replay that is loaded or advanced by an operator
during a backtest has its windows changed.

## 4. The theorems

All are checked by `tlapm` from the assumptions named in the modules, for every
number of threads, symbols, orders, candles and crashes, and all prices, sizes
and settings these allow. One of the assumptions is `SerialUse`: `PaperBroker` and
`TradingCycle` have one thread. Where a theorem needs more, its statement says so.

**LedgerStore** (`LedgerStoreProofs`). The type invariant, for any assignment of
threads to stores. For one store (`OneStore`): `ledger.json` is always whole,
loads read whole files, no rename fails. None of the three is inductive alone;
`FileInv` adds that only the owner of the lock is inside `save()`, that the two
names never denote one file, that no reader has the temporary file open, and that
the writer's temporary file is its own: empty before the write and whole before
the rename.

Also for one store and any number of threads: `LogsLostToOverlapOnly`. `OverlapInv`
follows an acknowledged trade through every copy of the ledger that some thread
has read and may yet write: unless the trade was overrun, each of them has it, so
whichever is renamed next leaves it on file.

For one thread (`OneThread`, which implies `OneStore`) `LedgerStore` refines
`AtomicLedger`. `SerialInv` says that the payload in hand is an edit of the
ledger that is on file, and that all acknowledged logs are there. With a second
thread this is false: the lock covers the write only.

**LiveTradeSync** (`LedgerStoreProofs`). Types, for any number of threads and
stores; and `SyncedOnce`, for one synchronising thread and one of the broker
(`OneSyncer`, `OneBroker`), each behind a lock of its own. A second log may come
not only from the file but from any ledger that a thread has read and will save,
so `OnceInv` speaks of those: no ledger anywhere has two logs of an order
(`LedgersLogOnce`); the broker has none in hand that the file or the synchroniser
lacks, and the file none that the synchroniser lacks (`BuysSpread`); an order that
was found missing is missing everywhere until its log is appended
(`MissingStays`). It holds while no load has met a half-written file (`misread`),
and a second thread of the broker breaks `BuysSpread`. `StoreInv` is what stays
true of a file that two locks write: whatever a rename can put in place was written
by a thread about to rename. TLC has checked `SyncInv`, the whole of it, on the
instance of `records`.

**AutoTrade** (`AutoTradeProofs`). The type invariant (with `OrderReady`: a
submission always has its order); and, from `SafeOrders`, that only an armed
process trades, that a decision places at most one order, and that the buys of
one thread are the cooldown apart. `SafeOrders` adds where a thread is while its
decision is open (`DecisionIsLast`), that open orders are the latest of their
thread, that a run past the check has the cooldown behind it, and that the
remembered time is no older than a known buy (`TimeInv`).

**PaperBroker** (`PaperBrokerProofs`), used by one thread (`SerialUse`), with any
number of crashes and of file operations that raise: types,
`TrailingNeverLoosens`, `FillsCostTheFee`, `EveryBuyLogged`,
`SpentTargetsWereSold`, `BooksBalance` and, where what is bought is worth keeping
(`MeaningfulBuys`), `BuyStreakCapped`.

* `BrokerInv` adds to the types what a checked order holds (`OrderReady`), which
  the fills divide by and subtract.
* `FillsCostTheFee` is arithmetic: a buy moves cost into the position and a sell
  takes it out at the average price, each with one rounding; `MoneyProofs` bounds
  each.
* `EveryBuyLogged` compares cardinalities, in memory and on file (`BothLogged`),
  since a restart makes the file's account the one in memory. A buy that is filled
  and not yet logged is `LogDue`; when its append raises it becomes `unlogged`.
* `SpentTargetsWereSold` speaks of memory and file alike (`SpentFits`) and needs
  `UnusedTargetUnspent`, since a buy clears the spent target only where targets
  are switched on. It compares a flag with the whole list of orders: each order
  that is appended keeps the two in step, and nothing else touches either.
* `BooksBalance` needs `Balanced`, of memory and file: the imbalance is within
  what the roundings of the orders allow, and no position is larger than the
  orders and the exchange's reports can make it, because the average price of a
  buy is off by half of the smallest amount for each unit held. `Moved` is what a
  step adds to the imbalance: the cost of one position, the cash, the profit and
  what is dropped; all but the roundings cancels. The sum over the positions is a
  fold, of which `SetSumChange` says what a change in one place does.
* `BuyStreakCapped` relates the whole list of orders to one number per symbol.
  `Streaks` says that the buys at the end of the list are counted in it, at least,
  and that it is never above the cap; `StreakKnown` that the check has seen the
  streak which the fill raises; `Kept` that a position whose last fill
  was a buy is worth at least `MeaningfulNotional`, so that the restart which
  clears all the streaks finds none to clear. TLC has checked this invariant, and
  `MeaningfulBuys`, on the `fills` instance.

`MeaningfulBuys` says when `Kept` is true of a buy: no order is below the
meaningful notional, which is `max(min_order_notional, 5000)` in the code and is
so from 5000 KRW on, the minimum of every shipped configuration; a buy is no dust;
its fee outweighs the rounding of its average price; and a position that the
exchange reports is meaningful as well. The last two say where the cap does fail:
a coin below about a tenth of a won, at the fee of 0.05 % and an average price of
four decimals, or a synchronisation that finds nothing held, followed by a
restart, which then forgets a streak that the account still counts.

**TradingCycle** (`TradingCycleProofs`), run by one thread (`SerialUse`): types,
`ExitsOutrankSignals`, `TrailingNeverLoosens` over whole cycles, `TargetSpentOnce`,
`ApprovedEntriesAffordable` and `EntriesCanTakeProfit`. `StillCovered` (what `Check`
found affordable still is when the order is filled) keeps the cash, from which the
entries are sized, from going below 0.
`CycleIsBroker` shows that a step of the cycle is one of the broker or a stutter
of it, which carries the broker's invariants over. `CycleInv` adds `ReviewReady`:
a review in hand belongs to an idle thread, and a sell at the first target to a
position that has not had it. `TargetInv` says of memory and file alike that since
the last such sell the symbol was bought or the position is marked (`SpentIn`).
The bound in `ApprovedEntriesAffordable` is what the roundings add up to: half a
unit of the quantity at the executed price, half an amount of the price for each
unit that is bought, two amounts, and as much again for the fee.

`EntriesCanTakeProfit` assumes `FineTargets`, because in coarse units it is false:
a slice can round to nothing. The target sells at most half of a position, no
multiplier of the normal mode shrinks the smallest order to nothing, dust is worth
at most half an order, and for every price half of the target's gain, after
slippage, is an amount, and the gain on the smallest order pays for a few quantity
units. In the code's units (amounts of 1e-4 KRW, quantities of 1e-8) and with the
targets of 1.2 to 3 percent of `config/`, that is every price from about 0.02 KRW
up to far above that of any coin; below, the rounding of the target price may eat
the gain. `EntryBudgetTargeted` shows that what the multipliers take from the
budget is given back up to `TargetEntry`; `SliceArithmetic` that the slice, but for
one unit, is worth an order less two units before the gain; `SliceWorthOrder` that
the gain pays for those. The instance of run `cycle` satisfies `FineTargets`.

**AutoTradeRound** (`AutoTradeRoundProofs`): types, `PeaksOnlyRise`,
`StopLossFirst`; `ExchangeNeverRejects`, if the slippage of a minimum order is
not rounded away (`BasisPoints <= 2 * (MinNotional * SlipBps)`, 5000 KRW and a
hundredth of a percent do); and `BuysStayInRoom`, if the minimum is not above
what counts as a meaningful order (`MinNotional <= Meaningful`): where it is, the
raise to the minimum can leave the room.

* `RunKept` says what holds at each statement of a run: which symbols are left to
  evaluate, and that an order about to be created has passed its preview.
* `Undisturbed` means that cash, quantities and average prices are still those the
  run has read; the two properties about sizes are stated for such runs, because
  armed cycles may trade in between.
* `StopKept` is the argument for `StopLossFirst`: every position at its stop-loss
  (`Ill`) is still to be evaluated or among what was found (`IllFound`), a symbol
  to be evaluated is held as it was read (`Unread`), and once one was found,
  nothing else is tried (`IllTried`).
* The assumption on prices, none above `MinNotional * Scale`, says that the
  smallest order buys at least one unit of the quantity.

**RunHistory, OperatorJobs** (`OperatorJobsProofs`). For any number of threads:
types, `BatchStopsAtLimits`, `StoredCandlesAscend`. For one thread: `IdsIncrease`
and `ReplayWindowsAdvance`.

* `Numbered` says what a thread inside `append()` knows of the entries (`Knows`):
  a cache that passed the check, and a number that was given, are not below any
  identifier on file. With a second thread this is false between the two.
* `BatchKept`: a batch that runs another cycle has reached no limit with any of
  the cycles so far. `FailSafeStops` shows that the counters of `evaluate_batch`
  report a stop exactly when some cycle has reached a limit.
* `ReplayKept`: every window a backtest has seen ends where its number says, and
  the cursor is where the next one ends.

How induction is done. The library's induction theorems have an operator as
parameter and cannot be instantiated here; `OrderingsProofs` derives
`NatInductionOnSet` (over a set of numbers) from the least element of a set, that
from the well-foundedness of the naturals, and with it `FoldExists`: a function
defined by recursion on `0 .. N` exists and goes by its steps. That is enough for
`FailSafe`, the exposure of an account and the listings of a set. `SubsetInduction`
does the same for finite sets, by their cardinality; from it follow the greatest
element of a finite set (`Largest`) and that the fold over a set is its sum
(`SumOfChosen`), whichever order `CHOOSE` takes the elements in.

Only model-checked is liveness (`LockReleased`, `SyncsEnd`, `RunsEnd`,
`StopTakesEffect`), which needs fairness and `ENABLED`.

## 5. Not modelled

Signing, HTTP encoding, request parsing, configuration, dashboards, metrics and
reports (read-only); the numeric content of strategies, regime classification and
symbol scoring (their signals, classes and scores are free choices); the
rotating batches of `AutoTradeScheduler`, `run_walkforward` and
`run_standard_backtest`, which nothing in the program calls; the second call
that `auto_trade_service.py:381` makes after a `TypeError`, which repeats a cycle
modelled once; operator scripts, which run outside the trading process.

Overlapping calls of the paper broker: see `SerialUse` in section 2. They are a
hazard of this code (`PROJECT.json`, `paper_broker.py:177`) that no property
covers, because the code takes no precaution against them and no document of the
repository promises anything about them. Nor are writes of another store to the
ledger between two steps of the broker, but for what makes its operations raise;
`LedgerStore` and `LiveTradeSync` are about those.

## 6. Plan

Done: all modules of section 2, and the proofs of section 4. What would add most
is a model of a broker that threads share, should the code get a lock: a step per
statement, shown to implement `PaperBroker`, would then carry its theorems over.

## 7. Running it

    tlc -config MCLedgerStore_serial.cfg MCLedgerStore
    tlapm LedgerStoreProofs.tla

Each configuration is named after its module and its run.
