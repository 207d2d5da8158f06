# auto_bit in TLA+

auto_bit is a trading bot for Bybit perpetual futures. It runs as a handful of
processes that share an SQLite database and talk through bounded queues. This
directory holds TLA+ models of its trading protocol, TLC configurations that
check them on small instances, and proofs that TLAPS checks for every value of
the constants. `PROJECT.json` maps every definition to the source lines it
stands for, and lists runs, mutants, findings, hazards and theorems.

Paths below are relative to the repository root's `src/` package unless they
start with `docs/` or `config/`.

## 1. The system

| Component | State it keeps | Operations | Talks to |
|---|---|---|---|
| Orchestrator, `main.py` | child processes, six queues, `_running`, restart cooldowns, `_process_config` | start, watchdog loop, restart on request, config reload, routing of slots and scan results, shutdown | all children through queues; the GUI through a row of the database |
| P1 collector, `collector/` | WebSocket subscriptions, candle buffers, active symbols | subscribe, unsubscribe, reconnect, history | control queue in, candle queue to P2 |
| P2 strategy, `strategy/` | candle windows, grid levels per symbol, tuner level, symbols being traded | scan, evaluate, grid level transitions, recenter | control queue in, signal queue to P3, scan results to the orchestrator |
| P3 orders, `order/` | level map, executor account, pre-orders, trailing stops, loss counter | drain signals, open and close, monitor, exchange sync, restore at start | signal queue in, positions table, events to the orchestrator, the exchange |
| GridPositionManager, `order/grid_manager.py` | (symbol, level) -> row and -> order | FILL, TP_HIT, CLOSE_ALL, RECENTER, restore | executor, tracker |
| PaperExecutor / LiveExecutor | orders and positions in memory / on the exchange | market and limit orders, close by symbol or by key, SL/TP | P3, the exchange |
| GridPreOrderManager, `order/grid_pre_order.py` | entries, fills, take-profits per level, retry counts, bans | place, poll, cancel, ban | P3, the exchange |
| Tracker and database, `tracker/`, `utils/db.py` | positions, trades, state keys | insert, close, statistics | P3, P5, recovery |
| Asset strategies, `strategy/asset/` | drawdown stage, loss streak | approve and size an entry | P3 |
| Recovery, `recovery.py` | none | reconcile rows at start | database, exchange |
| P5 GUI, `gui/` | none of the trading state | views, paper reset, restart request | database |

**What is hard here.** P2 and P3 each hold a picture of the same grid, joined
by a lossy queue and by nothing in the other direction. Within P3 the signal
handler, the periodic monitor, the pre-order poll and the exchange sync all
open and close the same rows, and they identify a position by different keys:
the row id, the order id, the (symbol, level), or only the symbol. A restart of P3 keeps
the table and the queues and loses everything else. In live mode the exchange
acts on its own: orders fill between two polls, executions appear late, answers
are lost and calls are repeated. Around it the watchdog, a restart requested
from the GUI and SIGTERM compete for the same children, whose control queues
outlive them.

**What would make each component correct.**

- P3 in grid mode: each open row is held by exactly one level; a level closes the
  order it opened; a position leaves the table with a trade; a restart does
  not lose the connection between level and row.
- Orchestrator: at most one generation of trading processes, all on one
  configuration; the dead come back; a free slot is answered by a scan; a signal
  ends everything.
- GridPreOrderManager: a fill is recorded once and only if it happened; no level
  waits for an order that is gone; a ban ends the symbol's entries; a take-profit
  closes the row it belongs to.
- Live trading with a position strategy: a symbol has one row; slots, trailing
  stops and conditional orders follow the rows; a fill is noticed and recorded once.
- Risk: the limits bound what is opened; a halt is left only as documented.
- P2's grid: a level that P3 holds is open in P2's grid or its close is on its
  way; the limits on levels and grids hold across restarts.
- P1: everything subscribed is asked for on the connection in use.

`PROJECT.json` lists the hazards behind these, line by line.

## 2. What is modelled

### `PaperGrid` — P3 in the default configuration

`config/` ships with paper mode and the `grid_bias` strategy, so this is the
process most users run. The module covers `order/process.py` (signal batches,
monitor, start), `grid_manager.py`, the parts of `paper_executor.py`,
`position_tracker.py`, `order_manager.py` and `db.py` that decide *which*
position an operation reaches, and the reset of `gui/api.py`.

| TLA+ | Code |
|---|---|
| `rows` | positions table; its `lvl` field is a history variable, the table has no such column |
| `levelPos`, `levelOrd` | `_level_positions`, `_level_order_ids` |
| `exec`, `traded` | `PaperAccount.positions` (keyed by order id), symbols of `trade_history` |
| `queue`, `batch`, `snap` | the signal queue, the drained grid signals, the snapshot they are judged by |
| `Send`, `Drain` | `put_nowait` in P2, `_drain_signal_queue` |
| `HandleFill`, `HandleClose`, `HandleStaleClose`, `HandleNothing` | the branches of `handle_grid_signal` |
| `Monitor` | one pass of `_monitor_positions` with `check_sl_tp_fills` |
| `Reset`, `ResetInPass` | `trading_reset` of the GUI between two steps of P3, or while a pass still has rows to close |
| `Crash`, `CrashInClose`, `Start` | P3 ends anywhere, or between the two commits of a close; `restore_from_positions` |

Prices, quantities and balances are left out. Which stops and targets are hit
(`hit`), and which rows are past their time limit or trailing stop (`late`), is
a free choice of subsets; a sizing refusal is a free choice too, except that
the exposure limit is checked against the snapshot. A row and its order share a
number: both are allocated by the same step. `wiped` remembers which numbers a
reset has deleted.

### `PositionBook` — the tables, whichever mode P3 runs in

The abstract specification of the tables positions and trades: a number is
given to one position; a position leaves the table with a trade, in one step or
in two (`Write`, `Remove`); each further trade of a position takes a restart
(`Restart(B)`: the process dies, perhaps between the trade and the deletion of a
position in `B`), or the recovery after it. Recovery reads the table once, and what it
decides later rests on this reading: `again` are the positions it may still
record although they have left (`Repeat`), or may find good (`Settle`).
Its promise `Booked` bounds the trades of a position by the restarts and two.
`PaperGrid` implements it with `open <- DOMAIN rows`, the numbers given out since the last
reset and not open as `closed`, and `restarts <- crashes`: an increment in
`Crash` or `CrashInClose` is the restart, the start itself is a stutter.
`PaperGrid` has no recovery that records anything, so `again` stays empty.
`LiveTrading` implements it with the tickets of its rows as `open`, the recorded ones
that have no row as `closed`, as `writing` the row whose trade is written and which is
about to be deleted, and as `again` what recovery has read and not dealt with
(`Reread`). Both have a kill between the two commits of every close.

### `GridLevels` and `LevelDeals` — the grid strategy of P2

`grid_bias.py`, `grid_engine.py`, the bias calculator and the verdicts of the
filter, as `StrategyEngineProcess._handle_candle` drives them, together with
the copy of the grids in the database and the level map of P3 (paper mode).

| TLA+ | Code |
|---|---|
| `active`, `grids` | `_active_trading_symbols`; `_grids`: per level PENDING, FILLED or TP_SET (COMPLETED and CANCELLED levels are recycled within the step that makes them) |
| `saved`, `saving` | tables `grid_state` and `grid_levels`; what `evaluate` has still to write |
| `outbox`, `queue`, `held` | signals returned and not sent; the signal queue; the keys of P3's `_level_positions` |
| `Scan`, `Evaluate` | `_run_scanner`; one candle: hard stop, recenter, stop of the grid, or fills, targets, recycling (`Trade`) |
| `SaveLevel`, `LevelsSaved`, `SaveGrid`, `SaveRows` | `_persist_level_updates`, `_persist_grid`, commit by commit |
| `Send`, `P3Takes` | `put_nowait`; P3 opens, refuses or closes |
| `RestartP2`, `RestartP3` | `restore_from_db` at any point of an evaluation; P3 starts with synthetic keys only |

No answer of P3 reaches P2: the `on_..._confirmed` methods have no callers.
`LevelDeals` is the abstract specification: a level is *wanted*, a close is
*due*, or a close is *lost*; what is held is always one of the three.
`GridLevels` implements it under `wanted <- OpenSlots(grids), due <- Due`.

### `Supervisor` — the orchestrator and the life of its children

`main.py` and the message loops of `collector/process.py`,
`strategy/process.py` and `order/process.py`. `pc` is the place of the
orchestrator in its loop (`request`, `check`, `drain`) or in a restart or
shutdown (`join`, `reload`, `stopping`, `stopped`). `runs` maps each live child
to the configuration version it was started with. `ctl`, `events` and `found`
are the queues, which belong to the orchestrator and keep their contents when a
child dies. P1 and P2 take one message at a time, so what follows a `stop` stays
for the successor; P3 empties its queue first. A child may exit on its own
(`Crash`), on a stop, or by `terminate`/`kill` after the join timeout (`Join`).

Symbols are abstracted to two bits: P2 trades the symbols of a scan (`active`),
P1 streams them (`streaming`).

`Generations` is the abstract specification of the three processes that trade:
the dead are replaced by their kind (`Replace`), and when a generation is to
end (`Retire`) the next one starts after the last has gone (`Renew`), with a
configuration that is not older, or nothing starts (`End`); `GiveUp` is a
reload that fails. `Supervisor` implements it under `config <- pcfg` and
`runs <- Restrict(runs, Trading \cap alive)`; the phase is read from `pc`.

### `Streams` — the candle streams of P1

`ws_manager.py` and `data_collector.py`: two tasks of one event loop that share
the set of subscriptions. Every await of one lets the other run.

| TLA+ | Code |
|---|---|
| `asked`, `todo`, `starting` | the control queue; the symbol the main task is at; `DataCollector.start` not yet done |
| `active`, `subs` | `_active_symbols`, `_subscriptions` |
| `task`, `batch`, `conn` | the place of the connection task, what its snapshot has left to send, the connection (`broken`: closed, not noticed yet) |
| `wire`, `streams`, `refused` | the exchange: asked for, streaming, refused on this connection |
| `StartBase`, `Take`, `AddSymbol`, `Stop` | the main task |
| `Connect`, `Resubscribe`, `Notice` | `_connect_and_run` |
| `Ask`, `Answer`, `Break` | the orchestrator; the exchange |

A send on a broken connection raises after the subscription was noted; that
the snapshot is taken from the noted subscriptions is what `AllAsked` is about.

### `PreOrders` — live grid trading of one symbol

`order/grid_pre_order.py` entirely, with the parts of `order/process.py` that
drive it: recording fills, placing take-profits, booking them, the live branch
of the monitor, `_sync_exchange_positions` and shutdown. The exchange is
external: `orders` is its order history, `shown` the filled orders whose
executions can be queried, `net` the position.

- Every order is one unit; levels are signed indices (negative buys). Which
  prices are reached is the free choice of `Fill`.
- `Placing(l, kind, of, n)` puts `n` in 0..3 orders in the book: none when the call fails,
  two or three when `_retry`, which tries three times, repeats a call whose answer was lost. `known` says whether
  an order id came back.
- A cancellation may fail for any subset of orders (`failed`).
- `CheckFills(seen)` is one call of `check_fills` up to the order-by-order
  outcome: `seen` are the levels whose executions were found. The recording of
  the results (`Record`, `BookTp`) is step by step, because the ban's task
  (`BanCancelsEntries`, `BanCancelsTps`) runs between the awaits.
- `StopHit` adds to the position instead of closing it, as
  `LiveExecutor.close_position` does when it is called with the closing side.
- `missed`, `early` and `recorded` are history variables.

`OrderLife` is the abstract specification of what becomes of an order: not
placed yet, watched, found filled, finished or lost sight of, and never back.
`PreOrders` implements it with the orders of `_pending_orders` and `_tp_orders`
as `watched` and the fills that a poll has returned and P3 not yet worked off as
`found`. What OrderLife allows a poll to find is a fill of a watched order that is
watched no longer (`Find`), which is where a level map that held one order twice, or
a table that kept what was found, would fail.

Left out: a market order of the monitor whose answer is lost, an open-orders
query that answers late or for its first page only, and the sync's own awaits
(the position is read and the orders are cancelled in one step).

### `LiveTrading` — live trading with a position strategy

The other live mode of P3: `_handle_signal`, `execute_order`, the monitor with
its stops, targets, trailing stops and time limits, the risk rules of
`fixed_ratio.py`, `LiveExecutor`, and `RecoveryManager` when the system starts.

| TLA+ | Code |
|---|---|
| `positions`, `trades`, `tickets` | the tables; row numbers |
| `net`, `book`, `filled` | the exchange: one net amount per symbol, resting and fired conditional orders |
| `seen`, `trailing` | `_processed_fill_ids`, `_trailing_stops` (by symbol) |
| `losses`, `cooling`, `stage` | `ConsecutiveLossTracker`, `DrawdownManager` |
| `job` | the await or commit P3 is at: stop, target, record, cancel, write, delete, or the fills of a pass; or the place of recovery: sync, adopt, expire |
| `Enter` ... `InsertRow` | an entry, one exchange call at a time; each may be lost or refused |
| `OrphanCleanup`, `TimeLimit`, `TrailingStop`, `CancelOrders` | the exits by the program |
| `Monitor`, `ProcessFill` (`SkipFill`, `TakeFill`, `TakeLateFill`) | fills found in the order history and stops reached by price, then their processing one by one |
| `Closing`, `WriteTrade`, `DeleteRow` | `PositionTracker.close_position`, and the same two calls of `recovery.py`: `insert_trade` commits, then `delete_position` |
| `Fire` | the exchange executes a conditional order, at any time |
| `RestartP3`, `RestartSystem` | P3 dies anywhere and comes back; the whole system does, also in the middle of recovery |
| `SyncRow`, `AskHoldings`, `AdoptRow`, `CheckExpired`, `CloseExpired`, `StartP3` | `RecoveryManager.recover`, one query, row or commit at a time |

Whoever closes a row, the order manager, the tracker for a fill or an orphan,
or recovery, goes through the same three steps, and `then` in the job says what it
comes back to: nothing, the other fills of the pass, the rest of recovery. A kill may
come between any two of them.

`stray` records why an order has no owner any more. Left out: partial fills,
amounts other than one unit, and the second and third order that a repeated
call may leave in the book (`PreOrders` has them).

The modules with prefix `MC` instantiate these for TLC. The modules share no
variables: `PaperGrid`, `PreOrders` and `LiveTrading` are P3 in its modes,
`Supervisor` abstracts all children to their messages, `GridLevels` contains
P2 and of P3 only which levels it holds, `Streams` is P1. Their common boundaries are
restarts (`Crash`/`Start`, `RestartP2`, `RestartP3`, `RestartSystem` on one
side, `Ended`/`Started` on the other), the signal queue (`Send` of `GridLevels`
is what `Send` of `PaperGrid` allows in any order) and the subscribe command
(`Ask`).

## 3. Runs

| Run | Asks | Instance |
|---|---|---|
| `paper_grid` | Do table, level map and executor stay consistent? Is `PositionBook` implemented? | 2 symbols x 2 levels, 3 positions, queue of 1, one reset, one restart |
| `paper_restore` (violation) | Does a TP_HIT find its row after a restart? | same |
| `paper_leak` (violation) | Does a monitored stop close the paper position? | same |
| `grid_levels` | Is what P3 holds always answered for? Do the limits hold? Is `LevelDeals` implemented? | 2 symbols, grids of 2 levels, 1 open level, 1 grid, queue of 1, one restart |
| `supervisor` | Is there one generation of processes, on one configuration? Is `Generations` implemented? | one restart, crash, edit and slot; control queues of 2 |
| `supervisor_live` | Do processes, scans and streams come back? Does shutdown end? | one restart and slot, queues never full |
| `streams` | Is everything asked for, once, on the connection in use? Is a request served? | a base symbol and 2 others x 2 frames, messages of 2, 2 broken connections |
| `pre_orders` | Are fills recorded once, bans kept, lost orders settled? Is `OrderLife` implemented? | 2 levels, 3 orders, 2 retries, one restart, ban after one loss |
| `pre_orders_tp` (violation) | Does a take-profit close its own row? | 2 levels, 3 orders |
| `live_trading` | Do slots, trailing stops, trades and conditional orders follow the rows? Is `PositionBook` implemented? | 2 symbols, long, 1 slot, 2 tickets, a stop after one loss, one restart and one more in the middle of recovery |
| `live_notice` | Is a fired stop or target noticed? | 1 symbol, 2 tickets, net up to 2, a cooldown after one loss, no restart |
| `live_stop` (violation) | Does a monitored stop reduce the position? | 1 symbol, 1 ticket |

**The properties.**

- `PaperGrid`: `RowsTracked` (every row is held by exactly one level),
  `RunRowsReachable` (a row of this run is held by its own level),
  `PaperCoversRows` (before the first stop of P3, no row lacks an executor
  position, so `check_sl_tp_fills` closes nothing that is open),
  `TradesAccounted` (each closed position has a trade, a crash may add one; a
  row that a reset deleted has at most the trade of the pass under way),
  `SignalClosesOwnOrder` (a signal never takes another level's order),
  `KeepsBook` (the refinement of `PositionBook`).
- `GridLevels`: `HeldAnswered` (a level P3 holds is open in P2's grid, or its
  close is on its way, or that close was dropped or lost in a restart),
  `OpenBounded` (`max_open_levels`, whatever was kept, deferred or restored),
  `GridsBounded` (`max_symbols`, also after a restart in the middle of a hard
  stop), `KeepsDeals` (the refinement of `LevelDeals`).
- `Supervisor`: `SameConfig`, `StoppedMeansDown`, `KeepsGenerations` (the
  refinement of `Generations`); under fairness
  `DeadRestarted`, `SlotAnswered`, `ActiveStreamed`, `ShutdownCompletes`.
- `Streams`: `AllAsked` (once the connection task only receives, everything
  subscribed or active was asked for on this very connection), `AskedOnce` (and
  not twice, although the snapshot and the main task send side by side); under fairness
  `RequestServed` (a symbol asked for streams, is refused, or P1 ends).
- `PreOrders`: `RecordedOnce`, `BannedTracksNone`, `KeepsLife` (the refinement of
  `OrderLife`); under fairness `GoneSettled`.
- `LiveTrading`: `SlotsRespected` (one row per symbol, at most
  `max_concurrent_positions` opened by P3), `TrailingTracks` (between two jobs
  the trailing stops are those of the symbols with a row), `RecordedOnce`
  (without a restart a position is recorded once, although stop, target and
  price check may all report it), `StraysExplained` (a resting order has an
  owner or one of five named reasons for having none), `KeepsBook` (the
  refinement of `PositionBook`); under fairness
  `FillNoticed` (a row whose stop or target has fired does not stay).

**Why the bounds are enough.** The hazards of `PaperGrid` involve two positions
of one symbol and one bystander of another symbol: three positions, two levels,
two symbols. A longer queue only adds signals that one batch judges by the same
snapshot; one signal per batch with the monitor in between already gives every
order of signals and passes, and the proofs hold for any capacity.
One restart distinguishes rows of this run from older ones; a reset comes
before it, as it does in the code, which asks for a restart after it.
`grid_levels` needs a second symbol that finds no room for its grid, a second level that finds no
room to open, a queue that is full with one signal, and one restart of either
process: what P2 believes then differs from what P3 holds in every way the
code allows. `supervisor` needs one crash inside one
restart and a control queue that two messages fill. `streams` needs two symbols, so
that one can be added while the other's subscription is in any stage, more pairs than fit
a message, and a second break during the resubscription after the first.
`pre_orders` needs two entries and a take-profit of one of them; two retries make "given up" take two
polls. `live_trading` needs a second ticket, to meet what the first has left
behind (a trailing stop, a resting order, a filled order), and one slot for
two symbols; the second restart is spent only in the middle of the recovery that the
first has begun (the proofs hold for any number of both). The drawdown stage stays 0 in
the runs, where it would only shut out entries (`HaltLasts` speaks of every stage), and a
cooldown occurs in `live_notice` only. Short positions mirror long ones; `live_notice` and `live_stop` let the net amount grow to 2, so that the
order that enlarges a position is executed. Every behaviour is finite (positions, crashes, orders and requests
are bounded by constants named `Max...`). `paper_grid` and `grid_levels` check
deadlock: a signal that does nothing and a candle keep them moving. The other
configurations switch the check off, because `Supervisor` and `Streams` really stop and
`PreOrders` and `LiveTrading` come to rest when their orders are used up.

**Assumed of the database.** Writes succeed, in every module except for `PollFails` of
`PreOrders` (the recording of a poll's fills raises and the rest is dropped). What a failing
write would do is therefore not shown. In `Streams`: `insert_candles_bulk`
(`data_collector.py:443`) is outside the `try` of `_load_history`; if it
raised, `collector/process.py:211` would log it and the subscribe request would be
lost before `subscribe_many`, so `RequestServed` holds under this assumption. In
`LiveTrading` and `PaperGrid`: if `delete_position` raised after `insert_trade` in a
pass of the monitor, P3 would end (`_monitor_positions` is called without a `try`),
which is the kill between the two commits that both modules have; in a signal it is
caught (`process.py:500`, `644`) and the row would stay with its trade while P3 goes on,
which they do not have. A failing `update_daily_performance` comes after both commits.
The GUI's reset, recovery and the saving of grids are assumed to write as well.

**Fairness.** `Supervisor` assumes weak fairness of the orchestrator's loop, of
each child's loop and of the clock that ends a cooldown: each is a `while` loop
with a sleep and a bounded body. Crashes, requests, edits, slots and signals are
not fair. `ActiveStreamed` does not hold if P1 may die by itself (the watchdog
sends its successor no subscription), so `supervisor_live` lets children die by
stops and kills only. `Streams`: both tasks of P1 go on (a backoff ends, a
history that cannot be loaded is given up), the command queue is in order, so
no command is passed over for ever (strong fairness of `Take`), and the
exchange answers. `LiveTrading`: P3 ends what it has begun, and its loop comes
back to the monitor every few seconds whatever else it does, hence strong fairness of
`Monitor`; recovery ends what it has begun, since its queries answer
or raise (`live_notice` has no restart, so this part is idle there). `PreOrders` assumes weak fairness of P3's polling, which
runs every few seconds. The exchange is under no fairness: an order may
stay open for ever, and its executions may never appear.

Every property of a passing run has a mutant: a plausible mistake in one mapped
definition (an operator written just before it) under which TLC reports that
property violated.

## 4. What the violations show

- `paper_leak`: `process.py:940` pops the paper position by symbol, positions are stored by order id.
- `paper_restore`: `grid_manager.py:99` restores rows under indices -100, -101, ... that no signal carries.
- `pre_orders_tp`: `process.py:340` closes the newest row of the symbol, whichever level's take-profit was filled.
- `live_stop`: `process.py:873` passes the closing side to `close_position`,
  which turns it round again (`live_executor.py:464`): the position grows.
  Outside grid mode the row stays as well, because `_pre_order_manager` is
  missing, and the next pass repeats it.

### Observations

Behaviours met while modelling. The models contain the ones marked (m); no
document of the repository says otherwise, or no property was worth a run.

P2 and the orchestrator:

- `rescan_delay_sec` is read from the configuration and used nowhere
  (`strategy/process.py:680`): a failed scan is not repeated (m).
- After a restart of P2 the set of traded symbols is empty (m), and the scanner
  excludes symbols that have positions.
- `fill_time` is in milliseconds and compared with seconds
  (`grid_bias.py:213`), so stale fills are never reverted (m), and
  `min_hold_seconds` is compared with milliseconds as well. If the revert did
  fire, `KeepsDeals` would fail: that is its mutant.
- A restored level has no stop price; `_persist_grid` is several commits (m).
- The market bias compares "bullish"/"bearish" with "bull"/"bear" and is dead.
- P1: a refused subscription is only logged (m), `on_reconnect_callback` is
  never given, the `unsubscribe` command has no sender (m).

P3:

- In live grid mode FILL and TP_HIT are skipped (`process.py:484`), so the level
  map stays empty and the CLOSE_ALL of a grid or account stop closes nothing;
  pre-orders and their rows stay.
- The retry count of a level survives its order (`grid_pre_order.py:394`), so
  the next order can be given up after fewer polls (m).
- A filled order of an earlier position of the symbol closes the present row
  when it has not been processed in this run of P3 (m). A target reached by price closes
  only the row, not the position (m).
- One fill may be appended twice, and the second one still counts for the loss tracker (m).
- `execute_order` returns None for a rejected order and the caller subscripts
  it: P3 ends (m, as a restart). An error other than a refusal ends a close
  and leaves the row (m).
- A CLOSE signal that finds nothing on the exchange leaves the conditional orders in the book (m).
- A crash between `insert_trade` and `delete_position` records a position
  twice (m). Recovery records one that is both gone and expired twice, deletes expired rows without
  closing them, and may add rows beyond `max_concurrent_positions` (m).
- `drawdown_stage_{mode}` is neither written nor read by P3: a halt is left by a
  restart (m), and `POST /api/drawdown/resume` has no effect. `reset_daily` has no caller.
- The paper reset "clears all trades"; a pass under way writes its trades afterwards (m).

## 5. Proofs

TLAPS proves these for all constants that satisfy the named assumptions
(`LevelsAssumption`, `ActsAssumption`, `BoundsAssumption` of `PaperGrid`;
`SupervisorAssumption`; `LevelsAssumption`, `CountsAssumption`,
`BoundsAssumption` of `PreOrders`; `GridAssumption`; `LiveAssumption`;
`StreamsAssumption`), whatever the number of symbols, levels,
messages, orders, retries and restarts.

**`PaperGrid_proofs`.** `Spec => []IInv`, and from it `TypeOK`, `RowsTracked`,
`RunRowsReachable`, `TradesAccounted`, `PaperCoversRows` and the action property
`SignalClosesOwnOrder`. `IInv` adds three facts to the properties:

- `HistoryFresh`: a position not opened yet has no trades.
- `RunOrders`: the level of a row of this run knows the row's order. It is what
  makes `SignalClosesOwnOrder` inductive: `levelOrd` is left behind by a stale
  close, and only this says that it is overwritten before it is used.
- `SignalKeysAreNew`: a key that a signal can carry (above -100) holds no row of
  an earlier run, so a restored row and a new one never share a key.

The key lemma is `SyntheticKeyInjective`: numbering the rows of a symbol by how
many are newer gives different rows different keys (a cardinality argument on
finite sets). `PaperCoversRows` is inductive together with `OrdersAgree` (an
order and a row with one number belong to one symbol): a signal takes one
order for its row, by `SignalClosesOwnOrder`, and `n` closes "by symbol" take
at most `n` orders, because the orders taken have different numbers of
predecessors (`FirstOnesAreFew`, by the pigeonhole principle). `ImplementsBook` maps
every step to a step of `PositionBook`, a pass of the monitor to the close of all the rows it
closes, and `BookIsKept` inherits the promise from `PositionBook_proofs`. The step of `IInv` is split by part (types, level map, history), each
with one case per action.

**`PositionBook_proofs`.** `Spec => []Booked` for the abstract tables
(`BooksAreKept`). `Booked` needs `Written`, that the position being written has
a trade, for its bounds to survive `Remove`, and `Most`, that a position which recovery
may still record anew has room for one trade more (a reading is spent by its `Repeat`). Both modes of P3 instantiate this
module and take the theorem over through their refinement, so that the argument about
counts is made once.

**`Supervisor_proofs`.** `Spec => []IInv`, and from it `TypeOK`, `SameConfig`
and `StoppedMeansDown`. The strengthening is `JoinedDown`: the children already
joined are down, and before a reload all are. Without it a reload could
start a second generation next to a survivor. `ImplementsGenerations` uses the
invariant before and after a step: `JoinedDown` gives `Renew` and `GiveUp` their
guard, `StoppedMeansDown` gives `End` its effect, and any other end of children is a
`Lose` of those among them that trade. `GenerationsAreOne` states the promise
`OneGeneration` for the orchestrator.

**`PreOrders_proofs`.** `Spec => []IInv`, and from it `TypeOK`, `RecordedOnce` and
`BannedTracksNone`. First every step is shown to keep the orders
(`StepKeepsOrders`: none is renamed or taken back, a filled one stays filled);
the parts of the type invariant follow one by one. The strengthening follows an
entry through its life:

- `PendingFresh`: an order that waits in a level is an entry of that very level, without
  a row and not about to get one. That the level is the order's own makes
  `_pending_orders` injective, so a fill that is found waits nowhere else.
- `TodoFresh`: what is about to be recorded is a filled entry without a row;
  it makes the record the first one.
- `ShownFilled` and `UnplacedFresh`: executions exist for filled orders only, and an
  order that is not placed yet has no rows.

`BannedTracksNone` is inductive by itself: a poll needs a waiting order, and placing
one needs the symbol not to be banned.

`ImplementsLife` needs two facts more, inductive beside `IInv` and collected in
`LifeInv`: `TpsAreTps`, that `_tp_orders` holds take-profits only, so that no order is
watched in both maps, and `OneBatch`, that fills of entries and of take-profits are
never worked off together, so that finishing one takes it out of `found`.
`PendingFresh` gives the rest: an order that is found waits in no other level.
`OrdersAreInOnePlace` and `OrdersGoOnward` then follow from the steps of
`OrderLife` alone.

**`GridLevels_proofs` and `LevelDeals_proofs`.** `Spec => []IInv`, and from it
`TypeOK`, `HeldAnswered`, `OpenBounded` and `GridsBounded`; then
`Spec => KeepsDeals`, action by action, with the invariant as a hypothesis of
every step. `AlwaysAnswered` proves the promise on the abstract level. The strengthening
says why a level is answered for at each station of a signal:

- `Synced`: what is saved is what memory has, unless it is being saved.
- `SavedAnswered`: a level saved as open is open, or its close is still in the
  outbox. So a restart of P2 brings back nothing that was given up before, and
  what it forgets goes to `lost`.
- `OutboxAnswered` and `QueueAnswered`: the level of a FILL that P3 has not taken yet is
  open, lost, or closed by a signal *behind* the FILL; the order in the queue
  matters, since a close that arrives first would leave the level held for ever.
- `LevelsBounded` and `SymbolsBounded` count over memory and database together, since a
  restart exchanges one for the other in the middle of a save.

**`LiveTrading_proofs`.** `Spec => []IInv`, and from it `TypeOK`,
`SlotsRespected`, `TrailingTracks`, `RecordedOnce` and `StraysExplained`. The parts:
`RowsDistinct` and `TicketsUsed` (a row is known by its ticket and by its
symbol, and tickets are used once), `JobKnown` (the position being opened has
no row yet and room for one, the one P3 closes has its row, a row found with a
fill is there until it is closed), `JobTrades` (a row whose deletion is due has its trade,
a position being entered has none), `SlotsKept`, `TrailingIs` (the trailing
stops are those of the rows, also in the middle of a job, and none before P3 has
started), `Recorded` (without a restart a row is recorded only just before it is deleted),
`OrdersOwned` (an order that is no stray is in the books of its row until that is closed).
`RecoveryKnown` is about recovery alone: what it has read is in the table or has left with
its trade; what it means to adopt has no row; and what it closes for its age it
closes once. `ImplementsBook` rests on it: a step of recovery that records a row
is a `Write` when the row is there and a `Repeat` when it is not, and a death in
between is a `Restart` that reads what is open then.
`BookIsKept` inherits the promise of `PositionBook`. `HaltLasts` proves the action
property `HaltHolds`: what the comment "Stage 3 never auto-recovers" says holds as long
as P3 runs, and no position gets a number meanwhile. No run has it as a property;
the theorem needs only `TypeOK`.

**`Streams_proofs`.** `Spec => []IInv`, and from it `TypeOK` and `AllAsked`; then
`AskedOnce`, inductive beside `IInv` (the main task may send only what was not
subscribed, and all that the snapshot holds or has sent was). The
parts: `ActiveSubscribed` (what is active was noted), `AskedOrBatched` (on an
open connection a noted pair was asked for or is in the rest of the snapshot), and that a
task that receives has an empty rest.

**Only model-checked.** Every liveness property: liveness under fairness
and `ENABLED` are out of the prover's reach. The four violated properties have their
counterexamples. Also out of reach are induction over data and
`RECURSIVE` operators; no module here uses one.

## 6. Plan

Modules in the order in which they matter, with what is done:

1. `PaperGrid` over `PositionBook` — done: modelled with the reset of the GUI, checked, every
   safety property and the refinement proved.
2. `Supervisor` over `Generations` — done: modelled, checked, safety and the refinement proved.
3. `PreOrders` over `OrderLife` — done: modelled, checked, safety and the refinement proved.
4. `GridLevels` over `LevelDeals` — done: modelled, checked, safety and the
   refinement proved.
5. `LiveTrading` over `PositionBook` — done: the risk rules, live execution and recovery; safety
   and the refinement proved.
6. `Streams` — done: modelled, checked, safety proved.
7. `GridTrading`, the composition of `GridLevels` with `PaperGrid` instead of
   its two-line P3: the levels both sides disagree on after a monitor's close.
   Until then `PaperGrid` takes signals in any order, which covers those P2 sends.
8. Paper mode with a position strategy: `LiveTrading` with `PaperExecutor` as the exchange.
9. The parameter tuner, and the funding times of `funding_simulator.py` against a
   reference definition over bounded inputs.

## 7. Not modelled, and why

- Indicators, thresholds of the position strategies, bias values, scanner
  scoring, slippage guard, analytics: numeric code without a protocol. They
  choose *when* a signal occurs, which the models leave free.
- Configuration, logging, templates, GUI views: no trading state.
- `LivePositionLedger`, limit orders and partial closes of `LiveExecutor`, the
  live branch of `GridPositionManager`: no reachable code uses them in a live
  run (in live grid mode the pre-order manager takes every FILL and TP_HIT).
- Amounts: sizes, margins, fees and balances are free choices or one unit, so
  what depends on sums (daily loss limit, margin) is left free.
- Market data itself, the history download and P2's candle windows.
