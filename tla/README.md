# AstraQuant: verification of the trading runtime

TLA+ models of the control logic of this repository, the TLC runs that check
them on small instances, and the theorems TLAPS proves about them. Every
definition is translated from the Python source; `PROJECT.json` maps each one to
its lines, and lists runs, mutants, findings, hazards and theorems.

How to run: `tlc -config Reservation.cfg MCRiskReservation.tla` (each `.cfg`
names its module in section 5), `tlapm EntryCycleProofs.tla` (and `UnitSumsProofs`,
`OrderPlanProofs`, `PositionProtectionProofs`, `TradeLedgerProofs`, `BrainCycleProofs`,
`JobSchedulerProofs`, `GatewayProofs`).

## 1. The system

AstraQuant trades perpetual swaps on OKX. Three layers share one data directory,
SQLite files and the exchange account; they talk through files, tables, process
start and HTTP, never through memory.

| layer | what it does |
| --- | --- |
| `astra_gateway/` | one worker process: job scheduler (a subprocess per job), notification queue, heartbeat; a supervisor and a watchdog that keep it alive |
| `scripts/` | the jobs: the 15-minute trading cycle (`ai_factor_trader.py` over `scripts/trader/`), the AI brain, ledger synchronisation, news and factors, evolution, backups |
| `astra_backend/` | FastAPI control plane: configuration, dashboards, manual close, LLM access, and the execution kernels the trader calls (reservation ledger, circuit breaker, gates, sizing) |

## 2. Inventory

### 2.1 Modelled in this project

**Risk reservation ledger** (`astra_backend/risk_reservation.py`).
*State*: the SQLite table `risk_reservations`, a row per (account key, intent)
with `state`, `amount_usdt`, `released`; the cap, re-read from configuration each
time the ledger is opened. *Operations*: `reserve` (insert, resize, advance,
refuse), `release`, `confirm`, `recovery`. *Called by* the trading cycle only,
before an order, after its answer, and by the reconciliation. *Hard*: the cap
moves under the rows; a retried intent meets its own terminal row; after a restart
nobody knows which rows are still needed. *Correct when* the units held by an
account never grow past the cap in force, a released row stays released, the two
columns agree, and recovery never frees what may still be at risk.

**Trading cycle: entry orders** (`scripts/ai_factor_trader.py`,
`scripts/trader/{order_lifecycle, cycle_stages, reservation_reconcile,
routing_policy, order_submit, order_intent, entry_execution, ledger_writer}.py`).
*State*: the exchange's orders and positions, the open-intent file, the tracker
file, ledger rows, and the variables of the running cycle (`entries_blocked`,
`kept_ord_ids`, the two views read, the slots counted in memory). *Operations*, in
the order of a cycle: attribute open orders to positions and intents and cancel
the rest; cancel stale orders; session gate; read positions; read open orders;
hand back budget nobody uses; manage positions; scan for entries: reserve, submit,
record the intent, confirm, count a scale-in. *Interacts* with the ledger and the
exchange by calls that may fail or lose their answer, with the next cycle only
through files. *Hard*: the exchange moves between any two reads; the process may be
killed at any point (the scheduler's time-out does so); a file may be unreadable; an
answer may be lost. *Correct when* every order the trader knows of has budget, both
sides of an instrument are never opened, the slots are respected, nobody cancels
their own young order, and what is abandoned is cleaned up in the end.

**Gateway job scheduler and worker** (`astra_gateway/scheduler.py`, `worker.py`,
tables `job_runs` and `runtime_state` in `store.py`).
*State*: launch marks on disk, three dictionaries in memory, a thread pool, rows of
`job_runs`. *Operations*: take the lock, two recoveries, baseline, tick (reap,
retry, launch, mark), execute, drain, be killed. *Interacts* with the scripts it
starts, the supervisor that starts it, and the trader's own locks. *Hard*: launches
are marked after they were handed to the pool; a run may outlast its slot; a script
may outlive its worker; memory is lost on restart while marks stay. *Correct when*
no slot is launched more than twice, nothing that succeeded is repeated, nothing
overlaps, every slot is served and no row stays open.

**Trader single-cycle locks** (`single_trader_cycle`, `_slot_guard_should_skip`).
*State*: the lock and the slot file. Modelled inside `JobScheduler`, where the runs
that compete for them are.

**Notification queue** (`publish` ... `prune`, `replay_dead` in `store.py`, the
delivery turn of `worker.py`, `channels.py`).
*State*: tables `events` and `deliveries`. *Operations*: publish, claim with a
lease, send, complete, fail with attempts, recover, prune, replay. *Hard*: killed
between any two of these, an answer lost after the channel took the message, the
database refusing the write. *Correct when* nothing is marked done that was not
taken, repeats have a cause, nothing is given up early or pruned unfinished, and
every delivery ends.

**Exchange REST client** (`scripts/okx_rest.py`): modelled as its callers see it, a
call that succeeds, fails without effect, or takes effect and loses its answer.

**One order between decision and exchange** (`scripts/trader/{leverage, sizing, gates,
pyramiding, order_intent, brackets, order_submit}.py`, `scripts/order_risk.py`,
`astra_backend/execution/sizing.py`).
*State*: none of its own; a decision becomes a size, a margin, a quote and an order.
*Hard*: every step rounds, clamps or replaces what the step before computed, on
prices read at another moment. *Correct when* the order costs no more than was planned
and gated, and a market order is protected at the price it fills at.

**Position protection and exits** (`scripts/trader/{position_exit, scale_out,
cloud_protection, legs, tp_sync, tp1, protection, position_mgmt}.py`).
*State*: a tracker per position (`trailingStopPx`, `scale_out_phase`, targets, pending
sale, leg identifiers) in memory and in a file; the sized legs at the exchange.
*Operations* of a cycle: read, first profit by order or by leg, hard stop, full
coverage, two legs for two targets, time stop, trailing, close, save; then the AI's
CLOSE_MARKET, UPDATE_SL and UPDATE_TP, and save again. *Hard*: tracker and legs are two
copies of one fact, written one after the other with failures ignored; legs execute
while the cycle thinks; a sale is read back in another cycle than it was sent in.
*Correct when* a position is never left bare unnoticed, the stop holds although no leg
followed it, and does not fall.

**AI brain and council** (`scripts/ai_brain_trader.py`, `scripts/brain/`,
`astra_backend/council/`, the time limits of `astra_backend/llm/call.py`).
*State*: the instruction file `ai_position_management.json`, overwritten by every
cycle and by manual runs; the deadline of a deliberation. *Operations*: convene a
committee or ask one model, two rounds, arbitration, keep what concerns the positions
shown, publish, re-read and carry out. *Hard*: minutes pass between what the model saw
and what is done; the lock meant to keep runs apart guards something else. *Correct
when* nothing older than the cycle is obeyed, nothing is done about an instrument the
model was not asked about, and the arbitrator gets his time.

**Trade ledger** (`scripts/sync_full_ledger.py`, `scripts/ledger/`,
`scripts/trader/ledger_writer.py`, the loss cap in
`astra_backend/execution/circuit_breaker.py` and `scripts/trader/circuit_guard.py`).
*State*: `trading_ledger.json`, `ledger_sync_status.json`, the set of trades already
announced. *Operations*: fetch history, fetch positions, merge, write, status,
announce; the trader appends a row of its own. *Hard*: four callers run it at the same
time without a lock on the ledger, each killed after 60 s, and the gate that stops
trading reads the result. *Correct when* old losses reach the gate or close it, a trade is
announced once, and its end is announced.

**Gateway supervision** (`astra_gateway/supervisor.py`, `scripts/astra_watchdog.sh`,
`scripts/gateway_liveness.py`, lock, PID file and heartbeat of `worker.py`).
*State*: PID file, lock, heartbeat, the child the supervisor started, the watchdog's
count of failures. *Operations*: look, unlink, probe, adopt, spawn; probe, SIGTERM,
SIGKILL, replace; start and stop of the backend. *Hard*: three parties start and kill
workers on evidence of different age. *Correct when* a worker always schedules again and
a good one is not killed.

### 2.2 Not modelled

API routers, dashboards, factors and news, evolution reports, exchange metadata,
backtest, backups, analysis archive, admin login and the Vue panel: pure data
transformation, I/O, or request handlers over the stores above. Of the components with
some control logic of their own:

| component | why not |
| --- | --- |
| breaker file and sentinel (`circuit_breaker.py`) | one writer at a time; the harvester's overwriting of a freeze (`news_sentiment_harvester.py:506-531`) is a single lost update |
| policy snapshot and restore (`astra_backend/policy/`) | the operator's configuration files; no trading state |
| manual close (`close_intent.py`) | at the exchange it is a close like any other (`ClosePosition`); its file only words the message |
| trading session, cooldowns, indicators | functions of clock and prices without state between cycles, pinned value by value by the unit tests |
| LLM providers and stores (`astra_backend/llm/`) | a sequential chain of network calls; only its time limits reach the rest of the system |

`PROJECT.json` lists every component with what is left out of it. The modelled code is
less than a tenth of the repository: most of its lines compute factors, build prompts
and pages, and format messages, where there is no state for a model checker to
explore, and the definitions here stand for the control code at the exact lines they
translate, not for the files around it.

## 3. Plan

### 3.1 Modules, in order

| order | module | what it is |
| --- | --- | --- |
| 1 | `UnitSums` | sums of natural amounts as cardinalities, so that they can be reasoned about |
| 2 | `PortfolioBudget` | abstract specification: a claim on the budget is taken once, resized within the cap, given back for good |
| 3 | `RiskReservation` | the SQLite ledger of reservations; implements `PortfolioBudget` |
| 4 | `EntryCycle` | the trading cycle over the ledger, the exchange and two files; EXTENDS `RiskReservation` and refines `LedgerSpec` |
| 5 | `JobScheduler` | gateway worker, scheduler, thread pool, trader locks |
| 6 | `DeliveryQueue` | notification queue |
| 7 | `PositionProtection` | tracker and protective legs of one position over its life |
| 8 | `WorkerSupervision` | supervisor, watchdog, PID file, lock and heartbeat; justifies what `JobScheduler` assumes of `Start` |
| 9 | `TradeLedger` | concurrent rebuilds of the trade ledger, its announcements and the loss cap that reads it |
| 10 | `CouncilDeliberation`, `BrainCycle` | the time of the council as operators, and the cycles that ask it and carry out its instructions |
| 11 | `OrderPlan` | what one order becomes between decision and exchange |

`MC*` modules give the constants of a run, `*Proofs` modules hold the theorems.

### 3.2 Theorems still worth proving

Every invariant and every action property of the runs has its theorem (section 7). What
could be added:

1. `GateSeesOldLosses` without the exception of overwritten rows, under the condition that
   one process writes the ledger at a time: what a lock around the rebuild would buy.
2. An abstract specification of a protected position (its stop and its size) that
   `PositionProtection` implements, instead of the four separate properties.
3. The same for the queue: each channel takes each delivery at least once, or refuses it.

## 4. Modules and code

Every module starts with what it stands for; `PROJECT.json` has the lines. A
definition whose comment starts with "Slip" is a plausible mistake in the code
next to it: it is used by no specification, and the mutant that puts it in the
place of the real definition breaks the property named in `PROJECT.json`.

### 4.1 `RiskReservation`, `PortfolioBudget`

`rows` is the table, `limit` the cap the next manager is built with (0 is "no
cap"), `reply` what the last call answered. Every public method is one
`BEGIN IMMEDIATE` transaction under a lock, so each is one action. `reserve()` is
the disjunction of its four branches (`RefuseNewTerminal`, `InsertRow`,
`KeepTerminal`, `AdvanceRow`); `release()` and `confirm()` call it with the amount 0,
as in the code. `Recovery` marks rows as `pending_cleanup`, which is an occupying
state although it is not in `OCCUPYING_STATES`. `ChangeLimit` is the operator saving
another budget: `reservation_manager()` re-reads it each time. Amounts are whole units
(the code: floats), the account key is opaque, and `SumOver` counts units because a
cardinality, unlike a fold, can be reasoned about by the provers.

`PortfolioBudget` has neither rows nor answers; the refinement mapping makes an
absent row a new claim, an unreleased row a held one, a released row a claim that is
gone.

### 4.2 `EntryCycle`

The state of the exchange is `order` (one order per decision; a `partial` one is
waiting and already a position). Files: `tracker`, `intents`, with `broken` for a file
that exists and cannot be read. `pc` and `locals` are the running process. A decision is
a number, its time stamp, which also orders decisions; it names intent, row and
order, as the intent identifier does in `build_order_intent`.

| action | code |
| --- | --- |
| `StartCycle`, `ReconcileOne`, `ReconcileDone` | `reconcile_pending_orders`: read everything once, keep or cancel one order after the other, give up on the first failure |
| `CleanRead`, `CleanOne`, `CleanDone` | `clean_stale_open_orders`; a failure aborts the cycle |
| `SessionOff` | `execute_portfolio` returns outside the session |
| `ReadPositions`, `ReadPending` | `fetch_positions_and_reconcile`: two reads, one after the other |
| `ReturnBudget`, `LedgerDone` | `reconcile_reservation_ledger`, row by row |
| `ManagePositions` | position management and tracker pruning; which positions are closed is a free choice |
| `Submit` | entry scan, `route_and_reserve_signal` |
| `RejectOrder`, `LoseReply`, `PlaceOrder` | `submit_protected_limit_order` up to `place_order` and its three outcomes |
| `ReleaseFailed`, `RecordIntent`, `ConfirmOrder`, `CountScaleIn` | what follows the outcome, in the order of the code |
| `Fill`, `ClosePosition`, `Elapse`, `Damage`, `Repair`, `Crash` | exchange, clock, disk, operator, operating system |
| `CancelOutside` | the brain's `execute_brain_pending_cancels`, or the operator, cancels an order at any moment |
| `ChangeBudget` | the operator saves another cap; `reservation_manager()` reads it for every call |

Abstractions, all of them deliberate:

* Ages are the classes cut by the deadlines of the code (30 min stale, 2 h
  reconciliation, 6 h intent), older decisions pass a deadline first, and ages stand
  still during a cycle, which is short against all three.
* One account key: the environment is frozen for a process. One cycle at a time:
  `TRADER_LOCK_FILE`, which `JobScheduler` models. The cap is asked for at every call, but
  of an environment the process fills from `.env` when it starts, so `ChangeBudget` happens
  between cycles and the next cycle is the first to see it.
* A decision is used once (`Fresh`): the time stamp is part of the intent
  identifier. A decision that is seen again finds its own row and stops there, which
  is a cycle that does not submit.
* The gross-exposure check before `reserve()` compares the same sum with the same cap
  and is merged with the check inside it.
* A failed tracker save is modelled where it matters, for the scale-in count. What
  the AI or a stop closes inside a cycle is `ManagePositions`.
* `lost`, `raced` and `uncounted` are history: what the trader cannot know because an
  answer was lost, an order became a position that neither of the two reads of a cycle
  showed (`MayEscape`: an order that stays visible, or whose position was seen, is not
  among them), or the process died between an acceptance and the saved count. Properties of
  what the trader "knows" exclude the first two; section 9 says what happens then. `SlotsRespected` leaves out every
  instrument on which an order once escaped the trader's notice (`Surprising`), not only
  the order: the position it makes takes a slot nobody counted, is seen as any other in
  the next cycle, and may then be scaled in by an order the trader knows very well. Three
  decisions, a lost answer and one slot are enough; the proof found it, two decisions do
  not show it.

* `BudgetReturns` makes one exception: while the cap is below what the account holds,
  `release()` raises like every other call (`risk_reservation.py:167-173`), the
  reconciliation prints a warning and tries again in the next cycle
  (`reservation_reconcile.py:195`). The run lowers the cap and raises it again.

### 4.3 `JobScheduler`

`last` is `runtime_state`, `run` every launch with its row in `job_runs`, `running` and
the three retry dictionaries are the fields of `GatewayScheduler`. A tick is
`BeginTick` (reap), then for each job `SkipJob`, or `LaunchRetry`/`LaunchDue` followed
by `WriteDown` (the pool gets the run before the mark is written), then `EndTick`. Runs
are `BeginRun`, `RunEnds`, `RunFails`, `RunUnrecorded`; for the trading job `EnterCycle`
and `SkipCycle` are `single_trader_cycle`. `Kill` may leave scripts behind
(`orphan`); `Stop` drains the pool, during which the supervisor sees a live PID and
starts nobody.

Time is counted in half minutes, the width of the launch window of staggered
jobs. Starting up and a tick take no time on that scale; a tick may come late by any
number of units, since nothing forces `BeginTick` before the next `Clock`. Intervals are
shortened (trading 5, news 4 with offset 1, the daily job in minute 3), keeping what
matters: a run may take longer than an interval, a retry fits into a slot. Runs before
`StartTime` are summed up as launched at 0 or never. The pool may pick any queued run.
The last worker of a behaviour is not killed. The "elapsed" kind of job is in the model
and in no run: three jobs are more than TLC can do here; the theorems cover it.

Two simplifications concern who runs at the same time. A new worker begins when the old
one is gone, although `WorkerSupervision` shows a draining worker, which launches nothing
any more, next to a new one: what its last runs still write into `job_runs` while the
new worker recovers is left out. And the trading job is started by the scheduler only: runs
of the trader by hand, with or without `ASTRA_SESSION_FORCE`, are not modelled, though the lock they
would compete for is.

### 4.4 `DeliveryQueue`

`status`, `attempts` and `due` are columns of `deliveries` (`next_attempt_at` as one bit),
`turn` and `cur` the worker between claim and result. `Publish` is one transaction with
all enabled channels. `received`, `excused` and `refusals` are history: what the channel
saw, how many faults may explain a repetition, how many refusals were written down.
`CompleteFails` sends the worker into its own error path, as in `run()`.

### 4.5 `PositionProtection`

`ex` is the exchange's record of one long position and its live legs, `disk` the tracker
file, `trk` the tracker in memory, `seen` and `mkt` size and price as the cycle read them,
`pc` the place in the cycle.

| action | code |
| --- | --- |
| `ReadPosition`, `ReadPrice` | positions first, then prices; without a price the position is left to its legs |
| `NoScaleOut`, `SellFirstPart`, `ResumeSale`, `ConfirmSale` | first profit by a market order; what was sent is read back, in a later cycle if need be |
| `ClearLegs`, `Reprotect` | after a sale: all legs cancelled, the rest protected at break-even or better |
| `FinalizeLegFill`, `PushStops` | the exchange has executed the first leg: cover the rest, move every stop to break-even |
| `HardStop`, `EnsureProtection` | adopt, advance the peak, sell at the stop; restore coverage or close |
| `RetryStale`, `KeepLegs`, `PlaceLegs`, `SwapLegs` | `sync_position_legs`: two new legs before the old ones go |
| `TimeStop`, `Trail`, `ClosePosition`, `SaveTracker` | the rest of `manage_position_tp_and_trailing` and the save |
| `NoInstruction`, `AiClose`, `AiStop`, `AiTarget` | instructions of the AI on the position, read again |
| `Market`, `Crash` | the price jumps to any level and executes what it reaches; the process dies |

Prices are five levels, named by what happens there (the ATR multiples of the code),
sizes are lots. The levels stand still over the life of a position, while the code takes
the ATR anew in every cycle (`position_exit.py:101`); the nearer first tier (0.9 ATR) and the shorter
time stop of positions in a CHOP market (`position_exit.py:280-308`) are left out, and so
are targets moved against the position with `ASTRA_TP_ALLOW_ADVERSE=1`
(`position_mgmt.py:218-229`). `Settled` executes legs as reduce-only orders, `Repair` is
`ensure_cloud_position_protection` with all its outcomes. A failing call may or may
not have had its effect. Leg identifiers are any positive numbers; a new leg gets the lowest
that neither a live leg nor a tracker nor the running cycle mentions, which keeps TLC's
state space finite and is as good as a fresh one, since nobody can tell them apart. Refreshing the position and amending in the AI's step are one action. Left out: the short
side (mirror image), scale-ins of the position, several positions, a tracker file that
cannot be read, evidence, ledger rows and messages of a close.

### 4.6 `WorkerSupervision`

`stage` and `procs` are the worker processes, `lock`, `pidFile`, `heartbeat` the three files,
`sup`/`owned` the supervisor thread in one pass of `ensure_worker`, `watchdog`/`fails`/`target`
the gateway watchdog. A worker is `TakeLock`, `Register`, `EnterLoop`, `LeaveLoop`, `Drained`; the
supervisor `ReadPidFile`, `UnlinkPidFile`, `LookAtChild`, `ProbeLock`, `ReleaseProbe`, `SpawnChild`,
`Adopt`; the watchdog `ProbeHealth`, `SendTerm`, `SendKill`, `SpawnReplacement`; `StopBackend` to
`StartBackend` are `stop_supervisor` and the backend watchdog. The probe of the lock takes the
lock, as the code does, so that a worker that starts in this instant leaves. SIGTERM
kills a worker that has not installed its handler yet. A replacement inherits the
descriptor of the watchdog's own lock. Time: a pass of the supervisor is short against
the 30 s between two probes, and a worker starts up within one of them. Left out: the
watchdog's trap, which kills its worker when it is stopped itself, and its PAUSE file.

### 4.7 `TradeLedger`

`venue` is the exchange, `ledger` the file (how much of each trade is sold, and the rows of
open positions), `sync` every process of `sync_full_ledger.py` with the book it will write,
`recorder` the trader inside `record_trade`. A sync is `Start` (read the ledger),
`FetchHistory`, `FetchPositions`, `WriteLedger`, `WriteSidecar`, then, if something is newly
closed, `NotifyStart` (under the lock), `Publish` or `PublishFails` per card, `SaveNotified`. A
refused card does not end the loop: `_publish` swallows the exception (`qq_notifier.py:14-19`),
nobody looks at its answer, and the id is saved with the others. `Killed` ends a sync at any
step. `MayOpen` is the loss part of `is_circuit_breaker_active`. OKX keeps one
record per position and rewrites it when the rest is sold, hence the levels nothing, part
and all. `cards`, `unsaved`, `shown`, `aborted` and `dropped` (the publisher refused the card) are
history, bounded by the faults and
processes of a run only. Left out: `reset_time`,
truncated histories, rows of other instruments, a missing sidecar, and a missing ledger
file, over which the loss cap is not asked at all (`circuit_guard.py:121`).

### 4.8 `CouncilDeliberation`, `BrainCycle`

`CouncilDeliberation` has no state: the budgets of the rounds (in tenths of a second, with
the code's own constants), the moments a request, a seat and a round may end, and the votes
that count as a dispute. `BrainCycle` uses them: `Convene`/`AskAlone`, `HearProposals`,
`HearCritiques`, `Arbitrate`, `DecideAlone`, `Digest`, `Publish`, `Record`, then in the trading
cycle `ReadInstructions`, `CarryOut`, `Manage`, `PlaceEntries`. `file` is numbered to say which
publication it is; `began` and `executed` are history. A manual run sees no position and
executes nothing, but publishes. The trader lock keeps trading cycles apart, nothing
keeps a manual run away from them: the brain's own lock decorates
`_pending_order_margin_usdt` (`ai_brain_trader.py:657`), not the cycle. The model answers
anything. The instruction file and the decision file beside it are written as one.

### 4.9 `OrderPlan`

`SizeOrder`, `QuoteOrder` and `Submit` follow one decision: leverage clamp, margin, size;
gates, prices and gated margin; ticker, demo and market anchoring, target clamp, last
checks, size from the gated margin. Every early return is `Drop`. Prices are in ticks and money in
ten-thousandths of a unit, so that the roundings of the code are integer divisions;
constants of the risk page have their defaults. A price that is not positive counts as not
named, as the code's `> 0` tests have it. Balances of which a fifth rounds to nothing, three
ten-thousandths of a unit, are left out by assumption. Left out: the leverage cap by
instrument of the symbol pool (`leverage.py:46-48`), the rounding to cents and the floor of 1
USDT of the margin cap by asset class (`risk_constants.py:207`), and what `set_leverage` does at the exchange (its
failure is only logged).

## 5. Runs

`tlc -workers 2 -config <cfg> <module>`; states are distinct states.

| run | cfg, module | instance | what it shows |
| --- | --- | --- | --- |
| `reservation` | `Reservation.cfg`, `MCRiskReservation` | 1 account, 2 intents, amounts 0..2, caps 0, 2, 3; 7,332 states | `ReleasedIffTerminal`, `GrowsOnlyWithinLimit`, `ReleasedForever`, `RecoveryKeepsHolds`, refinement of `PortfolioBudget` |
| `entry_crash` | `EntryCrash.cfg`, `MCEntryCycle` | a long and a short on one instrument, kills anywhere, cancels from outside, caps 1 and 2; 189,288 | `NeverHedged`, `OwnIntentSurvives`; with fairness `OrphanResolved`, `BudgetReturns` |
| `entry_slots` | `EntrySlots.cfg`, `MCEntryCycle` | two instruments, one slot, kills, failed calls, lost answers, damaged files; 1,105,852 | `KnownExposureReserved`, `SlotsRespected` |
| `entry_scale_in` | `EntryScaleIn.cfg`, `MCEntryCycle` | three longs on one instrument, kills; 529,337 | `ScaleInsBounded`, `UsesLedger` (the cycle refines the ledger) |
| `scheduler_faults` | `SchedulerFaults.cfg`, `MCJobScheduler` | the trading job, kills, stops and database errors, 2 workers, 4 launches; 316,280 | `RetriedOnce`, `NoOverlap`; with fairness `SlotsServed` |
| `scheduler_restart` | `SchedulerRestart.cfg`, `MCJobScheduler` | a staggered and a daily job on one thread, kills and stops, 2 workers, 5 launches; 48,336 | `OnlyFailuresRepeated`; with fairness `RowsClosed` |
| `queue` | `Queue.cfg`, `MCDeliveryQueue` | an event without channels and one on up to two, 2 faults, 1 replay, 2 attempts; 125,947 | `CompletedWasReceived`, `RepeatsExcused`, `GivenUpAfterRefusals`, `UnfinishedKept`; with fairness `EventuallyFinished` |
| `protection` | `Protection.cfg`, `MCPositionProtection` | positions of 2 and 3 lots, 5 price levels, 1 fault; 468,690 | `WatchedIsCovered`, `LocalStopActs`, `RolesKept`, `StopOnlyRises`; with fairness `BareEnds` |
| `trade_ledger` | `TradeLedger.cfg`, `MCTradeLedger` | 1 trade, 2 overlapping syncs, 1 fault of 4 kinds; 3,148,191 | `GateSeesOldLosses`, `CardsExcused`, `CloseAnnounced` |
| `supervision` | `Supervision.cfg`, `MCWorkerSupervision` | 4 processes, 2 crashes, hangs or stops; 385,436 | `HealthyWorkersSpared`; with fairness `SchedulerReturns` |
| `brain` | `Brain.cfg`, `MCBrainCycle` | 2 trading cycles, 1 manual run, 1 instrument, 3 seats, 3 models, limits of 30 and 240 s; 916,218 | `FreshInstructionsOnly`, `OnlyShownPositions`, `ArbitrationReached` |
| `order` | `Order.cfg`, `MCOrderPlan` | grids of prices, margins, leverages, confidences, balances; 59,356 | `SpendsWithinPlan`, `MarketOrderBracketed` |

Each run checks one type invariant at most, and every property has a mutant of the
modelled code that breaks it under the same configuration.

Why the bounds are enough:

* *Ledger.* Two rows are needed for "the others plus the new one"; amounts 0, 1, 2
  and caps 2, 3 give sums below, at and above a cap, 0 is "keep the amount" and "no
  cap". Accounts do not interact (`ActiveTotal` sums one of them), and the theorems
  cover any number.
* *Entry cycle.* Hedging needs two decisions on one instrument, the slots two
  instruments and one slot, exceeding the scale-ins three decisions on one position.
  In `entry_crash` two rows of one unit fit under the larger cap and exceed the smaller, so
  that releases are blocked and become possible again.
  `entry_slots` takes all four kinds of fault under two constraints: `AgesApart` (one
  decision is past the two hours of the reclaim only while the other is young) and
  `FaultsApart` (no damaged file while an answer is lost); `KnownExposureReserved` and the
  refinement are proved without them. `entry_scale_in` is bounded by `YoungOnly`: of the
  three deadlines only the first passes, since the count depends on cancelled orders,
  not on returned budget.
* *Scheduler.* `MaxTime` spans two slots of the trading job, so that a run can outlast
  its slot, fail, be retried and meet the next slot; two lives give one restart, and
  four or five launches are enough (a behaviour that runs out of them would block its
  tick for ever, and TLC would report a deadlock).
* *Queue.* Two deliveries of different state compete for one worker; with two attempts
  a delivery can fail once and be retried or die (the code: 6), with two faults a
  second crash can hit the recovery of the first.

* *Protection.* Two lots cannot be split at 35 %, three can, into one and two, so both
  kinds of position occur; five levels hold stop, entry,
  break-even, first target and beyond, and a jump between any two. One fault separates
  leg and tracker, and the price may jump at every step besides.
* *Trade ledger.* Writers interfere pairwise: two syncs and the recorder. Trades share
  nothing but the file, so one trade with two sales shows every overwriting; a tick is
  the longest a sync runs.
* *Supervision.* Old worker, draining worker, supervisor's child and watchdog's
  replacement are four; with two faults the second hits the repair of the first. The
  numbers are used again once nothing refers to them.
* *Brain.* A stale file needs an earlier cycle, the reading one and a third author;
  `CouncilsApart` lets one committee sit at a time, since committees share nothing. The time
  limits are the shortest configurable one and one long enough for every budget rule to bind.
* *Order.* The grids straddle the branch points: no margin and margins below, near and far
  above a contract, leverages below and above the range, confidences on either side of
  68, 75 and 80, prices named, missing and on the wrong side, tickers unreadable, close and
  more than 5 % away.

CHECK_DEADLOCK is on where there is always a next step (the clock that has reached its
bound leaves the scheduler its tick). It is off in `brain` and `order`, which end: when
every cycle is done and nothing rests, and when the order is sent or dropped.

## 6. Fairness

* `EntryFairness`: deadlines keep passing whenever no cycle runs (`SF Elapse`: cycles
  are seconds, deadlines are half an hour and more); the scheduler keeps starting
  cycles and a started one takes its steps (`[]<><<Housekeeping \/ Entry>>`, which is
  weak fairness of them, since in every state one of them is enabled); some cycle
  gets past the session gate and the exchange's errors (`SF ReadPositions`: the session
  opens every working day); the process is not killed for ever. Nothing is assumed of
  fills, closes, file damage or repair.
* `SchedulerFairness`: the clock runs; the worker's loop goes on, its recovery too, and
  the supervisor starts a worker that is gone (`WF WorkerStep`, `supervisor.py` and the
  watchdog); every run takes its steps, since a script ends at the latest at its
  time-out (`subprocess.run(timeout=...)`).
* `QueueFairness`: leases and back-offs end (`WF BecomeDue`); the worker is restarted
  (`WF StartWorker`); a delivery that is again and again the next to be handled gets
  handled (`SF Deliver`: claims are ordered by priority and row number, so this says
  that new events of higher priority do not starve it for ever, which a finite `Event`
  set makes true of the model and the volume of notifications of the program). Faults are
  bounded by `MaxFaults`; nothing is assumed of the channels, which may refuse for ever.

* `FairProtectionSpec`: the cycle goes on and is started again (`WF CycleStep`: the
  scheduler starts one every 15 minutes, `JobScheduler`'s `SlotsServed`). Nothing is assumed
  of the price.
* `FairSupervisionSpec`: processes and threads are scheduled, the heartbeat grows stale
  under a hung loop, the container restarts backend and watchdog. `SF WatchdogStep`: the watchdog's
  30 s pass although workers come and go. The last condition says that a replacement
  does not start in the very instant in which the supervisor holds the lock each time;
  without it TLC shows the two undoing each other's worker for ever.

## 7. Proofs

Every invariant and action property of the runs of section 5 is a theorem here. The
modules:

`UnitSumsProofs`: lemmas on sums over finite sets, for amounts that are cardinalities.
`SumSplit` takes one key out; that changing one amount changes the sum by the difference,
that a larger set or larger amounts never sum up to less, and that the keys may be renamed
follow from it.

### 7.1 The ledger and the cycle: `EntryCycleProofs`

The ledger (any finite sets of accounts and intents, any sets of amounts
and caps; assumption `ReservationAssumption`):

| theorem | property |
| --- | --- |
| `LedgerTypeCorrect` | `LedgerTypeOK` |
| `ReleasedIffTerminalCorrect` | `ReleasedIffTerminal` |
| `ReleasedForeverCorrect` | `ReleasedForever` |
| `GrowsOnlyWithinLimitCorrect` | `GrowsOnlyWithinLimit` |
| `RecoveryKeepsHoldsCorrect` | `RecoveryKeepsHolds` |
| `WithinLimitCorrect` | `WithinLimit`, if the cap has one value |
| `ImplementsBudgetCorrect` | `ImplementsBudget` |

The argument: lemmas on sums (`SumSplit`, `SumUpdate`) say how an account's total moves when
one row is overwritten; `StepShapes` says that every step of the ledger overwrites at most one
row with a row of the right type, marks rows without changing what they hold, or
changes the cap; each theorem looks at these three shapes.

The cycle (any decisions, instruments and limits, any set of faults; assumptions
`ReservationAssumption` and `EntryAssumption`):

| theorem | property |
| --- | --- |
| `UsesLedgerCorrect` | `UsesLedger`: every step of the cycle is a step of the ledger or none |
| `EntryTypeCorrect` | `EntryTypeOK`; its ledger half follows from `UsesLedgerCorrect` |
| `KnownExposureReservedCorrect` | `KnownExposureReserved` |
| `SlotsRespectedCorrect` | `SlotsRespected` |
| `NeverHedgedCorrect` | `NeverHedged` |
| `OwnIntentSurvivesCorrect` | `OwnIntentSurvives` |
| `ScaleInsBoundedCorrect` | `ScaleInsBounded` |

`KnownExposureReserved` is not inductive: budget is handed back on what earlier steps of
the same cycle read. `ReservedInv` adds what the process's variables still mean when
they are used: between the two reads the positions read cover every filled order but raced
ones, and a partially filled one is still in the second read (`SeenPositionsHold`); no decision whose budget is about to be returned is exposed and
known (`ReturnedAreUnused`); a decision being sent has no order yet and holds its budget
(`SentIsReserved`); one whose budget is given up is not known to be at the exchange
(`GivenUpIsUnused`). The first is needed to establish the second when the open orders are
read, the third to establish the fourth and the main property when the order is placed.
Only `PlaceOrder` and `LoseReply` expose anything; only `ReturnBudget` and `ReleaseFailed`
take a reservation away.

The other four say what the variables read at the start of a cycle still cover when an entry
is decided on them. From the second read to the end of the cycle, every exposure the trader
knows of is among the positions and orders it has seen or was just sent (`NothingUnseen`, in
`SeenInv`). On it rest `NeverHedged`, since the side of the instrument was looked up in the
same views, and `SlotsRespected`, whose `ClaimsWithinSlots` counts the instruments of the
exchange, the views and the order under way together: only an entry adds one, it is
admitted below the limit, and fills, closes and cancellations take no new one. `OwnKept`
follows a decision whose own intent is in time through the two loops that cancel orders:
in the first it is still to be looked at or kept, by the second it is kept, and the sweep does not
have it on its list. `ScaleInsBounded` needs two invariants more: `WaitingInv` (no two known
orders wait on one instrument, since each was sent where the views and the scan showed none) and
`CountInv` (the tracker of a position is never behind the orders it stands for, but for the
scale-in that is being sent).

### 7.2 One order: `OrderPlanProofs`

Any prices, margins, leverages, confidences and balances (assumption `OrderAssumption`):

| theorem | property |
| --- | --- |
| `SpendsWithinPlanCorrect` | `SpendsWithinPlan` |
| `MarketOrderBracketedCorrect` | `MarketOrderBracketed` |

What is sent was sized, rounded, gated, moved to another price and sized once more from the
gated margin. `DivisionBelow` and `SizeCosts` say that no rounding on that last way buys more
than the margin; `GateBounds` and `ScaleInRoom` bound the margin by plan, balance and cap, and
`Gated` carries these bounds from stage to stage. For the brackets, `ScaledQuote` says what
moving a quote to the market keeps of it, `NarrowedQuote` what the target clamp does to it, and
`AcceptableBracket` that the last check before the order implies the property. Before the
proof `Quoted` and `Narrowed` let a price of zero or less through as a price; the code does not.

### 7.3 The protected position: `PositionProtectionProofs`

Any size, any grid of prices, any number of failed calls and kills:

| theorem | property |
| --- | --- |
| `ProtectionTypeCorrect` | `ProtectionTypeOK` |
| `WatchedIsCoveredCorrect` | `WatchedIsCovered` |
| `LocalStopActsCorrect` | `LocalStopActs` |
| `RolesKeptCorrect` | `RolesKept` |
| `StopOnlyRisesCorrect` | `StopOnlyRises` |

Position and legs change in the middle of every step: the market jumps between two calls of
one stage and executes what it reaches. `ExchangeStep` is the lemma all four rest on: whatever
the exchange does, a position that was covered without the legs about to go stays so (a leg
that executes takes as much off the position as off the legs), except in the three steps that
cancel legs, and no leg the trader mentions changes its target, except by the AI. Then each property has its invariant: `StopInv` (the price read is above the stop
from the hard stop on), `StaleInv` and `CoverInv` (legs remembered for cancellation are
gone or not needed, in memory and in the file, also when the two differ after a kill), `RoleInv`
(near and far leg are in order, and file and memory name the same legs or legs apart:
a kill between placing and saving may leave them different, never crossed).

### 7.4 The trade ledger: `TradeLedgerProofs`

Any trades and losses, any number of concurrent syncs, any faults:

| theorem | property |
| --- | --- |
| `TradeLedgerTypeCorrect` | `TradeLedgerTypeOK` |
| `CardsExcusedCorrect` | `CardsExcused` |
| `CloseAnnouncedCorrect` | `CloseAnnounced` |
| `GateSeesOldLossesCorrect` | `GateSeesOldLosses` |

`CardInv`: only one process sends cards at a time, and only for ids that are not saved yet;
so a trade has a card more than its unsaved ids account for only while its id is saved or waits
to be saved by that process, and a trade that is so marked has a card unless it was refused
(`Marked`). `FineInv`: a row of a closed trade is fine if the trade has its
card, an excuse, or a sync that owes the card; rows read earlier are still fine when they are
written back, and a row that enters a book for the first time is on its sync's list. `GateInv`: a
status that says all went well speaks for a sync that began at most `SyncLimit` before it was
written; every older sale was in the history it fetched, hence in its book and in the ledger it
wrote.

### 7.5 The gateway: `JobSchedulerProofs`, `GatewayProofs`

`JobSchedulerProofs` (any jobs, intervals, threads, workers and launches, any set of
faults; assumption `SchedulerAssumption`):

| theorem | property |
| --- | --- |
| `SchedulerTypeCorrect` | `SchedulerTypeOK` |
| `NoOverlapCorrect` | `NoOverlap` |
| `RetriedOnceCorrect` | `RetriedOnce` |
| `OnlyFailuresRepeatedCorrect` | `OnlyFailuresRepeated` |

`tick()` looks at a dictionary, not at the runs, so `NoOverlap` is not inductive.
`OverlapInv` says that every unfinished run is in the dictionary or is the launch about
to be put there (`Remembered`), that only one is about to be (`FreshLaunch`), and that a
worker starting up finds none (`StartsClean`: a stopped one drains, a killed one takes
its threads along). `SlotInv` adds what a time stamp and three dictionaries, emptied by
every restart, say of earlier launches: those written down lie in the slot of `last` or
before it (`MarksArePast`); a slot that awaits its retry has exactly one, a failed one
(`AwaitingRetry`); the run in the dictionary is the only one of its slot unless the
slot counts as retried (`RunningIsLast`); and a launch not written down yet meets at
most that one failed run (`FreshIsNewest`). From `SlotFacts`, that slots grow with time
(the division by a variable interval is confined to `SlotMono`), follows `DueIsNew`: a
job is found due only in a slot in which nothing is written down.

`GatewayProofs`, the queue (any events, channels, priorities and bounds; assumption
`QueueAssumption`):

| theorem | property |
| --- | --- |
| `QueueTypeCorrect` | `QueueTypeOK` |
| `CompletedWasReceivedCorrect` | `CompletedWasReceived` |
| `RepeatsExcusedCorrect` | `RepeatsExcused` |
| `GivenUpAfterRefusalsCorrect` | `GivenUpAfterRefusals` |
| `UnfinishedKeptCorrect` | `UnfinishedKept` |

`QueueInv` ties the claimed row to the place the worker has reached
(`ClaimedIsProcessing`, `TakenWasReceived`), counters to status (`AttemptsCounted`: an open
row has attempts left and none was counted without a refusal), and rows to events
(`RowsHaveEvents`, `UnpublishedUntouched`). `SentTwiceExcused` is the heart of
`RepeatsExcused`: whatever has been sent and is still open has an excuse for the next
sending already, except the row whose sending was just taken.

`GatewayProofs`, the supervision (any finite set of process numbers, any number of crashes,
hangs and restarts; assumption `SupervisionAssumption`):

| theorem | property |
| --- | --- |
| `HealthyWorkersSparedCorrect` | `HealthyWorkersSpared` |

The watchdog acts on two probes and kills at a third moment, so what it found must still
bind the processes then. After one failed probe everyone who is starting up was so at that
probe or came later (`StartersNoticed`); since a start takes less than the time between two
probes, after the second one everyone who is fine came later, a looping worker being excluded by
the heartbeat it keeps fresh (`LoopingBeats`), and this lasts until SIGTERM is sent
(`Condemned`).

### 7.6 The brain: `BrainCycleProofs`

(Any traders, manual runs, instruments, seats, weights, models and
time limits; assumptions `CouncilAssumption` and `BrainAssumption`):

| theorem | property |
| --- | --- |
| `BrainTypeCorrect` | `BrainTypeOK` |
| `FreshInstructionsOnlyCorrect` | `FreshInstructionsOnly` |
| `OnlyShownPositionsCorrect` | `OnlyShownPositions` |
| `ArbitrationReachedCorrect` | `ArbitrationReached`, if `TimeForAll` |
| `FactoryCommitteeArbitrates` | `ArbitrationReached`, for up to 3 seats and limits of 30 s and more |

An instruction passes from an answer to the file, from there to a cycle and to the
exchange, while others overwrite the file: the inductive invariant says at each of these
places what the properties say at the last one, that the instructions concern only what
their author was shown, and that a cycle between its own publication and the end of its
management has a file, read or to be read, that is younger than its beginning.

`ArbitrationReached` does not hold for every committee: seats are asked one after the other, so
enough of them use up what the first round leaves to the arbitrator. `TimeForAll` is the
inequality that decides it (staggered starts plus 5 s plus the roundings within 35 % of the time
limit), `CouncilInv` what each round leaves of it (`FirstRound`, `SecondRound`).
The shortest limit the configuration accepts (`clamp_council_timeout`) and the three seats of
the shipped suite satisfy it, which is `FactoryCommitteeArbitrates`. With four seats at 30 s
and a second round the arbitrator may be left less than 5 s; at 240 s there is time for
more than forty.

The assumptions on constants are evaluated by TLC in every run of the modules.

## 8. Model-checked only

Liveness (`OrphanResolved`, `BudgetReturns`, `SlotsServed`, `RowsClosed`,
`EventuallyFinished`, `BareEnds`, `SchedulerReturns`) stays with TLC: the installed provers do not
reason about fairness and ENABLED. The type of `procs` in `WorkerSupervision` too, whose
`SelectSeq` the library has no theorem about; nothing proved depends on it. The same
holds for what a recursive definition computes for every input; no module here has one.
The disagreements of section 9 are counterexamples, found by TLC on the named instances.

## 9. Where code and documentation disagree

With a configuration that shows it (not among the runs of section 5: TLC ends each of them
with the counterexample):

| configuration, module | property violated | what the code does |
| --- | --- | --- |
| `ReservationReleaseBlocked.cfg`, `MCRiskReservation` | `ReleaseFrees` | `reserve()` checks the cap for every target state (`risk_reservation.py:169`): after the operator lowers it below what the account holds, the row itself included, `release()` raises `ReservationExceeded` and the budget stays occupied. In the cycle this blocks every release of the reconciliation, cycle after cycle, until the cap is raised |
| `EntryUnreadable.cfg`, `MCEntryCycle` | `UnreadableIntentsCancelNothing` | with unreadable intents the attribution cancels nothing, as it promises (`order_lifecycle.py:122`), but hands an empty keep set to the sweep of stale orders that follows (`cycle_stages.py:189`) |
| `EntryFillBetweenReads.cfg`, `MCEntryCycle` | `ReturnsOnlyUnused` | positions are read first, orders second (`cycle_stages.py:230`): an order filled in between is in neither view, and a reservation older than two hours is released under a live position |
| `EntryLostReply.cfg`, `MCEntryCycle` | `UnknownOutcomeKeepsBudget` | an order that was accepted but not answered is treated as rejected and its budget released (`order_submit.py:452`), against `risk_reservation.py:6` |
| `ProtectionAiLowersStop.cfg`, `MCPositionProtection` | `AiOnlyTightens` | an "early tightening" is compared with entry and price, not with the stop in force (`protection.py:78`), and may lower it |
| `ProtectionSingleLot.cfg`, `MCPositionProtection` | `UnsplittableKeptWhole` | the tolerance of half a lot (`scale_out.py:129`) takes a position of one lot for one whose first leg was executed, before lines 163-170, which keep it whole, are reached |
| `TradeLedgerFinalClose.cfg`, `MCTradeLedger` | `FinalCloseAnnounced` | the row of a half-sold position is written while its card is put off; the next sync takes the id for announced (`notify.py:185`) and the final close is never sent, against `notify.py:152-155` |
| `TradeLedgerPublishFails.cfg`, `MCTradeLedger` | `OnlySentRemembered` | the publisher swallows its exceptions (`qq_notifier.py:14-19`) and `notify.py:229-230` adds the id whatever it answers, line 233 saves it: a refused card is remembered as sent and lost, against `notify.py:231-232` |
| `OrderClamp.cfg`, `MCOrderPlan` | `ClampKeepsAcceptable` | from confidence 68 on the target may be clamped down to 1.2 times the risk (`order_submit.py:307`), while only 80 and more excuse less than twice the risk (`order_risk.py:74`): an acceptable order is clamped and then refused, against `brackets.py:139` |

Seen in the models or while writing them, without a document that promises otherwise:

* The retry of a trading run that failed within a minute falls into the slot guard
  (`ai_factor_trader.py:1104`), skips, and is recorded as a success.
* A process killed between the acceptance of a scale-in and the saved counter
  (`entry_execution.py:353`) scales in once more; `ScaleInsBounded` excludes that one.
* `recover_jobs()` (`worker.py:145`) closes every open row as failed before
  `recover_stale_job_runs()` (`store.py:253`) looks for rows to call interrupted, so that
  it never finds any.
* The supervisor trusts the PID file of a worker that has released its lock and waits
  for its threads (`supervisor.py:118-122`): up to 21 minutes without a scheduler.
* `recovery()` of the ledger is called by no code in the repository outside its tests;
  it is modelled because the module offers it.
* `_finalize_scale_out_after_leg_fill` (`scale_out.py:505`) sets the stop to break-even
  without comparing it with the stop already reached; `StopOnlyRises` leaves that step out.
* `entry_sz` is frozen when a position is adopted (`scale_out.py:127`); a scale-in raises the
  size, and a leg fill is then not recognised as one.
* The trailing stop of the tracker moves first; whether the legs followed is not looked at
  and not tried again before the stop rises once more (`position_exit.py:328`).
* A sync whose fetch failed writes the rows it had read back over those of a faster one
  (`sync_full_ledger.py:569`); `GateSeesOldLosses` excludes trades this happened to.
* A hung worker that was started by a watchdog which then died keeps that watchdog's lock
  (`astra_watchdog.sh:39`): no watchdog can start to kill it. `SchedulerReturns` excludes this.

