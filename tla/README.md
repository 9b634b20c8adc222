# Junior Aladdin: a verification project

Junior Aladdin is an intraday options trader for NIFTY, written in Python. One
process receives ticks from the broker, builds one-minute candles, computes
features, lets a committee of strategies and "brains" propose opportunities,
has a *captain* decide whether trading is allowed at all, passes what is left
through risk, compliance and psychology, and places orders with a paper broker.
A second subsystem, the data center, stores every tick. A dashboard runs in a
process of its own and can stop the backend.

These modules model the parts of it that keep state under concurrency, time or
long sequences of calls: the parts for which "it passed the tests" says least.
Every definition is translated from the source; `PROJECT.json` says which lines
(`map`), and which hazards each property is for (`hazards`). Section 7 lists where
the code and what it says of itself disagree.
Paths below are relative to `src/`.

Contents: 1 inventory, 2 how the parts interact, 3 the modules, 4 runs and
bounds, 5 fairness, 6 what is proved, 7 what the code does not keep, 8 what is
not modelled, 9 the plan, 10 running it.

## 1. Inventory

### Modelled

**Captain engine** (`src/captain/captain_engine.py`). *State*: the system state
BOOT, OBSERVE, ACTIVE, CAUTIOUS, SAFE, LOCKED or SHUTDOWN and when it was
entered; the deadlines of a forced SAFE, a loss cooldown and a recovery boost;
the pending probe; deques of approvals and vetoes. *Operations*: `step()` once
per closed candle, `notify_trade_outcome`, the manual overrides. *Hard*: eight
timers and counters that interact over many cycles; a probe's outcome arrives
some cycles later, or never. *Correct when*: it hands out no more trades than the cap,
trades under no brake, climbs out of SAFE no faster than the dwell times allow, shortens no
forced SAFE, and gets out of SAFE in the end.

**Emergency path** (`main.py`, `src/core/dashboard_control_plane.py`,
`dashboard/dialogs/emergency_stop.py`). *State*: `_stop_event`,
`_shutdown_lock`, the shared block with the emergency flag, who owns it, the
queue of commands. *Operations*: `start`, `run_forever`, `stop`, signal
handlers, publishing, the STOP NOW click and its fallback. *Hard*: signals
interrupt the main thread anywhere; two processes read, change and write one
block; crashes leave blocks behind. *Correct when*: components are stopped once,
every request to stop is honoured, nothing trades after the stop.

**Tick path of the data center** (`data_center/collectors/tick_receiver.py`,
`queues/`, `pipeline/raw_pipeline.py`, `pipeline/clean_pipeline.py`,
`validators/duplicate_validator.py`, `writers/`, `utils/parquet_utils.py`).
*State*: two bounded queues, two threads with batches and a buffer, the history
of fingerprints, two growing files. *Operations*: receive, enqueue, take a
batch, append (read the file, write it back), forward, judge duplicates,
broadcast, start and stop. *Hard*: full queues, failing writes, stops whose
join times out and leaves the old thread running. *Correct when*: a tick moves
forward once, the raw file has what went on, repeats are stopped, the structured
file tells what was broadcast.

**Feed connection** (`src/core/websocket_manager.py`). *State*: the flags of
shutdown and death, generation and epoch of the active connection, the socket,
the reconnect lock, the tick queue, what the watchdog knows of the connection.
*Operations*: connect, disconnect, update_subscriptions; callbacks of the
socket; reconnect loop with backoff and token refresh; watchdog; consumer.
*Hard*: four threads; callbacks from inside a blocking connect; a reconnect
within the close of the connection it replaces. *Correct when*: a started feed
is connected again, declared dead or shut down; no tick outlives its connection;
a silent connection is noticed.

**Compliance guard** (`src/execution/compliance.py`) and **mode manager**
(`src/captain/mode_manager.py`). *State*: the wall-clock stamps of the last
second's orders; the mode ALERT, PAPER or LIVE. *Operations*: `validate_order`,
`reset`; construction and `set_mode`, which shows a synthetic order to a guard
of its own. *Hard*: the limit is about elapsed time, the stamps are about a
wall clock that can be stepped. *Correct when*: no second of elapsed time holds more
than the ceiling; LIVE is entered only under the live requirements.

**Position manager** (`src/positions/position_manager.py`, `exit_rules.py`).
*State*: the positions with stop, excursions, flags. *Operations*: add, update
(stop loss, target, decay, time, breakeven, partial exit, tighten, trail, in that
order), close, reset. *Hard*: several rules move one stop over many looks.
*Correct when*: stops only tighten, risk never grows, closed is closed.

**Paper broker** (`src/execution/paper_broker.py`). *State*: orders, one netted
position per symbol, last prices. *Operations*: place, modify, cancel, show a
price. *Hard*: adding, reducing, closing exactly and flipping in any order.
*Correct when*: the position is the net of the fills, the books balance, nothing
marketable stays open, ended orders stay ended.

**Data path of the feed** (`src/core/data_engine.py`, `tick_validator.py`,
`candle_builder.py`, `data_center/connectors/backend_connector.py`). *State*:
what the validator remembers per token, the forming candle and the bounded
deques of each timeframe, the day's archive, the threads a stop leaves behind.
*Operations*: a tick from the feed's thread, the same tick from the data
center's broadcast, a cycle of the main loop, stop, restart. *Hard*: every tick
comes twice, by two threads, and the second time later; late ticks; minutes
without ticks. *Correct when*: the candles of every timeframe are those the
accepted ticks make, and the archive has every closed minute.

**Feed health** (`src/core/feed_health.py`) and what of the **market state**
(`src/core/market_state.py`) it publishes to. *State*: two monitors with
hysteresis counters, score and safe-mode recommendation; the published health.
*Operations*: a check by the health loop, by the tick thread, by main; on_tick.
*Hard*: three threads publish what they read some steps ago. *Correct when*: the
state worsens only when confirmed, silence is published, recovery as well.

**Kill-switch reader** (`dashboard/core/shared_memory_kill_switch.py`). *State*:
the mapped block, the count of stale looks, the emergency. *Operations*: check
every 200 ms; on the other side publish, crash, restart, orderly end. *Hard*: a
reader keeps the mapping of an unlinked block; a block it cannot parse counts as a
stale look; the threshold equals the period. *Correct when*: the emergency is shown
for a cause, and for every cause.

**Snapshot stream** (`src/core/dashboard_ipc.py`, `dashboard/core/ipc_client.py`,
`snapshot_bus.py`, `binary_frame.py`). *State*: numbers per kind of frame, the
connection, half-read packets, the last number and time the bus has taken.
*Operations*: publish, accept, connect, read, time out. *Hard*: a restart of the
backend, a clock put back, a read that times out in the middle of a packet.
*Correct when*: a new frame that was written whole is shown.

**Authentication** (`src/core/auth_manager.py`). *State*: the session, its age,
`_auth_lock`, `_api_lock`. *Operations*: `authenticate`, `refresh_session`,
`get_smart_api`, calls through the proxy, `logout`. *Hard*: check, wait, check
again, by several threads; one method calls another that takes the lock it
holds. *Correct when*: no thread waits for ever, no session is fetched twice.

**Download of past candles** (`src/core/historical_downloader.py`). *State*: one
file and one meta file per day, the checkpoint of the range. *Operations*: a
download with its answers, rejections, writes; kills in between. *Hard*: two
files and a checkpoint are written one after the other; the checks on an answer do not
all see a frame without rows. *Correct when*: a good file is not made worse, the
checkpoint passes over nothing.

**Option chain** (`src/core/option_chain_poller.py`, the loop of
`src/core/data_engine.py` that calls it). *State*: the chain and the one before,
the spot of the last poll, the count of failures, the rest of the breaker, the quotes
under way. *Operations*: a turn of the loop, `poll()` with its early returns, the
parallel fetch. *Hard*: calls that never answer, a budget, polls that fail in
several ways of which only some ask the breaker, memory kept at both ends of a
poll. *Correct when*: every poll ends, the breaker rests in time and lets polls
through again, spot and OI change of a chain have one base.

**Main's trading step** (`main.py`). *State*: the last minute seen, the lists of
the cycle, what MarketState shows. *Operations*: the stages of
`_process_candle_close`. *Hard*: stages fail alone, minutes close meanwhile.
*Correct when*: what reaches the risk engine is answered by it.

### Not modelled

Each is a component of `PROJECT.json` with its reason; section 8 summarises.

## 2. How the parts interact

    broker --ticks--> FeedConnection ----> candle builder --candle--> main loop
       |                                                                 |
       +--ticks--> TickPipeline --files                     features, brains: scores
                                                                         |
    dashboard --STOP NOW, flag--> ControlPlane (main loop) --step()--> Captain
                                      |                                  | approved
                                      | stop() of every component        v
                                      +--------------> risk, validator, guard, broker
                                                       (ModeManager, ComplianceGuard,
                                                        PaperBroker, PositionManager)

The components call each other synchronously on the main loop's thread; the
concurrency is inside the feed (its threads, and those that ask for a session),
the option chain (the polling thread and its executor),
the data center (its threads) and between the backend and the dashboard (two
processes, one shared block, two sockets).
`ModeManager` composes with `ComplianceGuard` by INSTANCE, `TickPipeline`
implements `Conveyor` by INSTANCE, `DataPath` composes `TickValidator`,
`CandleBuilder`, the bridge from the data center and the loop of main; the other
modules meet at their inputs: the candle of `ControlPlane` is the call of
`step()` in `Captain`, the approvals of `Captain` are the orders of
`ComplianceGuard` and `PaperBroker`, the refresh of `FeedConnection` is one of
`AuthSession`.

## 3. The modules

Comments in each module name the method each action stands for. In all of them
variables marked *history* record something for a property and are read by no
guard.

**Captain.** One call of `step()` is one action, because it runs under
`self._lock`. The branches of `_decide_state` are the disjuncts of `Step`, in
the order of the code; `Conclude` is everything after the decision (transition, `final_veto`
on each opportunity, the frequency cap, veto burst, bookkeeping). What the
snapshot and the strategies say to one cycle is a record of `StepInputs`:
confidence, gates, data quality, and how many opportunities are clean, flawed
or of a suppressed brain. Time is relative: a deadline is ticks left, a "since"
is a saturating age; `Tick` ages everything. `SessionTurns` moves the clock
through the day, with `Overnight` into the next one.

**ControlPlane.** The main thread is a stack of frames: the loop, the `stop()`
it calls, and the `stop()` of each signal handler on top. A publish is two
steps, read and write. `Crash` may come anywhere; `Launch` starts the next
process, which finds whatever block the last one left. The click is
`Click` (which sends the command if the socket works), `FallbackOpen`,
`FallbackWrite`. Of the block only the flag is kept; of the components only
that they are stopped, in one step `StopParts`.

**TickPipeline** and **Conveyor.** `Conveyor` is the abstract promise: every tick has a
stage and moves along the edges of one graph. `TickPipeline` has the receiver
(`Arrive`, `Enqueue`, `GiveUp`), the raw threads (`RawCheck`, `RawTake`,
`RawDrops`, `RawRead`, `RawWrite`, `RawForward`), the clean threads (`CleanCheck` to `CleanWrite`) and
start and stop of each. Every start that finds no thread creates a thread; a
stop forgets the thread, which goes on until it sees the stop event. The
refinement mapping computes a tick's stage from where it is found: `Lines` are the
places where ticks wait (the receiver, the two queues, each thread's batch, the
backend), each named with the stage of those who wait there, `Spots` the places
in these lines. A tick in two spots has a stage no Conveyor knows, so `Moves ==
C!Spec` also says that no tick is ever held twice. `TickLedger` has what is
written down of the ticks, with `RawKept` and `NoRepeat`.

**FeedConnection.** The socket thread `ws` has a program counter that runs
through building, publishing, dialling, the open connection, its close and the
reconnect loop. The call stack of nested reconnects is collapsed to its top
frame, since a return of the top returns all the way. A tick is the connection
that delivered it, so "stale tick" is a number different from the current
epoch. The library (SmartWebSocketV2) is external: closing before dialling may
have no effect, `connect()` raises only before the connection opened, an error
is followed by a close.

**ComplianceGuard**, **ModeManager.** Elapsed time `real` and the wall clock
`real + skew` are separate; `StepClock` changes the skew, downward always,
upward if `Forward`. `ValidateOrder` has the order of checks of the code.
`ModeManager` instantiates it as `G` and calls `G!ValidateOrder` with its probe.
`ModeSwitch` has the mode, the settings and what a change to LIVE asks of them.

**PositionManager.** `UpdatePosition` is one call of `update_position` with all
rules in the code's order. `risk` and `born` are history. Prices are whole steps.
`PositionBook` has what it is given and keeps, with `StopNeverBackward`.

**PaperBroker.** Money in hundredths, as the code rounds. `UpdateMarketPrice`
fills what the price reaches, in the order of placement. `PaperBooks` has what it
keeps, the orders, the position of each symbol and the last prices, with `NetIsFills`,
`BooksBalance`, `NoLimitMissed` and `EndedIsFinal`.

**DataPath**, **TickValidator**, **CandleBuilder.** The two builders are modules of
operators on one record, as the classes are called under one lock; `DataPath`
has the actions: `Sent` a tick leaves the exchange, `ProcessTick` the feed's
thread, `BridgeTakes` the broadcast, `Cycle` main, the steps of `stop` with their
timeouts, `Archive`, `Restart`. A minute has a few units, a price and a volume
are small numbers. The reference definition of the properties computes every
candle from the history of accepted ticks.

**FeedWatch.** Both monitors are records with the fields of the class. A check
is one step, and reading and publishing are two, since `MarketState` is locked
for each alone. Ages are counted in the thresholds' common unit. `FeedFindings`
has the monitors with their thresholds and what a worse state takes.

**HeartbeatWatch.** A block is known by the run that created it. Ages saturate
where the code stops telling them apart; one unit is the reader's timer.
`GetStuck` and `GoOn` hold the main thread up for longer than a period. `check()` ends in
`Look` or in `LookFails`, according to whether the mapped block has the 128 bytes the
reader demands. The backend asks for 108, and the system maps multiples of `Page`: 1 where
a mapping has the size asked for (Linux), else a page. The branch for a
`FileNotFoundError` is left out: its `try` reads mapped memory and unpacks it, which raises
none. Blocks live as POSIX has it, until they are unlinked, and mappings beyond that.
`cause`, history, is what was the matter with the block when the emergency was shown.

**DashboardStream.** A packet is two units on the wire, its length and its
frame. A timeout in the middle (`Pause`) leaves the reader out of step
(`ReadLost`), where it may take anything for a length.

**AuthSession.** A thread is where it is in the method it runs, with the methods
that wait for that one (`in`). A session is a number. The plain locks are sets
of at most one thread. (`SessionLocks`, like `ComplianceLimits`, `ModeSwitch`,
`FeedFindings`, `HeartbeatTimes`, `HistoryAnswers`, `PaperBooks`, `PositionBook`,
`SnapshotFrames` and `TickLedger`, holds what a run of
several components shares with the module: constants with their assumptions, and
the properties proved of it.)

**HistoryDownload** (its constants and promises in `HistoryAnswers`). A file is its number of
rows, which may be none, and `NoFile` is no file; a broker's answer is rows and valid
rows. `Gaps` is that of `_gap_detection`, which finds none in a frame without rows. `Kill`
may come between any two writes, and every write may fail.

**OptionPoller.** A unit of time is a turn of the loop (60 s); a poll takes less.
The thread's place is `phase`, each leg has a quote that is queued, running,
answered, refused, taken or left (`task`). `world` is what the thread finds:
closed, without an expiry, without a session, with calls that may fail or hang,
or in order; only in order (`steady`) the quotes are answered within the budget.
`storm` and `polledAge` are history. `MCRecovery` puts it beside `Captain`.

**TradingCycle.** One action per stage; the engines' results are inputs.

Modules `MC...` hold the input alphabets of the runs, `...Proofs` the theorems.
Each module also holds, beside some definitions, a *faulty variant* (marked so): the same
operator as a plausible bug would write it. Putting it in the place of the real
one makes TLC refute the property it is listed with under `mutants`.

## 4. Runs and bounds

`pass` runs are exhaustive searches without error; each `violation` run checks
one statement the repository makes of itself and ends in a counterexample
(section 7).

Several runs instantiate components that share no state. There a variable `part`
is chosen at the start and says which of them runs; the others stay in their
initial state. So the states of such a run are the sum of its parts' states, not
the product, and each part is searched whole: a property of one part holds in
the others for want of steps. (Components that do interact are composed in
modules of their own: `DataPath`, `ModeManager`, `FeedWatch`.)

A run is named after its configuration. Where the constants are plain model values and
numbers the configuration takes the specification itself (MCControlPlaneLost,
MCDashboardStreamRestarted, MCTradingCycleRisk, MCHeartbeatMapping), elsewhere an MC module.

| run | expects | checks |
|---|---|---|
| MCRecovery | pass | Option chain: `ChangesShareBase`, `BreakerRests`, `PollEnds`, `ChainIsBack`. Captain: `Recovers`, with the default cap and burst: from SAFE, under steady good inputs and no offers, it trades again (a confidence of 72 is below every unrelaxed threshold, so it is the relaxation that does it) |
| MCDashboard | pass | Control plane: crashes, signals, a click: `StopsOnce`, `StopHonoured`. Heartbeat, where blocks can be parsed and where none can: `AlarmIsExplained`, `TroubleIsShown`. Stream: `FreshIsNotLost` |
| MCTickPipelineThreads | pass | Two threads of each kind, a stop that times out, writes that fail: `Moves`, the refinement of Conveyor, and `Delivers`: where nothing is stopped, every tick ends delivered or lost |
| MCIngest | pass | Connection: start, stop, start again, with a failure and a silence: `QueueIsFresh`, `NothingAfterShutdown`. Pipeline with one thread each and writes that succeed: `RawKept`, `NoRepeat`. Session with two threads: `NoLockCycle`, `NoSessionWasted` |
| MCTrading | pass | Captain, the first day of a process, from BOOT, with the operator's overrides and a loss: `EmittedWithinCap`, `OneProbePerGrant`, `ClimbTakesTime`, `NoTradeBeforeWindow`, `ForcedNeverShortened`, `TradesFindBrakesReleased`. Position manager: `StopNeverBackward`. Paper broker: `NetIsFills`, `BooksBalance`, `NoLimitMissed`. Guard under a clock that is put back: `RateHeld`. Mode manager with a guard of its own: `SwitchIsChecked` |
| MCDataPath | pass | Feed: `MinutesFollowTicks`, `HigherFollowsTicks`, `ArchiveIsWhole`. History: `UsableIsKept`, `CheckpointIsFiled` |
| MCFeed | pass | Health: `WorsensOnlyConfirmed`, `SilenceIsPublished`, `RecoveryIsPublished`. Connection: `Reconnects` (one failure at any point), `SilenceIsEnded` (silent after a tick) |
| MCControlPlaneLost | violation | `Contained`, with the command socket down and nothing else going wrong |
| MCDashboardStreamRestarted | violation | `SentIsShown`: one restart of the backend |
| MCTradingCycleRisk | violation | `RiskAnswers` |
| MCHistoryDownloadLost | violation | `GoodIsKept`: one day, three downloads |
| MCHeartbeatMapping | violation | `AlarmIsFounded`: mappings of the size asked for, a threshold above the periods |

The bounds, and why they are enough:

- **Captain.** A tick is the shortest of the code's periods, `Minute = 1`; dwell
  times, probe interval and forced periods are 1 to 4 ticks, so that a timer can
  run out before, with and after the others. `VetoWindow` is not longer than
  `VetoSafe`, as in the code. In the day `TradeCap = 2` and `VetoBurst = 2` (the
  code's defaults are 3 and 3) are reached within one or two cycles. An input is
  one cycle's: one or two clean offers, an offer with a reason for a veto and one
  of a suppressed brain under low confidence, a choppy market, the circuit
  breaker, an anomaly. `MaxLosses`, `MaxProbes` and `QuietCap` are named caps.
- **ControlPlane.** Two runs of the process, since a crash concerns at most the
  next process and its block; two signals, since the second interrupts the
  handler of the first; one click, which may send the command, write the flag, or
  both. **HeartbeatWatch.** Two starts; threshold and period of three units and a loop that
  comes by up to two later: as with the defaults, and unlike under the `Margin` of
  section 6, a heartbeat that is only due can be found late twice. `Page` 4096 makes every
  block parse, 1 none; the run has both. **DashboardStream.**
  Two kinds and two frames of each in each of two runs, a wire of two packets,
  one fault.
- **TickPipeline.** Queues of one or two, batches of two, three to five ticks.
  Two threads of a kind is the least a restart can leave. Three fingerprints over
  two tokens and a history of two give repeats, evictions and times out of order.
- **FeedConnection.** One retry, a queue of one, up to three calls of connect and
  disconnect, one failure, one or two silences. A socket thread dials at most
  twice, as section 7 explains, so epochs are bounded by `2 * MaxCalls`.
  **AuthSession.** Two threads, two attempts, a few sessions and calls: a cycle
  of plain locks needs one thread or two.
- **ComplianceGuard, ModeManager.** A window of two ticks and a limit of two; the
  clock jumps by a whole window, the case that matters. Two addresses and a
  missing one. `MaxTime` leaves room for two windows and a half.
- **PositionManager.** One id, used twice: the positions of different ids do not meet.
  Entry 100 and a stop ten away, one on the wrong side, one
  invalid; looks at prices below the stop, between, past 1R, 1.5R and the target,
  with two ATRs and an unknown one, so that breakeven, tightening and trailing
  propose different stops. **PaperBroker.** Two prices and an invalid one, three
  orders of one symbol: open, add or reduce, flip or close.
- **DataPath.** Three ticks: of one minute, of the next one, of one after a gap,
  late and too late, one refused by the validator. A minute is one unit, the
  higher timeframes are two and three minutes, so that buckets end within the
  run and their deques, of one place each, are full; two runs of the process, one tick in flight to the broadcast. **HistoryDownload.** Three days in two ranges
  that overlap, one of them without a session, and eight answers: nothing, half a
  day less, whole, short of it on either side of each limit, and a whole day of which
  no row is valid.
- **OptionPoller.** One strike with its two legs, so that one quote in two is the
  half that makes a poll good; one worker, so that a hanging call keeps the other
  waiting; a limit of two failures and a rest of two turns, as the 120 s of the
  code are two turns of 60 s; two spots.
- **FeedWatch.** Thresholds a few units apart and confirmations of two, as in the
  code's ratios; both monitors.

`CHECK_DEADLOCK FALSE` is set where the system may stop (the process ended, all
ticks went through, the bounds on calls are used up).

## 5. Fairness

- **Captain** `FairSpec`: weak fairness of `Step` and `Tick`. The loop calls
  `step()` on every closed candle, and time passes. Nothing makes an outcome
  arrive or an operator act.
- **ControlPlane**: weak fairness of the main thread and of the dialog's thread
  once the click was made. No fairness of starts, crashes, signals, clicks,
  candles.
- **TickPipeline**: weak fairness of each thread's next step, of the receiver
  (it enqueues or its timeout of a tenth of a second passes) and of the session
  starting both pipelines. No tick has to arrive, nothing has to stop.
- **FeedConnection**: weak fairness of each thread, of a connection attempt
  ending one way or the other, of a requested close being carried out, and of
  `Settle`, the passing of time. No tick ever has to come, so a silent
  connection is a behaviour; failures and losses are never forced.

- **FeedWatch**: weak fairness of the health loop, of the clock and of whoever
  is about to publish. No tick has to come and main has no fairness.
- **HeartbeatWatch**: weak fairness of the reader's timer, of time and of the
  publish of a backend that is not held up. Nothing ends a hold-up.
- **DashboardStream**: weak fairness of the client's thread (for `SentIsShown`).
- **OptionPoller**: weak fairness of the polling thread, which never waits without
  a timeout, and of the executor's threads only in polls whose calls are answered
  (`steady`). That the broker is ever in order is the premise of `ChainRecovers`,
  not an assumption.

Strong fairness is used nowhere: each of these actions, once enabled by the
code's control flow, stays so until it is taken or its thread moves on.

## 6. What is proved

TLAPS checks these for every value of the constants that satisfies the modules'
assumptions (any dwell times, caps, windows, inputs).

**CaptainProofs.** The inductive invariant is `IInv` = `TypeOK`,
`PendingOnlyWhileRecovering`, and three facts the properties do not say.
`ApprovalsWithinCap`: *all* approvals in the deque fit the cap, not only those
handed out; without it a step could not bound what it adds. `ClimbMeasured`: in
CAUTIOUS the dwell time is time since SAFE, outside SAFE and CAUTIOUS the dwell
time has passed; `ClimbTakesTime` alone says nothing of the state before ACTIVE.
`GrantsPending`: a probe handed out is a probe pending. `StepShape` shows that
each branch of the decision chain is a `Conclude` under some condition, so that
most of the proof speaks of `Conclude` once. Theorems: `TypeCorrect`, `CapHolds`
(`EmittedWithinCap`), `PendingConfined`, `ClimbSlow` (`ClimbTakesTime`),
`OneProbe` (`OneProbePerGrant`, for caps up to 3: with a larger cap it is false),
`ForcedStands` (`ForcedNeverShortened`), `BrakesReleased`
(`TradesFindBrakesReleased`), and `WarmupHolds` (`NoTradeBeforeWindow`) for a process
that is started before the open (BOOT or OBSERVE in `Seeds`) and does not live
into the next day (`~Overnight`); TLC refutes it with a second day. This one is
inductive with the types alone, once `StepShape` has reduced a cycle before 09:30 to the
gates and OBSERVE.

**TradingProofs**, of ComplianceGuard. The window alone does not say how often orders were
granted. `GuardInv` = `TypeOK`, `RateHeld` and: `Aligned`, the window is the tail of
the grants; `OffsetFell`, the wall clock has not gained since any grant;
`DroppedOld`, what left the window is old in elapsed time. Theorems:
`GuardTypes`, whatever the clock does, and `CeilingHolds` (`RateHeld`), under
the assumption that the clock is never stepped forward. The assumption is needed:
with `Forward = TRUE` and a jump of two ticks TLC finds three grants in a window
(MCTrading with `Forward` and `Skews` {0, 2}). Of the mode manager, `OwnsAGuard`: it
implements the guard it owns, since all its steps are steps of that guard
or leave it alone. By it `ProbesHeld` has `RateHeld` for the manager without a second proof.
`SwitchGuarded` (`SwitchIsChecked`) shows the action property of each of its steps:
only `SetMode` enters LIVE in a running manager, and then the guard has granted the
probe under the settings of that very step.

Of PositionManager: `IInv` = `TypeOK` and `RiskNeverGrows`; the core is
`MoveStopHolds`: a stop moved by `MoveStop` loses less. Theorems: `TypeCorrect`,
`RiskBounded` (`RiskNeverGrows`), `StopsOnlyTighten` (`StopNeverBackward`), for
all entries and looks.

Of PaperBroker: `NetIsFills` and `BooksBalance` sum over all filled orders, while a step
looks at one, or at all that a price fills. `Agrees` says of one symbol that
position, cash and slack are what its filled orders add up to; `FillAgrees` is the one
lemma about one fill, for an addition, a reduction, a close and a flip, and all it uses of
rounding is that it is off by half a hundredth at most (`RoundedNear`). `BooksAgree` carries
it through a price that fills several orders, by induction on the orders; other
symbols keep theirs (`SameTrades`). `BrokerInv` is that for each symbol, with the types. No
order waits that a price has reached (`NoLimitMissed`) is inductive with the types alone:
placing and modifying look at the last price, which the market leaves only by
filling. Theorems: `BrokerTypes`, `PositionsAreNet` (`NetIsFills`), `BooksStayBalanced`
(`BooksBalance`), `NoneMissed` (`NoLimitMissed`), `EndedOrdersStay` (`EndedIsFinal`), for all
prices, quantities and numbers of orders.

**Recursion.** The induction theorems of the library take an operator, which no prover here
can instantiate. `FromZero` is induction for a *set* of numbers, from the
well-foundedness of the naturals in its form for sets, and `ByRecursion` says that a
function can be defined element by element when the step is a function. With these two
the sums of `PaperBooks` and of `DataPath` are proved about.

**DataPathProofs.** `MinutesFollowTicks` defines the candles of the day from all ticks
at once, with maxima, minima and a sum; the builder takes ticks one by one. `Built` says
what the builder holds after a sequence of ticks: it forms the candle of the latest minute
seen, and has closed each minute from the first up to it, as the candle of what counted
for it or as a gap after the last one that traded. Each branch of `on_tick` is a lemma
that carries it to one tick more (`BuiltStart`, `BuiltDiscard`, `BuiltExtend`,
`BuiltRoll`), and `ShowsIs` and `SkippedIs` return from there to the definition. That the
deque of closed minutes never drops one is used and is an assumption on the day
(`DayAssumption`, 400 places for 375 minutes, and 140, 80 and 30 for the windows of three,
five and fifteen minutes).

`HigherFollowsTicks` is reached in two steps. `WindowsRight` is inductive and speaks of the
closed minutes only: the buffer of a timeframe has the last of them, as many as the window
that is being filled has had, or those since the last gap, or all there are (`Filling`);
its deque has the candle of each stretch of them that fills a window and has no gap, in
order, and no other, and never more than the windows that are over (`Filled`), which is
why the deque drops none. `FillingOn`, `FillingNone` and `FilledOn` take a minute that closes
through `_update_tf_buffer_locked`; that a whole window finds all its minutes in the buffer is
`NewWhole`, and that a buffer of full length at the end of a window is that window
`LastWhole`. `AggregateShows` then says that the candle of the candles of some minutes is the
candle of their ticks: the extremes of extremes, the first and last of what is ordered
(`CountedInOrder`), and the sum over a disjoint union (`VolumeUnion`). With `Built` a
stretch without a gap is a window of which every minute traded (`FullMeans`).

The archive is whole since no thread is
left to close a minute (`NoThreadLeft`): a stop in time has the feed's thread off and the
broadcast joined before it writes. Theorems: `PathTyped` (`DataPathTypeOK`),
`MinutesFollow` (`MinutesFollowTicks`), `HigherFollows` (`HigherFollowsTicks`),
`ArchiveWhole` (`ArchiveIsWhole`), `CyclesForward` (`CyclesGoForward`), for any clock, ticks, delays, stops, timeouts and restarts.

**FeedProofs**, of FeedConnection. `QueueFresh` (`QueueIsFresh`): on_data checks the
epoch in one step and queues the tick in another, and between them the
epoch can only move on if the socket thread itself moves it. The invariant
says so: a tick that passed the check is of the latest epoch
(`InFlightIsLatest`), as the active pair names no other (`ActiveIsLatest`).
`ShutdownCuts` (`NothingAfterShutdown`): what disconnect has waited for must stay
as it found it while it waits for the rest (`NoneInFlight`, `ConsumerIsAway`), which
rests on the flags it raised first (`CallerShutsDown`, `ConsumerIsTold`); a join that
times out is covered, since the drain at the end comes after all of them.
`ServedWhileConnected` (`ConnectedIsServed`) and `TypeCorrect` go with them. Of
FeedWatch, `WorseIsConfirmed` (`WorsensOnlyConfirmed`): the count of the hysteresis never
stands for more findings than were made (`Counted`), for any thresholds.

**TickPipelineProofs.** `Refines` (`Moves`): TickPipeline implements Conveyor, step by step.
A stage says where a tick is only if it is in one place, so the invariant is
`Once`, no two spots hold the same tick, with `Known`, no spot holds a tick that has not
arrived, and what makes a batch leave one place as it enters the other
(`RawAtWork`, `CleanAtWork`: a thread holds ticks only where its loop has taken some). `Once`
is about all queues and threads at once; `LineLaw` and `SpotLaw` say what the spots of
each line are, and the lemmas after them what a line that grows, shrinks or is
rearranged does to the spots, so that each action is shown by naming the lines it
changes. `InOrder` rearranges: that the sort of clean_batch loses and doubles
no tick is proved of its definition by places (`Place` is a bijection, a
counting argument with the cardinality theorems). Nothing is assumed of starts,
stops or writes. `TruthKept` (`RawKept`) does assume one raw thread and writes that
succeed, and needs `Written`: what a thread has read, is about to forward or has forwarded
is in the file. TLC refutes it without either assumption (section 7).
`RepeatsApart` (`NoRepeat`) assumes one raw and one clean thread. Ticks wait in the order
in which they arrived (`InTurn`); what was accepted once is in the history still, or
enough other fingerprints were accepted since (`StillHeld`, `Outrun`); and what the thread
found of a tick is still true when it acts on it (`VerdictHolds`). TLC refutes it with
a second clean thread.

**DashboardProofs**, of HeartbeatWatch. `AlarmExplained` (`AlarmIsExplained`): an emergency
is shown for a raised flag, a block that cannot be parsed, or a heartbeat more than a unit
past the threshold, for all periods and mappings. One look cannot tell the last of these;
the strengthening says what one stale look still means at the next (`StaleLookHolds`): the
heartbeat it found late has come since, or it is a unit older. That the alarm is also founded
(`AlarmIsFounded`: a flag, or a block not served in time) follows where blocks can
be parsed (`Parses`) and the loop comes by the heartbeat at most one look later than the
threshold (`Margin`); the corollary `AlarmFounded` says so. Neither is the case by default:
the block has 108 bytes of the 128 demanded, and periods of 5 s for both with a loop of
0.25 s under a timer of 0.2 s leave no such margin. Section 7 has both.
Of ControlPlane: the count of
stops says nothing of the frames that are about to stop the components, so `Sound`
follows them (`Before`): there is at most one in the whole stack of interrupted
handlers, none before `_stop_event` is set, none once the components were stopped. That
only the lowest frame is not one of `stop()` bounds the stack. Lemmas on stacks
(`Replaced`, `Pushed`, `Popped`) say what one change of the top does to all this,
so that each action is shown by naming its change. Theorems: `TypeCorrect` and
`StoppedOnce` (`StopsOnce`), for any number of runs, clicks, signals and crashes. Of
DashboardStream: the frames on the wire are of one run of the backend and stand in the
order of their numbers, behind what the bus has taken of that run, so a frame is overtaken
by none that waits before it. `FreshKept` (`FreshIsNotLost`), for any number of sends,
timeouts, cuts and restarts.

**BrokerDataProofs**, of OptionPoller. `Remembered` (the spot remembered is that of the
last chain) and `Based` (a poll under way measures from the chain before it) give
`OneBase` (`ChangesShareBase`). For the breaker, `Counting`: the failures in a row
are not fewer than the polls that asked in vain; `Tripped`: at the limit the
breaker rests; `AtWork`: while a poll is under way it does not. They give
`RestsInTime` (`BreakerRests`). With `TypeCorrect` for any legs, prices, limits and
periods. Of HistoryDownload: the invariant ties the place in the download to
the disk: a day about to be marked has its file, what is completed in memory is
filed and of the range, the answer being saved was not rejected and is better than
what it replaces. What was not rejected lacks no more minutes than allowed, or has no valid
row at all (`Filed`): the exception is the code's, which rejects no frame without rows (section
7). Theorems: `DownloadTypes`, `CheckpointFiled` (`CheckpointIsFiled`),
`RangeFiled` (`RangeIsFiled`), `UsableKept` (`UsableIsKept`), for any days, ranges
and answers.

Of AuthSession: the invariant says where a thread is when it holds a lock
(and that it holds it there), that a thread exchanging tokens holds the session
it set out from, and that the calls nest as they do. Theorems: `NoDeadlock`
(`NoLockCycle`), `OneFetches` (`NoSessionWasted`), for any number of threads.

**Only model-checked**: all liveness, since fairness and ENABLED are out of the
prover's reach. Every safety invariant of a passing run is a theorem. Conversely
`PendingOnlyWhileRecovering`, `RiskNeverGrows`, `ConnectedIsServed`, `RangeIsFiled`,
`EndedIsFinal` and `CyclesGoForward` are proved, and no run repeats them.

## 7. What the code does not keep

**The findings**, each with the line that says otherwise quoted in `findings`:

- MCControlPlaneLost: a publish that read the block before the dialog's fallback
  wrote it puts the old emergency flag back over the dialog's, which has reported
  success; the backend trades on.
- MCDashboardStreamRestarted: the backend counts its frames from the start again
  after a restart, and the bus takes them for stale until the old count is passed.
- MCTradingCycleRisk: main calls the risk engine with three arguments where it
  takes two; the first opportunity that survives trap and scoring ends the
  backend.
- MCHeartbeatMapping: the backend creates a kill-switch block of 108 bytes and the reader
  demands 128; where a mapping has the size asked for, the second look at a live block
  that is served in time shows the emergency.
- MCHistoryDownloadLost: the meta file that a kill or a failed write left behind
  makes a full file look unusable, and a degraded answer replaces it.

Further statements about the code are written down as properties
which TLC refutes, and which no run repeats. The last column says how to see
it: the configuration to change, and the property to name in it.

| property (module) | what the code does | configuration |
|---|---|---|
| `Recovers` (Captain) | vetoes made *because* the captain is in SAFE count towards the burst that renews SAFE: with an offer a cycle it never ends | MCRecovery with `clean |-> 1` in `Quiet` |
| `CapDropsOnlyAtCap` (Captain) | the frequency cap counts a cycle's approvals twice and drops trades below the cap | MCTrading |
| `PendingMeansProbe` (Captain) | a probe dropped by the cap leaves `_probe_pending` set | MCTrading |
| `NoTradeBeforeWindow` (Captain) | a process that lives on trades in the next day's observation window | MCTrading, `Overnight = TRUE` |
| `SignalHonoured` (ControlPlane) | a signal during `stop()` deadlocks the main thread on a non-reentrant lock | MCControlPlaneLost |
| `NoCandleAfterStop` (ControlPlane) | after an emergency command the same turn of the loop processes a candle | MCControlPlaneLost |
| `RawKept` (TickPipeline) | two raw threads overwrite each other's append; a failed append is swallowed and the batch goes on | MCTickPipelineThreads with `WritesFail = FALSE`; MCIngest with `WritesFail = TRUE` |
| `ForwardedCounted` (TickPipeline) | a record the full cleaner queue refused is counted as forwarded | MCTickPipelineThreads |
| `Audited` (TickPipeline) | a stop drops the clean buffer, a failed write its batch: broadcast ticks missing from the structured file | MCTickPipelineThreads |
| `StaticIpChecked` (ComplianceGuard) | a LIVE order without addresses is granted | MCTrading, by `C!` |
| `LiveIsChecked` (ModeManager) | a manager constructed in LIVE has checked nothing | MCTrading, by `M!` |
| `PartialAfterRisk` (PositionManager) | R is measured to the moved stop, so the partial exit comes early | MCTrading, by `P!` |
| `EarningsKept` (PaperBroker) | a position closed exactly is deleted with its realized P&L | MCTrading, by `B!` |
| `NeverSilentlyDead` (FeedConnection) | after two failures the socket thread is gone, the feed neither reconnected nor declared dead | MCIngest; also with `MaxTroubles = 2`, `MaxRetries = 3` |
| `OnlyAllowedBrains` (TradingCycle) | main asks the captain's result for a key it does not have, and scans the strategies of all brains | MCTradingCycleRisk |
| `OnlyValidTicks` (DataPath) | a tick the validator refused comes back with the data center's broadcast and is made part of a candle | MCDataPath |
| `EveryMinuteProcessed` (DataPath) | main looks at the last closed minute only: when a tick closes several, the one that traded is passed over for a gap candle | MCDataPath |
| `FallbackMeansTrouble` (FeedWatch) | main publishes its own monitor's recommendation, which hears no ticks | MCFeed |
| `SafeIsEarned` (FeedWatch) | the time since the feed went DOWN survives the night: safe mode at the first check of the morning | MCFeed, `Days = 2` |
| `UpdatedIsPolled` (OptionPoller) | a poll that failed or was skipped returns the last chain, which the data engine counts as an update: "updated within 60s" is scored for a chain of any age | MCRecovery |
| `RefreshReplaces` (AuthSession) | "attempting full re-authentication" after a refresh that failed returns True with the old session | MCIngest, by `A!` |
| `EmergencyIsCurrent` (HeartbeatWatch) | an emergency once shown is shown for ever, also of a backend that serves its block again | MCDashboard, by `W!` |
| `AlarmIsFounded` (HeartbeatWatch), by default periods | the heartbeat comes every 5 s, when the loop next comes by, and is late after 5 s: two looks in between show the emergency for a backend that is served in time, wherever blocks can be parsed | MCHeartbeatMapping with `Page = 4096`, `Threshold = Interval = Reopen = 25` (5 s in units of 200 ms), `Slack = 2`, `MaxStarts = 1` |
| `CompletedHasCandles` (HistoryDownload) | `_gap_detection` finds no gaps in a frame without rows: after a whole day of rows none of which is valid a file without rows is saved and the day is marked completed | MCHistoryDownloadLost with `Answers <- InvalidAnswers` |
| `HardCut`, `Watched`, `ZombieIsEnded` (FeedConnection) | a disconnect while the socket is being built leaves a connection open; a connect soon after a permanent failure gets no watchdog; a connection that never delivers a tick is never closed | MCIngest, the last MCFeed |

These shape what the runs can say: `Recovers` is checked without offers,
`NoTradeBeforeWindow` for the first day, `RawKept` for one thread and files that
can be written, `Reconnects` for one failure, `StopHonoured` for a
process that is sent no signal, and of the emergency that is shown only that it is explained
(`AlarmIsExplained`), not that the backend had given cause (`AlarmIsFounded`).

Met on the way and outside any model, as it concerns rates per second: the poller
paces its submissions with `time.sleep(min(0.05, ...))`
(`src/core/option_chain_poller.py:511`), so that with the default of ten requests
per second twice as many are submitted.

## 8. What is not modelled

- *Within the modelled components*: formatting, logging, latency figures,
  statistics, scores (inputs of `Captain`), unrealized P&L of positions, which
  partition a tick is written to, price scaling and subscriptions of the feed,
  market hours of the feed (it is open), the heartbeat block.
- *Of the option chain*: the cache of open interest and its ages, IV, anomaly and
  liquidity filters, pacing, the sequential fetch, which is off by default.
- *Numerics*: feature engines, strategies, brains, filters, context, machine
  learning, learning, greeks and costs. Floating point over data with no
  concurrency: a discrete model says little of it.
- *Input and output*: downloads, instrument tables, journal, database, the data
  center's minor, option and computed pipelines, retention, transformers.
- *Display*: dashboard panels, charts, assets.
- *Within reach*: section 9.

## 9. The plan

The order was: first what decides whether to trade (Captain) and what stops it
(ControlPlane); then what must not be lost (TickPipeline), the regulator's
limit (ComplianceGuard, ModeManager), the money (PositionManager, PaperBroker)
and the feed (FeedConnection); then what the first part left: the data path with
its candles (DataPath), the judgement of the feed (FeedWatch), the dashboard's two
channels (HeartbeatWatch, DashboardStream), the session (AuthSession), the archive of the
past (HistoryDownload), main's step (TradingCycle) and the option chain (OptionPoller).
All of these are done.

What would come next: the command queue of the dashboard at its limit (it drops
the oldest command, which may be the emergency stop); the order path behind the
risk engine once main reaches it, by INSTANCE of ComplianceGuard and PaperBroker;
edge decay and replay, each with the invariant that makes it correct as a theorem.

## 10. Running it

    tlasany Captain.tla
    tlc -workers 2 -config MCTrading.cfg MCTrading
    tlapm CaptainProofs.tla

The longest runs, MCTrading, MCIngest, MCTickPipelineThreads, MCDataPath and MCDashboard,
take about two minutes each; the proofs of each module about a minute from nothing, those of
TickPipelineProofs about six.
