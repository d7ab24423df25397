# Verification of saltern-watch

saltern-watch runs a salt field: ponds in which brine evaporates stage by stage,
pumps that move it, crystallizers in which salt forms and is harvested, and the
readings, alerts, weather and maintenance around them. One Go process holds an HTTP
API, three background loops with a pool of workers, and an SQLite database. This
directory holds TLA+ modules translated from that code, TLC configurations that
check them on small instances, and theorems proved with TLAPS.

Everything below about the code refers to `src/`. There are no Go tests in the
repository; what it promises is in its comments, and the findings quote them.

## 1. Inventory

### How the parts run and meet

* `cmd/saltern-watch/main.go` opens the store, starts the engine on a context that
  SIGINT or SIGTERM cancels, and serves HTTP. When the listener has shut down `main`
  returns; it does not wait for the engine.
* `store/db.go` opens the database with **one connection** (`SetMaxOpenConns(1)`):
  SQL statements never overlap, and no caller opens a transaction (`store/tx.go` has
  one user-less helper). A service function that makes several store calls is
  therefore a sequence of atomic statements, between which every other goroutine may
  run. All `Save...` functions are `UPDATE ... WHERE id = ?` of the whole row: the last
  writer wins, and nothing compares a version.
* Each HTTP request is a goroutine. The engine has a scheduler, an evaluator, a
  poller, and `SALTERN_WORKERS` workers that take job ids from a channel of 64.
* The parts meet in the tables: transfers write pond levels and pump hours, readings
  write pond levels, rain fails pending transfers, maintenance resets pump hours,
  harvest batches drive crystallizers, the evaluator reads everything and raises alerts.

### Components

| component | state | operations | hard behaviour | what makes it correct |
|---|---|---|---|---|
| transfers (`service/transfer.go`) | job rows, pond levels, pump hours | Schedule, Cancel, Execute, PauseAllOnRain | a worker's eleven statements interleave with other workers, cancellations, rain, readings | a job moves its volume once or not at all; no pond below the keep line; done means moved |
| engine (`engine/engine.go`) | job channel, goroutines | scheduleOnce, worker, evaluateOnce, pollOnce, Run | ids sent again every tick, full channel, cancellation racing with queued work | due jobs are served; workers end after the signal |
| recovery (`engine/recovery.go`) | job rows | RecoverPending, RecoverStaleSensors (neither is called) | jobs left running by a crash | a job left running is resolved |
| process (`cmd/saltern-watch`) | the process | start, signal, end | ends between any two statements | what is stored makes sense after a restart |
| pumps (`service/pump.go`) | status, hours run, last service | Create, Service, AvailableFor, AccumulateHours, MarkFault | check and use apart; read-modify-write of the counter | a pump serves one job; hours are neither lost nor double |
| ponds (`service/pond.go`) | level, stage, status | Create, AdvanceStage, MarkDrained, StalePonds | stage read and written apart | the stage advances one at a time |
| readings (`service/brine.go`) | readings, pond levels | Ingest, BatchIngest, CurrentBe | out-of-order readings, half-stored batches | a flag, a level and a stage can be traced to stored readings |
| crystallizers (`service/crystallizer.go`) | state, tons, salinity, since | Create, FillBrine, Transition, PromoteRipened, EstimateYield | whole rows saved from old reads by API and evaluator | harvested only when ripe; legal moves only |
| harvest batches (`service/harvest.go`) | batches, crystallizer rows | Open, CrystTransition, Complete, Cancel | two rows written in two statements | one open batch per crystallizer; yield fits the filling |
| alerts (`service/alert.go`) | alert rows, keyed by fingerprint | Raise, EvaluatePonds, EvaluatePumps, Acknowledge, Close | evaluator raises and clears while operators act; rounds cut short | each observation counted once, no decision lost; what is wrong is noted, what is well is cleared |
| weather (`service/weather.go`) | observations | Record, RainRisk | rain pauses transfers from the evaluator's round | none of its own beyond the pause |
| maintenance (`service/maintenance.go`) | tasks | Plan, Start, Complete, Block, ScanOverdue | task saved, then pump serviced | a done task has serviced its pump |
| pond groups (`service/pondgroup.go`) | groups | Create, GradientGaps, BalancePlan | ponds read one by one; level arithmetic over different areas | a plan conserves brine, keeps to `min_keep_cm` and ends |
| laboratory (`service/quality.go`) | samples, sensor offsets | RecordSample, Calibrate, ApplyOffset | calibration between readings | an offset in use is on record |
| reading cache (`service/cache.go`) | slots and an index | Update, PruneBefore (not used) | index kept across pruning | a lookup returns its own pond |
| reports, dashboard, handlers, front end, config, clock | none | queries and decoding | none | none of state |

`PROJECT.json` lists the same components with their status, and under `hazards` every
place in the code where one of these behaviours bites, with the property that covers
it or the reason none does yet.

## 2. What is modelled

### `Transfer`: the transfer component with everything that races with it

| variable | code |
|---|---|
| `jobs` | table `transfer_jobs`, the row reduced to its order and its status |
| `content` | `ponds.brine_level_cm`, as m3 (content = cm * area / 100) |
| `hours` | `pumps.hours_run` |
| `queue` | `Engine.jobs`, the buffered channel |
| `todo` | the slice of due jobs `scheduleOnce` is sending |
| `rain` | the slice of jobs `PauseAllOnRain` is failing |
| `wk` | per worker goroutine: program counter, job, levels read (`from`, `to`), run hours (`fee`), counter read (`meter`) |
| `cl` | per API request in flight: program counter, order or job |
| `stopping` | the engine's context is cancelled |
| `now`, `left` | the clock and what is left of the environment's bounds |
| `drained`, `filled` | history: which worker lowered a source and raised a target, for which job |

Each store call of the code is one action. `Execute` is `Load`, `Claim`, `Source`,
`Target`, `Drain`, `Fill` (or `Undo`), `CheckRunning`, `CheckReserved`, `Meter`,
`Bill`, `Finish`, with `Fail` standing for the closure `fail`; every one of them may
also meet an error of its store call (`Fails`), and goes where the code goes then.
`Schedule` is `ScheduleSource`, `ScheduleTarget`, `ScheduleRunning`,
`ScheduleReserved`, `ScheduleInsert`; `Cancel` is `CancelRead`, `CancelSave`;
`PauseAllOnRain` is `RainAlert`, `PauseNext`; the scheduler is `PollDue`, `Dispatch`;
a worker's loop is `Take`, `Quit`. `ReportLevel` is the last statement of a reading,
`ServicePump` the effect of a pump service, `Signal` and `Restart` the process.

A statement that computes from something read earlier uses what was read (`wk[w].from`,
`wk[w].meter`), never the current value: that is where the hazards are.

Abstractions, and why they lose nothing the properties speak of:

* levels are contents in m3; the conversion is a factor per pond, so the 20 cm and
  480 cm lines are the constants `Keep` and `Rim`. Rounding of floats is not modelled.
* pump and pond status do not occur. Nothing the program serves calls `MarkFault` or
  `MarkDrained`, so no row leaves the status it was created with.
* the salinity `Schedule` looks at (`CurrentBe`) is decided outside: a request that
  it refuses changes nothing, like any other refused request.
* timestamps, fail reasons and the event log are left out. Nothing modelled reads them.
* the running list `AvailableFor` reads stops at 50 rows; the instances have fewer.
* requests may be cut off by a restart but their store calls do not fail by
  themselves: a failed call ends a request with nothing changed.

Bounds. `Budget` says how many orders, cancellations, readings, services, rain alerts,
store failures, signals, restarts and ticks may happen in a behaviour. The code's own
limits are parameters: `QueueCap` (64), `MaxRunHours` (720), `MaxHours` (100000),
`Horizon` (365 days), `DefaultRate` (50).

### `TransferLedger` and `TransferBooks`: the promise

`TransferLedger` is what a user is entitled to: an accepted order moves its volume in
one indivisible step, at most once, never from below the keep line, or not at all;
the only exception is the volume that a failure in the middle loses (the end of the
process may lose one per worker). A reading sets the content of its pond.

`TransferBooks` maps the implementation to it: a move takes effect when the target is
raised; until then the volume counts at its source. It also states the balance of the
brine: the levels, and the volumes a worker has drained and not filled, those lost for
good included, sum to what the ponds began with and what readings changed. The sums are
over ponds, jobs and workers, so it assumes that these are finite.

`Execute` cannot keep either promise without limits, since it computes both new levels
from levels it read earlier; nor can `AvailableFor` keep a pump to one job, since it
reads the running and the pending rows one after the other and `Schedule` inserts in a third
statement. `BooksSpec` therefore is `Transfer`'s `Spec` with three history variables and
nothing removed from it:

* `crossed` becomes true at the first *crossing*: two workers are underway with one job,
  or rely on the level of one pond (`Held`: from the read of a level to the last write
  computed from it), or a reading arrives for a pond that a worker relies on.
* `measured` is the sum of what the readings changed.
* `raced` collects the pumps that a job came to occupy, or one was claimed on, while a request
  was checking them (`Overtaken`), or on which a job that had been cancelled or failed was
  claimed after all.

The ledger and the balance are about the time before the first crossing. Any number of
workers moves any number of jobs in it, with readings between and beside them, failed calls, compensations
and restarts. After a crossing the ledger may be wrong for good, as finding 1 shows.

### `Harvest`: crystallizers, their batches, and the poller

| variable | code |
|---|---|
| `cryst` | table `crystallizers`: state, tons, salinity, `ripened_since` |
| `batch` | table `harvest_batches`: crystallizer, status, tons |
| `req` | per API request in flight: program counter, crystallizer, the row it read and changed, batch, tons |
| `round` | the rows `PromoteRipened` has promoted in memory and has yet to save |
| `now`, `left` | the clock and what is left of the environment's bounds |
| `poured` | history: tons that saved fills have added |
| `met` | history: the crystallizers for which two requests were opening a batch at once |

`FillBrine` is `FillRead`, `SaveRow`; `Transition` is `TransitionRead`, `SaveRow`;
`Open` is `OpenRead`, `OpenCheck`, `OpenCreate`, `OpenAdvance` (its `CrystTransition`
reads the row again), `SaveRow`; `Complete` is `CompleteRead`, `CompleteWeigh`,
`CompleteBook`, `SaveRow`; `PromoteRipened` is `PromoteList`, `PromoteSave`. What a
request saves is the row it read, worked on; nothing compares it with the row that is
there by then.

Abstractions:

* a function reads the clock right after the row it ages with it. Both happen within
  one tick: a tick is hours, and an order of two nearby readings of the clock changes
  nothing unless a tick falls between them.
* salinity is in percent, so 0.85 and 0.95 are 85 and 95; the rules 80 % full and 1.1
  times the brine are compared as integers. `RipeTime` is the 72 hours.
* `PromoteRipened` goes by name; the model allows any order of saves.
* a request that is refused on its first read changes nothing and is not followed.
* grades, moisture, notes and names are left out: they are stored and never read by
  what is modelled.
* the poller's end on a signal is the one of `Transfer`'s goroutines and is not
  repeated; `Restart` ends it together with the requests.

### `Alerts` and `AlertBook`: the evaluator against the operators

| variable | code |
|---|---|
| `alerts` | table `alerts`, by `dedup_key`: status, count, whether `acked_at` and `closed_at` are set |
| `todo` | what `evaluateOnce` still has to do: ponds to look at, a level to compare, kinds to raise or clear, pumps, tasks |
| `find` | inside `Raise` or `clearQuiet`: what `FindOpenByDedupKey` returned |
| `req` | per operator's request in flight: the row it checked and the status it will write |
| `latest`, `older`, `aged` | the two newest readings of each pond, and whether the newest is over 8 h old |
| `pump`, `overdue` | what `EvaluatePumps` and `ScanOverdue` will find |
| `left` | what is left of the environment's bounds |

`EvaluatePonds` is `StartRound`, `Look` (one `LatestReading` and what it calls for),
`Compare` (`previousReading`); `EvaluatePumps` is `CheckPumps`; `ScanOverdue` the action
of that name; each `Raise` and each clearing is `Find` and `Write`. A failed call ends
the round where `evaluateOnce` returns the error (`Look`, `CheckPumps`, `ScanOverdue`)
and is swallowed where the code swallows it. `Acknowledge` is `AckRead`, `SettleSave`;
`Close` is `CloseRead`, `SettleSave`. The rain step that ends a round is in `Transfer`.

Severity follows from the kind, messages are never read: both are left out. A weak pond
of stage 0 is not raised (`StageZero`). Pumps are `well`, `worn` or in `fault`, as an
environment decides; for a pump that is well `clearQuiet` looks for alerts of the three
kinds a *pond* has, finds none, and leaves the pump's own alerts as they are. A task that
is overdue stays so: no route can start it, so none can complete it.

`AlertBook` is what the table promises: one row per key, each observation counted once,
a decision changes nothing but the status.

### `Readings`: readings, sensors, and the pond rows they move

| variable | code |
|---|---|
| `readings` | table `brine_readings`, in order of id |
| `ponds` | `ponds.brine_level_cm`, `stage`, `target_be` |
| `sensors`, `calibrations` | the tables, reduced to kind and offset |
| `req` | per request in flight: program counter, batch, items done, the row being built, or the calibration or the stage about to be written |

`Ingest` is `Check` (`GetPond`, `ValidateReading`), `Offset` (`ApplyOffset`), `Flag`
(`LatestReading`, `FlagOf`, `CompensateBe`), `Insert`, `Level`; `BatchIngest` the loop
around it, a single reading a batch of one. `Calibrate` is `CalibrateRead`,
`CalibrateRecord`, `CalibrateApply`; the advance route is `AdvanceRead` (`CurrentBe`),
`AdvanceCheck`, `AdvanceSave`. The concentration's unit is what one degree above 20 C
adds, so compensation is an addition, and applying it twice is visible. The flag is
decided on the raw value against the stored, compensated one, as in the code. No
operation of the program deactivates a sensor or a pond, so neither is modelled.

### `PondGroups`: chains of ponds and balance plans

`level` and `stage` are the ponds' columns, `groups` the table reduced to its chains,
`req` the requests: what `Create` has read (`CreateClimb`), what `BalancePlan` has read
(`BalanceRead`), the rows it works on and the plan so far. Each turn of its loop is
`BalanceMove`, its end `BalanceEnd`. Brine is counted in units of 1 cm on 1 m2; what is
not a whole number of them is rounded down, where the code has floats. All groups have
the same `MinKeep`. Rows of equal level may be sorted either way, as `sort.Slice` may.

### `Upkeep`: pumps and their maintenance

| variable | code |
|---|---|
| `pumps` | table `pumps`: status, `hours_run`, `last_service_at` |
| `tasks` | table `maintenance_tasks`: target, status, `done_at` |
| `req` | per call in progress: program counter, operation, the row it read and changed |
| `runs`, `services`, `told` | history: runs and services saved, completions whose caller got an error or no answer |

`Start`, `Complete`, `Block` are `TaskRead`, `TaskSave`; `Complete` of a pump's task goes
on to `ServiceRead`, `PumpSave`, where `Service` and `MarkFault` come to as well;
`AccumulateHours` is `RunRead`, `PumpSave`. `Start`, `Block` and `MarkFault` have no
route. They are modelled because without `Start` the complete route, which exists, is
always refused; what is shown of them is shown of the services, not of the API.

### The MC modules and the proof modules

`MCTransfer`, `MCBooks`, `MCHarvest`, `MCAlerts`, `MCReadings`, `MCPondGroups`, `MCUpkeep` hold the
instances TLC checks. The theorems are in `TransferProofs`, `TransferBooksProofs` (which
extends it), `HarvestProofs`, `AlertProofs`, `ReadingsProofs`, `PondGroupsProofs` and
`UpkeepProofs`. `Induction` is the library they share: induction over the natural
numbers, the latest row of a table, and sums along a sequence and over a finite set.

## 3. What the runs check

The instances in `MCTransfer` have two ponds and one pump. Pond `p1` covers the order twice, a
level that a reading reports covers it only by going below the keep line, so that whether the
line holds may depend on a stale read. The order falls due one tick later; at the default rate
it takes longer than `MaxRunHours`, so the refusal of `AccumulateHours` happens too. `MCBooks`
has the same ponds and pump; its order is smaller and may be made twice.

| run | instance | properties |
|---|---|---|
| `interference` | one job, two workers, a queue of one; a tick, and any three of cancellation, rain alert, store failure, level reading, pump service, signal and restart | `TypeOK`, `AtMostOncePerWorker`, `FloorKept`, `OrphanNeedsFailure`, `DoneHasMoved`, `Inductive`, `NeverRequeued` |
| `ledger` | one worker, a queue of one, two orders for one pump; two store failures, one each of level reading, restart, signal and tick, with fairness | `BooksBalance`, `OneJobUnlessRaced`, `KeepsLedger`, `DueIsServed`, `WindsDown` |
| `crystallizer_races` | one crystallizer, two requests and the poller; two fills, two moves, three openings, a completion, a store failure, a restart, two ticks, with fairness | `TypeOK`, `RipeBeforeHarvest`, `OneBatchUnlessMet`, `OnlyWhatWasPoured`, `RowsSound`, `RipeIsPromoted` |
| `alerts` | one pond, one pump with a task on it, one operator; three readings, so that a level drops and rests again, one change of the field, one decision, one error or restart, with fairness | `TypeOK`, `StampsMatch`, `KeepsBook`, `StampsStay`, `WrongIsNoted`, `WellIsCleared` |
| `readings` | one pond, one sensor, two clients; three posts of single readings or a batch of two, a calibration, three stage advances, one error or restart | `TypeOK`, `FlagsJustified`, `LevelIsMeasured`, `AcceptedAreStored`, `OffsetIsRecorded`, `ColdStageIsEarned`, `TargetFollowsStage` |
| `pond_groups` | three ponds, one three times as large, all combinations of three levels and three stages; one group, one plan, one disturbance, one error or restart, with fairness | `TypeOK`, `GroupsBounded`, `PlanExplainsRows`, `WithinRange`, `KeepLine`, `RequestsEnd` |
| `upkeep` | one pump, one task, two callers; three task calls, a service or fault, two runs, one error or restart, a tick | `TypeOK`, `HoursSinceService`, `DoneWasServiced` |
| `repeated_deduction`, `completed_not_emptied`, `two_open_batches`, `alert_not_reopened`, `stage_not_earned` | the smallest environment that shows it | a comment the code contradicts; TLC finds the violation |

* `AtMostOncePerWorker`: the status check and the claim of `Execute` are two
  statements, yet they still protect a worker from itself, however often the
  scheduler sends an id again and across restarts.
* `FloorKept`: no interleaving of transfers, compensations and stale reads takes a
  pond below the lowest of its keep line, its first level and the levels readings report.
* `OrphanNeedsFailure`: the races alone leave no running row without a worker; it
  takes a restart or a failed call.
* `DoneHasMoved`: whatever cancellations, rain and other workers wrote over the row, a
  job that reads done has been moved by some worker.
* `NeverRequeued`: no step brings a job back to pending, which is why sending an id
  again is harmless after the first execution.
* `KeepsLedger`, `BooksBalance`: until a crossing the statements implement the ledger and
  the brine balances, with failures at every call, a failing compensation, readings, the end
  of the process and repeated ids. The run has one worker, for the sake of the liveness
  properties it also checks, so its crossings come from the reading; the theorems (section 5)
  are about any number of workers. Finding 1 shows a crossing of two.
* `OneJobUnlessRaced`: a pump serves one unfinished job, unless it was taken while a request
  was checking it. A failure, a cancellation, a restart or a repeated id alone never gives it
  to two. A job that is claimed between the two reads of `AvailableFor` is in neither list, so
  that counts as a race too.
* `DueIsServed`, `WindsDown`: due jobs are taken up unless the process is stopping;
  after a signal every worker ends unless the process ends first.

* `RipeBeforeHarvest`: stale rows are written back freely, and yet a crystallizer that
  is ready or being harvested has ripened for 72 hours and is well filled.
* `OneBatchUnlessMet`: a crystallizer has one open batch at most, unless two requests
  were between `Open`'s first read and its insert at once. Failures, dumped fillings,
  completions and restarts alone never leave two. Where two requests meet they may: that
  is finding 4, and `OneOpenBatch` is the rule without the exception.
* `OnlyWhatWasPoured`: lost updates can bring brine back that was dumped, but no row
  shows, and no batch counts, more than was poured (times 1.1).
* `RowsSound`: the inductive invariant of the proofs, checked here first.
* `RipeIsPromoted`: what is ripe does not stay so: the poller promotes it, or someone
  moves it. A failed save ends a round and the next one repeats it.

* `KeepsBook`: `Raise` writes the count it read plus one, and operators write a status
  checked earlier; no observation and no decision is lost for all that, because each
  `UPDATE` writes its own columns and one goroutine counts. Two counting goroutines, or
  a whole-row save, would break it.
* `StampsMatch`, `StampsStay`: the status agrees with the times on the row, and no time
  once written is lost, although a late `Acknowledge` may bring a closed alert back.
* `WrongIsNoted`, `WellIsCleared`: once the field rests, rounds that errors and restarts
  cut short add up. Whatever is wrong has a row: a silent, weak or hot pond, a level that
  has dropped, a worn or faulty pump, an overdue task. A pond that is well, its level at
  rest included, has no active reading alert. Having a row is not being open: that is
  finding 3.
* `FlagsJustified`: the reading a flag was decided on may not be the latest any more when
  the row is stored; it is a stored one all the same, and the flag fits it.
* `LevelIsMeasured`, `AcceptedAreStored`: a level is one that an accepted reading of that
  pond measured; what a batch has counted is stored as sent.
* `OffsetIsRecorded`: two calibrations may cross and either save may fail, but an offset
  in use has its record.
* `TargetFollowsStage`: two advances may work on one row and a late one move the stage
  back, but a stage and its target are written together.
* `ColdStageIsEarned`: of a pond with no reading above 20 C, a stored reading that was not
  rejected measured the target of the stage before. A cold reading is corrected downwards,
  so the second correction only makes an advance harder. With a warm reading the rule
  (`StageIsEarned`) is false: that is finding 5.
* `GroupsBounded`: stages move while a chain is read, so a stored chain may not ascend
  any more, or never have; the reads did, so it visits each stage at most once.
* `PlanExplainsRows`, `WithinRange`: a plan conserves brine and stays within the levels read.
* `KeepLine`: no pond is planned below `min_keep_cm`, if brine goes to ponds no larger
  than the one it comes from. Without that condition it is false: the check subtracts
  what the target rises, not what the source falls.
* `RequestsEnd`: the loop of `BalancePlan` ends, and every request with it.
* `HoursSinceService`: overlapping saves lose hours and may undo a service, but the hours
  a row shows were run since the service date it shows.
* `DoneWasServiced`: the pump of a done task was serviced since, unless the caller of
  `Complete` got an error or the process ended.

Why the bounds suffice: a duplicate execution needs two workers and one job, a stale level
two workers or one and a reading, a failing compensation two failed calls, a round
of the scheduler that is cut short two jobs and a full queue of one, a second job on
a pump two orders. Each budget gives exactly that: `interference` has what can
get between two workers, `ledger` two jobs and the failures. Of the seven disturbances that
`interference` knows no behaviour has more than three (`FewDisturbances`); each of its
hazards takes two at most, and the theorems have no such limit.
Of the crystallizer's budget, two fills are one to ripen (4 of 5) and one
to top up what is ripening, three openings are one more than the requests that may hold
one, and with `RipeTime` 2 and two ticks a row is read before, at and after the moment
it is ripe.

In `Alerts`, two readings are what a level drop takes and a third what it takes to rest
again, one operator whose decision may come at any point of a round overtakes the evaluator
or is overtaken by it, and one error or restart cuts a round at each place once;
`MaxCount` 2 tells a first observation from a later one, and counts saturate there. In
`Readings`, the values lie on both sides of each limit, `p1` starts at a stage from which
the cap on the target is reached, and the batch overlaps single readings in time and in
second. In `PondGroups` the initial levels and stages are all combinations, so bounds on
disturbances cost little. In `Upkeep` two callers are needed to overwrite a row; runs
below, at and above the largest run and a sum above the largest counter occur.

Every invariant and every action or refinement property in the table is also proved, for
all values of the constants (section 5), so the bounds limit what is known of liveness
only. There the instances have no more than what makes progress hard: two jobs and a
queue of one, an operator and an evaluator, a request and the poller on one crystallizer.

Every property of a passing run has a mutant in `PROJECT.json`: the definition of a
handler with a plausible bug (`BugLoad` drops the status check, `BugUndo` adds the
volume once too often, `BugRestart` puts running jobs back to pending, ...), under which
the property fails on the same instance.

### Fairness

`FairSpec` gives weak fairness to the scheduler, to each worker and to the pausing
loop: they are goroutines, the Go runtime runs them, and each waits for nothing but
the channel or a store call that returns. Requests, readings, weather, signals,
restarts and the clock owe nothing. A worker's `select` may choose either ready case,
so fairness is on the whole worker and not on `Quit`: `WindsDown` holds because the
scheduler stops with the context and the queue drains.

`Harvest`'s `FairSpec` gives weak fairness to the poller alone. Requests may stay
between two statements for ever: nothing waits for them.

`Alerts`' `FairSpec` gives it to the evaluator alone, one of the engine's goroutines with
a ticker of its own. `PondGroups` gives it to each request that has begun, a goroutine of
the server that waits for nothing but store calls that return; no request need begin.

### Deadlock

`CHECK_DEADLOCK FALSE` in the configurations of `Transfer`: when the environment's budget is spent
and the queue is empty, or when the workers have exited, the system rests.
`Harvest` and `Alerts` never do: the poller and the evaluator always have a round to
begin or to go on with. `Readings`, `PondGroups` and `Upkeep` may rest only when no
request is in flight; their action `Idle` says so, and any other halt is a deadlock TLC
reports.

## 4. Findings

1. **A job can be deducted twice** (`repeated_deduction`). `Execute` checks the status
   it read and then saves `running` unconditionally; the scheduler sends a job at every
   tick until it is claimed. Two workers that load one job both lower its source.
   `engine/recovery.go:12` states the rule "avoid deducting twice".
2. **A completed batch may leave its crystallizer full** (`completed_not_emptied`), with
   one request at a time: the API may dump a filling (ready, ripening, filling, empty)
   while its batch is open and fill the crystallizer again. `Complete` then weighs the
   old batch against the new filling and does not empty it, so that it is harvested and
   counted again. `service/harvest.go:67` says the crystallizer returns to empty.
3. **A closed alert is never raised again** (`alert_not_reopened`). `Raise` looks for a
   row that is not closed, and `UpsertAlert` then finds the closed one by its key and
   counts on it, without touching its status. A level drop is closed and raised on the
   closed row in the same round, by the evaluator alone. `service/alert.go:27` says that
   alerts of the same key *that are not closed* are counted on.
4. **A crystallizer can have two open batches** (`two_open_batches`). `Open` asks for an
   open batch and inserts one in a later statement; two requests that both ask first both
   insert. `service/harvest.go:18` says that a batch is opened only where there is no
   unfinished one, and the error for it is "open harvest batch exists".
5. **A warm pond advances below its target** (`stage_not_earned`). A reading is stored
   compensated to 20 C (`service/brine.go:57`), and `CurrentBe` compensates the stored value
   again. At 20 degrees above the reference this adds 0.6 Be. `service/pond.go:74` says a
   stage advances when the concentration has reached the target, and
   `model/reading.go:65` gives the correction as 0.03 Be per degree.

What the models allow beside these, though no line of the repository is clear enough to
be contradicted by it: two requests that both check a pump before either has inserted its
job both get it (the exception in `OneJobUnlessRaced`; `service/pump.go:94`, `:106`); a
late `Cancel` reads a pending row and writes `cancelled` over a job that is running or
has moved; requests and the poller save whole crystallizer rows,
so a row may move where `model/crystallizer.go:19` has no transition; jobs left
running by a crash stay so, since `RecoverPending` has no caller; a pump's service is
undone by an `AccumulateHours` that read the row before it; a pond's stage is moved back
by a late `AdvanceStage`; a completed task is taken back by a late `Start` or `Block`; a
group's stages no longer ascend when it is stored; a plan towards a larger pond may go
below `min_keep_cm`.

## 5. What is proved

`TransferProofs` proves, for all values of the constants that satisfy the assumptions
in `Transfer` (orders between distinct ponds with positive volumes, natural levels,
positive rates, `None` not a job or an order):

| theorem | statement |
|---|---|
| `TypeCorrect` | `Spec => []TypeOK`, with the channel within its capacity and the counter saturating |
| `PendingIsLeftForGood` | `Spec => NeverRequeued` |
| `WorkerMovesOnce` | `Spec => []AtMostOncePerWorker` |
| `DoneIsMoved` | `Spec => []DoneHasMoved` |
| `FloorIsKept` | `Spec => []FloorKept` |
| `OrphansComeFromFailures` | `Spec => []OrphanNeedsFailure` |
| `InductiveHolds` | `Spec => []Inductive` |

The argument. None of the safety properties is inductive: `AtMostOncePerWorker` says
nothing of a worker about to drain. The strengthening says what each worker knows at
each point of `Execute`:

* `ProgressInv(w)`: before `Drain`, `w` has done nothing for its job; between `Drain`
  and `Fill` it has lowered the source only; afterwards it has done both; and a job
  for which `w` has done anything is pending no more. With `NeverRequeued` (proved
  first, as a step lemma `RowStep`), a worker that loads a pending job has done nothing
  for it before, whatever others did. This gives `AtMostOncePerWorker`, and
  `DoneHasMoved` because only `Finish` writes done and `drained`, `filled` of a worker
  at that point are both 1 and never decrease again.
* `LevelInv(w)`: the levels `w` has read and will write back, stale as they may be, are
  above the floor, and at `Drain` the one it computes from covers the volume. Then no
  write takes a pond below it. The value read may be old; it was above the floor once,
  and the write is computed from it alone.
* `OwnerInv`: a running row has a worker past its claim, or something has failed.

The proofs have one lemma per goroutine and one step per action; what a step leaves
alone is settled by frame lemmas (`Frame`, `ProgressFrame`, `LevelFrame`).

`HarvestProofs` proves, for any capacities, yields, salinities, ripening time and
budget, and any number of requests and batch ids:

| theorem | statement |
|---|---|
| `TypeCorrect` | `Spec => []TypeOK`, with every row, stored, held or listed, within its capacity |
| `RowsAreSound` | `Spec => []RowsSound` |
| `HarvestIsEarned` | `Spec => []RipeBeforeHarvest` |
| `NothingFromNothing` | `Spec => []OnlyWhatWasPoured` |
| `OneBatchIsOpen` | `Spec => []OneBatchUnlessMet` |

The argument. A row that will be saved may be arbitrarily old, so nothing relates it to
the row it will overwrite; what makes the saves harmless is that the rules are local to
a row. `RowsSound` says that every row that is stored, listed by the poller or held by a
request is sound by itself: ripe and well filled as its state demands, and no fuller than
what was poured (counting what the request itself is about to pour). Every row that is
saved was computed from a row once read, by a rule that keeps it sound (`FilledSound`,
`MovedSound`, `SavingSound`), and time and pouring only add to what soundness needs.
`RipeBeforeHarvest` and the first half of `OnlyWhatWasPoured` follow; the second half
needs the yields of the requests about to book. `OneBatchUnlessMet`
needs that where no two requests have met there is at most one between `Open`'s first read
and its insert, and that one that is about to insert has seen no open batch and nobody
has opened one since.

`AlertProofs` proves, for any ponds, pumps, tasks and readings, any number of operators
and any budget:

| theorem | statement |
|---|---|
| `TypeCorrect` | `Spec => []TypeOK` |
| `StampsHold`, `StampsAreKept` | `Spec => []StampsMatch`, `Spec => StampsStay` |
| `BookIsKept` | `Spec => KeepsBook`, the refinement of `AlertBook` |

The argument. The invariant adds to the types that between `FindOpenByDedupKey` and the
write (`Counted`) the row still shows the count that was found: operators change statuses
only and there is one evaluator. Then every step changes the table in one of four ways
(`Effect`: not at all, one more on a count, an upsert, a mark), and the stamps and the
refinement follow from these, row by row.

`UpkeepProofs` proves, for any pumps, tasks, hours, callers and budget:

| theorem | statement |
|---|---|
| `TypeCorrect` | `Spec => []TypeOK` |
| `DoneIsServiced` | `Spec => []DoneWasServiced` |
| `HoursAreSinceService` | `Spec => []HoursSinceService` |

The argument. A row that a call holds may be stale, but it is dated like a row of the
table and has its task's target, because targets never change (`Knows`). A done task is
accounted for by a service since, by a word to the caller, or by a completion *past* its
save (`Accounted`): `DoneWasServiced` itself is not inductive, since a completion that has
only read its task would excuse a task that another call has completed.

The hours need a second invariant on top (`HoursInv`). A row is covered if the runs
saved since the service date *it shows* add up to its hours; this is local to a row, so
a stale save that undoes a service puts back a covered row, with an older date and more
runs behind it. The row that a run has been added to, but not yet saved, is covered up to
that run. The sum is over the sequence of runs, and `Induction` says what appending does.

`TransferBooksProofs` proves, for any finite numbers of ponds, jobs and workers, any orders,
levels and budget, and with everything of `Transfer` free to happen (several transfers at
a time, readings, failing calls, failing compensations, cancellations, rain, a shutdown,
restarts at every point):

| theorem | statement |
|---|---|
| `LevelsAreKnown` | `BooksSpec => [](~crossed => Known /\ Solo)`: a level a worker holds is the pond's level while it matters, and its job is nobody else's |
| `LedgerIsKept` | `BooksSpec => KeepsLedger`, the refinement of `TransferLedger` up to the first crossing |
| `BooksAreBalanced` | `BooksSpec => []BooksBalance` |
| `PumpsServeOneJob` | `BooksSpec => []OneJobUnlessRaced` |

The argument. `BooksSpec` implies `Spec` (`BooksRefine`), so everything `TransferProofs` shows
holds of it. Neither promise follows from the floors proved there, which allow any stale
value above the floor. `Known` adds that between `Source` and `Drain` the level held is
the source's, up to `Fill` the other one is the target's, and from `Drain` to the end of
`Undo` the source shows the level held less the volume. It is inductive for as long as
nobody crosses the worker: what another worker or a reading writes is then a pond this
worker does not hold. `Solo` adds that no other worker has touched the volume of a job that is
underway. Then each step is a step of the ledger:
`ScheduleInsert` books; `Drain`, a `Fill` that fails and an `Undo` that succeeds are
stutters, because the volume that is out of its source still counts there; a `Fill` that
succeeds is the move, and `ProgressInv` with `Solo` says it is the only one of that job; an
`Undo` that fails is the loss of one job, and a `Restart` that of all jobs in flight; a reading
is `Measure`. For the balance each write changes one pond and one debt by the same volume
(`SumChanged`), and a new order owes nothing.

For the pumps the invariant says what the check has established so far, where nobody raced it
(`Reserved`): a request that has seen no running job still sees none, and one that has seen no
pending job either sees a free pump. The first part lasts because a job that is claimed meanwhile
makes the pump raced, the second because a new job does too. Jobs that fall due beyond the `Horizon` are not
counted: `AvailableFor` does not look at them.

The limit is where the code's own limit is: one crossing is enough to break both. Nothing is
said of what comes after it, except what `TransferProofs` says, which needs no such limit.

`ReadingsProofs` proves, for any ponds, sensors, concentrations, levels, clients, batches
and budget:

| theorem | statement |
|---|---|
| `TypeCorrect` | `Spec => []TypeOK` |
| `FlagsAreJustified` | `Spec => []FlagsJustified` |
| `LevelsAreMeasured` | `Spec => []LevelIsMeasured` |
| `AcceptedIsStored` | `Spec => []AcceptedAreStored` |
| `OffsetsAreRecorded` | `Spec => []OffsetIsRecorded` |
| `ColdStagesAreEarned` | `Spec => []ColdStageIsEarned` |
| `TargetsFollowStages` | `Spec => []TargetFollowsStage` |

The argument. None is inductive, since a request acts on what it found some steps ago.
`Knows` says what each request holds at each point: the row it builds has the pond,
time, level and temperature of its item; at `Insert` its flag is warranted by a
reading that *is* stored, though perhaps no longer the latest; at `Level` its row is
stored and ok; the calibration about to be applied is on record; the stage about to be
saved was reached by a stored reading once that is corrected again, which for a pond without
a warm reading means by the reading itself. All of this says that some row exists, and rows are only added
(`Grows`), so what the other requests do cannot spoil it (`CallFrame`). That
`LatestReading` returns a row at all is `GreatestRow`, by induction over the table.

`PondGroupsProofs` proves, for any ponds of any size, any chains, levels, stages, `MinKeep`,
clients and budget:

| theorem | statement |
|---|---|
| `TypeCorrect` | `Spec => []TypeOK` |
| `GroupsAreBounded` | `Spec => []GroupsBounded` |
| `PlansExplainRows` | `Spec => []PlanExplainsRows` |
| `PlansStayInRange` | `Spec => []WithinRange` |
| `PlansKeepTheLine` | `Spec => []KeepLine` |

The argument. While a chain is read, the number of stages read is bounded by the last one
of them (`Climbs`), whatever the stages are by the time the group is stored. Of a plan in
progress `Planned` says that the rows are the levels read plus what the plan poured, that
each row lies between two of the levels read, and that the keep line holds if the brine
never went to a larger pond. A turn of the loop moves what brings a highest and a lowest
pond to one level, rounded down; bounds on the division say that they do not pass each
other, so both stay between the two levels they had. Levels are compared by multiplying
with the other pond's area. That a move changes what the plan poured by its `Gain` is a
fact about sums along a sequence.

What is not proved. The liveness properties (`DueIsServed`, `WindsDown`, `RipeIsPromoted`,
`WrongIsNoted`, `WellIsCleared`, `RequestsEnd`) rest on fairness, hence on `ENABLED`, which
this prover does not support; they are model-checked only. So are the violations, which
need no more than an example.

Sums and latest rows are recursive functions and folds, and the induction theorems of the
library take an operator as a parameter, which the provers here cannot instantiate.
`ByInduction` therefore states induction for a *set* of numbers and derives it from the
theorem that a well-founded relation has minimal elements; what a recursive definition
computes is then proved by showing that the function it chooses exists.

## 6. Not modelled, and why

* `RecoverPending`, `RecoverStaleSensors`, `ReadingCache`, `MarkDrained`, `RecordLevel`,
  `Harvests.Cancel`, `WithTx`, `GradientGaps` and `StalePonds` have no caller in the
  running program.
* Laboratory samples, purity and trends, the weather risk, grades, moisture and the totals
  of harvest batches, `EstimateYield`: single inserts and pure queries over rows nobody
  else writes. Whether it rains is the environment's choice in `Transfer`.
* Reports, dashboard, front end, configuration and the HTTP decoding keep no state
  that a property could be about.
* Rounding of floats, severities, messages, names, notes and the event log.
* The modules are not composed with each other: what one component writes to another's
  rows is an action of the environment there (`ReportLevel`, `ServicePump` in `Transfer`;
  `Measure`, `Wear`, `Lapse` in `Alerts`; `Disturb` in `PondGroups`), free to happen at any
  point and with any value of its range.

## 7. Plan

Done: the models of transfers, harvest, alerts, readings, pond groups and upkeep, the runs
on each, and the proofs of every safety, action and refinement property of the runs.

Left, in this order:

1. **The rim** (`service/transfer.go:46`): what the 480 cm check of `Schedule` promises when
   orders are made and executed one at a time, and its proof.
2. **Harvest under failures** (`service/harvest.go:39`, `:89`): which pairs of batch and
   crystallizer a failing or interrupted call can leave behind.
3. **Weather risk, grades and yields** (`EstimateYield`): pure functions, against their tables.
4. **Reading cache**: sequential, against a map as its abstract specification.
