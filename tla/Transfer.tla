------------------------------ MODULE Transfer ------------------------------
(***************************************************************************)
(* The brine transfer component of saltern-watch: the job table, the       *)
(* scheduler, the worker pool, and the API calls and rain alarm that race  *)
(* with them (internal/service/transfer.go, internal/engine/engine.go).    *)
(*                                                                         *)
(* The store runs one SQL statement at a time on one connection and the    *)
(* code opens no transaction, so a statement is the unit of atomicity: a   *)
(* function that makes several store calls is several actions here, and    *)
(* what it read stays in its record (wk, cl) while others move on.         *)
(*                                                                         *)
(* A pond is its content in m3: level cm = content * 100 / area, so the    *)
(* keep line of 20 cm is the constant Keep[p] and the rim of 480 cm is     *)
(* Rim[p].  Pond status and pump status never leave "active" and           *)
(* "stopped" in the running program (nothing it serves calls MarkDrained   *)
(* or MarkFault), so both are left out.                                    *)
(***************************************************************************)
EXTENDS Integers, Sequences

CONSTANTS
  JobIds,       \* ids the transfer_jobs table can hand out
  Ponds, Pumps, \* rows of the tables ponds and pumps
  Workers,      \* the worker pool, SALTERN_WORKERS goroutines
  Clients,      \* concurrent API requests
  Orders,       \* transfers a client may ask for
  Levels,       \* contents a level reading may report
  InitContent,  \* content of each pond at the first start
  Keep, Rim,    \* content of each pond at 20 cm and at 480 cm
  Rate,         \* pump capacity, m3/h
  DefaultRate,  \* 50 m3/h, billed when the pump is not available
  MaxRunHours,  \* 24 * 30, the longest run AccumulateHours accepts
  MaxHours,     \* 100000, where the hour counter saturates
  QueueCap,     \* 64, capacity of the job channel
  Horizon,      \* 365 days, how far ahead a reservation counts
  Budget,       \* bounds on the environment: see BudgetKinds
  None

\* BOUND: how many of each may happen in a behaviour.
BudgetKinds ==
  {"order", "cancel", "report", "service", "rain", "fault", "signal", "restart", "tick"}

ASSUME OrdersAssumption ==
  Orders \subseteq [from : Ponds, to : Ponds, pump : Pumps, vol : Nat \ {0}, sched : Nat]
    /\ \A o \in Orders : o.from # o.to
ASSUME LevelsAssumption ==
  /\ Levels \subseteq Nat
  /\ InitContent \in [Ponds -> Nat] /\ Keep \in [Ponds -> Nat] /\ Rim \in [Ponds -> Nat]
ASSUME RatesAssumption ==
  /\ Rate \in [Pumps -> Nat \ {0}] /\ DefaultRate \in Nat \ {0}
  /\ MaxRunHours \in Nat /\ MaxHours \in Nat
ASSUME BoundsAssumption ==
  QueueCap \in Nat /\ Horizon \in Nat /\ Budget \in [BudgetKinds -> Nat]
ASSUME NoneAssumption == None \notin JobIds /\ None \notin Orders

VARIABLES
  \* the database
  jobs,      \* transfer_jobs: a function from the ids in use to rows
  content,   \* ponds.brine_level_cm, as m3
  hours,     \* pumps.hours_run
  \* the process
  queue,     \* Engine.jobs, the channel of job ids
  todo,      \* jobs scheduleOnce has read and not sent yet
  rain,      \* jobs PauseAllOnRain has read and not written yet
  wk,        \* the worker goroutines: program counter and local variables
  cl,        \* API requests in flight, likewise
  stopping,  \* the engine's context is cancelled
  \* the environment
  now,       \* the clock
  left,      \* what is left of Budget
  \* history
  drained,   \* drained[w][j]: source levels worker w has lowered for j, net of undos
  filled     \* filled[w][j]: target levels worker w has raised for j

store   == <<jobs, content, hours>>
engine  == <<queue, todo, rain>>
history == <<drained, filled>>
vars    == <<store, engine, wk, cl, stopping, now, left, history>>

Statuses == {"pending", "running", "done", "failed", "cancelled"}
JobRow   == [order : Orders, status : Statuses]

WorkerPc ==
  {"idle", "load", "claim", "source", "target", "drain", "fill", "undo", "fail",
   "running", "reserved", "meter", "bill", "finish", "exited"}
IdleWorker == [pc |-> "idle", job |-> None, from |-> 0, to |-> 0, fee |-> 0, meter |-> 0]

ClientPc   == {"idle", "target", "running", "reserved", "insert", "cancel"}
IdleClient == [pc |-> "idle", order |-> None, job |-> None]

Init ==
  /\ jobs = [j \in {} |-> None]
  /\ content = InitContent
  /\ hours = [p \in Pumps |-> 0]
  /\ queue = <<>> /\ todo = {} /\ rain = {}
  /\ wk = [w \in Workers |-> IdleWorker]
  /\ cl = [c \in Clients |-> IdleClient]
  /\ stopping = FALSE
  /\ now = 0
  /\ left = Budget
  /\ drained = [w \in Workers |-> [j \in JobIds |-> 0]]
  /\ filled = [w \in Workers |-> [j \in JobIds |-> 0]]

-----------------------------------------------------------------------------
\* The store.

InStatus(s)  == {j \in DOMAIN jobs : jobs[j].status = s}
Pending(t)   == {j \in InStatus("pending") : jobs[j].order.sched <= t}
SetStatus(j, s) == jobs' = [jobs EXCEPT ![j].status = s]

\* ORDER BY scheduled_at; the order of equal times is the database's choice.
Earliest(S) == {j \in S : \A k \in S : jobs[j].order.sched <= jobs[k].order.sched}

\* The two lists AvailableFor goes through.
RunningOn(p)  == {j \in InStatus("running") : jobs[j].order.pump = p}
BugReservedOn(p) == {j \in Pending(now) : jobs[j].order.pump = p}
ReservedOn(p) == {j \in Pending(now + Horizon) : jobs[j].order.pump = p}

Spend(kind) == left[kind] > 0 /\ left' = [left EXCEPT ![kind] = @ - 1]

\* A store call may return an error and change nothing.
Fails    == Spend("fault")
Succeeds == UNCHANGED left

-----------------------------------------------------------------------------
\* The scheduler goroutine: scheduleOnce.

\* Read the due jobs, oldest first.  Nothing marks a job as sent: one that is
\* still pending at the next tick is read, and sent, again.
PollDue ==
  /\ ~stopping
  /\ todo = {}
  /\ todo' = Pending(now)
  /\ UNCHANGED <<store, queue, rain, wk, cl, stopping, now, left, history>>

BugDispatch ==
  \E j \in Earliest(todo) :
    /\ queue' = Append(queue, j)
    /\ todo' = todo \ {j}
    /\ UNCHANGED <<store, rain, wk, cl, stopping, now, left, history>>

\* The non-blocking send: a full queue ends the round.
Dispatch ==
  /\ \E j \in Earliest(todo) :
       \/ /\ Len(queue) < QueueCap
          /\ queue' = Append(queue, j)
          /\ todo' = todo \ {j}
       \/ /\ Len(queue) >= QueueCap
          /\ queue' = queue
          /\ todo' = {}
  /\ UNCHANGED <<store, rain, wk, cl, stopping, now, left, history>>

-----------------------------------------------------------------------------
\* A worker goroutine: worker and TransferService.Execute.

At(w, pc)   == wk[w].pc = pc
Become(w, r) == wk' = [wk EXCEPT ![w] = r]
Goto(w, pc) == Become(w, [wk[w] EXCEPT !.pc = pc])
Release(w)  == Become(w, IdleWorker)
Order(w)    == jobs[wk[w].job].order

\* The select of worker: a job and a cancelled context may both be ready, and
\* then either may win.
Take(w) ==
  /\ At(w, "idle") /\ queue # <<>>
  /\ Become(w, [IdleWorker EXCEPT !.pc = "load", !.job = Head(queue)])
  /\ queue' = Tail(queue)
  /\ UNCHANGED <<store, todo, rain, cl, stopping, now, left, history>>

\* for id := range e.jobs, over a channel that nothing closes.
BugQuit(w) == FALSE

Quit(w) ==
  /\ At(w, "idle") /\ stopping
  /\ Goto(w, "exited")
  /\ UNCHANGED <<store, engine, cl, stopping, now, left, history>>

BugLoad(w) ==
  /\ At(w, "load")
  /\ Goto(w, "claim") /\ Succeeds
  /\ UNCHANGED <<store, engine, cl, stopping, now, history>>

BugGiveUp(w) ==
  /\ At(w, "load")
  /\ \/ jobs[wk[w].job].status = "pending" /\ Goto(w, "claim") /\ Succeeds
     \/ jobs[wk[w].job].status # "pending" /\ Release(w) /\ Succeeds
     \/ Fails /\ Goto(w, "exited")
  /\ UNCHANGED <<store, engine, cl, stopping, now, history>>

\* GetTransferJob and the status check.
Load(w) ==
  /\ At(w, "load")
  /\ \/ jobs[wk[w].job].status = "pending" /\ Goto(w, "claim") /\ Succeeds
     \/ jobs[wk[w].job].status # "pending" /\ Release(w) /\ Succeeds
     \/ Fails /\ Release(w)
  /\ UNCHANGED <<store, engine, cl, stopping, now, history>>

\* SaveTransferJob(running): an unconditional UPDATE of the row read by Load.
Claim(w) ==
  /\ At(w, "claim")
  /\ \/ SetStatus(wk[w].job, "running") /\ Goto(w, "source") /\ Succeeds
     \/ Fails /\ jobs' = jobs /\ Release(w)
  /\ UNCHANGED <<content, hours, engine, cl, stopping, now, history>>

\* GetPond(t.FromPondID)
Source(w) ==
  /\ At(w, "source")
  /\ \/ /\ Become(w, [wk[w] EXCEPT !.pc = "target", !.from = content[Order(w).from]])
        /\ Succeeds
     \/ Fails /\ Goto(w, "fail")
  /\ UNCHANGED <<store, engine, cl, stopping, now, history>>

BugTarget(w) ==
  /\ At(w, "target")
  /\ IF stopping \/ wk[w].from < Order(w).vol
     THEN Goto(w, "fail")
     ELSE Become(w, [wk[w] EXCEPT !.pc = "drain", !.to = content[Order(w).to]])
  /\ Succeeds
  /\ UNCHANGED <<store, engine, cl, stopping, now, history>>

\* GetPond(t.ToPondID), then the checks of the context and of the keep line.
Target(w) ==
  /\ At(w, "target")
  /\ LET refused == stopping \/ wk[w].from < Order(w).vol + Keep[Order(w).from]
     IN \/ ~refused /\ Succeeds
             /\ Become(w, [wk[w] EXCEPT !.pc = "drain", !.to = content[Order(w).to]])
        \/ refused /\ Succeeds /\ Goto(w, "fail")
        \/ Fails /\ Goto(w, "fail")
  /\ UNCHANGED <<store, engine, cl, stopping, now, history>>

\* UpdatePondLevel(from.ID, drainLevel): computed from the level Source read.
Drain(w) ==
  /\ At(w, "drain")
  /\ \/ /\ content' = [content EXCEPT ![Order(w).from] = wk[w].from - Order(w).vol]
        /\ drained' = [drained EXCEPT ![w][wk[w].job] = @ + 1]
        /\ Goto(w, "fill") /\ Succeeds
     \/ Fails /\ Goto(w, "fail") /\ UNCHANGED <<content, drained>>
  /\ UNCHANGED <<jobs, hours, engine, cl, stopping, now, filled>>

BugFill(w) ==
  /\ At(w, "fill")
  /\ \/ /\ content' = [content EXCEPT ![Order(w).to] = wk[w].to + Order(w).vol]
        /\ filled' = [filled EXCEPT ![w][wk[w].job] = @ + 1]
        /\ Goto(w, "running") /\ Succeeds
     \/ Fails /\ Goto(w, "running") /\ UNCHANGED <<content, filled>>
  /\ UNCHANGED <<jobs, hours, engine, cl, stopping, now, drained>>

\* UpdatePondLevel(to.ID, fillLevel); an error leads to the compensation.
Fill(w) ==
  /\ At(w, "fill")
  /\ \/ /\ content' = [content EXCEPT ![Order(w).to] = wk[w].to + Order(w).vol]
        /\ filled' = [filled EXCEPT ![w][wk[w].job] = @ + 1]
        /\ Goto(w, "running") /\ Succeeds
     \/ Fails /\ Goto(w, "undo") /\ UNCHANGED <<content, filled>>
  /\ UNCHANGED <<jobs, hours, engine, cl, stopping, now, drained>>

BugUndo(w) ==
  /\ At(w, "undo")
  /\ content' = [content EXCEPT ![Order(w).from] = wk[w].from + Order(w).vol]
  /\ drained' = [drained EXCEPT ![w][wk[w].job] = @ - 1]
  /\ Succeeds
  /\ Goto(w, "fail")
  /\ UNCHANGED <<jobs, hours, engine, cl, stopping, now, filled>>

\* Put the source back to the level Source read; an error is ignored.
Undo(w) ==
  /\ At(w, "undo")
  /\ \/ /\ content' = [content EXCEPT ![Order(w).from] = wk[w].from]
        /\ drained' = [drained EXCEPT ![w][wk[w].job] = @ - 1]
        /\ Succeeds
     \/ Fails /\ UNCHANGED <<content, drained>>
  /\ Goto(w, "fail")
  /\ UNCHANGED <<jobs, hours, engine, cl, stopping, now, filled>>

\* AvailableFor decides the rate that is billed.  It goes through the running
\* jobs, the one this worker executes among them.
Charge(w, rate, pc) == Become(w, [wk[w] EXCEPT !.pc = pc, !.fee = Order(w).vol \div rate])

CheckRunning(w) ==
  /\ At(w, "running")
  /\ \/ RunningOn(Order(w).pump) # {} /\ Charge(w, DefaultRate, "meter") /\ Succeeds
     \/ RunningOn(Order(w).pump) = {} /\ Goto(w, "reserved") /\ Succeeds
     \/ Fails /\ Charge(w, DefaultRate, "meter")
  /\ UNCHANGED <<store, engine, cl, stopping, now, history>>

CheckReserved(w) ==
  /\ At(w, "reserved")
  /\ \/ ReservedOn(Order(w).pump) # {} /\ Charge(w, DefaultRate, "meter") /\ Succeeds
     \/ ReservedOn(Order(w).pump) = {} /\ Charge(w, Rate[Order(w).pump], "meter") /\ Succeeds
     \/ Fails /\ Charge(w, DefaultRate, "meter")
  /\ UNCHANGED <<store, engine, cl, stopping, now, history>>

\* AccumulateHours: read the pump, refuse an implausible run, ...
Meter(w) ==
  /\ At(w, "meter")
  /\ \/ /\ wk[w].fee <= MaxRunHours
        /\ Become(w, [wk[w] EXCEPT !.pc = "bill", !.meter = hours[Order(w).pump]])
        /\ Succeeds
     \/ wk[w].fee > MaxRunHours /\ Goto(w, "fail") /\ Succeeds
     \/ Fails /\ Goto(w, "fail")
  /\ UNCHANGED <<store, engine, cl, stopping, now, history>>

\* ... and save the row with the hours added to what Meter read, saturating.
Bill(w) ==
  LET total == wk[w].meter + wk[w].fee
  IN /\ At(w, "bill")
     /\ \/ /\ hours' = [hours EXCEPT ![Order(w).pump] =
                          IF total > MaxHours THEN MaxHours ELSE total]
           /\ Goto(w, "finish") /\ Succeeds
        \/ Fails /\ hours' = hours /\ Goto(w, "fail")
     /\ UNCHANGED <<jobs, content, engine, cl, stopping, now, history>>

\* SaveTransferJob(done).  On an error Execute returns and the row stays.
Finish(w) ==
  /\ At(w, "finish")
  /\ \/ SetStatus(wk[w].job, "done") /\ Succeeds
     \/ Fails /\ jobs' = jobs
  /\ Release(w)
  /\ UNCHANGED <<content, hours, engine, cl, stopping, now, history>>

BugFail(w) ==
  /\ At(w, "fail")
  /\ Release(w) /\ Succeeds
  /\ UNCHANGED <<store, engine, cl, stopping, now, history>>

\* The closure fail: SaveTransferJob(failed), an error ignored.
Fail(w) ==
  /\ At(w, "fail")
  /\ \/ SetStatus(wk[w].job, "failed") /\ Succeeds
     \/ Fails /\ jobs' = jobs
  /\ Release(w)
  /\ UNCHANGED <<content, hours, engine, cl, stopping, now, history>>

Execute(w) ==
  \/ Load(w) \/ Claim(w) \/ Source(w) \/ Target(w) \/ Drain(w) \/ Fill(w) \/ Undo(w)
  \/ CheckRunning(w) \/ CheckReserved(w) \/ Meter(w) \/ Bill(w) \/ Finish(w) \/ Fail(w)

-----------------------------------------------------------------------------
\* API requests.  A request that is refused, or whose store call fails, changes
\* nothing; only the ones that get further are followed.  They are served until
\* the listener is closed, some time after the signal.

\* Schedule, GetPond(from): the level is at or above the keep line.  Whether the
\* brine is strong enough (CurrentBe) is decided outside this module.
ScheduleSource(c) ==
  /\ cl[c].pc = "idle" /\ Spend("order")
  /\ \E o \in Orders :
       /\ content[o.from] >= Keep[o.from]
       /\ cl' = [cl EXCEPT ![c] = [IdleClient EXCEPT !.pc = "target", !.order = o]]
  /\ UNCHANGED <<store, engine, wk, stopping, now, history>>

\* Each check lets the request go on to the next one or ends it.
Step(c, from, ok, to) ==
  /\ cl[c].pc = from
  /\ \/ ok  /\ cl' = [cl EXCEPT ![c].pc = to]
     \/ ~ok /\ cl' = [cl EXCEPT ![c] = IdleClient]
  /\ UNCHANGED <<store, engine, wk, stopping, now, left, history>>

\* GetPond(to): the volume fits under the rim, counting only what is there now.
ScheduleTarget(c) ==
  Step(c, "target", content[cl[c].order.to] + cl[c].order.vol <= Rim[cl[c].order.to], "running")

\* AvailableFor: first the running jobs, then the pending ones.
ScheduleRunning(c)  == Step(c, "running", RunningOn(cl[c].order.pump) = {}, "reserved")
ScheduleReserved(c) == Step(c, "reserved", ReservedOn(cl[c].order.pump) = {}, "insert")

\* CreateTransferJob; an id is new, which one it is does not matter.
ScheduleInsert(c) ==
  /\ cl[c].pc = "insert"
  /\ \E j \in JobIds \ DOMAIN jobs :
       jobs' = [k \in DOMAIN jobs \cup {j} |->
                  IF k = j THEN [order |-> cl[c].order, status |-> "pending"] ELSE jobs[k]]
  /\ cl' = [cl EXCEPT ![c] = IdleClient]
  /\ UNCHANGED <<content, hours, engine, wk, stopping, now, left, history>>

\* Cancel: GetTransferJob and the status check, ...
CancelRead(c) ==
  /\ cl[c].pc = "idle" /\ Spend("cancel")
  /\ \E j \in InStatus("pending") :
       cl' = [cl EXCEPT ![c] = [IdleClient EXCEPT !.pc = "cancel", !.job = j]]
  /\ UNCHANGED <<store, engine, wk, stopping, now, history>>

\* ... then an unconditional UPDATE.
CancelSave(c) ==
  /\ cl[c].pc = "cancel"
  /\ SetStatus(cl[c].job, "cancelled")
  /\ cl' = [cl EXCEPT ![c] = IdleClient]
  /\ UNCHANGED <<content, hours, engine, wk, stopping, now, left, history>>

\* The last statement of Ingest: a level reading overwrites the level.
ReportLevel(p) ==
  /\ Spend("report")
  /\ \E v \in Levels : content' = [content EXCEPT ![p] = v]
  /\ UNCHANGED <<jobs, hours, engine, wk, cl, stopping, now, history>>

\* PumpService.Service saves a row that differs from the stored one only in the
\* hours and the service time, so its read need not be a step.
ServicePump(p) ==
  /\ Spend("service")
  /\ hours' = [hours EXCEPT ![p] = 0]
  /\ UNCHANGED <<jobs, content, engine, wk, cl, stopping, now, history>>

Request(c) ==
  \/ ScheduleSource(c) \/ ScheduleTarget(c) \/ ScheduleRunning(c) \/ ScheduleReserved(c)
  \/ ScheduleInsert(c) \/ CancelRead(c) \/ CancelSave(c)

-----------------------------------------------------------------------------
\* The evaluator goroutine on a rain alert: PauseAllOnRain.  Its round looks at the
\* context only when it begins, so a round may outlive the signal.

RainAlert ==
  /\ rain = {} /\ Spend("rain")
  /\ rain' = Pending(now + Horizon)
  /\ UNCHANGED <<store, queue, todo, wk, cl, stopping, now, history>>

\* Save each row as read, with status failed; an error ends the round.
PauseNext ==
  /\ \E j \in Earliest(rain) :
       \/ SetStatus(j, "failed") /\ rain' = rain \ {j} /\ Succeeds
       \/ Fails /\ jobs' = jobs /\ rain' = {}
  /\ UNCHANGED <<content, hours, queue, todo, wk, cl, stopping, now, history>>

-----------------------------------------------------------------------------
\* The process and its environment.

\* SIGINT or SIGTERM cancels the context of the engine.
Signal ==
  /\ ~stopping /\ Spend("signal")
  /\ stopping' = TRUE
  /\ UNCHANGED <<store, engine, wk, cl, now, history>>

\* What is volatile is gone.
Reboot ==
  /\ queue' = <<>> /\ todo' = {} /\ rain' = {}
  /\ wk' = [w \in Workers |-> IdleWorker]
  /\ cl' = [c \in Clients |-> IdleClient]
  /\ stopping' = FALSE

BugRestart ==
  /\ Spend("restart")
  /\ Reboot
  /\ jobs' = [j \in DOMAIN jobs |-> IF jobs[j].status = "running"
                                    THEN [jobs[j] EXCEPT !.status = "pending"] ELSE jobs[j]]
  /\ UNCHANGED <<content, hours, now, history>>

\* The process ends and is started again.  It may end between any two statements,
\* after a signal too: main returns as soon as the HTTP server has shut down and
\* does not wait for the engine.  Nothing calls RecoverPending at the start.
Restart ==
  /\ Spend("restart")
  /\ Reboot
  /\ UNCHANGED <<store, now, history>>

Tick ==
  /\ Spend("tick")
  /\ now' = now + 1
  /\ UNCHANGED <<store, engine, wk, cl, stopping, history>>

Scheduler == PollDue \/ Dispatch
Worker(w) == Take(w) \/ Quit(w) \/ Execute(w)

Next ==
  \/ Scheduler
  \/ \E w \in Workers : Worker(w)
  \/ \E c \in Clients : Request(c)
  \/ \E p \in Ponds : ReportLevel(p)
  \/ \E p \in Pumps : ServicePump(p)
  \/ RainAlert \/ PauseNext
  \/ Signal \/ Restart \/ Tick

Spec == Init /\ [][Next]_vars

\* The goroutines of the engine are scheduled; requests, readings, weather,
\* signals, restarts and the clock owe nothing.
Fairness == WF_vars(Scheduler) /\ WF_vars(PauseNext) /\ \A w \in Workers : WF_vars(Worker(w))
FairSpec == Spec /\ Fairness

-----------------------------------------------------------------------------
(***************************************************************************)
(* Properties.                                                             *)
(***************************************************************************)

\* The shape of the state, with the two bounds the code keeps by a check before
\* a step: the channel's capacity and the saturating hour counter.
TableType == DOMAIN jobs \subseteq JobIds /\ jobs \in [DOMAIN jobs -> JobRow]
LevelType == content \in [Ponds -> Int] /\ hours \in [Pumps -> 0..MaxHours]
EngineType ==
  /\ queue \in Seq(DOMAIN jobs) /\ Len(queue) <= QueueCap
  /\ todo \subseteq DOMAIN jobs /\ rain \subseteq DOMAIN jobs
WorkerRec == [pc : WorkerPc, job : JobIds \cup {None},
              from : Int, to : Int, fee : Nat, meter : 0..MaxHours]
WorkerType ==
  /\ wk \in [Workers -> WorkerRec]
  /\ \A w \in Workers : wk[w].pc \notin {"idle", "exited"} => wk[w].job \in DOMAIN jobs
ClientRec == [pc : ClientPc, order : Orders \cup {None}, job : JobIds \cup {None}]
ClientType ==
  /\ cl \in [Clients -> ClientRec]
  /\ \A c \in Clients : /\ cl[c].pc \in ClientPc \ {"idle", "cancel"} => cl[c].order \in Orders
                        /\ cl[c].pc = "cancel" => cl[c].job \in DOMAIN jobs
EnvType == stopping \in BOOLEAN /\ now \in Nat /\ left \in [BudgetKinds -> Nat]
HistoryType ==
  drained \in [Workers -> [JobIds -> Int]] /\ filled \in [Workers -> [JobIds -> Int]]

TypeOK ==
  /\ TableType /\ LevelType /\ EngineType /\ WorkerType /\ ClientType
  /\ EnvType /\ HistoryType

\* However often the scheduler sends a job again, and across restarts, one worker
\* lowers the source of a job at most once: the status check of Execute, which
\* is not atomic with the claim, still protects a worker from itself.
AtMostOncePerWorker == \A w \in Workers, j \in JobIds : drained[w][j] \in 0..1

\* A job recorded as done has been moved: some worker has raised its target,
\* whatever cancellations, rain pauses and other workers wrote in between.
DoneHasMoved ==
  \A j \in InStatus("done") : \E w \in Workers : drained[w][j] > 0 /\ filled[w][j] > 0

AboveFloor(p, x) == \E v \in {Keep[p], InitContent[p]} \cup Levels : x >= v

\* No interleaving of transfers, compensations and stale reads takes a pond below
\* the lowest of its keep line, its first level and the levels a reading may report.
FloorKept == \A p \in Ponds : AboveFloor(p, content[p])

\* A running row no worker is executing is the trace of a restart or of a failed
\* store call; the races between workers, cancellations and rain leave none.
Owned(j) == \E w \in Workers : wk[w].job = j
Failed == left["restart"] < Budget["restart"] \/ left["fault"] < Budget["fault"]
OrphanNeedsFailure ==
  \A j \in InStatus("running") :
    Owned(j) \/ Failed

\* The table forgets no job, and a job that has left pending never returns to it,
\* which is what lets the scheduler send a job again without harm.
NeverRequeued ==
  [][\A j \in DOMAIN jobs : /\ j \in DOMAIN jobs'
                            /\ jobs'[j].order = jobs[j].order
                            /\ jobs'[j].status = "pending" => jobs[j].status = "pending"]_vars

\* A due job is taken up unless the process is stopping, though the queue may be
\* full of ids that were sent twice when the scheduler comes by.
DueIsServed ==
  \A j \in JobIds : (j \in Pending(now)) ~> (j \notin Pending(now) \/ stopping)

\* Run ends gracefully: after a signal every worker comes to its end, unless the
\* process is gone first.
WindsDown == stopping ~> ((\A w \in Workers : At(w, "exited")) \/ ~stopping)

-----------------------------------------------------------------------------
(***************************************************************************)
(* The inductive invariant behind the safety properties: what each worker  *)
(* knows at each point of Execute, though the rows it has read may have    *)
(* been overwritten since.                                                 *)
(***************************************************************************)

BeforeDrain == {"claim", "source", "target", "drain"}
Midway      == {"fill", "undo"}
AfterFill   == {"running", "reserved", "meter", "bill", "finish"}
Claimed     == (BeforeDrain \ {"claim"}) \cup Midway \cup AfterFill \cup {"fail"}

\* What w has done for j; once it has done anything, j is pending no more.
Record(w, j, d, f) == drained[w][j] = d /\ filled[w][j] = f

ProgressInv(w) ==
  /\ \A j \in JobIds :
       /\ drained[w][j] \in 0..1 /\ filled[w][j] \in 0..1
       /\ ~Record(w, j, 0, 0) => j \in DOMAIN jobs /\ jobs[j].status # "pending"
  /\ wk[w].pc \in Claimed     => jobs[wk[w].job].status # "pending"
  /\ wk[w].pc \in BeforeDrain => Record(w, wk[w].job, 0, 0)
  /\ wk[w].pc \in Midway      => Record(w, wk[w].job, 1, 0)
  /\ wk[w].pc \in AfterFill   => Record(w, wk[w].job, 1, 1)

\* The levels a worker has read and will write back are above the floor too.
LevelInv(w) ==
  /\ wk[w].pc \in {"target", "drain"} \cup Midway => AboveFloor(Order(w).from, wk[w].from)
  /\ wk[w].pc = "drain" => wk[w].from >= Order(w).vol + Keep[Order(w).from]
  /\ wk[w].pc \in {"drain", "fill"} => AboveFloor(Order(w).to, wk[w].to)

\* A running row belongs to a worker that has claimed it, or something failed.
OwnerInv ==
  /\ \A k \in BudgetKinds : left[k] <= Budget[k]
  /\ \A j \in InStatus("running") :
       Failed \/ \E w \in Workers : wk[w].job = j /\ wk[w].pc \in Claimed

Inductive ==
  /\ \A w \in Workers : ProgressInv(w) /\ LevelInv(w)
  /\ DoneHasMoved /\ FloorKept /\ OwnerInv

-----------------------------------------------------------------------------
(***************************************************************************)
(* What the comments say and the code does not keep.                       *)
(***************************************************************************)

\* recovery.go explains its rule with "no repeated deduction": no job lowers its
\* source twice.  Two workers that load the same pending job both do.
NoRepeatedDeduction ==
  \A j \in JobIds, v, w \in Workers : drained[v][j] + (IF v = w THEN 0 ELSE drained[w][j]) <= 1
=============================================================================
