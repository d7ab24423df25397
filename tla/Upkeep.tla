------------------------------- MODULE Upkeep -------------------------------
(***************************************************************************)
(* Pumps and their maintenance (internal/service/maintenance.go, the pump  *)
(* service of pump.go).  Every operation reads a row and writes it whole   *)
(* in a later statement, and the callers, which are the routes and the     *)
(* workers of the engine, interleave between the two.                      *)
(*                                                                         *)
(* Start, Block and MarkFault are operations of the services that no route *)
(* reaches; without Start the complete route is always refused.            *)
(***************************************************************************)
EXTENDS Integers, Sequences

CONSTANTS
  Pumps,     \* ids a pump may get
  Tasks,     \* ids a task may get
  Elsewhere, \* a maintenance target that is not a pump
  Hours,     \* running hours a worker may report
  RunMax,    \* 720: a longer run is refused
  HoursMax,  \* 100000: the counter stops there
  Callers,   \* requests and workers that run at once
  Budget,    \* BOUND: how many of each a behaviour has
  None

BudgetKinds == {"create", "plan", "task", "service", "run", "fault", "tick"}
TaskOps     == {"start", "complete", "block"}

ASSUME TargetsAssumption == Elsewhere \notin Pumps
ASSUME NoneAssumption == None \notin Nat /\ None \notin TaskOps \cup {"run"}
ASSUME HoursAssumption == Hours \subseteq Nat /\ RunMax \in Nat /\ HoursMax \in Nat
ASSUME BudgetAssumption == Budget \in [BudgetKinds -> Nat]

VARIABLES
  pumps,     \* table pumps: status, hours_run, last_service_at
  tasks,     \* table maintenance_tasks: target, status, done_at
  now,       \* the clock, in seconds that matter
  req,       \* calls in progress
  runs,      \* history: the runs saved, with their time
  services,  \* history: the services saved, with their time
  told,      \* history: completions whose service failed or was cut off
  left       \* what is left of Budget

history == <<runs, services, told>>
vars    == <<pumps, tasks, now, req, history, left>>

Pump == [status : {"stopped", "fault"}, hours : 0..HoursMax, serviced : Nat]
Task == [target : Pumps \cup {Elsewhere}, done : Nat \cup {None},
         status : {"planned", "in_progress", "done", "blocked"}]

IdleReq == [pc |-> "idle", op |-> None, task |-> None, pump |-> None, row |-> None, hours |-> 0]

\* A pump that was never serviced has the date 0.
NewPump == [status |-> "stopped", hours |-> 0, serviced |-> 0]

Init ==
  /\ pumps = [p \in {} |-> NewPump]
  /\ tasks = [t \in {} |-> None]
  /\ now = 1
  /\ req = [c \in Callers |-> IdleReq]
  /\ runs = <<>> /\ services = {} /\ told = {}
  /\ left = Budget

Spend(kind) == left[kind] > 0 /\ left' = [left EXCEPT ![kind] = @ - 1]
Fails    == Spend("fault")
Succeeds == UNCHANGED left

At(c, pc)  == req[c].pc = pc
Goto(c, r) == req' = [req EXCEPT ![c] = r]
Leave(c)   == Goto(c, IdleReq)
Put(f, k, v) == [j \in DOMAIN f \cup {k} |-> IF j = k THEN v ELSE f[j]]

\* What an error during the service of a completion tells the caller.
Unserved(c) == IF req[c].op = "complete" THEN told \cup {req[c].task} ELSE told

-----------------------------------------------------------------------------
\* Single inserts.

CreatePump ==
  /\ Spend("create")
  /\ \E p \in Pumps \ DOMAIN pumps : pumps' = Put(pumps, p, NewPump)
  /\ UNCHANGED <<tasks, now, req, history>>

\* Plan does not look whether the target exists.
Plan ==
  /\ Spend("plan")
  /\ \E t \in Tasks \ DOMAIN tasks, x \in Pumps \cup {Elsewhere} :
       tasks' = Put(tasks, t, [target |-> x, done |-> None, status |-> "planned"])
  /\ UNCHANGED <<pumps, now, req, history>>

-----------------------------------------------------------------------------
\* Start, Complete and Block: the row read, checked and changed in memory, ...

Allowed(op, m) ==
  \/ op = "start" /\ m.status = "planned"
  \/ op = "complete" /\ m.status = "in_progress"
  \/ op = "block" /\ m.status # "done"

Changed(op, m) ==
  CASE op = "start"    -> [m EXCEPT !.status = "in_progress"]
    [] op = "complete" -> [m EXCEPT !.status = "done", !.done = now]
    [] op = "block"    -> [m EXCEPT !.status = "blocked"]

TaskRead(c) ==
  /\ At(c, "idle") /\ Spend("task")
  /\ \E t \in DOMAIN tasks, op \in TaskOps :
       /\ Allowed(op, tasks[t])
       /\ Goto(c, [IdleReq EXCEPT !.pc = "task", !.op = op, !.task = t,
                                  !.row = Changed(op, tasks[t])])
  /\ UNCHANGED <<pumps, tasks, now, history>>

\* ... then saved; the completion of a pump's task goes on to service the pump.
TaskSave(c) ==
  /\ At(c, "task")
  /\ LET m == req[c].row IN
     \/ /\ tasks' = [tasks EXCEPT ![req[c].task] = m]
        /\ Goto(c, IF req[c].op = "complete" /\ m.target \in Pumps
                     THEN [req[c] EXCEPT !.pc = "serve", !.row = None, !.pump = m.target]
                     ELSE IdleReq)
        /\ Succeeds
     \/ tasks' = tasks /\ Leave(c) /\ Fails
  /\ UNCHANGED <<pumps, now, history>>

-----------------------------------------------------------------------------
\* Service, MarkFault and AccumulateHours: likewise.

\* The service route; Complete comes to the same point with its pump.
ServiceBegin(c) ==
  /\ At(c, "idle") /\ Spend("service")
  /\ \E p \in Pumps, op \in {"service", "mark_fault"} :
       Goto(c, [IdleReq EXCEPT !.pc = "serve", !.op = op, !.pump = p])
  /\ UNCHANGED <<pumps, tasks, now, history>>

Serviced(op, r) ==
  IF op = "mark_fault" THEN [r EXCEPT !.status = "fault"]
  ELSE [r EXCEPT !.hours = 0, !.serviced = now]

BugServiceRead(c) ==
  /\ At(c, "serve")
  /\ LET p == req[c].pump IN
     \/ /\ p \in DOMAIN pumps /\ told' = told /\ Succeeds
        /\ Goto(c, [req[c] EXCEPT !.pc = "pump", !.row = Serviced(req[c].op, pumps[p])])
     \/ ((p \notin DOMAIN pumps /\ Succeeds) \/ Fails) /\ Leave(c) /\ told' = told
  /\ UNCHANGED <<pumps, tasks, now, runs, services>>

ServiceRead(c) ==
  /\ At(c, "serve")
  /\ LET p == req[c].pump IN
     \/ /\ p \in DOMAIN pumps /\ told' = told /\ Succeeds
        /\ Goto(c, [req[c] EXCEPT !.pc = "pump", !.row = Serviced(req[c].op, pumps[p])])
     \/ ((p \notin DOMAIN pumps /\ Succeeds) \/ Fails) /\ Leave(c) /\ told' = Unserved(c)
  /\ UNCHANGED <<pumps, tasks, now, runs, services>>

BugRunRead(c) ==
  /\ At(c, "idle") /\ Spend("run")
  /\ \E p \in DOMAIN pumps, h \in Hours :
       /\ h <= RunMax
       /\ Goto(c, [IdleReq EXCEPT !.pc = "pump", !.op = "run", !.pump = p, !.hours = h,
                                  !.row = [pumps[p] EXCEPT !.hours = @ + h]])
  /\ UNCHANGED <<pumps, tasks, now, history>>

\* A worker that has executed a transfer.
RunRead(c) ==
  /\ At(c, "idle") /\ Spend("run")
  /\ \E p \in DOMAIN pumps, h \in Hours :
       LET sum == pumps[p].hours + h IN
       /\ h <= RunMax
       /\ Goto(c, [IdleReq EXCEPT !.pc = "pump", !.op = "run", !.pump = p, !.hours = h,
                     !.row = [pumps[p] EXCEPT !.hours = IF sum > HoursMax THEN HoursMax ELSE sum]])
  /\ UNCHANGED <<pumps, tasks, now, history>>

BugPumpSave(c) ==
  /\ At(c, "pump")
  /\ LET r == req[c]
         p == r.pump
     IN /\ pumps' = [pumps EXCEPT ![p] =
                       IF r.op = "run" THEN [@ EXCEPT !.hours = r.row.hours] ELSE r.row]
        /\ runs' = IF r.op = "run"
                     THEN Append(runs, [pump |-> p, hours |-> r.hours, at |-> now]) ELSE runs
        /\ services' = IF r.op \in {"service", "complete"}
                         THEN services \cup {[pump |-> p, at |-> now]} ELSE services
  /\ told' = told /\ Succeeds /\ Leave(c)
  /\ UNCHANGED <<tasks, now>>

\* SavePump: the whole row, as it was read and changed.
PumpSave(c) ==
  /\ At(c, "pump")
  /\ LET r == req[c]
         p == r.pump
     IN \/ /\ pumps' = [pumps EXCEPT ![p] = r.row]
           /\ runs' = IF r.op = "run"
                        THEN Append(runs, [pump |-> p, hours |-> r.hours, at |-> now]) ELSE runs
           /\ services' = IF r.op \in {"service", "complete"}
                            THEN services \cup {[pump |-> p, at |-> now]} ELSE services
           /\ told' = told /\ Succeeds
        \/ UNCHANGED <<pumps, runs, services>> /\ told' = Unserved(c) /\ Fails
  /\ Leave(c)
  /\ UNCHANGED <<tasks, now>>

Call(c) ==
  \/ TaskRead(c) \/ TaskSave(c)
  \/ ServiceBegin(c) \/ ServiceRead(c) \/ RunRead(c) \/ PumpSave(c)

-----------------------------------------------------------------------------
Tick == Spend("tick") /\ now' = now + 1 /\ UNCHANGED <<pumps, tasks, req, history>>

\* The process ends between any two statements and is started again.
Restart ==
  /\ Spend("fault")
  /\ req' = [c \in Callers |-> IdleReq]
  /\ told' = told \cup {req[c].task : c \in {d \in Callers : req[d].op = "complete"}}
  /\ UNCHANGED <<pumps, tasks, now, runs, services>>

\* Every call has returned and no other comes.
Idle ==
  /\ \A c \in Callers : At(c, "idle")
  /\ UNCHANGED vars

Next == CreatePump \/ Plan \/ (\E c \in Callers : Call(c)) \/ Tick \/ Restart \/ Idle

Spec == Init /\ [][Next]_vars

-----------------------------------------------------------------------------
(***************************************************************************)
(* Properties.                                                             *)
(***************************************************************************)

RowsType ==
  /\ DOMAIN pumps \subseteq Pumps /\ pumps \in [DOMAIN pumps -> Pump]
  /\ DOMAIN tasks \subseteq Tasks /\ tasks \in [DOMAIN tasks -> Task]

CallType(r) ==
  /\ r.pc = "task" => r.op \in TaskOps /\ r.row \in Task
  /\ r.op \in TaskOps => r.task \in DOMAIN tasks
  /\ r.pc = "serve" => r.pump \in Pumps
  /\ r.pc = "pump" => r.pump \in DOMAIN pumps /\ r.row \in Pump
  /\ r.op = "run" => r.hours \in Hours

ReqRec == [pc : {"idle", "task", "serve", "pump"},
           op : TaskOps \cup {"service", "mark_fault", "run", None},
           task : Tasks \cup {None}, pump : Pumps \cup {None},
           row : Task \cup Pump \cup {None}, hours : Nat]

CallsType ==
  /\ req \in [Callers -> ReqRec]
  /\ \A c \in Callers : CallType(req[c])

HistoryType ==
  /\ runs \in Seq([pump : Pumps, hours : Hours, at : Nat])
  /\ services \subseteq [pump : Pumps, at : Nat] /\ told \subseteq Tasks

\* The shape of the state: a call that is about to write has a row that still exists.
TypeOK ==
  /\ RowsType /\ CallsType /\ HistoryType
  /\ now \in Nat /\ left \in [BudgetKinds -> Nat]

\* The hours a pump shows were run since the service date it shows.  Calls that overlap
\* lose hours, and even undo a service, but never mix the hours of one row with the date
\* of another.
Ran(p, since) ==
  LET sum[i \in 0..Len(runs)] ==
        IF i = 0 THEN 0
        ELSE sum[i - 1] + IF runs[i].pump = p /\ runs[i].at >= since THEN runs[i].hours ELSE 0
  IN sum[Len(runs)]
HoursSinceService ==
  \A p \in DOMAIN pumps : pumps[p].hours <= Ran(p, pumps[p].serviced)

\* A pump's task is done and the pump was not serviced since: only while Complete is on
\* its way, or when the caller got an error or the process ended.
DoneWasServiced ==
  \A t \in DOMAIN tasks :
    tasks[t].status = "done" /\ tasks[t].target \in Pumps =>
      \/ \E s \in services : s.pump = tasks[t].target /\ s.at >= tasks[t].done
      \/ \E c \in Callers : req[c].op = "complete" /\ req[c].task = t
      \/ t \in told
=============================================================================
