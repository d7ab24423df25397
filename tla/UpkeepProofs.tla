---------------------------- MODULE UpkeepProofs ----------------------------
(***************************************************************************)
(* Theorems of Upkeep: types, the dates of done tasks, that the pump of a  *)
(* done task was serviced or somebody was told, and the hours a pump       *)
(* shows, for any number of callers, pumps, tasks and any budget.          *)
(***************************************************************************)
EXTENDS Upkeep, Induction

-----------------------------------------------------------------------------
(***************************************************************************)
(* The inductive invariant: what a call knows at each of its points.       *)
(***************************************************************************)

\* Done and its date go together and the date is not in the future.
Dated(m) == (m.status = "done" <=> m.done # None) /\ (m.done # None => m.done <= now)

\* A task never changes its target, so the row a call holds has the target of the row
\* that is there, and a completion services the pump of its task.
Knows(r) ==
  /\ r.pc = "task" => /\ Dated(r.row)
                      /\ r.row.status = "done" => r.op = "complete"
                      /\ r.row.target = tasks[r.task].target
  /\ r.pc \in {"serve", "pump"} /\ r.op = "complete" => r.pump = tasks[r.task].target

\* Past TaskSave: a completion that has only read its task owes nobody a service.
Serving(r, t) == r.pc \in {"serve", "pump"} /\ r.op = "complete" /\ r.task = t

ServicedSince(t) == \E s \in services : s.pump = tasks[t].target /\ s.at >= tasks[t].done

Accounted(t) ==
  tasks[t].status = "done" /\ tasks[t].target \in Pumps =>
    ServicedSince(t) \/ t \in told \/ \E c \in Callers : Serving(req[c], t)

IInv ==
  /\ TypeOK
  /\ \A t \in DOMAIN tasks : Dated(tasks[t]) /\ Accounted(t)
  /\ \A c \in Callers : Knows(req[c])

LEMMA InitInv == Init => IInv
  <1> SUFFICES ASSUME Init PROVE IInv
    OBVIOUS
  <1>1. RowsType /\ HistoryType /\ now \in Nat /\ left \in [BudgetKinds -> Nat]
    BY BudgetAssumption DEF Init, RowsType, HistoryType
  <1>2. CallsType /\ \A c \in Callers : Knows(req[c])
    BY NoneAssumption DEF Init, CallsType, CallType, Knows, IdleReq, ReqRec
  <1> QED
    BY <1>1, <1>2 DEF Init, IInv, TypeOK

LEMMA LeftType ==
  ASSUME IInv, (\E kind \in BudgetKinds : Spend(kind)) \/ Fails \/ Succeeds
  PROVE  left' \in [BudgetKinds -> Nat]
  BY DEF IInv, TypeOK, Spend, Fails, Succeeds, BudgetKinds

-----------------------------------------------------------------------------
(***************************************************************************)
(* What a step leaves alone.                                               *)
(***************************************************************************)

\* Rows are never removed, tasks keep their targets and the clock goes on.
Grows ==
  /\ DOMAIN pumps \subseteq DOMAIN pumps' /\ DOMAIN tasks \subseteq DOMAIN tasks'
  /\ \A t \in DOMAIN tasks : tasks'[t].target = tasks[t].target
  /\ now <= now' /\ now' \in Nat

LEMMA DatedFrame ==
  ASSUME now \in Nat, now' \in Nat, now <= now', NEW m \in Task, Dated(m)
  PROVE  Dated(m)'
  BY NoneAssumption DEF Dated, Task

LEMMA CallFrame ==
  ASSUME IInv, Grows, NEW r, CallType(r), Knows(r)
  PROVE  CallType(r)' /\ Knows(r)'
  <1>1. CallType(r)'
    BY DEF Grows, CallType
  <1>2. r.pc = "task" => Dated(r.row)'
    BY DatedFrame DEF IInv, TypeOK, Grows, CallType, Knows
  <1> QED
    BY <1>1, <1>2 DEF Grows, CallType, Knows, TaskOps

\* The other calls do not notice what one call does.
LEMMA CallsFrame ==
  ASSUME IInv, Grows, NEW c \in Callers, NEW r,
         r \in ReqRec,
         CallType(r)', Knows(r)', req' = [req EXCEPT ![c] = r]
  PROVE  CallsType' /\ \A d \in Callers : Knows(req[d])'
  <1>1. req'[c] = r /\ \A d \in Callers \ {c} : req'[d] = req[d]
    BY DEF IInv, TypeOK, CallsType, ReqRec
  <1>2. \A d \in Callers \ {c} : CallType(req[d])' /\ Knows(req[d])'
    <2> SUFFICES ASSUME NEW d \in Callers \ {c} PROVE CallType(req[d])' /\ Knows(req[d])'
      OBVIOUS
    <2> DEFINE q == req[d]
    <2>1. CallType(q) /\ Knows(q) /\ req'[d] = q
      BY <1>1 DEF IInv, TypeOK, CallsType
    <2> QED
      BY <2>1, CallFrame DEF CallType, Knows, Dated
  <1>3. CallType(req[c])' /\ Knows(req[c])'
    BY <1>1 DEF CallType, Knows, Dated
  <1> QED
    BY <1>1, <1>2, <1>3 DEF IInv, TypeOK, CallsType

\* A task nobody wrote stays accounted for unless the call that was to service its pump
\* goes away without having done so.
LEMMA AccountFrame ==
  ASSUME IInv, NEW t \in DOMAIN tasks, tasks'[t] = tasks[t],
         services \subseteq services', told \subseteq told',
         \A d \in Callers : Serving(req[d], t) =>
           Serving(req'[d], t) \/ t \in told' \/ ServicedSince(t)'
  PROVE  Accounted(t)'
  BY DEF IInv, Accounted, ServicedSince

-----------------------------------------------------------------------------
(***************************************************************************)
(* The steps.                                                              *)
(***************************************************************************)

LEMMA InsertInv ==
  ASSUME IInv, CreatePump \/ Plan
  PROVE  IInv'
  <1>1. UNCHANGED <<now, req, runs, services, told>> /\ left' \in [BudgetKinds -> Nat]
    BY LeftType DEF CreatePump, Plan, BudgetKinds, history
  <1>2. RowsType' /\ Grows /\ \A t \in DOMAIN tasks : tasks'[t] = tasks[t]
    <2>1. CASE CreatePump
      <3>1. NewPump \in Pump
        BY HoursAssumption DEF NewPump, Pump
      <3> QED
        BY <2>1, <3>1 DEF CreatePump, Put, IInv, TypeOK, RowsType, Grows
    <2>2. CASE Plan
      BY <2>2 DEF Plan, Put, Task, IInv, TypeOK, RowsType, Grows
    <2> QED
      BY <2>1, <2>2
  <1>3. \A t \in DOMAIN tasks' \ DOMAIN tasks : Dated(tasks[t])' /\ tasks'[t].status # "done"
    <2>1. CASE CreatePump
      BY <2>1 DEF CreatePump
    <2>2. CASE Plan
      BY <2>2 DEF Plan, Put, Dated
    <2> QED
      BY <2>1, <2>2
  <1>4. CallsType' /\ \A c \in Callers : Knows(req[c])'
    <2>1. \A c \in Callers : CallType(req[c])' /\ Knows(req[c])'
      <3> SUFFICES ASSUME NEW c \in Callers PROVE CallType(req[c])' /\ Knows(req[c])'
        OBVIOUS
      <3> DEFINE q == req[c]
      <3>1. CallType(q) /\ Knows(q) /\ req'[c] = q
        BY <1>1 DEF IInv, TypeOK, CallsType
      <3> QED
        BY <1>2, <3>1, CallFrame DEF CallType, Knows, Dated
    <2> QED
      BY <1>1, <2>1 DEF IInv, TypeOK, CallsType
  <1>5. \A t \in DOMAIN tasks' : Dated(tasks[t])' /\ Accounted(t)'
    <2> SUFFICES ASSUME NEW t \in DOMAIN tasks' PROVE Dated(tasks[t])' /\ Accounted(t)'
      OBVIOUS
    <2>1. CASE t \in DOMAIN tasks
      <3>1. Dated(tasks[t])'
        BY <1>1, <1>2, <2>1 DEF IInv, Dated
      <3>2. Accounted(t)'
        BY <1>1, <1>2, <2>1, AccountFrame
      <3> QED
        BY <3>1, <3>2
    <2>2. CASE t \notin DOMAIN tasks
      BY <1>3, <2>2 DEF Accounted
    <2> QED
      BY <2>1, <2>2
  <1> QED
    BY <1>1, <1>2, <1>4, <1>5 DEF IInv, TypeOK, HistoryType

\* A call that writes no row.
LEMMA QuietInv ==
  ASSUME IInv, NEW c \in Callers, NEW r,
         r \in ReqRec,
         UNCHANGED <<pumps, tasks, now, runs, services>>,
         told' \subseteq Tasks, told \subseteq told', left' \in [BudgetKinds -> Nat],
         CallType(r)', Knows(r)', req' = [req EXCEPT ![c] = r],
         \A t \in DOMAIN tasks : Serving(req[c], t) => Serving(r, t) \/ t \in told'
  PROVE  IInv'
  <1>1. Grows
    BY DEF Grows, IInv, TypeOK
  <1>2. CallsType' /\ \A d \in Callers : Knows(req[d])'
    BY <1>1, CallsFrame
  <1>3. \A t \in DOMAIN tasks' : Dated(tasks[t])' /\ Accounted(t)'
    <2> SUFFICES ASSUME NEW t \in DOMAIN tasks PROVE Dated(tasks[t])' /\ Accounted(t)'
      OBVIOUS
    <2>1. Dated(tasks[t])'
      BY DEF IInv, Dated
    <2>2. \A d \in Callers : Serving(req[d], t) => Serving(req'[d], t) \/ t \in told'
      BY DEF IInv, TypeOK, CallsType
    <2>3. Accounted(t)'
      BY <2>2, AccountFrame
    <2> QED
      BY <2>1, <2>3
  <1> QED
    BY <1>2, <1>3 DEF IInv, TypeOK, RowsType, HistoryType

LEMMA BeginInv ==
  ASSUME IInv, NEW c \in Callers, TaskRead(c) \/ ServiceBegin(c) \/ RunRead(c)
  PROVE  IInv'
  <1>1. /\ UNCHANGED <<pumps, tasks, now, runs, services, told>>
        /\ left' \in [BudgetKinds -> Nat] /\ req[c].pc = "idle"
    BY LeftType DEF TaskRead, ServiceBegin, RunRead, At, BudgetKinds, history
  <1>2. told \subseteq Tasks
    BY DEF IInv, TypeOK, HistoryType
  <1>3. CASE TaskRead(c)
    <2>1. PICK t \in DOMAIN tasks, op \in TaskOps :
            /\ Allowed(op, tasks[t])
            /\ Goto(c, [IdleReq EXCEPT !.pc = "task", !.op = op, !.task = t,
                                       !.row = Changed(op, tasks[t])])
      BY <1>3 DEF TaskRead
    <2>2. PICK m : m = Changed(op, tasks[t])
      OBVIOUS
    <2>3. PICK r : r = [IdleReq EXCEPT !.pc = "task", !.op = op, !.task = t, !.row = m]
      OBVIOUS
    <2>4. tasks[t] \in Task /\ Dated(tasks[t]) /\ t \in Tasks /\ now \in Nat
      BY DEF IInv, TypeOK, RowsType
    <2>5. /\ m \in Task /\ Dated(m) /\ m.target = tasks[t].target
          /\ m.status = "done" => op = "complete"
      <3>1. CASE op = "start"
        BY <2>1, <2>2, <2>4, <3>1 DEF Changed, Allowed, Task, Dated
      <3>2. CASE op = "complete"
        <4>1. m = [tasks[t] EXCEPT !.status = "done", !.done = now]
          BY <2>2, <3>2 DEF Changed
        <4>2. m \in Task /\ m.status = "done" /\ m.done = now /\ m.target = tasks[t].target
          BY <2>4, <4>1 DEF Task
        <4> QED
          BY <2>4, <3>2, <4>2, NoneAssumption DEF Dated
      <3>3. CASE op = "block"
        BY <2>1, <2>2, <2>4, <3>3 DEF Changed, Allowed, Task, Dated
      <3> QED
        BY <3>1, <3>2, <3>3 DEF TaskOps
    <2>6. r.pc = "task" /\ r.op = op /\ r.task = t /\ r.row = m /\ r \in ReqRec
      BY <2>3, <2>4, <2>5 DEF IdleReq, ReqRec
    <2>7. req' = [req EXCEPT ![c] = r]
      BY <2>1, <2>2, <2>3 DEF Goto
    <2>8. CallType(r)' /\ Knows(r)'
      BY <1>1, <2>5, <2>6 DEF CallType, Knows, Dated, TaskOps
    <2> QED
      BY <1>1, <1>2, <2>6, <2>7, <2>8, QuietInv DEF Serving
  <1>4. CASE ServiceBegin(c)
    <2>1. PICK p \in Pumps, op \in {"service", "mark_fault"} :
            Goto(c, [IdleReq EXCEPT !.pc = "serve", !.op = op, !.pump = p])
      BY <1>4 DEF ServiceBegin
    <2>2. PICK r : r = [IdleReq EXCEPT !.pc = "serve", !.op = op, !.pump = p]
      OBVIOUS
    <2>3. r.pc = "serve" /\ r.op = op /\ r.pump = p /\ r \in ReqRec
      BY <2>2 DEF IdleReq, ReqRec
    <2>4. req' = [req EXCEPT ![c] = r]
      BY <2>1, <2>2 DEF Goto
    <2>5. CallType(r)' /\ Knows(r)'
      BY <2>3 DEF CallType, Knows, TaskOps
    <2> QED
      BY <1>1, <1>2, <2>3, <2>4, <2>5, QuietInv DEF Serving
  <1>5. CASE RunRead(c)
    <2>1. PICK p \in DOMAIN pumps, h \in Hours :
            LET sum == pumps[p].hours + h IN
            Goto(c, [IdleReq EXCEPT !.pc = "pump", !.op = "run", !.pump = p, !.hours = h,
                       !.row = [pumps[p] EXCEPT !.hours = IF sum > HoursMax THEN HoursMax ELSE sum]])
      BY <1>5 DEF RunRead
    <2>2. PICK u : u = [pumps[p] EXCEPT !.hours = IF pumps[p].hours + h > HoursMax
                                                  THEN HoursMax ELSE pumps[p].hours + h]
      OBVIOUS
    <2>3. PICK r : r = [IdleReq EXCEPT !.pc = "pump", !.op = "run", !.pump = p, !.hours = h,
                                       !.row = u]
      OBVIOUS
    <2>4. pumps[p] \in Pump /\ p \in Pumps /\ h \in Nat
      BY HoursAssumption DEF IInv, TypeOK, RowsType
    <2>5. u \in Pump
      BY <2>2, <2>4, HoursAssumption DEF Pump
    <2>6. /\ r.pc = "pump" /\ r.op = "run" /\ r.pump = p /\ r.row = u /\ r.hours = h
          /\ r \in ReqRec
      BY <2>3, <2>4, <2>5 DEF IdleReq, ReqRec
    <2>7. req' = [req EXCEPT ![c] = r]
      BY <2>1, <2>2, <2>3 DEF Goto
    <2>8. CallType(r)' /\ Knows(r)'
      BY <1>1, <2>5, <2>6 DEF CallType, Knows, TaskOps
    <2> QED
      BY <1>1, <1>2, <2>6, <2>7, <2>8, QuietInv DEF Serving
  <1> QED
    BY <1>3, <1>4, <1>5

\* A call that leaves: a completion past its save leaves a word.
LEMMA LeaveInv ==
  ASSUME IInv, NEW c \in Callers, Leave(c), Fails \/ Succeeds,
         UNCHANGED <<pumps, tasks, now, runs, services>>,
         \/ told' = Unserved(c)
         \/ told' = told /\ req[c].pc \notin {"serve", "pump"}
  PROVE  IInv'
  <1>1. IdleReq \in ReqRec
    BY DEF IdleReq, ReqRec
  <1>2. told' \subseteq Tasks /\ told \subseteq told'
    BY DEF Unserved, IInv, TypeOK, HistoryType, RowsType, CallsType, CallType, TaskOps
  <1>3. \A t \in DOMAIN tasks : Serving(req[c], t) => t \in told'
    BY DEF Serving, Unserved
  <1>4. left' \in [BudgetKinds -> Nat]
    BY LeftType
  <1>5. PICK r : r = IdleReq
    OBVIOUS
  <1>6. CallType(r)' /\ Knows(r)'
    BY <1>5, NoneAssumption DEF CallType, Knows, IdleReq
  <1> QED
    BY <1>1, <1>2, <1>3, <1>4, <1>5, <1>6, QuietInv DEF Leave, Goto

LEMMA TaskSaveInv ==
  ASSUME IInv, NEW c \in Callers, TaskSave(c)
  PROVE  IInv'
  <1> DEFINE m == req[c].row
             t == req[c].task
  <1>1. /\ req[c].pc = "task" /\ UNCHANGED <<pumps, now, runs, services, told>>
        /\ Fails \/ Succeeds
    BY DEF TaskSave, At, history
  <1>2. CASE tasks' = tasks /\ Leave(c)
    BY <1>1, <1>2, LeaveInv
  <1>3. CASE /\ tasks' = [tasks EXCEPT ![t] = m]
             /\ Goto(c, IF req[c].op = "complete" /\ m.target \in Pumps
                          THEN [req[c] EXCEPT !.pc = "serve", !.row = None, !.pump = m.target]
                          ELSE IdleReq)
    <2>1. /\ req[c].op \in TaskOps /\ m \in Task /\ t \in DOMAIN tasks /\ req[c] \in ReqRec
          /\ Dated(m) /\ (m.status = "done" => req[c].op = "complete")
          /\ m.target = tasks[t].target
      BY <1>1 DEF IInv, TypeOK, CallsType, CallType, Knows
    <2>2. /\ DOMAIN tasks' = DOMAIN tasks /\ tasks'[t] = m
          /\ \A j \in DOMAIN tasks \ {t} : tasks'[j] = tasks[j]
      BY <1>3, <2>1
    <2>3. RowsType' /\ Grows
      BY <1>1, <1>3, <2>1, <2>2 DEF IInv, TypeOK, RowsType, Grows
    <2>4. PICK r : r = IF req[c].op = "complete" /\ m.target \in Pumps
                         THEN [req[c] EXCEPT !.pc = "serve", !.row = None, !.pump = m.target]
                         ELSE IdleReq
      OBVIOUS
    <2>5. req' = [req EXCEPT ![c] = r]
      BY <1>3, <2>4 DEF Goto
    <2>6. r \in ReqRec
      BY <2>1, <2>4 DEF ReqRec, IdleReq
    <2>7. CASE req[c].op = "complete" /\ m.target \in Pumps
      <3>1. r.pc = "serve" /\ r.op = "complete" /\ r.task = t /\ r.pump = m.target
        BY <2>1, <2>4, <2>7 DEF ReqRec
      <3>2. CallType(r)' /\ Knows(r)'
        BY <2>1, <2>2, <2>7, <3>1 DEF CallType, Knows
      <3>3. CallsType' /\ \A d \in Callers : Knows(req[d])'
        BY <2>3, <2>5, <2>6, <3>2, CallsFrame
      <3>4. Serving(req'[c], t)
        BY <2>5, <3>1 DEF Serving, IInv, TypeOK, CallsType
      <3>5. \A j \in DOMAIN tasks' : Dated(tasks[j])' /\ Accounted(j)'
        <4> SUFFICES ASSUME NEW j \in DOMAIN tasks PROVE Dated(tasks[j])' /\ Accounted(j)'
          BY <2>2
        <4>1. CASE j = t
          BY <1>1, <2>1, <2>2, <3>4, <4>1 DEF Dated, Accounted
        <4>2. CASE j # t
          <5>1. \A d \in Callers : Serving(req[d], j) => Serving(req'[d], j)
            BY <1>1, <2>5 DEF Serving, IInv, TypeOK, CallsType
          <5>2. Accounted(j)'
            BY <1>1, <2>2, <4>2, <5>1, AccountFrame
          <5> QED
            BY <1>1, <2>2, <4>2, <5>2 DEF IInv, Dated
        <4> QED
          BY <4>1, <4>2
      <3> QED
        BY <1>1, <2>3, <3>3, <3>5, LeftType DEF IInv, TypeOK, HistoryType
    <2>8. CASE ~(req[c].op = "complete" /\ m.target \in Pumps)
      <3>1. r = IdleReq
        BY <2>4, <2>8
      <3>2. CallType(r)' /\ Knows(r)'
        BY <3>1, NoneAssumption DEF CallType, Knows, IdleReq
      <3>3. CallsType' /\ \A d \in Callers : Knows(req[d])'
        BY <2>3, <2>5, <2>6, <3>2, CallsFrame
      <3>4. \A j \in DOMAIN tasks' : Dated(tasks[j])' /\ Accounted(j)'
        <4> SUFFICES ASSUME NEW j \in DOMAIN tasks PROVE Dated(tasks[j])' /\ Accounted(j)'
          BY <2>2
        <4>1. CASE j = t
          BY <1>1, <2>1, <2>2, <2>8, <4>1 DEF Dated, Accounted
        <4>2. CASE j # t
          <5>1. \A d \in Callers : Serving(req[d], j) => Serving(req'[d], j)
            BY <1>1, <2>5 DEF Serving, IInv, TypeOK, CallsType
          <5>2. Accounted(j)'
            BY <1>1, <2>2, <4>2, <5>1, AccountFrame
          <5> QED
            BY <1>1, <2>2, <4>2, <5>2 DEF IInv, Dated
        <4> QED
          BY <4>1, <4>2
      <3> QED
        BY <1>1, <2>3, <3>3, <3>4, LeftType DEF IInv, TypeOK, HistoryType
    <2> QED
      BY <2>7, <2>8
  <1> QED
    BY <1>2, <1>3 DEF TaskSave

LEMMA ServiceReadInv ==
  ASSUME IInv, NEW c \in Callers, ServiceRead(c)
  PROVE  IInv'
  <1> DEFINE p == req[c].pump
  <1>1. /\ req[c].pc = "serve" /\ UNCHANGED <<pumps, tasks, now, runs, services>>
        /\ Fails \/ Succeeds
    BY DEF ServiceRead, At
  <1>2. CASE Leave(c) /\ told' = Unserved(c)
    BY <1>1, <1>2, LeaveInv
  <1>3. CASE /\ p \in DOMAIN pumps /\ told' = told
             /\ Goto(c, [req[c] EXCEPT !.pc = "pump", !.row = Serviced(req[c].op, pumps[p])])
    <2>1. PICK u : u = Serviced(req[c].op, pumps[p])
      OBVIOUS
    <2>2. pumps[p] \in Pump /\ now \in Nat /\ req[c] \in ReqRec
      BY <1>3 DEF IInv, TypeOK, RowsType, CallsType
    <2>3. u \in Pump
      <3>1. CASE req[c].op = "mark_fault"
        BY <2>1, <2>2, <3>1 DEF Serviced, Pump
      <3>2. CASE req[c].op # "mark_fault"
        <4>1. u = [pumps[p] EXCEPT !.hours = 0, !.serviced = now]
          BY <2>1, <3>2 DEF Serviced
        <4>2. 0 \in 0..HoursMax
          BY HoursAssumption
        <4>3. u = [status |-> pumps[p].status, hours |-> 0, serviced |-> now]
          BY <2>2, <4>1 DEF Pump
        <4> QED
          BY <2>2, <4>2, <4>3 DEF Pump
      <3> QED
        BY <3>1, <3>2
    <2>4. PICK r : r = [req[c] EXCEPT !.pc = "pump", !.row = u]
      OBVIOUS
    <2>5. /\ r \in ReqRec /\ r.pc = "pump" /\ r.row = u /\ r.op = req[c].op
          /\ r.task = req[c].task /\ r.pump = p /\ r.hours = req[c].hours
      BY <2>2, <2>3, <2>4 DEF ReqRec
    <2>6. CallType(req[c]) /\ Knows(req[c])
      BY DEF IInv, TypeOK, CallsType
    <2>7. CallType(r)' /\ Knows(r)'
      BY <1>1, <1>3, <2>3, <2>5, <2>6 DEF CallType, Knows, TaskOps
    <2>8. req' = [req EXCEPT ![c] = r]
      BY <1>3, <2>1, <2>4 DEF Goto
    <2>9. told' \subseteq Tasks /\ told \subseteq told' /\ left' \in [BudgetKinds -> Nat]
      BY <1>1, <1>3, LeftType DEF IInv, TypeOK, HistoryType
    <2> QED
      BY <1>1, <2>5, <2>7, <2>8, <2>9, QuietInv DEF Serving
  <1> QED
    BY <1>2, <1>3 DEF ServiceRead

LEMMA PumpSaveInv ==
  ASSUME IInv, NEW c \in Callers, PumpSave(c)
  PROVE  IInv'
  <1> DEFINE p == req[c].pump
  <1>1. /\ req[c].pc = "pump" /\ UNCHANGED <<tasks, now>> /\ Leave(c)
        /\ Fails \/ Succeeds
    BY DEF PumpSave, At
  <1>2. CASE UNCHANGED <<pumps, runs, services>> /\ told' = Unserved(c)
    BY <1>1, <1>2, LeaveInv DEF PumpSave
  <1>3. CASE /\ pumps' = [pumps EXCEPT ![p] = req[c].row]
             /\ runs' = IF req[c].op = "run"
                          THEN Append(runs, [pump |-> p, hours |-> req[c].hours, at |-> now])
                          ELSE runs
             /\ services' = IF req[c].op \in {"service", "complete"}
                              THEN services \cup {[pump |-> p, at |-> now]} ELSE services
             /\ told' = told
    <2>1. /\ p \in DOMAIN pumps /\ p \in Pumps /\ req[c].row \in Pump
          /\ req[c].op = "run" => req[c].hours \in Hours
          /\ req[c].op = "complete" => req[c].pump = tasks[req[c].task].target
      BY <1>1 DEF IInv, TypeOK, RowsType, CallsType, CallType, Knows
    <2>2. RowsType' /\ Grows
      BY <1>1, <1>3, <2>1 DEF IInv, TypeOK, RowsType, Grows
    <2>3. HistoryType' /\ services \subseteq services'
      <3>1. now \in Nat /\ [pump |-> p, at |-> now] \in [pump : Pumps, at : Nat]
        BY <2>1 DEF IInv, TypeOK
      <3>2. CASE req[c].op = "run"
        <4>1. [pump |-> p, hours |-> req[c].hours, at |-> now]
                \in [pump : Pumps, hours : Hours, at : Nat]
          BY <2>1, <3>1, <3>2
        <4> QED
          BY <1>3, <3>2, <4>1 DEF IInv, TypeOK, HistoryType
      <3>3. CASE req[c].op # "run"
        BY <1>3, <3>1, <3>3 DEF IInv, TypeOK, HistoryType
      <3> QED
        BY <3>2, <3>3
    <2>4. PICK r : r = IdleReq
      OBVIOUS
    <2>5. r \in ReqRec /\ CallType(r)' /\ Knows(r)' /\ req' = [req EXCEPT ![c] = r]
      BY <1>1, <2>4, NoneAssumption DEF CallType, Knows, IdleReq, ReqRec, Leave, Goto
    <2>6. CallsType' /\ \A d \in Callers : Knows(req[d])'
      BY <2>2, <2>5, CallsFrame
    <2>7. \A t \in DOMAIN tasks' : Dated(tasks[t])' /\ Accounted(t)'
      <3> SUFFICES ASSUME NEW t \in DOMAIN tasks PROVE Dated(tasks[t])' /\ Accounted(t)'
        BY <1>1
      <3>1. Dated(tasks[t])'
        BY <1>1 DEF IInv, Dated
      <3>2. CASE Serving(req[c], t) /\ tasks[t].status = "done"
        <4>1. [pump |-> p, at |-> now] \in services' /\ p = tasks[t].target
          BY <1>3, <2>1, <3>2 DEF Serving
        <4>2. tasks[t].done <= now
          BY <3>2 DEF IInv, Dated
        <4> QED
          BY <1>1, <3>1, <4>1, <4>2 DEF Accounted, ServicedSince
      <3>3. CASE tasks[t].status # "done"
        BY <1>1, <3>1, <3>3 DEF Accounted
      <3>4. CASE ~Serving(req[c], t)
        <4>1. \A d \in Callers : Serving(req[d], t) => Serving(req'[d], t)
          BY <2>5, <3>4 DEF IInv, TypeOK, CallsType
        <4> QED
          BY <1>1, <1>3, <2>3, <3>1, <4>1, AccountFrame
      <3> QED
        BY <3>2, <3>3, <3>4
    <2> QED
      BY <1>1, <2>2, <2>3, <2>6, <2>7, LeftType DEF IInv, TypeOK
  <1> QED
    BY <1>2, <1>3 DEF PumpSave

LEMMA ClockInv ==
  ASSUME IInv, Tick \/ Restart \/ UNCHANGED vars
  PROVE  IInv'
  <1>1. /\ UNCHANGED <<pumps, tasks, runs, services>> /\ now <= now' /\ now' \in Nat
        /\ told \subseteq told' /\ told' \subseteq Tasks
        /\ left' \in [BudgetKinds -> Nat]
    <2>1. told' \subseteq Tasks
      BY DEF Tick, Restart, vars, history, IInv, TypeOK, HistoryType, RowsType, CallsType,
             CallType, TaskOps
    <2> QED
      BY <2>1, LeftType DEF Tick, Restart, vars, history, IInv, TypeOK, BudgetKinds
  <1>2. Grows
    BY <1>1 DEF Grows
  <1>3. \A c \in Callers : req'[c] \in ReqRec /\ CallType(req[c])' /\ Knows(req[c])'
    <2> SUFFICES ASSUME NEW c \in Callers
                 PROVE  req'[c] \in ReqRec /\ CallType(req[c])' /\ Knows(req[c])'
      OBVIOUS
    <2>1. CASE UNCHANGED req
      <3>1. PICK q : q = req[c]
        OBVIOUS
      <3>2. CallType(q) /\ Knows(q) /\ req'[c] = q /\ q \in ReqRec
        BY <2>1, <3>1 DEF IInv, TypeOK, CallsType
      <3> QED
        BY <1>2, <3>2, CallFrame DEF CallType, Knows, Dated
    <2>2. CASE Restart
      BY <2>2, NoneAssumption DEF Restart, CallType, Knows, IdleReq, ReqRec
    <2> QED
      BY <2>1, <2>2 DEF Tick, vars
  <1>4. CallsType'
    BY <1>3 DEF Tick, Restart, vars, IInv, TypeOK, CallsType
  <1>5. \A t \in DOMAIN tasks : Dated(tasks[t])' /\ Accounted(t)'
    <2> SUFFICES ASSUME NEW t \in DOMAIN tasks PROVE Dated(tasks[t])' /\ Accounted(t)'
      OBVIOUS
    <2>1. Dated(tasks[t])'
      BY <1>1, DatedFrame DEF IInv, TypeOK, RowsType, Dated
    <2>2. \A d \in Callers : Serving(req[d], t) => Serving(req'[d], t) \/ t \in told'
      BY DEF Tick, Restart, vars, Serving
    <2> QED
      BY <1>1, <2>1, <2>2, AccountFrame
  <1> QED
    BY <1>1, <1>3, <1>4, <1>5 DEF IInv, TypeOK, RowsType, HistoryType

LEMMA StepInv == IInv /\ [Next]_vars => IInv'
  <1> SUFFICES ASSUME IInv, [Next]_vars PROVE IInv'
    OBVIOUS
  <1>1. CASE CreatePump \/ Plan
    BY <1>1, InsertInv
  <1>2. CASE \E c \in Callers : Call(c)
    BY <1>2, BeginInv, TaskSaveInv, ServiceReadInv, PumpSaveInv DEF Call
  <1>3. CASE Tick \/ Restart \/ UNCHANGED vars
    BY <1>3, ClockInv
  <1> QED
    BY <1>1, <1>2, <1>3 DEF Next, Idle

-----------------------------------------------------------------------------
(***************************************************************************)
(* Running hours: what the runs saved so far add up to.                    *)
(***************************************************************************)

Run == [pump : Pumps, hours : Hours, at : Nat]

\* Ran, of any list of runs, and the hours each run contributes to it.
Share(x, p, since) == IF x.pump = p /\ x.at >= since THEN x.hours ELSE 0
Shares(rs, p, since) == [i \in 1..Len(rs) |-> Share(rs[i], p, since)]
RanIn(rs, p, since) ==
  LET sum[i \in 0..Len(rs)] ==
        IF i = 0 THEN 0
        ELSE sum[i - 1] + IF rs[i].pump = p /\ rs[i].at >= since THEN rs[i].hours ELSE 0
  IN sum[Len(rs)]

LEMMA SharesType ==
  ASSUME NEW rs \in Seq(Run), NEW p, NEW since
  PROVE  \A i \in 1..Len(rs) : Shares(rs, p, since)[i] \in Nat
  <1> SUFFICES ASSUME NEW i \in 1..Len(rs) PROVE Shares(rs, p, since)[i] \in Nat
    OBVIOUS
  <1>1. rs[i] \in Run
    OBVIOUS
  <1>2. rs[i].hours \in Nat
    BY <1>1, HoursAssumption DEF Run
  <1> QED
    BY <1>2 DEF Shares, Share

\* RanIn is the last of the sums of the shares.
LEMMA RanSums ==
  ASSUME NEW rs \in Seq(Run), NEW p, NEW since
  PROVE  \E f : Sums(f, Shares(rs, p, since), Len(rs)) /\ RanIn(rs, p, since) = f[Len(rs)]
  <1> DEFINE n == Len(rs)
             d == Shares(rs, p, since)
             Fcn(v) == [i \in 0..n |-> IF i = 0 THEN 0 ELSE v[i - 1] +
                          IF rs[i].pump = p /\ rs[i].at >= since THEN rs[i].hours ELSE 0]
             sum == CHOOSE v : v = Fcn(v)
  <1>1. n \in Nat /\ \A i \in 1..n : d[i] \in Int
    BY SharesType
  <1>2. RanIn(rs, p, since) = sum[n]
    BY DEF RanIn
  <1>3. \A v : Sums(v, d, n) <=> v = Fcn(v)
    <2> SUFFICES ASSUME NEW v PROVE Sums(v, d, n) <=> v = Fcn(v)
      OBVIOUS
    <2> DEFINE Rec == [i \in 0..n |-> IF i = 0 THEN 0 ELSE v[i - 1] + d[i]]
    <2>1. Sums(v, d, n) <=> v = Rec
      <3>1. n \in Nat
        BY <1>1
      <3>2. \A k \in 1..n : d[k] \in Int
        BY <1>1
      <3> HIDE DEF d, n
      <3> QED
        BY <3>1, <3>2, SumsByRecursion
    <2>2. Rec = Fcn(v)
      BY DEF Shares, Share
    <2> QED
      BY <2>1, <2>2
  <1> HIDE DEF d
  <1>4. PICK g : Sums(g, d, n)
    BY <1>1, SumsExist
  <1>5. sum = Fcn(sum)
    <2> HIDE DEF Fcn
    <2> QED
      BY <1>3, <1>4
  <1>6. Sums(sum, d, n)
    <2> HIDE DEF Fcn, sum
    <2> QED
      BY <1>3, <1>5
  <1> QED
    BY <1>2, <1>6 DEF d

\* One more run adds its share.
LEMMA RanMore ==
  ASSUME NEW rs \in Seq(Run), NEW x \in Run, NEW p, NEW since
  PROVE  /\ RanIn(rs, p, since) \in Nat /\ Share(x, p, since) \in Nat
         /\ RanIn(Append(rs, x), p, since) = RanIn(rs, p, since) + Share(x, p, since)
  <1> DEFINE n == Len(rs)
             more == Append(rs, x)
             d == Shares(rs, p, since)
             e == Shares(more, p, since)
  <1>1. /\ n \in Nat /\ more \in Seq(Run) /\ Len(more) = n + 1 /\ more[n + 1] = x
        /\ \A i \in 1..n : more[i] = rs[i]
    OBVIOUS
  <1> HIDE DEF more
  <1>2. /\ \A i \in 1..n : d[i] \in Nat /\ e[i] = d[i]
        /\ e[n + 1] = Share(x, p, since) /\ e[n + 1] \in Nat
    <2>1. \A i \in 1..n : d[i] \in Nat
      BY SharesType
    <2>2. \A i \in 1..n + 1 : e[i] \in Nat
      BY <1>1, SharesType
    <2>3. \A i \in 1..n : e[i] = d[i]
      BY <1>1 DEF Shares
    <2>4. e[n + 1] = Share(x, p, since)
      BY <1>1 DEF Shares
    <2> HIDE DEF d, e
    <2> QED
      BY <1>1, <2>1, <2>2, <2>3, <2>4
  <1>3. PICK f : Sums(f, d, n) /\ RanIn(rs, p, since) = f[n]
    BY RanSums
  <1>4. PICK g : Sums(g, e, n + 1) /\ RanIn(more, p, since) = g[n + 1]
    BY <1>1, RanSums
  <1> HIDE DEF d, e
  <1>5. g[n] = f[n]
    BY <1>1, <1>2, <1>3, <1>4, SumsAgree
  <1>6. f[n] \in Nat
    BY <1>1, <1>2, <1>3, SumsNotNegative
  <1>7. g[n + 1] = g[n] + e[n + 1]
    BY <1>1, <1>4 DEF Sums
  <1> QED
    BY <1>2, <1>3, <1>4, <1>5, <1>6, <1>7 DEF more

LEMMA RanIsNat ==
  ASSUME NEW rs \in Seq(Run), NEW p, NEW since
  PROVE  RanIn(rs, p, since) \in Nat
  <1>1. Len(rs) \in Nat /\ \A i \in 1..Len(rs) : Shares(rs, p, since)[i] \in Nat
    BY SharesType
  <1>2. PICK f : Sums(f, Shares(rs, p, since), Len(rs)) /\ RanIn(rs, p, since) = f[Len(rs)]
    BY RanSums
  <1> QED
    BY <1>1, <1>2, SumsNotNegative

-----------------------------------------------------------------------------
(***************************************************************************)
(* The second inductive invariant: the hours of every row, stored or held  *)
(* by a call, were run since the date in that same row.                    *)
(***************************************************************************)

\* A run that is still to be saved counts for the row that already holds it.
Pending(r) == IF r.op = "run" THEN r.hours ELSE 0

Covered(p, row, pending) ==
  row.serviced <= now /\ row.hours <= RanIn(runs, p, row.serviced) + pending

RowsCovered == \A p \in DOMAIN pumps : Covered(p, pumps[p], 0)
HoursKnown(r) ==
  /\ r.pc = "serve" => r.op # "run"
  /\ r.pc = "pump" => Covered(r.pump, r.row, Pending(r))

HoursInv == IInv /\ RowsCovered /\ \A c \in Callers : HoursKnown(req[c])

LEMMA HoursInit == Init => HoursInv
  <1> SUFFICES ASSUME Init PROVE HoursInv
    OBVIOUS
  <1>1. RowsCovered /\ \A c \in Callers : HoursKnown(req[c])
    BY DEF Init, RowsCovered, HoursKnown, IdleReq
  <1> QED
    BY <1>1, InitInv DEF HoursInv

\* The clock goes on and no run is forgotten.
Later ==
  /\ now \in Nat /\ now' \in Nat /\ now <= now'
  /\ \A p, since : RanIn(runs, p, since) \in Nat /\ RanIn(runs', p, since) \in Nat
                   /\ RanIn(runs, p, since) <= RanIn(runs', p, since)

LEMMA LaterThan ==
  ASSUME IInv, now' \in Nat, now <= now', runs' = runs \/ \E x \in Run : runs' = Append(runs, x)
  PROVE  Later
  <1>1. now \in Nat /\ runs \in Seq(Run)
    BY DEF IInv, TypeOK, HistoryType, Run
  <1>2. \A p, since : RanIn(runs, p, since) \in Nat
    BY <1>1, RanIsNat
  <1>3. CASE runs' = runs
    BY <1>1, <1>2, <1>3 DEF Later
  <1>4. CASE \E x \in Run : runs' = Append(runs, x)
    <2>1. PICK x \in Run : runs' = Append(runs, x)
      BY <1>4
    <2> SUFFICES ASSUME NEW p, NEW since
                 PROVE  /\ RanIn(runs', p, since) \in Nat
                        /\ RanIn(runs, p, since) <= RanIn(runs', p, since)
      BY <1>1, <1>2 DEF Later
    <2> QED
      BY <1>1, <2>1, RanMore
  <1> QED
    BY <1>3, <1>4

LEMMA CoveredFrame ==
  ASSUME Later, NEW p, NEW row \in Pump, NEW pending \in Nat, Covered(p, row, pending)
  PROVE  Covered(p, row, pending)'
  <1>1. row.serviced \in Nat /\ row.hours \in Nat
    BY HoursAssumption DEF Pump
  <1> QED
    BY <1>1 DEF Later, Covered

LEMMA HoursFrame ==
  ASSUME HoursInv, Later, NEW q, CallType(q), HoursKnown(q)
  PROVE  HoursKnown(q)'
  <1> SUFFICES ASSUME q.pc = "pump" PROVE Covered(q.pump, q.row, Pending(q))'
    BY DEF HoursKnown
  <1>1. q.row \in Pump /\ Covered(q.pump, q.row, Pending(q))
    BY DEF CallType, HoursKnown
  <1>2. Pending(q) \in Nat
    BY HoursAssumption DEF CallType, Pending
  <1>3. PICK n : n = Pending(q)
    OBVIOUS
  <1>4. Covered(q.pump, q.row, n)'
    BY <1>1, <1>2, <1>3, CoveredFrame
  <1> QED
    BY <1>3, <1>4 DEF Covered, Pending

\* A row that no call writes stays covered.
LEMMA RowFrame ==
  ASSUME HoursInv, Later, NEW p \in DOMAIN pumps, pumps'[p] = pumps[p]
  PROVE  Covered(p, pumps[p], 0)'
  <1>1. PICK row : row = pumps[p]
    OBVIOUS
  <1>2. row \in Pump /\ Covered(p, row, 0)
    BY <1>1 DEF HoursInv, RowsCovered, IInv, TypeOK, RowsType
  <1>3. Covered(p, row, 0)'
    BY <1>2, CoveredFrame
  <1> QED
    BY <1>1, <1>3 DEF Covered

\* What is left to show of a step of one call: the row it holds now and the rows stored.
LEMMA HoursCall ==
  ASSUME HoursInv, IInv', Later, RowsCovered', NEW c \in Callers, NEW r,
         req' = [req EXCEPT ![c] = r], HoursKnown(r)'
  PROVE  HoursInv'
  <1>1. req \in [Callers -> ReqRec]
    BY DEF HoursInv, IInv, TypeOK, CallsType
  <1>2. ASSUME NEW d \in Callers PROVE HoursKnown(req[d])'
    <2>1. CASE d = c
      <3>1. req'[d] = r
        BY <1>1, <2>1
      <3> QED
        BY <3>1 DEF HoursKnown, Covered, Pending
    <2>2. CASE d # c
      <3>1. PICK q : q = req[d]
        OBVIOUS
      <3>2. req'[d] = q
        BY <1>1, <2>2, <3>1
      <3>3. CallType(q) /\ HoursKnown(q)
        BY <3>1 DEF HoursInv, IInv, TypeOK, CallsType
      <3>4. HoursKnown(q)'
        BY <3>3, HoursFrame
      <3> QED
        BY <3>2, <3>4 DEF HoursKnown, Covered, Pending
    <2> QED
      BY <2>1, <2>2
  <1> QED
    BY <1>2 DEF HoursInv

\* Steps that write neither a pump nor a run.
LEMMA HoursQuiet ==
  ASSUME HoursInv, IInv', UNCHANGED <<pumps, runs>>, now' \in Nat, now <= now'
  PROVE  Later /\ RowsCovered'
  <1>1. Later
    BY LaterThan DEF HoursInv
  <1> QED
    BY <1>1, RowFrame DEF RowsCovered

LEMMA CreatePumpHours ==
  ASSUME HoursInv, IInv', CreatePump
  PROVE  HoursInv'
  <1>1. now' \in Nat /\ now <= now' /\ runs' = runs /\ req' = req
    BY DEF CreatePump, history, HoursInv, IInv, TypeOK
  <1>2. Later
    BY <1>1, LaterThan DEF HoursInv
  <1>3. PICK p \in Pumps \ DOMAIN pumps : pumps' = Put(pumps, p, NewPump)
    BY DEF CreatePump
  <1>4. Covered(p, NewPump, 0)'
    BY <1>1, <1>2 DEF Later, Covered, NewPump
  <1>5. RowsCovered'
    <2> SUFFICES ASSUME NEW u \in DOMAIN pumps' PROVE Covered(u, pumps[u], 0)'
      BY DEF RowsCovered
    <2>1. CASE u = p
      BY <1>3, <1>4, <2>1 DEF Put, Covered
    <2>2. CASE u # p
      BY <1>2, <1>3, <2>2, RowFrame DEF Put
    <2> QED
      BY <2>1, <2>2
  <1>6. \A c \in Callers : HoursKnown(req[c])'
    <2> SUFFICES ASSUME NEW c \in Callers PROVE HoursKnown(req[c])'
      OBVIOUS
    <2>1. PICK q : q = req[c]
      OBVIOUS
    <2>2. CallType(q) /\ HoursKnown(q) /\ req'[c] = q
      BY <1>1, <2>1 DEF HoursInv, IInv, TypeOK, CallsType
    <2> QED
      BY <1>2, <2>2, HoursFrame DEF HoursKnown, Covered, Pending
  <1> QED
    BY <1>5, <1>6 DEF HoursInv

\* Plan, Tick and Restart, and steps that change nothing.
LEMMA ClockHours ==
  ASSUME HoursInv, IInv', Plan \/ Tick \/ Restart \/ UNCHANGED vars
  PROVE  HoursInv'
  <1>1. now' \in Nat /\ now <= now' /\ UNCHANGED <<pumps, runs>>
    BY DEF Plan, Tick, Restart, vars, history, HoursInv, IInv, TypeOK
  <1>2. Later /\ RowsCovered'
    BY <1>1, HoursQuiet
  <1>3. \A c \in Callers : HoursKnown(req[c])'
    <2> SUFFICES ASSUME NEW c \in Callers PROVE HoursKnown(req[c])'
      OBVIOUS
    <2>1. CASE req' = req
      <3>1. PICK q : q = req[c]
        OBVIOUS
      <3>2. CallType(q) /\ HoursKnown(q) /\ req'[c] = q
        BY <2>1, <3>1 DEF HoursInv, IInv, TypeOK, CallsType
      <3> QED
        BY <1>2, <3>2, HoursFrame DEF HoursKnown, Covered, Pending
    <2>2. CASE Restart
      BY <2>2 DEF Restart, HoursKnown, IdleReq
    <2> QED
      BY <2>1, <2>2 DEF Plan, Tick, vars
  <1> QED
    BY <1>2, <1>3 DEF HoursInv

\* A call that reads or writes a task, or begins, holds no pump row.
LEMMA TaskHours ==
  ASSUME HoursInv, IInv', NEW c \in Callers, TaskRead(c) \/ TaskSave(c) \/ ServiceBegin(c)
  PROVE  HoursInv'
  <1>1. now' \in Nat /\ now <= now' /\ UNCHANGED <<pumps, runs>>
    <2>1. now \in Nat
      BY DEF HoursInv, IInv, TypeOK
    <2>2. UNCHANGED <<pumps, now, runs>>
      BY DEF TaskRead, TaskSave, ServiceBegin, history
    <2> QED
      BY <2>1, <2>2
  <1>2. Later /\ RowsCovered'
    BY <1>1, HoursQuiet
  <1>3. req[c] \in ReqRec
    BY DEF HoursInv, IInv, TypeOK, CallsType
  <1>4. PICK r : Goto(c, r) /\ r.pc # "pump" /\ (r.pc = "serve" => r.op # "run")
    <2>1. CASE TaskRead(c)
      <3>1. PICK t \in DOMAIN tasks, op \in TaskOps :
              Goto(c, [IdleReq EXCEPT !.pc = "task", !.op = op, !.task = t,
                                      !.row = Changed(op, tasks[t])])
        BY <2>1 DEF TaskRead
      <3>2. PICK m : m = Changed(op, tasks[t])
        OBVIOUS
      <3>3. PICK r : r = [IdleReq EXCEPT !.pc = "task", !.op = op, !.task = t, !.row = m]
        OBVIOUS
      <3>4. Goto(c, r) /\ r.pc = "task"
        BY <3>1, <3>2, <3>3 DEF IdleReq
      <3> QED
        BY <3>4
    <2>2. CASE ServiceBegin(c)
      <3>1. PICK p \in Pumps, op \in {"service", "mark_fault"} :
              Goto(c, [IdleReq EXCEPT !.pc = "serve", !.op = op, !.pump = p])
        BY <2>2 DEF ServiceBegin
      <3>2. PICK r : r = [IdleReq EXCEPT !.pc = "serve", !.op = op, !.pump = p]
        OBVIOUS
      <3>3. Goto(c, r) /\ r.pc = "serve" /\ r.op # "run"
        BY <3>1, <3>2 DEF IdleReq
      <3> QED
        BY <3>3
    <2>3. CASE TaskSave(c)
      <3>1. Goto(c, IdleReq) \/ /\ req[c].op = "complete"
                                /\ Goto(c, [req[c] EXCEPT !.pc = "serve", !.row = None,
                                                          !.pump = req[c].row.target])
        BY <2>3 DEF TaskSave, Leave
      <3>2. IdleReq.pc = "idle"
        BY DEF IdleReq
      <3>3. CASE Goto(c, IdleReq)
        BY <3>2, <3>3
      <3>4. CASE /\ req[c].op = "complete"
                 /\ Goto(c, [req[c] EXCEPT !.pc = "serve", !.row = None,
                                           !.pump = req[c].row.target])
        <4>1. PICK r : r = [req[c] EXCEPT !.pc = "serve", !.row = None,
                                          !.pump = req[c].row.target]
          OBVIOUS
        <4>2. Goto(c, r) /\ r.pc = "serve" /\ r.op = "complete"
          BY <1>3, <3>4, <4>1 DEF ReqRec
        <4> QED
          BY <4>2
      <3> QED
        BY <3>1, <3>3, <3>4
    <2> QED
      BY <2>1, <2>2, <2>3
  <1>5. HoursKnown(r)'
    BY <1>4 DEF HoursKnown
  <1>6. req' = [req EXCEPT ![c] = r]
    BY <1>4 DEF Goto
  <1> QED
    BY <1>2, <1>5, <1>6, HoursCall

LEMMA ServiceReadHours ==
  ASSUME HoursInv, IInv', NEW c \in Callers, ServiceRead(c)
  PROVE  HoursInv'
  <1>1. now' = now /\ now \in Nat /\ UNCHANGED <<pumps, runs>>
    BY DEF ServiceRead, HoursInv, IInv, TypeOK
  <1>2. Later /\ RowsCovered'
    BY <1>1, HoursQuiet
  <1>3. CASE Leave(c)
    <2>1. HoursKnown(IdleReq)'
      BY DEF HoursKnown, IdleReq
    <2>2. PICK r : r = IdleReq
      OBVIOUS
    <2> QED
      BY <1>2, <1>3, <2>1, <2>2, HoursCall DEF Leave, Goto, HoursKnown, Covered, Pending
  <1>4. CASE /\ req[c].pump \in DOMAIN pumps
             /\ Goto(c, [req[c] EXCEPT !.pc = "pump", !.row = Serviced(req[c].op, pumps[req[c].pump])])
    <2>1. PICK q : q = req[c]
      OBVIOUS
    <2>2. PICK old, row : old = pumps[q.pump] /\ row = Serviced(q.op, old)
      OBVIOUS
    <2>3. PICK r : r = [q EXCEPT !.pc = "pump", !.row = row]
      OBVIOUS
    <2>4. q \in ReqRec /\ CallType(q) /\ q.pc = "serve" /\ q.op # "run"
      <3>1. q \in ReqRec /\ CallType(q) /\ HoursKnown(q) /\ q.pc = "serve"
        BY <2>1 DEF ServiceRead, At, HoursInv, IInv, TypeOK, CallsType
      <3> QED
        BY <3>1 DEF HoursKnown
    <2>5. old \in Pump /\ Covered(q.pump, old, 0)
      BY <1>4, <2>1, <2>2 DEF HoursInv, RowsCovered, IInv, TypeOK, RowsType
    <2>6. Covered(q.pump, row, 0)
      <3>1. CASE q.op = "mark_fault"
        <4>1. row.hours = old.hours /\ row.serviced = old.serviced
          BY <2>2, <2>5, <3>1 DEF Serviced, Pump
        <4> QED
          BY <2>5, <4>1 DEF Covered
      <3>2. CASE q.op # "mark_fault"
        <4>1. row.hours = 0 /\ row.serviced = now
          BY <2>2, <2>5, <3>2 DEF Serviced, Pump
        <4>2. RanIn(runs, q.pump, now) \in Nat
          BY <1>2 DEF Later
        <4> QED
          BY <1>1, <4>1, <4>2 DEF Covered
      <3> QED
        BY <3>1, <3>2
    <2>7. r.pc = "pump" /\ r.pump = q.pump /\ r.op = q.op /\ r.row = row /\ Pending(r) = 0
      BY <2>3, <2>4 DEF ReqRec, Pending
    <2>8. HoursKnown(r)'
      BY <1>1, <2>6, <2>7 DEF HoursKnown, Covered
    <2>9. req' = [req EXCEPT ![c] = r]
      BY <1>4, <2>1, <2>2, <2>3 DEF Goto
    <2> QED
      BY <1>2, <2>8, <2>9, HoursCall
  <1> QED
    BY <1>3, <1>4 DEF ServiceRead

LEMMA RunReadHours ==
  ASSUME HoursInv, IInv', NEW c \in Callers, RunRead(c)
  PROVE  HoursInv'
  <1>1. now' = now /\ now \in Nat /\ UNCHANGED <<pumps, runs>>
    BY DEF RunRead, history, HoursInv, IInv, TypeOK
  <1>2. Later /\ RowsCovered'
    BY <1>1, HoursQuiet
  <1>3. PICK p \in DOMAIN pumps, h \in Hours :
          LET sum == pumps[p].hours + h IN
          Goto(c, [IdleReq EXCEPT !.pc = "pump", !.op = "run", !.pump = p, !.hours = h,
                     !.row = [pumps[p] EXCEPT !.hours = IF sum > HoursMax THEN HoursMax ELSE sum]])
    BY DEF RunRead
  <1>4. PICK old : old = pumps[p]
    OBVIOUS
  <1>5. PICK row : row = [old EXCEPT !.hours = IF old.hours + h > HoursMax THEN HoursMax
                                               ELSE old.hours + h]
    OBVIOUS
  <1>6. PICK r : r = [IdleReq EXCEPT !.pc = "pump", !.op = "run", !.pump = p, !.hours = h,
                                     !.row = row]
    OBVIOUS
  <1>7. old \in Pump /\ Covered(p, old, 0) /\ h \in Nat
    BY <1>4, HoursAssumption DEF HoursInv, RowsCovered, IInv, TypeOK, RowsType
  <1>8. row.serviced = old.serviced /\ row.hours <= old.hours + h /\ old.hours \in Nat
        /\ row.hours \in Nat
    BY <1>5, <1>7, HoursAssumption DEF Pump
  <1>9. Covered(p, row, h)
    <2>1. RanIn(runs, p, old.serviced) \in Nat
      BY <1>2 DEF Later
    <2> QED
      BY <1>7, <1>8, <2>1 DEF Covered
  <1>10. r.pc = "pump" /\ r.pump = p /\ r.row = row /\ r.op = "run" /\ r.hours = h
    BY <1>6 DEF IdleReq
  <1>11. HoursKnown(r)'
    BY <1>1, <1>9, <1>10 DEF HoursKnown, Covered, Pending
  <1>12. req' = [req EXCEPT ![c] = r]
    BY <1>3, <1>4, <1>5, <1>6 DEF Goto
  <1> QED
    BY <1>2, <1>11, <1>12, HoursCall

LEMMA PumpSaveHours ==
  ASSUME HoursInv, IInv', NEW c \in Callers, PumpSave(c)
  PROVE  HoursInv'
  <1>1. now' = now /\ now \in Nat /\ Leave(c)
    BY DEF PumpSave, HoursInv, IInv, TypeOK
  <1>2. PICK r : r = IdleReq
    OBVIOUS
  <1>3. HoursKnown(r)' /\ req' = [req EXCEPT ![c] = r]
    BY <1>1, <1>2 DEF HoursKnown, IdleReq, Leave, Goto
  <1>4. CASE UNCHANGED <<pumps, runs, services>>
    <2>1. Later /\ RowsCovered'
      BY <1>1, <1>4, HoursQuiet
    <2> QED
      BY <1>3, <2>1, HoursCall
  <1>5. CASE /\ pumps' = [pumps EXCEPT ![req[c].pump] = req[c].row]
             /\ runs' = IF req[c].op = "run"
                          THEN Append(runs, [pump |-> req[c].pump, hours |-> req[c].hours,
                                             at |-> now])
                          ELSE runs
    <2>1. PICK q : q = req[c]
      OBVIOUS
    <2>2. CallType(q) /\ HoursKnown(q) /\ q.pc = "pump"
      BY <2>1 DEF PumpSave, At, HoursInv, IInv, TypeOK, CallsType
    <2>3. /\ q.pump \in DOMAIN pumps /\ q.pump \in Pumps /\ q.row \in Pump
          /\ Covered(q.pump, q.row, Pending(q))
          /\ q.op = "run" => q.hours \in Hours
      BY <2>2 DEF CallType, HoursKnown, HoursInv, IInv, TypeOK, RowsType
    <2>4. PICK x : x = [pump |-> q.pump, hours |-> q.hours, at |-> now]
      OBVIOUS
    <2>5. q.op = "run" => x \in Run /\ runs' = Append(runs, x)
      BY <1>1, <1>5, <2>1, <2>3, <2>4 DEF Run
    <2>6. Later
      BY <1>1, <1>5, <2>1, <2>5, LaterThan DEF HoursInv
    <2>7. Covered(q.pump, q.row, 0)'
      <3>1. q.row.serviced \in Nat /\ q.row.hours \in Nat /\ q.row.serviced <= now
        BY <2>3, HoursAssumption DEF Pump, Covered
      <3>2. CASE q.op = "run"
        <4>1. runs \in Seq(Run)
          BY DEF HoursInv, IInv, TypeOK, HistoryType, Run
        <4>2. RanIn(runs', q.pump, q.row.serviced)
                = RanIn(runs, q.pump, q.row.serviced) + Share(x, q.pump, q.row.serviced)
          <5>1. x \in Run /\ runs' = Append(runs, x)
            BY <2>5, <3>2
          <5>2. RanIn(Append(runs, x), q.pump, q.row.serviced)
                  = RanIn(runs, q.pump, q.row.serviced) + Share(x, q.pump, q.row.serviced)
            BY <4>1, <5>1, RanMore
          <5> QED
            BY <5>1, <5>2
        <4>3. Share(x, q.pump, q.row.serviced) = q.hours
          BY <1>1, <2>4, <3>1 DEF Share
        <4>4. q.row.hours <= RanIn(runs, q.pump, q.row.serviced) + q.hours
          BY <2>3, <3>2 DEF Covered, Pending
        <4>5. q.row.hours <= RanIn(runs', q.pump, q.row.serviced) + 0
          <5>1. q.hours \in Nat /\ RanIn(runs, q.pump, q.row.serviced) \in Nat
            BY <2>3, <2>6, <3>2, HoursAssumption DEF Later
          <5> QED
            BY <4>2, <4>3, <4>4, <5>1
        <4> QED
          BY <1>1, <3>1, <4>5 DEF Covered
      <3>3. CASE q.op # "run"
        <4>1. Covered(q.pump, q.row, 0) /\ runs' = runs
          BY <1>5, <2>1, <2>3, <3>3 DEF Pending
        <4> QED
          BY <2>3, <2>6, <4>1, CoveredFrame
      <3> QED
        BY <3>2, <3>3
    <2>8. RowsCovered'
      <3>1. DOMAIN pumps' = DOMAIN pumps /\ pumps'[q.pump] = q.row
            /\ \A p \in DOMAIN pumps \ {q.pump} : pumps'[p] = pumps[p]
        BY <1>5, <2>1, <2>3
      <3> SUFFICES ASSUME NEW p \in DOMAIN pumps PROVE Covered(p, pumps[p], 0)'
        BY <3>1 DEF RowsCovered
      <3>2. CASE p = q.pump
        BY <2>7, <3>1, <3>2 DEF Covered
      <3>3. CASE p # q.pump
        BY <2>6, <3>1, <3>3, RowFrame
      <3> QED
        BY <3>2, <3>3
    <2> QED
      BY <1>3, <2>6, <2>8, HoursCall
  <1> QED
    BY <1>4, <1>5 DEF PumpSave

LEMMA HoursStep == HoursInv /\ [Next]_vars => HoursInv'
  <1> SUFFICES ASSUME HoursInv, [Next]_vars PROVE HoursInv'
    OBVIOUS
  <1>1. IInv'
    BY StepInv DEF HoursInv
  <1>2. CASE CreatePump
    BY <1>1, <1>2, CreatePumpHours
  <1>3. CASE \E c \in Callers : Call(c)
    BY <1>1, <1>3, TaskHours, ServiceReadHours, RunReadHours, PumpSaveHours DEF Call
  <1>4. CASE Plan \/ Tick \/ Restart \/ UNCHANGED vars
    BY <1>1, <1>4, ClockHours
  <1> QED
    BY <1>2, <1>3, <1>4 DEF Next, Idle

-----------------------------------------------------------------------------
(***************************************************************************)
(* Theorems.                                                               *)
(***************************************************************************)

LEMMA InvHolds == Spec => []IInv
  BY InitInv, StepInv, PTL DEF Spec

\* A call that is about to write has a row that still exists, and counters stay within
\* their bounds.
THEOREM TypeCorrect == Spec => []TypeOK
<1>1. IInv => TypeOK
  BY DEF IInv
<1> QED
  BY InvHolds, <1>1, PTL

\* The pump of a done task has been serviced since, or is about to be, or the caller of
\* the completion got an error or no answer.
THEOREM DoneIsServiced == Spec => []DoneWasServiced
<1>1. IInv => DoneWasServiced
  BY DEF IInv, Accounted, ServicedSince, Serving, DoneWasServiced
<1> QED
  BY InvHolds, <1>1, PTL

\* The hours a pump shows were run since the service date it shows, whatever calls lose or undo.
THEOREM HoursAreSinceService == Spec => []HoursSinceService
<1>1. \A p, since : Ran(p, since) = RanIn(runs, p, since)
  BY DEF Ran, RanIn
<1>2. HoursInv => HoursSinceService
  <2> SUFFICES ASSUME HoursInv, NEW p \in DOMAIN pumps
               PROVE  pumps[p].hours <= Ran(p, pumps[p].serviced)
    BY DEF HoursSinceService
  <2>1. runs \in Seq(Run)
    BY DEF HoursInv, IInv, TypeOK, HistoryType, Run
  <2>2. PICK row : row = pumps[p]
    OBVIOUS
  <2>3. row.hours <= RanIn(runs, p, row.serviced) + 0
    BY <2>2 DEF HoursInv, RowsCovered, Covered
  <2>4. RanIn(runs, p, row.serviced) \in Nat
    BY <2>1, RanIsNat
  <2> QED
    BY <1>1, <2>2, <2>3, <2>4
<1> QED
  BY HoursInit, HoursStep, <1>2, PTL DEF Spec
=============================================================================
