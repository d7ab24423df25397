--------------------------- MODULE TransferProofs ---------------------------
(***************************************************************************)
(* Theorems about Transfer, for every value of its constants.              *)
(***************************************************************************)
EXTENDS Transfer, SequenceTheorems, TLAPS

USE DEF store, engine, history

-----------------------------------------------------------------------------
\* Type correctness.

LEMMA InitType == Init => TypeOK
  <1> SUFFICES ASSUME Init PROVE TypeOK
    OBVIOUS
  <1>1. TableType
    BY DEF Init, TableType
  <1>2. LevelType
    BY LevelsAssumption, RatesAssumption DEF Init, LevelType
  <1>3. EngineType
    BY BoundsAssumption DEF Init, EngineType
  <1>4. WorkerType
    BY RatesAssumption DEF Init, WorkerType, IdleWorker, WorkerPc, WorkerRec
  <1>5. ClientType
    BY DEF Init, ClientType, IdleClient, ClientPc, ClientRec
  <1>6. EnvType
    <2>1. stopping \in BOOLEAN
      BY Zenon DEF Init
    <2>2. now \in Nat /\ left \in [BudgetKinds -> Nat]
      BY BoundsAssumption DEF Init
    <2> QED
      BY <2>1, <2>2 DEF EnvType
  <1>7. HistoryType
    BY DEF Init, HistoryType
  <1> QED
    BY <1>1, <1>2, <1>3, <1>4, <1>5, <1>6, <1>7 DEF TypeOK

\* What a step leaves alone keeps its type.
LEMMA Frame ==
  ASSUME TypeOK, DOMAIN jobs' = DOMAIN jobs
  PROVE  /\ UNCHANGED jobs => TableType'
         /\ UNCHANGED <<content, hours>> => LevelType'
         /\ UNCHANGED engine => EngineType'
         /\ UNCHANGED wk => WorkerType'
         /\ UNCHANGED cl => ClientType'
         /\ UNCHANGED <<stopping, now, left>> => EnvType'
         /\ UNCHANGED history => HistoryType'
  BY DEF TypeOK, TableType, LevelType, EngineType, WorkerType, ClientType, EnvType, HistoryType

LEMMA SpendType ==
  ASSUME TypeOK, NEW k \in BudgetKinds, Spend(k) \/ UNCHANGED left
  PROVE  left' \in [BudgetKinds -> Nat]
  BY DEF TypeOK, EnvType, Spend

LEMMA FaultType ==
  ASSUME TypeOK, Fails \/ Succeeds, UNCHANGED <<stopping, now>>
  PROVE  EnvType'
  BY SpendType DEF Fails, Succeeds, BudgetKinds, TypeOK, EnvType

\* Writing a status changes neither the ids in use nor the shape of the rows.
LEMMA SetStatusType ==
  ASSUME TypeOK, NEW j \in DOMAIN jobs, NEW s \in Statuses, SetStatus(j, s)
  PROVE  TableType' /\ DOMAIN jobs' = DOMAIN jobs
  BY DEF TypeOK, TableType, SetStatus, JobRow

\* A worker's record replaced by another.
LEMMA BecomeType ==
  ASSUME TypeOK, NEW w \in Workers, NEW r \in WorkerRec, Become(w, r),
         DOMAIN jobs' = DOMAIN jobs,
         r.pc \in {"idle", "exited"} \/ r.job \in DOMAIN jobs
  PROVE  WorkerType'
  BY DEF TypeOK, WorkerType, Become

\* A worker that moves its program counter, and one that gives up its job.
LEMMA GotoType ==
  ASSUME TypeOK, NEW w \in Workers, NEW pc \in WorkerPc, Goto(w, pc),
         DOMAIN jobs' = DOMAIN jobs,
         pc \in {"idle", "exited"} \/ wk[w].job \in DOMAIN jobs
  PROVE  WorkerType'
  <1>1. [wk[w] EXCEPT !.pc = pc] \in WorkerRec
    BY DEF TypeOK, WorkerType, WorkerRec
  <1> QED
    BY <1>1, BecomeType DEF Goto, WorkerRec, TypeOK, WorkerType

LEMMA ReleaseType ==
  ASSUME TypeOK, NEW w \in Workers, Release(w), DOMAIN jobs' = DOMAIN jobs
  PROVE  WorkerType'
  <1>1. IdleWorker \in WorkerRec
    BY RatesAssumption DEF IdleWorker, WorkerRec, WorkerPc
  <1> QED
    BY <1>1, BecomeType DEF Release, IdleWorker

\* The order of a worker's job is one of Orders.
LEMMA OrderType ==
  ASSUME TypeOK, NEW w \in Workers, wk[w].pc \notin {"idle", "exited"}
  PROVE  /\ wk[w].job \in DOMAIN jobs /\ wk[w].job \in JobIds
         /\ Order(w) \in Orders
         /\ Order(w).from \in Ponds /\ Order(w).to \in Ponds /\ Order(w).pump \in Pumps
         /\ Order(w).vol \in Nat \ {0}
  BY OrdersAssumption DEF TypeOK, TableType, WorkerType, Order, JobRow

\* The scheduler.

\* A send on a channel that is not full.
LEMMA QueueGrows ==
  ASSUME NEW S, NEW q \in Seq(S), NEW j \in S, NEW n \in Nat, Len(q) < n
  PROVE  Append(q, j) \in Seq(S) /\ Len(Append(q, j)) <= n
  <1>1. Len(q) \in Nat
    BY LenProperties
  <1>2. Append(q, j) \in Seq(S) /\ Len(Append(q, j)) = Len(q) + 1
    BY AppendProperties
  <1> QED
    BY <1>1, <1>2

LEMMA SchedulerTypes == TypeOK /\ Scheduler => TypeOK'
  <1> SUFFICES ASSUME TypeOK, Scheduler PROVE TypeOK'
    OBVIOUS
  <1>1. CASE PollDue
    <2>1. EngineType'
      BY <1>1 DEF PollDue, TypeOK, EngineType, Pending, InStatus
    <2> QED
      BY <1>1, <2>1, Frame DEF PollDue, TypeOK
  <1>2. CASE Dispatch
    <2>1. PICK j \in Earliest(todo) :
            \/ Len(queue) < QueueCap /\ queue' = Append(queue, j) /\ todo' = todo \ {j}
            \/ queue' = queue /\ todo' = {}
      BY <1>2 DEF Dispatch
    <2>2. j \in DOMAIN jobs
      BY DEF Earliest, TypeOK, EngineType
    <2>3. queue' \in Seq(DOMAIN jobs) /\ Len(queue') <= QueueCap
      <3>1. queue \in Seq(DOMAIN jobs) /\ Len(queue) <= QueueCap
        BY DEF TypeOK, EngineType
      <3>2. Len(queue) < QueueCap => /\ Append(queue, j) \in Seq(DOMAIN jobs)
                                     /\ Len(Append(queue, j)) <= QueueCap
        BY <2>2, <3>1, QueueGrows, BoundsAssumption
      <3> QED
        BY <2>1, <3>1, <3>2
    <2>4. EngineType'
      BY <1>2, <2>1, <2>3 DEF Dispatch, TypeOK, EngineType
    <2> QED
      BY <1>2, <2>4, Frame DEF Dispatch, TypeOK
  <1> QED
    BY <1>1, <1>2 DEF Scheduler

\* The workers.

LEMMA LoadingType ==
  ASSUME NEW j \in JobIds
  PROVE  /\ [IdleWorker EXCEPT !.pc = "load", !.job = j] \in WorkerRec
         /\ [IdleWorker EXCEPT !.pc = "load", !.job = j].job = j
  <1>1. IdleWorker \in WorkerRec
    BY RatesAssumption DEF IdleWorker, WorkerRec, WorkerPc
  <1> QED
    BY <1>1 DEF WorkerRec, WorkerPc

LEMMA TakeType ==
  ASSUME TypeOK, NEW w \in Workers, Take(w)
  PROVE  TypeOK'
  <1>1. Head(queue) \in DOMAIN jobs /\ Tail(queue) \in Seq(DOMAIN jobs)
        /\ Len(Tail(queue)) = Len(queue) - 1
    BY HeadTailProperties DEF Take, TypeOK, EngineType
  <1>2. EngineType'
    BY <1>1, LenProperties, BoundsAssumption DEF Take, TypeOK, EngineType
  <1>3. WorkerType'
    <2> DEFINE r == [IdleWorker EXCEPT !.pc = "load", !.job = Head(queue)]
    <2>1. r \in WorkerRec /\ r.job \in DOMAIN jobs
      <3>1. Head(queue) \in DOMAIN jobs /\ Head(queue) \in JobIds
        BY <1>1 DEF TypeOK, TableType
      <3> QED
        BY <3>1, LoadingType
    <2>2. Become(w, r) /\ DOMAIN jobs' = DOMAIN jobs
      BY DEF Take
    <2> HIDE DEF r
    <2> QED
      BY <2>1, <2>2, BecomeType
  <1> QED
    BY <1>2, <1>3, Frame DEF Take, TypeOK

LEMMA QuitType ==
  ASSUME TypeOK, NEW w \in Workers, Quit(w)
  PROVE  TypeOK'
  BY GotoType, Frame DEF Quit, WorkerPc, TypeOK

\* A step of Execute that writes no row.
LEMMA ReadStepType ==
  ASSUME TypeOK, Fails \/ Succeeds, WorkerType',
         UNCHANGED <<store, engine, cl, stopping, now, history>>
  PROVE  TypeOK'
  BY FaultType, Frame DEF TypeOK

\* A step of Execute that moves brine.
LEMMA MoveStepType ==
  ASSUME TypeOK, Fails \/ Succeeds, WorkerType', LevelType', HistoryType',
         UNCHANGED <<jobs, engine, cl, stopping, now>>
  PROVE  TypeOK'
  BY FaultType, Frame DEF TypeOK

\* A step of Execute that saves the row of the job.
LEMMA SaveStepType ==
  ASSUME TypeOK, NEW w \in Workers, At(w, wk[w].pc), wk[w].pc \notin {"idle", "exited"},
         NEW s \in Statuses, SetStatus(wk[w].job, s) \/ jobs' = jobs,
         NEW pc \in WorkerPc, Goto(w, pc) \/ Release(w), Fails \/ Succeeds,
         UNCHANGED <<content, hours, engine, cl, stopping, now, history>>
  PROVE  TypeOK'
  <1>1. wk[w].job \in DOMAIN jobs
    BY OrderType
  <1>2. TableType' /\ DOMAIN jobs' = DOMAIN jobs
    BY <1>1, SetStatusType, Frame
  <1>3. WorkerType'
    BY <1>1, <1>2, GotoType, ReleaseType
  <1> QED
    BY <1>2, <1>3, FaultType, Frame DEF TypeOK

LEMMA ExecuteType ==
  ASSUME TypeOK, NEW w \in Workers, Execute(w)
  PROVE  TypeOK'
  <1>1. CASE Load(w)
    <2>1. WorkerType'
      BY <1>1, OrderType, GotoType, ReleaseType DEF Load, At, WorkerPc
    <2> QED
      BY <1>1, <2>1, ReadStepType DEF Load
  <1>2. CASE Claim(w)
    BY <1>2, SaveStepType DEF Claim, At, WorkerPc, Statuses
  <1>3. CASE Source(w)
    <2>1. content[Order(w).from] \in Int
      BY <1>3, OrderType DEF Source, At, TypeOK, LevelType
    <2>2. WorkerType'
      <3>1. CASE Goto(w, "fail")
        BY <1>3, <3>1, OrderType, GotoType DEF Source, At, WorkerPc
      <3>2. CASE Become(w, [wk[w] EXCEPT !.pc = "target", !.from = content[Order(w).from]])
        <4>1. [wk[w] EXCEPT !.pc = "target", !.from = content[Order(w).from]] \in WorkerRec
          BY <2>1 DEF TypeOK, WorkerType, WorkerRec, WorkerPc
        <4> QED
          BY <1>3, <3>2, <4>1, OrderType, BecomeType DEF Source, At, WorkerRec, TypeOK, WorkerType
      <3> QED
        BY <1>3, <3>1, <3>2 DEF Source
    <2> QED
      BY <1>3, <2>2, ReadStepType DEF Source
  <1>4. CASE Target(w)
    <2>1. content[Order(w).to] \in Int
      BY <1>4, OrderType DEF Target, At, TypeOK, LevelType
    <2>2. WorkerType'
      <3>1. CASE Goto(w, "fail")
        BY <1>4, <3>1, OrderType, GotoType DEF Target, At, WorkerPc
      <3>2. CASE Become(w, [wk[w] EXCEPT !.pc = "drain", !.to = content[Order(w).to]])
        <4>1. [wk[w] EXCEPT !.pc = "drain", !.to = content[Order(w).to]] \in WorkerRec
          BY <2>1 DEF TypeOK, WorkerType, WorkerRec, WorkerPc
        <4> QED
          BY <1>4, <3>2, <4>1, OrderType, BecomeType DEF Target, At, WorkerRec, TypeOK, WorkerType
      <3> QED
        BY <1>4, <3>1, <3>2 DEF Target
    <2> QED
      BY <1>4, <2>2, ReadStepType DEF Target
  <1>5. CASE Drain(w)
    <2>1. WorkerType'
      BY <1>5, OrderType, GotoType DEF Drain, At, WorkerPc
    <2>2. wk[w].from - Order(w).vol \in Int
      BY <1>5, OrderType DEF Drain, At, TypeOK, WorkerType, WorkerRec
    <2>3. LevelType' /\ HistoryType'
      BY <1>5, <2>2, OrderType DEF Drain, At, TypeOK, LevelType, HistoryType
    <2> QED
      BY <1>5, <2>1, <2>3, MoveStepType DEF Drain
  <1>6. CASE Fill(w)
    <2>1. WorkerType'
      BY <1>6, OrderType, GotoType DEF Fill, At, WorkerPc
    <2>2. wk[w].to + Order(w).vol \in Int
      BY <1>6, OrderType DEF Fill, At, TypeOK, WorkerType, WorkerRec
    <2>3. LevelType' /\ HistoryType'
      BY <1>6, <2>2, OrderType DEF Fill, At, TypeOK, LevelType, HistoryType
    <2> QED
      BY <1>6, <2>1, <2>3, MoveStepType DEF Fill
  <1>7. CASE Undo(w)
    <2>1. WorkerType'
      BY <1>7, OrderType, GotoType DEF Undo, At, WorkerPc
    <2>2. wk[w].from \in Int
      BY DEF TypeOK, WorkerType, WorkerRec
    <2>3. LevelType' /\ HistoryType'
      BY <1>7, <2>2, OrderType DEF Undo, At, TypeOK, LevelType, HistoryType
    <2> QED
      BY <1>7, <2>1, <2>3, MoveStepType DEF Undo
  <1>8. ASSUME NEW rate \in Nat \ {0}, Charge(w, rate, "meter"),
               wk[w].pc \notin {"idle", "exited"}, DOMAIN jobs' = DOMAIN jobs
        PROVE  WorkerType'
    <2>1. Order(w).vol \div rate \in Nat
      BY <1>8, OrderType
    <2> QED
      <3>1. [wk[w] EXCEPT !.pc = "meter", !.fee = Order(w).vol \div rate] \in WorkerRec
        BY <2>1 DEF TypeOK, WorkerType, WorkerRec, WorkerPc
      <3> QED
        BY <1>8, <3>1, OrderType, BecomeType DEF Charge, WorkerRec, TypeOK, WorkerType
  <1>9. CASE CheckRunning(w)
    <2>1. WorkerType'
      BY <1>8, <1>9, OrderType, GotoType, RatesAssumption DEF CheckRunning, At, WorkerPc
    <2> QED
      BY <1>9, <2>1, ReadStepType DEF CheckRunning
  <1>10. CASE CheckReserved(w)
    <2>1. Rate[Order(w).pump] \in Nat \ {0}
      BY <1>10, OrderType, RatesAssumption DEF CheckReserved, At
    <2>2. WorkerType'
      BY <1>8, <1>10, <2>1, RatesAssumption DEF CheckReserved, At
    <2> QED
      BY <1>10, <2>2, ReadStepType DEF CheckReserved
  <1>11. CASE Meter(w)
    <2>1. hours[Order(w).pump] \in 0..MaxHours
      BY <1>11, OrderType DEF Meter, At, TypeOK, LevelType
    <2>2. WorkerType'
      <3>1. CASE Goto(w, "fail")
        BY <1>11, <3>1, OrderType, GotoType DEF Meter, At, WorkerPc
      <3>2. CASE Become(w, [wk[w] EXCEPT !.pc = "bill", !.meter = hours[Order(w).pump]])
        <4>1. [wk[w] EXCEPT !.pc = "bill", !.meter = hours[Order(w).pump]] \in WorkerRec
          BY <2>1 DEF TypeOK, WorkerType, WorkerRec, WorkerPc
        <4> QED
          BY <1>11, <3>2, <4>1, OrderType, BecomeType DEF Meter, At, WorkerRec, TypeOK, WorkerType
      <3> QED
        BY <1>11, <3>1, <3>2 DEF Meter
    <2> QED
      BY <1>11, <2>2, ReadStepType DEF Meter
  <1>12. CASE Bill(w)
    <2>1. WorkerType'
      BY <1>12, OrderType, GotoType DEF Bill, At, WorkerPc
    <2>2. wk[w].meter \in 0..MaxHours /\ wk[w].fee \in Nat
      BY DEF TypeOK, WorkerType, WorkerRec
    <2>3. LevelType'
      BY <1>12, <2>2, OrderType, RatesAssumption DEF Bill, At, TypeOK, LevelType
    <2> QED
      BY <1>12, <2>1, <2>3, MoveStepType, Frame DEF Bill
  <1>13. CASE Finish(w)
    BY <1>13, SaveStepType DEF Finish, At, WorkerPc, Statuses
  <1>14. CASE Fail(w)
    BY <1>14, SaveStepType DEF Fail, At, WorkerPc, Statuses
  <1> QED
    BY <1>1, <1>2, <1>3, <1>4, <1>5, <1>6, <1>7, <1>9, <1>10, <1>11, <1>12, <1>13, <1>14
    DEF Execute

\* API requests.

LEMMA ClientStepType ==
  ASSUME TypeOK, NEW c \in Clients, NEW r \in ClientRec, cl' = [cl EXCEPT ![c] = r],
         r.pc \in ClientPc \ {"idle", "cancel"} => r.order \in Orders,
         r.pc = "cancel" => r.job \in DOMAIN jobs',
         DOMAIN jobs \subseteq DOMAIN jobs'
  PROVE  ClientType'
  BY DEF TypeOK, ClientType

LEMMA IdleClientType ==
  ASSUME TypeOK, NEW c \in Clients, cl' = [cl EXCEPT ![c] = IdleClient],
         DOMAIN jobs \subseteq DOMAIN jobs'
  PROVE  ClientType'
  <1>1. IdleClient \in ClientRec /\ IdleClient.pc = "idle"
    BY DEF IdleClient, ClientRec, ClientPc
  <1> QED
    BY <1>1, ClientStepType

LEMMA CheckType ==
  ASSUME TypeOK, NEW c \in Clients, NEW from, NEW ok, NEW to \in ClientPc \ {"idle", "cancel"},
         from \in ClientPc \ {"idle", "cancel"}, Step(c, from, ok, to)
  PROVE  TypeOK'
  <1>1. CASE cl' = [cl EXCEPT ![c] = IdleClient]
    BY <1>1, IdleClientType, Frame DEF Step, TypeOK
  <1>2. CASE cl' = [cl EXCEPT ![c].pc = to]
    <2>1. cl[c] \in ClientRec /\ cl[c].order \in Orders
      BY DEF TypeOK, ClientType, Step
    <2>2. [cl[c] EXCEPT !.pc = to] \in ClientRec
      BY <2>1 DEF ClientRec
    <2>3. cl' = [cl EXCEPT ![c] = [cl[c] EXCEPT !.pc = to]]
      BY <1>2
    <2>4. ClientType'
      BY <2>1, <2>2, <2>3, ClientStepType DEF Step, ClientRec
    <2> QED
      BY <2>4, Frame DEF Step, TypeOK
  <1> QED
    BY <1>1, <1>2 DEF Step

\* A new row: what refers to the old rows is still well typed.
LEMMA InsertType ==
  ASSUME TypeOK, NEW c \in Clients, ScheduleInsert(c)
  PROVE  TypeOK'
  <1>1. PICK j \in JobIds \ DOMAIN jobs :
          jobs' = [k \in DOMAIN jobs \cup {j} |->
                     IF k = j THEN [order |-> cl[c].order, status |-> "pending"] ELSE jobs[k]]
    BY DEF ScheduleInsert
  <1>2. DOMAIN jobs' = DOMAIN jobs \cup {j}
    BY <1>1
  <1>3. cl[c].order \in Orders
    BY DEF ScheduleInsert, TypeOK, ClientType, ClientPc
  <1>4. TableType'
    BY <1>1, <1>2, <1>3 DEF TypeOK, TableType, JobRow, Statuses
  <1>5. EngineType'
    BY <1>2, SeqMonotonic DEF ScheduleInsert, TypeOK, EngineType
  <1>6. WorkerType'
    BY <1>2 DEF ScheduleInsert, TypeOK, WorkerType
  <1>7. ClientType'
    BY <1>2, IdleClientType DEF ScheduleInsert
  <1>8. LevelType' /\ EnvType' /\ HistoryType'
    BY DEF ScheduleInsert, TypeOK, LevelType, EnvType, HistoryType
  <1> QED
    BY <1>4, <1>5, <1>6, <1>7, <1>8 DEF TypeOK

LEMMA RequestType ==
  ASSUME TypeOK, NEW c \in Clients, Request(c)
  PROVE  TypeOK'
  <1>1. CASE ScheduleSource(c)
    <2>1. PICK o \in Orders : cl' = [cl EXCEPT ![c] = [IdleClient EXCEPT !.pc = "target", !.order = o]]
      BY <1>1 DEF ScheduleSource
    <2>2. [IdleClient EXCEPT !.pc = "target", !.order = o] \in ClientRec
      BY DEF IdleClient, ClientRec, ClientPc
    <2>3. [IdleClient EXCEPT !.pc = "target", !.order = o].order = o
          /\ [IdleClient EXCEPT !.pc = "target", !.order = o].pc = "target"
      BY DEF IdleClient
    <2>4. ClientType' /\ DOMAIN jobs' = DOMAIN jobs
      BY <1>1, <2>1, <2>2, <2>3, ClientStepType DEF ScheduleSource
    <2>5. EnvType'
      BY <1>1, SpendType DEF ScheduleSource, TypeOK, EnvType, BudgetKinds
    <2> QED
      BY <1>1, <2>4, <2>5, Frame DEF ScheduleSource, TypeOK
  <1>2. CASE ScheduleTarget(c)
    BY <1>2, CheckType DEF ScheduleTarget, ClientPc
  <1>3. CASE ScheduleRunning(c)
    BY <1>3, CheckType DEF ScheduleRunning, ClientPc
  <1>4. CASE ScheduleReserved(c)
    BY <1>4, CheckType DEF ScheduleReserved, ClientPc
  <1>5. CASE ScheduleInsert(c)
    BY <1>5, InsertType
  <1>6. CASE CancelRead(c)
    <2>1. PICK j \in DOMAIN jobs : cl' = [cl EXCEPT ![c] = [IdleClient EXCEPT !.pc = "cancel", !.job = j]]
      BY <1>6 DEF CancelRead, InStatus
    <2>2. j \in JobIds
      BY DEF TypeOK, TableType
    <2>3. [IdleClient EXCEPT !.pc = "cancel", !.job = j] \in ClientRec
      BY <2>2 DEF IdleClient, ClientRec, ClientPc
    <2>4. [IdleClient EXCEPT !.pc = "cancel", !.job = j].job = j
          /\ [IdleClient EXCEPT !.pc = "cancel", !.job = j].pc = "cancel"
      BY DEF IdleClient
    <2>5. ClientType' /\ DOMAIN jobs' = DOMAIN jobs
      BY <1>6, <2>1, <2>3, <2>4, ClientStepType DEF CancelRead
    <2>6. EnvType'
      BY <1>6, SpendType DEF CancelRead, TypeOK, EnvType, BudgetKinds
    <2> QED
      BY <1>6, <2>5, <2>6, Frame DEF CancelRead, TypeOK
  <1>7. CASE CancelSave(c)
    <2>1. cl[c].job \in DOMAIN jobs
      BY <1>7 DEF CancelSave, TypeOK, ClientType
    <2>2. TableType' /\ DOMAIN jobs' = DOMAIN jobs
      BY <1>7, <2>1, SetStatusType DEF CancelSave, Statuses
    <2>3. ClientType'
      BY <1>7, <2>2, IdleClientType DEF CancelSave
    <2> QED
      BY <1>7, <2>2, <2>3, Frame DEF CancelSave, TypeOK
  <1> QED
    BY <1>1, <1>2, <1>3, <1>4, <1>5, <1>6, <1>7 DEF Request

\* Everything else, and the theorem.

LEMMA TypeStep == TypeOK /\ [Next]_vars => TypeOK'
  <1> SUFFICES ASSUME TypeOK, [Next]_vars PROVE TypeOK'
    OBVIOUS
  <1>1. CASE Scheduler
    BY <1>1, SchedulerTypes
  <1>2. CASE \E w \in Workers : Worker(w)
    BY <1>2, TakeType, QuitType, ExecuteType DEF Worker
  <1>3. CASE \E c \in Clients : Request(c)
    BY <1>3, RequestType
  <1>4. ASSUME NEW p \in Ponds, ReportLevel(p) PROVE TypeOK'
    <2>1. LevelType'
      BY <1>4, LevelsAssumption DEF ReportLevel, TypeOK, LevelType
    <2>2. EnvType'
      BY <1>4, SpendType DEF ReportLevel, TypeOK, EnvType, BudgetKinds
    <2> QED
      BY <1>4, <2>1, <2>2, Frame DEF ReportLevel, TypeOK
  <1>5. ASSUME NEW p \in Pumps, ServicePump(p) PROVE TypeOK'
    <2>1. LevelType'
      BY <1>5, RatesAssumption DEF ServicePump, TypeOK, LevelType
    <2>2. EnvType'
      BY <1>5, SpendType DEF ServicePump, TypeOK, EnvType, BudgetKinds
    <2> QED
      BY <1>5, <2>1, <2>2, Frame DEF ServicePump, TypeOK
  <1>6. CASE RainAlert
    <2>1. EngineType'
      BY <1>6 DEF RainAlert, TypeOK, EngineType, Pending, InStatus
    <2>2. EnvType'
      BY <1>6, SpendType DEF RainAlert, TypeOK, EnvType, BudgetKinds
    <2> QED
      BY <1>6, <2>1, <2>2, Frame DEF RainAlert, TypeOK
  <1>7. CASE PauseNext
    <2>1. PICK j \in Earliest(rain) :
            \/ SetStatus(j, "failed") /\ rain' = rain \ {j} /\ Succeeds
            \/ Fails /\ jobs' = jobs /\ rain' = {}
      BY <1>7 DEF PauseNext
    <2>2. j \in DOMAIN jobs
      BY DEF Earliest, TypeOK, EngineType
    <2>3. TableType' /\ DOMAIN jobs' = DOMAIN jobs
      BY <2>1, <2>2, SetStatusType, Frame DEF Statuses
    <2>4. EngineType'
      BY <1>7, <2>1, <2>3 DEF PauseNext, TypeOK, EngineType
    <2>5. EnvType'
      BY <1>7, <2>1, FaultType DEF PauseNext
    <2> QED
      BY <1>7, <2>3, <2>4, <2>5, Frame DEF PauseNext, TypeOK
  <1>8. CASE Signal
    <2>1. stopping' \in BOOLEAN
      BY <1>8, Zenon DEF Signal
    <2>2. EnvType'
      BY <1>8, <2>1, SpendType DEF Signal, TypeOK, EnvType, BudgetKinds
    <2> QED
      BY <1>8, <2>2, Frame DEF Signal, TypeOK
  <1>9. CASE Restart
    <2>1. EngineType'
      BY <1>9, BoundsAssumption, EmptySeq DEF Restart, Reboot, EngineType
    <2>2. WorkerType'
      <3>1. IdleWorker \in WorkerRec /\ IdleWorker.pc = "idle"
        BY RatesAssumption DEF IdleWorker, WorkerRec, WorkerPc
      <3> QED
        BY <1>9, <3>1 DEF Restart, Reboot, WorkerType
    <2>3. ClientType'
      <3>1. IdleClient \in ClientRec /\ IdleClient.pc = "idle"
        BY DEF IdleClient, ClientRec, ClientPc
      <3> QED
        BY <1>9, <3>1 DEF Restart, Reboot, ClientType
    <2>4. EnvType'
      <3>1. stopping' \in BOOLEAN
        BY <1>9, Zenon DEF Restart, Reboot
      <3> QED
        BY <1>9, <3>1, SpendType DEF Restart, TypeOK, EnvType, BudgetKinds
    <2> QED
      BY <1>9, <2>1, <2>2, <2>3, <2>4, Frame DEF Restart, TypeOK
  <1>10. CASE Tick
    <2>1. EnvType'
      BY <1>10, SpendType DEF Tick, TypeOK, EnvType, BudgetKinds
    <2> QED
      BY <1>10, <2>1, Frame DEF Tick, TypeOK
  <1>11. CASE UNCHANGED vars
    BY <1>11, Frame DEF vars, TypeOK
  <1> QED
    BY <1>1, <1>2, <1>3, <1>4, <1>5, <1>6, <1>7, <1>8, <1>9, <1>10, <1>11 DEF Next

\* The state keeps its shape, the channel never holds more than its capacity and
\* the hour counter of a pump stays within its saturation, in every behaviour.
THEOREM TypeCorrect == Spec => []TypeOK
  BY InitType, TypeStep, PTL DEF Spec

-----------------------------------------------------------------------------
\* What a step may do to the rows of the table.

RowsOnward ==
  \A j \in DOMAIN jobs : /\ j \in DOMAIN jobs'
                         /\ jobs'[j].order = jobs[j].order
                         /\ jobs'[j].status = "pending" => jobs[j].status = "pending"

LEMMA SetStatusOnward ==
  ASSUME TypeOK, NEW j \in DOMAIN jobs, NEW s \in Statuses \ {"pending"}, SetStatus(j, s)
  PROVE  RowsOnward
  BY DEF RowsOnward, TypeOK, TableType, JobRow, SetStatus

LEMMA RowStep == TypeOK /\ [Next]_vars => RowsOnward
  <1> SUFFICES ASSUME TypeOK, [Next]_vars PROVE RowsOnward
    OBVIOUS
  <1>1. CASE UNCHANGED jobs
    BY <1>1 DEF RowsOnward
  <1>2. CASE Scheduler
    BY <1>1, <1>2 DEF Scheduler, PollDue, Dispatch
  <1>3. ASSUME NEW w \in Workers, Worker(w) PROVE RowsOnward
    <2>1. CASE Claim(w) \/ Finish(w) \/ Fail(w)
      <3>1. wk[w].job \in DOMAIN jobs
        BY <2>1, OrderType DEF Claim, Finish, Fail, At
      <3> QED
        BY <2>1, <1>1, <3>1, SetStatusOnward DEF Claim, Finish, Fail, Statuses
    <2>2. CASE Take(w) \/ Quit(w)
      BY <1>1, <2>2 DEF Take, Quit
    <2>3. CASE \/ Load(w) \/ Source(w) \/ Target(w) \/ CheckRunning(w) \/ CheckReserved(w)
               \/ Meter(w)
      BY <1>1, <2>3 DEF Load, Source, Target, CheckRunning, CheckReserved, Meter
    <2>4. CASE Drain(w) \/ Fill(w) \/ Undo(w) \/ Bill(w)
      BY <1>1, <2>4 DEF Drain, Fill, Undo, Bill
    <2> QED
      BY <1>3, <2>1, <2>2, <2>3, <2>4 DEF Worker, Execute
  <1>4. ASSUME NEW c \in Clients, Request(c) PROVE RowsOnward
    <2>1. CASE ScheduleInsert(c)
      BY <2>1 DEF ScheduleInsert, RowsOnward
    <2>2. CASE CancelSave(c)
      <3>1. cl[c].job \in DOMAIN jobs
        BY <2>2 DEF CancelSave, TypeOK, ClientType
      <3> QED
        BY <2>2, <3>1, SetStatusOnward DEF CancelSave, Statuses
    <2>3. CASE \/ ScheduleSource(c) \/ ScheduleTarget(c) \/ ScheduleRunning(c)
               \/ ScheduleReserved(c) \/ CancelRead(c)
      BY <1>1, <2>3
      DEF ScheduleSource, ScheduleTarget, ScheduleRunning, ScheduleReserved, CancelRead, Step
    <2> QED
      BY <1>4, <2>1, <2>2, <2>3 DEF Request
  <1>5. CASE \/ \E p \in Ponds : ReportLevel(p)
             \/ \E p \in Pumps : ServicePump(p)
             \/ RainAlert \/ Signal \/ Restart \/ Tick
    BY <1>1, <1>5 DEF ReportLevel, ServicePump, RainAlert, Signal, Restart, Tick
  <1>6. CASE PauseNext
    <2>1. PICK j \in Earliest(rain) : SetStatus(j, "failed") \/ jobs' = jobs
      BY <1>6 DEF PauseNext
    <2>2. j \in DOMAIN jobs
      BY DEF Earliest, TypeOK, EngineType
    <2> QED
      BY <1>1, <2>1, <2>2, SetStatusOnward DEF Statuses
  <1> QED
    BY <1>1, <1>2, <1>3, <1>4, <1>5, <1>6 DEF Next, vars

\* The table forgets no job, an order never changes, and no interleaving of claims,
\* cancellations and rain pauses turns a job back into a pending one.
THEOREM PendingIsLeftForGood == Spec => NeverRequeued
  <1>1. TypeOK /\ [Next]_vars => [RowsOnward]_vars
    BY RowStep
  <1>2. [RowsOnward]_vars =>
          [\A j \in DOMAIN jobs : /\ j \in DOMAIN jobs'
                                  /\ jobs'[j].order = jobs[j].order
                                  /\ jobs'[j].status = "pending" => jobs[j].status = "pending"]_vars
    BY DEF RowsOnward
  <1> QED
    BY TypeCorrect, <1>1, <1>2, PTL DEF Spec, NeverRequeued

-----------------------------------------------------------------------------
\* The inductive invariant, part one: what each worker has done.

USE DEF Claimed, BeforeDrain, Midway, AfterFill

\* A step that touches neither a worker nor what it did.
LEMMA ProgressFrame ==
  ASSUME TypeOK, RowsOnward, NEW v \in Workers, ProgressInv(v),
         wk'[v] = wk[v], drained'[v] = drained[v], filled'[v] = filled[v]
  PROVE  ProgressInv(v)'
  <1>1. wk[v].pc \in Claimed => wk[v].job \in DOMAIN jobs
    BY DEF TypeOK, WorkerType
  <1>2. \A j \in DOMAIN jobs : j \in DOMAIN jobs'
                               /\ (jobs[j].status # "pending" => jobs'[j].status # "pending")
    BY DEF RowsOnward
  <1> QED
    BY <1>1, <1>2 DEF ProgressInv, Record

\* A step of one worker leaves the others' records alone.
LEMMA OneWorker ==
  ASSUME TypeOK, NEW w \in Workers, Worker(w), NEW v \in Workers, v # w
  PROVE  wk'[v] = wk[v] /\ drained'[v] = drained[v] /\ filled'[v] = filled[v]
  <1> USE DEF TypeOK, WorkerType, HistoryType, Become, Goto, Release, Charge
  <1>1. CASE Take(w) \/ Quit(w)
    BY <1>1 DEF Take, Quit
  <1>2. CASE Load(w) \/ Claim(w) \/ Finish(w) \/ Fail(w)
    BY <1>2 DEF Load, Claim, Finish, Fail
  <1>3. CASE Source(w) \/ Target(w) \/ Meter(w) \/ Bill(w)
    BY <1>3 DEF Source, Target, Meter, Bill
  <1>4. CASE CheckRunning(w) \/ CheckReserved(w)
    BY <1>4 DEF CheckRunning, CheckReserved
  <1>5. CASE Drain(w) \/ Fill(w) \/ Undo(w)
    BY <1>5 DEF Drain, Fill, Undo
  <1> QED
    BY <1>1, <1>2, <1>3, <1>4, <1>5 DEF Worker, Execute

\* A worker that keeps its job and what it did for it, at another point.
LEMMA ProgressGoto ==
  ASSUME TypeOK, RowsOnward, NEW w \in Workers, ProgressInv(w),
         wk[w].pc \notin {"idle", "exited"},
         wk'[w].job = wk[w].job, UNCHANGED history,
         wk'[w].pc \in Claimed => jobs'[wk[w].job].status # "pending",
         wk'[w].pc \in BeforeDrain => Record(w, wk[w].job, 0, 0),
         wk'[w].pc \in Midway => Record(w, wk[w].job, 1, 0),
         wk'[w].pc \in AfterFill => Record(w, wk[w].job, 1, 1)
  PROVE  ProgressInv(w)'
  <1>1. \A j \in DOMAIN jobs : j \in DOMAIN jobs'
                               /\ (jobs[j].status # "pending" => jobs'[j].status # "pending")
    BY DEF RowsOnward
  <1> QED
    BY <1>1 DEF ProgressInv, Record

\* A worker without a job.
LEMMA ProgressIdle ==
  ASSUME TypeOK, RowsOnward, NEW w \in Workers, ProgressInv(w), UNCHANGED history,
         wk'[w].pc \in {"idle", "exited", "load"}
  PROVE  ProgressInv(w)'
  <1>1. \A j \in DOMAIN jobs : j \in DOMAIN jobs'
                               /\ (jobs[j].status # "pending" => jobs'[j].status # "pending")
    BY DEF RowsOnward
  <1> QED
    BY <1>1 DEF ProgressInv, Record

\* The record of the worker after a step.
LEMMA BecomeAt ==
  ASSUME TypeOK, NEW w \in Workers, NEW r, Become(w, r)
  PROVE  wk'[w] = r
  BY DEF TypeOK, WorkerType, Become

LEMMA GotoAt ==
  ASSUME TypeOK, NEW w \in Workers, NEW pc, Goto(w, pc)
  PROVE  wk'[w].pc = pc /\ wk'[w].job = wk[w].job /\ wk'[w].from = wk[w].from
         /\ wk'[w].to = wk[w].to
  <1>1. wk[w] \in WorkerRec
    BY DEF TypeOK, WorkerType
  <1> QED
    BY <1>1, BecomeAt DEF Goto, WorkerRec

LEMMA ReleaseAt ==
  ASSUME TypeOK, NEW w \in Workers, Release(w)
  PROVE  wk'[w].pc = "idle"
  BY BecomeAt DEF Release, IdleWorker

LEMMA ReadAt ==
  ASSUME TypeOK, NEW w \in Workers, NEW pc, NEW x,
         \/ Become(w, [wk[w] EXCEPT !.pc = pc, !.from = x])
         \/ Become(w, [wk[w] EXCEPT !.pc = pc, !.to = x])
         \/ Become(w, [wk[w] EXCEPT !.pc = pc, !.meter = x])
         \/ Become(w, [wk[w] EXCEPT !.pc = pc, !.fee = x])
  PROVE  wk'[w].pc = pc /\ wk'[w].job = wk[w].job
  <1>1. wk[w] \in WorkerRec
    BY DEF TypeOK, WorkerType
  <1> QED
    BY <1>1, BecomeAt DEF WorkerRec

\* Where the steps of the billing lead.
LEMMA CheckRunningAt ==
  ASSUME TypeOK, NEW w \in Workers, CheckRunning(w)
  PROVE  wk[w].pc = "running" /\ wk'[w].pc \in {"reserved", "meter"} /\ wk'[w].job = wk[w].job
  <1>1. CASE Goto(w, "reserved")
    BY <1>1, GotoAt DEF CheckRunning, At
  <1>2. CASE Charge(w, DefaultRate, "meter")
    BY <1>2, ReadAt DEF CheckRunning, At, Charge
  <1> QED
    BY <1>1, <1>2 DEF CheckRunning

LEMMA CheckReservedAt ==
  ASSUME TypeOK, NEW w \in Workers, CheckReserved(w)
  PROVE  wk[w].pc = "reserved" /\ wk'[w].pc = "meter" /\ wk'[w].job = wk[w].job
  <1>1. ASSUME NEW rate, Charge(w, rate, "meter")
        PROVE  wk'[w].pc = "meter" /\ wk'[w].job = wk[w].job
    BY <1>1, ReadAt DEF Charge
  <1> QED
    BY <1>1 DEF CheckReserved, At

LEMMA MeterAt ==
  ASSUME TypeOK, NEW w \in Workers, Meter(w)
  PROVE  wk[w].pc = "meter" /\ wk'[w].pc \in {"bill", "fail"} /\ wk'[w].job = wk[w].job
  <1>1. CASE Goto(w, "fail")
    BY <1>1, GotoAt DEF Meter, At
  <1>2. CASE Become(w, [wk[w] EXCEPT !.pc = "bill", !.meter = hours[Order(w).pump]])
    BY <1>2, ReadAt DEF Meter, At
  <1> QED
    BY <1>1, <1>2 DEF Meter

\* Where the readings of the levels lead.
LEMMA SourceAt ==
  ASSUME TypeOK, NEW w \in Workers, Source(w)
  PROVE  wk[w].pc = "source" /\ wk'[w].pc \in {"target", "fail"} /\ wk'[w].job = wk[w].job
  BY GotoAt, ReadAt DEF Source, At

LEMMA TargetAt ==
  ASSUME TypeOK, NEW w \in Workers, Target(w)
  PROVE  wk[w].pc = "target" /\ wk'[w].pc \in {"drain", "fail"} /\ wk'[w].job = wk[w].job
  BY GotoAt, ReadAt DEF Target, At

LEMMA ProgressWorker ==
  ASSUME TypeOK, RowsOnward, NEW w \in Workers, ProgressInv(w), Worker(w)
  PROVE  ProgressInv(w)'
  <1> DEFINE j == wk[w].job
  <1>1. CASE Take(w)
    <2>1. wk'[w].pc = "load"
      BY <1>1, BecomeAt DEF Take, IdleWorker
    <2> QED
      BY <1>1, <2>1, ProgressIdle DEF Take
  <1>2. CASE Quit(w)
    BY <1>2, GotoAt, ProgressIdle DEF Quit
  <1>3. CASE Load(w)
    <2>1. CASE Release(w)
      BY <1>3, <2>1, ReleaseAt, ProgressIdle DEF Load
    <2>2. CASE jobs[j].status = "pending" /\ Goto(w, "claim")
      <3>1. wk[w].pc = "load" /\ j \in JobIds
        BY <1>3, OrderType DEF Load, At
      <3>2. Record(w, j, 0, 0)
        BY <2>2, <3>1 DEF ProgressInv
      <3> QED
        BY <1>3, <2>2, <3>1, <3>2, GotoAt, ProgressGoto DEF Load
    <2> QED
      BY <1>3, <2>1, <2>2 DEF Load
  <1>4. CASE Claim(w)
    <2>1. CASE Release(w)
      BY <1>4, <2>1, ReleaseAt, ProgressIdle DEF Claim
    <2>2. CASE SetStatus(j, "running") /\ Goto(w, "source")
      <3>1. wk[w].pc = "claim" /\ j \in DOMAIN jobs
        BY <1>4, OrderType DEF Claim, At
      <3>2. jobs'[j].status # "pending"
        BY <2>2, <3>1 DEF SetStatus, TypeOK, TableType, JobRow
      <3>3. Record(w, j, 0, 0)
        BY <3>1 DEF ProgressInv
      <3> QED
        BY <1>4, <2>2, <3>1, <3>2, <3>3, GotoAt, ProgressGoto DEF Claim
    <2> QED
      BY <1>4, <2>1, <2>2 DEF Claim
  <1>5. ASSUME wk[w].pc \in Claimed, wk'[w].job = j, UNCHANGED history,
               \/ wk'[w].pc = "fail"
               \/ wk[w].pc \in BeforeDrain /\ wk'[w].pc \in BeforeDrain \ {"claim"}
               \/ wk[w].pc \in Midway /\ wk'[w].pc \in Midway
               \/ wk[w].pc \in AfterFill /\ wk'[w].pc \in AfterFill
        PROVE  ProgressInv(w)'
    <2>1. j \in DOMAIN jobs /\ jobs[j].status # "pending"
      BY <1>5, OrderType DEF ProgressInv
    <2>2. jobs'[j].status # "pending"
      BY <2>1 DEF RowsOnward
    <2> QED
      BY <1>5, <2>2, ProgressGoto DEF ProgressInv
  <1>6. CASE Source(w)
    BY <1>5, <1>6, SourceAt DEF Source
  <1>7. CASE Target(w)
    BY <1>5, <1>7, TargetAt DEF Target
  <1>8. CASE CheckRunning(w)
    BY <1>5, <1>8, CheckRunningAt DEF CheckRunning
  <1>9. CASE CheckReserved(w)
    BY <1>5, <1>9, CheckReservedAt DEF CheckReserved
  <1>10. CASE Meter(w)
    BY <1>5, <1>10, MeterAt DEF Meter
  <1>11. CASE Bill(w)
    BY <1>5, <1>11, GotoAt DEF Bill, At
  <1>12. CASE Finish(w) \/ Fail(w)
    BY <1>12, ReleaseAt, ProgressIdle DEF Finish, Fail
  <1>13. CASE Drain(w) \/ Fill(w) \/ Undo(w)
    <2>1. j \in DOMAIN jobs /\ j \in JobIds /\ jobs[j].status # "pending"
      BY <1>13, OrderType DEF ProgressInv, Drain, Fill, Undo, At
    <2>2. j \in DOMAIN jobs' /\ jobs'[j].status # "pending"
      BY <2>1 DEF RowsOnward
    <2>3. wk'[w].job = j
      BY <1>13, GotoAt DEF Drain, Fill, Undo
    <2>4. CASE UNCHANGED history /\ (Goto(w, "fail") \/ (At(w, "fill") /\ Goto(w, "undo")))
      <3>1. wk[w].pc \in Claimed /\ (wk'[w].pc = "fail" \/ (At(w, "fill") /\ wk'[w].pc = "undo"))
        BY <1>13, <2>4, GotoAt DEF Drain, Fill, Undo, At
      <3> QED
        BY <1>5, <2>3, <2>4, <3>1 DEF At
    <2>5. CASE \/ /\ At(w, "drain") /\ Goto(w, "fill")
                  /\ drained' = [drained EXCEPT ![w][j] = @ + 1] /\ filled' = filled
               \/ /\ At(w, "fill") /\ Goto(w, "running")
                  /\ filled' = [filled EXCEPT ![w][j] = @ + 1] /\ drained' = drained
               \/ /\ At(w, "undo") /\ Goto(w, "fail")
                  /\ drained' = [drained EXCEPT ![w][j] = @ - 1] /\ filled' = filled
      <3>1. \/ /\ wk[w].pc = "drain" /\ wk'[w].pc = "fill"
               /\ drained'[w] = [drained[w] EXCEPT ![j] = @ + 1] /\ filled'[w] = filled[w]
            \/ /\ wk[w].pc = "fill" /\ wk'[w].pc = "running"
               /\ filled'[w] = [filled[w] EXCEPT ![j] = @ + 1] /\ drained'[w] = drained[w]
            \/ /\ wk[w].pc = "undo" /\ wk'[w].pc = "fail"
               /\ drained'[w] = [drained[w] EXCEPT ![j] = @ - 1] /\ filled'[w] = filled[w]
        BY <2>5, GotoAt DEF At, TypeOK, HistoryType
      <3>2. drained[w] \in [JobIds -> Int] /\ filled[w] \in [JobIds -> Int]
        BY DEF TypeOK, HistoryType
      <3>3. \A k \in JobIds : k # j => drained'[w][k] = drained[w][k] /\ filled'[w][k] = filled[w][k]
        BY <3>1, <3>2
      <3>4. /\ drained'[w][j] \in 0..1 /\ filled'[w][j] \in 0..1
            /\ wk'[w].pc = "fill" => Record(w, j, 1, 0)'
            /\ wk'[w].pc = "running" => Record(w, j, 1, 1)'
        BY <2>1, <3>1, <3>2, <2>3 DEF ProgressInv, Record
      <3>5. \A k \in DOMAIN jobs : k \in DOMAIN jobs'
                                   /\ (jobs[k].status # "pending" => jobs'[k].status # "pending")
        BY DEF RowsOnward
      <3>6. wk'[w].pc \in {"fill", "running", "fail"}
        BY <3>1
      <3>7. \A k \in JobIds :
              /\ drained'[w][k] \in 0..1 /\ filled'[w][k] \in 0..1
              /\ ~Record(w, k, 0, 0)' => k \in DOMAIN jobs' /\ jobs'[k].status # "pending"
        BY <2>2, <3>3, <3>4, <3>5 DEF ProgressInv, Record
      <3> QED
        BY <2>2, <2>3, <3>4, <3>6, <3>7 DEF ProgressInv, Record
    <2>6. CASE Drain(w)
      BY <2>4, <2>5, <2>6 DEF Drain
    <2>7. CASE Fill(w)
      BY <2>4, <2>5, <2>7 DEF Fill
    <2>8. CASE Undo(w)
      BY <2>4, <2>5, <2>8 DEF Undo
    <2> QED
      BY <1>13, <2>6, <2>7, <2>8
  <1> QED
    BY <1>1, <1>2, <1>3, <1>4, <1>6, <1>7, <1>8, <1>9, <1>10, <1>11, <1>12, <1>13
    DEF Worker, Execute

LEMMA InitProgress == Init => \A w \in Workers : ProgressInv(w)
  BY DEF Init, ProgressInv, Record, IdleWorker

\* What is not a worker's step and not a restart leaves the workers alone.
LEMMA OthersStep ==
  ASSUME \/ Scheduler \/ (\E c \in Clients : Request(c))
         \/ (\E p \in Ponds : ReportLevel(p)) \/ (\E p \in Pumps : ServicePump(p))
         \/ RainAlert \/ PauseNext \/ Signal \/ Tick \/ UNCHANGED vars
  PROVE  UNCHANGED <<wk, history>>
  <1>1. ASSUME NEW c \in Clients, Request(c) PROVE UNCHANGED <<wk, history>>
    BY <1>1 DEF Request, ScheduleSource, ScheduleTarget, ScheduleRunning, ScheduleReserved,
                ScheduleInsert, CancelRead, CancelSave, Step
  <1>2. CASE Scheduler
    BY <1>2 DEF Scheduler, PollDue, Dispatch
  <1>3. CASE (\E p \in Ponds : ReportLevel(p)) \/ (\E p \in Pumps : ServicePump(p))
    BY <1>3 DEF ReportLevel, ServicePump
  <1>4. CASE RainAlert \/ PauseNext \/ Signal \/ Tick \/ UNCHANGED vars
    BY <1>4 DEF RainAlert, PauseNext, Signal, Tick, vars
  <1> QED
    BY <1>1, <1>2, <1>3, <1>4

LEMMA RestartStep ==
  ASSUME Restart
  PROVE  /\ UNCHANGED <<store, history>>
         /\ \A w \in Workers : wk'[w] = IdleWorker
  BY DEF Restart, Reboot

LEMMA ProgressStep ==
  ASSUME TypeOK, [Next]_vars, \A w \in Workers : ProgressInv(w)
  PROVE  (\A w \in Workers : ProgressInv(w))'
  <1>1. RowsOnward
    BY RowStep
  <1> SUFFICES ASSUME NEW v \in Workers PROVE ProgressInv(v)'
    OBVIOUS
  <1>2. ASSUME NEW w \in Workers, Worker(w) PROVE ProgressInv(v)'
    BY <1>1, <1>2, ProgressWorker, OneWorker, ProgressFrame
  <1>3. CASE Restart
    BY <1>1, <1>3, RestartStep, ProgressIdle DEF IdleWorker
  <1>4. CASE UNCHANGED <<wk, history>>
    BY <1>1, <1>4, ProgressFrame
  <1> QED
    BY <1>2, <1>3, <1>4, OthersStep DEF Next

\* However often a job is sent again, whatever is cancelled, paused or restarted in
\* between, no worker lowers the source of a job twice.
THEOREM WorkerMovesOnce == Spec => []AtMostOncePerWorker
  <1> DEFINE PInv == \A w \in Workers : ProgressInv(w)
  <1>1. Init => PInv
    BY InitProgress
  <1>2. TypeOK /\ PInv /\ [Next]_vars => PInv'
    BY ProgressStep
  <1>3. PInv => AtMostOncePerWorker
    BY DEF ProgressInv, AtMostOncePerWorker
  <1> HIDE DEF PInv
  <1> QED
    BY <1>1, <1>2, <1>3, TypeCorrect, PTL DEF Spec

-----------------------------------------------------------------------------
\* A job that is done has been moved.

\* Only Finish makes a job done.
DoneBy(j) ==
  \/ j \in InStatus("done")
  \/ \E w \in Workers : wk[w].pc = "finish" /\ wk[w].job = j /\ UNCHANGED history

LEMMA OtherStatus ==
  ASSUME TypeOK, NEW k \in DOMAIN jobs, NEW s \in Statuses \ {"done"},
         SetStatus(k, s) \/ jobs' = jobs, NEW j \in InStatus("done")'
  PROVE  j \in InStatus("done")
  BY DEF SetStatus, InStatus, TypeOK, TableType, JobRow

LEMMA DoneStep ==
  ASSUME TypeOK, [Next]_vars, NEW j \in InStatus("done")'
  PROVE  DoneBy(j)
  <1>1. CASE UNCHANGED jobs
    BY <1>1 DEF DoneBy, InStatus
  <1>2. CASE Scheduler
    BY <1>1, <1>2 DEF Scheduler, PollDue, Dispatch
  <1>3. ASSUME NEW w \in Workers, Worker(w) PROVE DoneBy(j)
    <2>1. CASE Claim(w) \/ Fail(w)
      <3>1. wk[w].job \in DOMAIN jobs
        BY <2>1, OrderType DEF Claim, Fail, At
      <3> QED
        BY <2>1, <3>1, OtherStatus DEF Claim, Fail, Statuses, DoneBy
    <2>2. CASE Finish(w)
      <3>1. wk[w].job \in DOMAIN jobs
        BY <2>2, OrderType DEF Finish, At
      <3>2. CASE SetStatus(wk[w].job, "done")
        <4>1. j \in DOMAIN jobs /\ (j = wk[w].job \/ j \in InStatus("done"))
          BY <3>1, <3>2 DEF SetStatus, InStatus, TypeOK, TableType, JobRow
        <4> QED
          BY <2>2, <4>1 DEF Finish, At, DoneBy
      <3> QED
        BY <1>1, <2>2, <3>2 DEF Finish
    <2>3. CASE Take(w) \/ Quit(w)
      BY <1>1, <2>3 DEF Take, Quit
    <2>4. CASE \/ Load(w) \/ Source(w) \/ Target(w) \/ CheckRunning(w) \/ CheckReserved(w)
               \/ Meter(w)
      BY <1>1, <2>4 DEF Load, Source, Target, CheckRunning, CheckReserved, Meter
    <2>5. CASE Drain(w) \/ Fill(w) \/ Undo(w) \/ Bill(w)
      BY <1>1, <2>5 DEF Drain, Fill, Undo, Bill
    <2> QED
      BY <1>3, <2>1, <2>2, <2>3, <2>4, <2>5 DEF Worker, Execute
  <1>4. ASSUME NEW c \in Clients, Request(c) PROVE DoneBy(j)
    <2>1. CASE ScheduleInsert(c)
      BY <2>1 DEF ScheduleInsert, InStatus, DoneBy
    <2>2. CASE CancelSave(c)
      <3>1. cl[c].job \in DOMAIN jobs
        BY <2>2 DEF CancelSave, TypeOK, ClientType
      <3> QED
        BY <2>2, <3>1, OtherStatus DEF CancelSave, Statuses, DoneBy
    <2>3. CASE \/ ScheduleSource(c) \/ ScheduleTarget(c) \/ ScheduleRunning(c)
               \/ ScheduleReserved(c) \/ CancelRead(c)
      BY <1>1, <2>3
      DEF ScheduleSource, ScheduleTarget, ScheduleRunning, ScheduleReserved, CancelRead, Step
    <2> QED
      BY <1>4, <2>1, <2>2, <2>3 DEF Request
  <1>5. CASE \/ \E p \in Ponds : ReportLevel(p)
             \/ \E p \in Pumps : ServicePump(p)
             \/ RainAlert \/ Signal \/ Restart \/ Tick
    BY <1>1, <1>5 DEF ReportLevel, ServicePump, RainAlert, Signal, Restart, Tick
  <1>6. CASE PauseNext
    <2>1. PICK k \in Earliest(rain) : SetStatus(k, "failed") \/ jobs' = jobs
      BY <1>6 DEF PauseNext
    <2>2. k \in DOMAIN jobs
      BY DEF Earliest, TypeOK, EngineType
    <2> QED
      BY <2>1, <2>2, OtherStatus DEF Statuses, DoneBy
  <1> QED
    BY <1>1, <1>2, <1>3, <1>4, <1>5, <1>6 DEF Next, vars

\* A completed move is never undone.
LEMMA MoveKept ==
  ASSUME TypeOK, [Next]_vars, NEW v \in Workers, ProgressInv(v), NEW j \in JobIds,
         drained[v][j] > 0, filled[v][j] > 0
  PROVE  drained'[v][j] > 0 /\ filled'[v][j] > 0
  <1>1. CASE UNCHANGED history
    BY <1>1
  <1>2. ASSUME NEW w \in Workers, Worker(w) PROVE drained'[v][j] > 0 /\ filled'[v][j] > 0
    <2>1. CASE v # w
      BY <1>2, <2>1, OneWorker
    <2>2. CASE v = w
      <3>1. CASE Take(w) \/ Quit(w)
        BY <1>1, <3>1 DEF Take, Quit
      <3>2. CASE \/ Load(w) \/ Claim(w) \/ Source(w) \/ Target(w) \/ CheckRunning(w)
                 \/ CheckReserved(w) \/ Meter(w) \/ Bill(w) \/ Finish(w) \/ Fail(w)
        BY <1>1, <3>2
        DEF Load, Claim, Source, Target, CheckRunning, CheckReserved, Meter, Bill, Finish, Fail
      <3>3. CASE Drain(w) \/ Fill(w) \/ Undo(w)
        <4>1. wk[w].job # j
          BY <2>2, <3>3 DEF Drain, Fill, Undo, At, ProgressInv, Record
        <4>2. drained'[v][j] = drained[v][j] /\ filled'[v][j] = filled[v][j]
          BY <2>2, <3>3, <4>1 DEF Drain, Fill, Undo, TypeOK, HistoryType
        <4> QED
          BY <4>2
      <3> QED
        BY <1>2, <3>1, <3>2, <3>3 DEF Worker, Execute
    <2> QED
      BY <2>1, <2>2
  <1>3. CASE Restart
    BY <1>1, <1>3, RestartStep
  <1> QED
    BY <1>1, <1>2, <1>3, OthersStep DEF Next

LEMMA DoneHasMovedStep ==
  ASSUME TypeOK, [Next]_vars, \A w \in Workers : ProgressInv(w), DoneHasMoved
  PROVE  DoneHasMoved'
  <1> SUFFICES ASSUME NEW j \in InStatus("done")'
               PROVE  \E w \in Workers : drained'[w][j] > 0 /\ filled'[w][j] > 0
    BY DEF DoneHasMoved
  <1>1. CASE j \in InStatus("done")
    <2>1. j \in JobIds
      BY <1>1 DEF InStatus, TypeOK, TableType
    <2>2. PICK w \in Workers : drained[w][j] > 0 /\ filled[w][j] > 0
      BY <1>1 DEF DoneHasMoved
    <2> QED
      BY <2>1, <2>2, MoveKept
  <1>2. ASSUME NEW w \in Workers, wk[w].pc = "finish", wk[w].job = j, UNCHANGED history
        PROVE  drained'[w][j] > 0 /\ filled'[w][j] > 0
    BY <1>2 DEF ProgressInv, Record
  <1> QED
    BY <1>1, <1>2, DoneStep DEF DoneBy

\* A job recorded as done has really been moved, though its row can be overwritten
\* by cancellations, rain pauses and other workers at any point on the way.
THEOREM DoneIsMoved == Spec => []DoneHasMoved
  <1> DEFINE PInv == (\A w \in Workers : ProgressInv(w)) /\ DoneHasMoved
  <1>1. Init => PInv
    BY InitProgress DEF Init, DoneHasMoved, InStatus
  <1>2. TypeOK /\ PInv /\ [Next]_vars => PInv'
    BY ProgressStep, DoneHasMovedStep
  <1>3. PInv => DoneHasMoved
    OBVIOUS
  <1> HIDE DEF PInv
  <1> QED
    BY <1>1, <1>2, <1>3, TypeCorrect, PTL DEF Spec

-----------------------------------------------------------------------------
\* No pond falls below the floor, and neither does a level a worker holds.

FloorInv == FloorKept /\ \A w \in Workers : LevelInv(w)

LEMMA InitFloor == Init => FloorInv
  <1> SUFFICES ASSUME Init PROVE FloorInv
    OBVIOUS
  <1>1. ASSUME NEW p \in Ponds PROVE AboveFloor(p, content[p])
    <2>1. InitContent[p] \in Nat /\ content = InitContent
      BY LevelsAssumption DEF Init
    <2> QED
      BY <2>1 DEF AboveFloor
  <1>2. ASSUME NEW w \in Workers PROVE LevelInv(w)
    <2>1. wk[w].pc = "idle"
      BY DEF Init, IdleWorker
    <2> QED
      BY <2>1 DEF LevelInv
  <1> QED
    BY <1>1, <1>2 DEF FloorInv, FloorKept

\* Orders do not change under a worker.
LEMMA OrderKept ==
  ASSUME TypeOK, RowsOnward, NEW w \in Workers, wk[w].pc \notin {"idle", "exited"},
         wk'[w].job = wk[w].job
  PROVE  Order(w)' = Order(w)
  BY OrderType DEF RowsOnward, Order

LEMMA FloorStep ==
  ASSUME TypeOK, [Next]_vars, FloorInv
  PROVE  FloorKept'
  <1> SUFFICES ASSUME NEW p \in Ponds PROVE AboveFloor(p, content'[p])
    BY DEF FloorKept, AboveFloor
  <1>1. AboveFloor(p, content[p]) /\ content[p] \in Int /\ Keep[p] \in Nat
    BY LevelsAssumption DEF FloorInv, FloorKept, TypeOK, LevelType
  <1>2. CASE content' = content
    BY <1>1, <1>2
  <1>3. ASSUME NEW w \in Workers, Drain(w) \/ Fill(w) \/ Undo(w)
        PROVE  AboveFloor(p, content'[p])
    <2>1. /\ Order(w) \in Orders /\ Order(w).vol \in Nat \ {0}
          /\ Order(w).from \in Ponds /\ Order(w).to \in Ponds
          /\ wk[w].from \in Int /\ wk[w].to \in Int
      BY <1>3, OrderType DEF Drain, Fill, Undo, At, TypeOK, WorkerType, WorkerRec
    <2>2. LevelInv(w)
      BY DEF FloorInv
    <2>3. CASE Drain(w)
      <3>1. wk[w].from - Order(w).vol >= Keep[Order(w).from]
        <4>1. Keep[Order(w).from] \in Nat
          BY <2>1, LevelsAssumption
        <4> QED
          BY <2>1, <2>2, <2>3, <4>1 DEF Drain, At, LevelInv
      <3>2. \/ content' = content
            \/ content' = [content EXCEPT ![Order(w).from] = wk[w].from - Order(w).vol]
        BY <2>3 DEF Drain
      <3> QED
        BY <1>1, <3>1, <3>2 DEF AboveFloor, TypeOK, LevelType
    <2>4. CASE Fill(w)
      <3>1. AboveFloor(Order(w).to, wk[w].to + Order(w).vol)
        <4>1. PICK v \in {Keep[Order(w).to], InitContent[Order(w).to]} \cup Levels : wk[w].to >= v
          BY <2>2, <2>4 DEF Fill, At, LevelInv, AboveFloor
        <4>2. v \in Nat
          BY <2>1, LevelsAssumption
        <4>3. wk[w].to + Order(w).vol >= v
          BY <2>1, <4>1, <4>2
        <4> QED
          BY <4>3 DEF AboveFloor
      <3>2. \/ content' = content
            \/ content' = [content EXCEPT ![Order(w).to] = wk[w].to + Order(w).vol]
        BY <2>4 DEF Fill
      <3> QED
        BY <1>1, <3>1, <3>2 DEF TypeOK, LevelType
    <2>5. CASE Undo(w)
      <3>1. AboveFloor(Order(w).from, wk[w].from)
        BY <2>2, <2>5 DEF Undo, At, LevelInv, Midway
      <3>2. content' = content \/ content' = [content EXCEPT ![Order(w).from] = wk[w].from]
        BY <2>5 DEF Undo
      <3> QED
        BY <1>1, <3>1, <3>2 DEF TypeOK, LevelType
    <2> QED
      BY <1>3, <2>3, <2>4, <2>5
  <1>4. ASSUME NEW q \in Ponds, ReportLevel(q) PROVE AboveFloor(p, content'[p])
    <2>1. PICK v \in Levels : content' = [content EXCEPT ![q] = v]
      BY <1>4 DEF ReportLevel
    <2>2. v >= v
      BY LevelsAssumption
    <2> QED
      BY <1>1, <2>1, <2>2 DEF AboveFloor, TypeOK, LevelType
  <1>5. ASSUME NEW w \in Workers, Worker(w) PROVE AboveFloor(p, content'[p])
    <2>1. CASE Take(w) \/ Quit(w)
      BY <1>2, <2>1 DEF Take, Quit
    <2>2. CASE \/ Load(w) \/ Claim(w) \/ Source(w) \/ Target(w) \/ CheckRunning(w)
               \/ CheckReserved(w) \/ Meter(w) \/ Bill(w) \/ Finish(w) \/ Fail(w)
      BY <1>2, <2>2
      DEF Load, Claim, Source, Target, CheckRunning, CheckReserved, Meter, Bill, Finish, Fail
    <2> QED
      BY <1>3, <1>5, <2>1, <2>2 DEF Worker, Execute
  <1>6. CASE \E c \in Clients : Request(c)
    BY <1>2, <1>6 DEF Request, ScheduleSource, ScheduleTarget, ScheduleRunning,
                      ScheduleReserved, ScheduleInsert, CancelRead, CancelSave, Step
  <1>7. CASE Scheduler \/ (\E q \in Pumps : ServicePump(q)) \/ RainAlert \/ PauseNext
    BY <1>2, <1>7 DEF Scheduler, PollDue, Dispatch, ServicePump, RainAlert, PauseNext
  <1>8. CASE Signal \/ Restart \/ Tick \/ UNCHANGED vars
    BY <1>2, <1>8 DEF Signal, Restart, Tick, vars
  <1> QED
    BY <1>4, <1>5, <1>6, <1>7, <1>8 DEF Next

\* A worker that holds the same levels for the same job, or none.
LEMMA LevelFrame ==
  ASSUME TypeOK, RowsOnward, NEW v \in Workers, LevelInv(v),
         \/ wk'[v] = wk[v]
         \/ wk'[v].pc \notin {"target", "drain", "fill", "undo"}
         \/ /\ wk[v].pc = "drain" /\ wk'[v].pc \in Midway
            /\ wk'[v].job = wk[v].job /\ wk'[v].from = wk[v].from /\ wk'[v].to = wk[v].to
         \/ /\ wk[v].pc \in Midway /\ wk'[v].pc = "undo"
            /\ wk'[v].job = wk[v].job /\ wk'[v].from = wk[v].from
  PROVE  LevelInv(v)'
  <1>1. CASE wk'[v].pc \notin {"target", "drain", "fill", "undo"}
    BY <1>1 DEF LevelInv
  <1>2. CASE wk'[v].pc \in {"target", "drain", "fill", "undo"}
    <2>1. Order(v)' = Order(v)
      BY <1>2, OrderKept
    <2> QED
      BY <1>2, <2>1 DEF LevelInv, AboveFloor
  <1> QED
    BY <1>1, <1>2

LEMMA LevelWorker ==
  ASSUME TypeOK, RowsOnward, FloorKept, NEW w \in Workers, LevelInv(w), Worker(w)
  PROVE  LevelInv(w)'
  <1>1. CASE Take(w) \/ Quit(w)
    BY <1>1, BecomeAt, GotoAt, LevelFrame DEF Take, Quit, IdleWorker
  <1>2. CASE Load(w) \/ Claim(w)
    BY <1>2, GotoAt, ReleaseAt, LevelFrame DEF Load, Claim
  <1>3. CASE Source(w)
    <2>1. CASE Goto(w, "fail")
      BY <2>1, GotoAt, LevelFrame
    <2>2. CASE Become(w, [wk[w] EXCEPT !.pc = "target", !.from = content[Order(w).from]])
      <3>1. /\ wk'[w].pc = "target" /\ wk'[w].job = wk[w].job
            /\ wk'[w].from = content[Order(w).from]
        BY <2>2, BecomeAt DEF TypeOK, WorkerType, WorkerRec
      <3>2. Order(w)' = Order(w) /\ Order(w).from \in Ponds
        BY <1>3, <3>1, OrderKept, OrderType DEF Source, At
      <3> QED
        BY <3>1, <3>2 DEF LevelInv, FloorKept, AboveFloor
    <2> QED
      BY <1>3, <2>1, <2>2 DEF Source
  <1>4. CASE Target(w)
    <2>1. CASE Goto(w, "fail")
      BY <2>1, GotoAt, LevelFrame
    <2>2. CASE /\ wk[w].from >= Order(w).vol + Keep[Order(w).from]
               /\ Become(w, [wk[w] EXCEPT !.pc = "drain", !.to = content[Order(w).to]])
      <3>1. /\ wk'[w].pc = "drain" /\ wk'[w].job = wk[w].job
            /\ wk'[w].from = wk[w].from /\ wk'[w].to = content[Order(w).to]
        BY <2>2, BecomeAt DEF TypeOK, WorkerType, WorkerRec
      <3>2. Order(w)' = Order(w) /\ Order(w).to \in Ponds
        BY <1>4, <3>1, OrderKept, OrderType DEF Target, At
      <3>3. AboveFloor(Order(w).from, wk[w].from)
        BY <1>4 DEF Target, At, LevelInv
      <3> QED
        BY <2>2, <3>1, <3>2, <3>3 DEF LevelInv, FloorKept, AboveFloor
    <2>3. wk[w].from < Order(w).vol + Keep[Order(w).from]
          \/ wk[w].from >= Order(w).vol + Keep[Order(w).from]
      <3>1. /\ wk[w].from \in Int /\ Order(w).vol \in Nat /\ Keep[Order(w).from] \in Nat
        BY <1>4, OrderType, LevelsAssumption DEF Target, At, TypeOK, WorkerType, WorkerRec
      <3> QED
        BY <3>1
    <2> QED
      BY <1>4, <2>1, <2>2, <2>3 DEF Target
  <1>5. CASE Drain(w) \/ Fill(w) \/ Undo(w)
    BY <1>5, GotoAt, LevelFrame DEF Drain, Fill, Undo, At
  <1>6. CASE CheckRunning(w) \/ CheckReserved(w) \/ Meter(w)
    <2>1. CASE CheckRunning(w)
      BY <2>1, CheckRunningAt, LevelFrame
    <2>2. CASE CheckReserved(w)
      BY <2>2, CheckReservedAt, LevelFrame
    <2>3. CASE Meter(w)
      BY <2>3, MeterAt, LevelFrame
    <2> QED
      BY <1>6, <2>1, <2>2, <2>3
  <1>7. CASE Bill(w) \/ Finish(w) \/ Fail(w)
    BY <1>7, GotoAt, ReleaseAt, LevelFrame DEF Bill, Finish, Fail
  <1> QED
    BY <1>1, <1>2, <1>3, <1>4, <1>5, <1>6, <1>7 DEF Worker, Execute

LEMMA FloorInvStep == TypeOK /\ FloorInv /\ [Next]_vars => FloorInv'
  <1> SUFFICES ASSUME TypeOK, FloorInv, [Next]_vars PROVE FloorInv'
    OBVIOUS
  <1>1. RowsOnward /\ FloorKept'
    BY RowStep, FloorStep
  <1>2. ASSUME NEW v \in Workers PROVE LevelInv(v)'
    <2>1. LevelInv(v) /\ FloorKept
      BY DEF FloorInv
    <2>2. ASSUME NEW w \in Workers, Worker(w) PROVE LevelInv(v)'
      BY <1>1, <2>1, <2>2, LevelWorker, OneWorker, LevelFrame
    <2>3. CASE Restart
      BY <1>1, <2>1, <2>3, RestartStep, LevelFrame DEF IdleWorker
    <2>4. CASE UNCHANGED <<wk, history>>
      BY <1>1, <2>1, <2>4, LevelFrame
    <2> QED
      BY <2>2, <2>3, <2>4, OthersStep DEF Next
  <1> QED
    BY <1>1, <1>2 DEF FloorInv

\* Two workers may lower one pond from the same reading and a compensation may
\* write back a stale level, yet no pond ends up below the floor.
THEOREM FloorIsKept == Spec => []FloorKept
  <1>1. FloorInv => FloorKept
    BY DEF FloorInv
  <1> QED
    BY <1>1, InitFloor, FloorInvStep, TypeCorrect, PTL DEF Spec

-----------------------------------------------------------------------------
\* A running job has a worker, or something failed.

LEMMA InitOwner == Init => OwnerInv
  BY BoundsAssumption DEF Init, OwnerInv, InStatus

\* The environment only ever spends.
LEMMA BudgetStep ==
  ASSUME TypeOK, [Next]_vars, \A k \in BudgetKinds : left[k] <= Budget[k]
  PROVE  /\ \A k \in BudgetKinds : left'[k] <= left[k] /\ left'[k] <= Budget[k]
         /\ Failed => Failed'
  <1>1. UNCHANGED left \/ \E k \in BudgetKinds : Spend(k)
    <2>1. ASSUME NEW w \in Workers, Worker(w) PROVE UNCHANGED left \/ Spend("fault")
      <3>1. CASE Take(w) \/ Quit(w)
        BY <3>1 DEF Take, Quit
      <3>2. CASE \/ Load(w) \/ Claim(w) \/ Source(w) \/ Target(w) \/ CheckRunning(w)
                 \/ CheckReserved(w) \/ Meter(w) \/ Bill(w) \/ Finish(w) \/ Fail(w)
        BY <3>2 DEF Load, Claim, Source, Target, CheckRunning, CheckReserved, Meter, Bill,
                    Finish, Fail, Fails, Succeeds
      <3>3. CASE Drain(w) \/ Fill(w) \/ Undo(w)
        BY <3>3 DEF Drain, Fill, Undo, Fails, Succeeds
      <3> QED
        BY <2>1, <3>1, <3>2, <3>3 DEF Worker, Execute
    <2>2. ASSUME NEW c \in Clients, Request(c)
          PROVE  UNCHANGED left \/ Spend("order") \/ Spend("cancel")
      BY <2>2 DEF Request, ScheduleSource, ScheduleTarget, ScheduleRunning, ScheduleReserved,
                  ScheduleInsert, CancelRead, CancelSave, Step
    <2>3. CASE Scheduler \/ PauseNext \/ UNCHANGED vars
      BY <2>3 DEF Scheduler, PollDue, Dispatch, PauseNext, Fails, Succeeds, vars, BudgetKinds
    <2>4. CASE \/ (\E p \in Ponds : ReportLevel(p)) \/ (\E p \in Pumps : ServicePump(p))
               \/ RainAlert \/ Signal \/ Restart \/ Tick
      BY <2>4 DEF ReportLevel, ServicePump, RainAlert, Signal, Restart, Tick, BudgetKinds
    <2> QED
      BY <2>1, <2>2, <2>3, <2>4 DEF Next, BudgetKinds
  <1>2. \A k \in BudgetKinds : left[k] \in Nat /\ Budget[k] \in Nat
    BY BoundsAssumption DEF TypeOK, EnvType
  <1>3. \A k \in BudgetKinds : left'[k] <= left[k]
    BY <1>1, <1>2 DEF Spend, TypeOK, EnvType
  <1>4. left' \in [BudgetKinds -> Nat]
    <2>1. CASE UNCHANGED left
      BY <2>1 DEF TypeOK, EnvType
    <2>2. ASSUME NEW k \in BudgetKinds, Spend(k) PROVE left' \in [BudgetKinds -> Nat]
      BY <2>2, SpendType
    <2> QED
      BY <1>1, <2>1, <2>2
  <1>5. \A k \in BudgetKinds : left'[k] <= Budget[k]
    BY <1>2, <1>3, <1>4
  <1>6. \A k \in BudgetKinds : left[k] < Budget[k] => left'[k] < Budget[k]
    BY <1>2, <1>3, <1>4
  <1> QED
    BY <1>3, <1>5, <1>6 DEF Failed, BudgetKinds

\* What becomes of a running job: its owner goes on, leaves it behind after a
\* failed call or a restart, or it is a new owner's.
LEMMA RunningComes ==
  ASSUME TypeOK, [Next]_vars, NEW j \in InStatus("running")'
  PROVE  \/ j \in InStatus("running")
         \/ \E w \in Workers : wk'[w].job = j /\ wk'[w].pc \in Claimed
  <1>1. ASSUME UNCHANGED jobs PROVE j \in InStatus("running")
    BY <1>1 DEF InStatus
  <1>2. ASSUME NEW k \in DOMAIN jobs, NEW s \in Statuses \ {"running"}, SetStatus(k, s)
        PROVE  j \in InStatus("running")
    BY <1>2 DEF SetStatus, InStatus, TypeOK, TableType, JobRow
  <1>3. CASE Scheduler
    BY <1>1, <1>3 DEF Scheduler, PollDue, Dispatch
  <1>4. ASSUME NEW w \in Workers, Worker(w)
        PROVE  j \in InStatus("running") \/ (wk'[w].job = j /\ wk'[w].pc \in Claimed)
    <2>1. CASE Claim(w)
      <3>1. wk[w].job \in DOMAIN jobs
        BY <2>1, OrderType DEF Claim, At
      <3>2. CASE SetStatus(wk[w].job, "running") /\ Goto(w, "source")
        <4>1. j \in InStatus("running") \/ j = wk[w].job
          BY <3>1, <3>2 DEF SetStatus, InStatus, TypeOK, TableType, JobRow
        <4> QED
          BY <3>2, <4>1, GotoAt
      <3> QED
        BY <1>1, <2>1, <3>2 DEF Claim
    <2>2. CASE Finish(w) \/ Fail(w)
      <3>1. wk[w].job \in DOMAIN jobs
        BY <2>2, OrderType DEF Finish, Fail, At
      <3> QED
        BY <1>1, <1>2, <2>2, <3>1 DEF Finish, Fail, Statuses
    <2>3. CASE Take(w) \/ Quit(w)
      BY <1>1, <2>3 DEF Take, Quit
    <2>4. CASE \/ Load(w) \/ Source(w) \/ Target(w) \/ CheckRunning(w) \/ CheckReserved(w)
               \/ Meter(w)
      BY <1>1, <2>4 DEF Load, Source, Target, CheckRunning, CheckReserved, Meter
    <2>5. CASE Drain(w) \/ Fill(w) \/ Undo(w) \/ Bill(w)
      BY <1>1, <2>5 DEF Drain, Fill, Undo, Bill
    <2> QED
      BY <1>4, <2>1, <2>2, <2>3, <2>4, <2>5 DEF Worker, Execute
  <1>5. ASSUME NEW c \in Clients, Request(c) PROVE j \in InStatus("running")
    <2>1. CASE ScheduleInsert(c)
      BY <2>1 DEF ScheduleInsert, InStatus
    <2>2. CASE CancelSave(c)
      <3>1. cl[c].job \in DOMAIN jobs
        BY <2>2 DEF CancelSave, TypeOK, ClientType
      <3> QED
        BY <1>2, <2>2, <3>1 DEF CancelSave, Statuses
    <2>3. CASE \/ ScheduleSource(c) \/ ScheduleTarget(c) \/ ScheduleRunning(c)
               \/ ScheduleReserved(c) \/ CancelRead(c)
      BY <1>1, <2>3
      DEF ScheduleSource, ScheduleTarget, ScheduleRunning, ScheduleReserved, CancelRead, Step
    <2> QED
      BY <1>5, <2>1, <2>2, <2>3 DEF Request
  <1>6. CASE \/ \E p \in Ponds : ReportLevel(p)
             \/ \E p \in Pumps : ServicePump(p)
             \/ RainAlert \/ Signal \/ Restart \/ Tick
    BY <1>1, <1>6 DEF ReportLevel, ServicePump, RainAlert, Signal, Restart, Tick
  <1>7. CASE PauseNext
    <2>1. PICK k \in Earliest(rain) : SetStatus(k, "failed") \/ jobs' = jobs
      BY <1>7 DEF PauseNext
    <2>2. k \in DOMAIN jobs
      BY DEF Earliest, TypeOK, EngineType
    <2> QED
      BY <1>1, <1>2, <2>1, <2>2 DEF Statuses
  <1> QED
    BY <1>1, <1>3, <1>4, <1>5, <1>6, <1>7 DEF Next, vars

\* A worker that has claimed a job keeps it until it writes how it ended.
LEMMA OwnerStays ==
  ASSUME TypeOK, NEW w \in Workers, Worker(w), wk[w].pc \in Claimed
  PROVE  \/ wk'[w].job = wk[w].job /\ wk'[w].pc \in Claimed
         \/ jobs'[wk[w].job].status # "running"
         \/ Spend("fault")
  <1>1. wk[w].job \in DOMAIN jobs
    BY OrderType
  <1>2. CASE Take(w) \/ Quit(w) \/ Load(w) \/ Claim(w)
    BY <1>2 DEF Take, Quit, Load, Claim, At
  <1>3. CASE Source(w) \/ Target(w)
    BY <1>3, SourceAt, TargetAt
  <1>4. CASE Drain(w) \/ Fill(w) \/ Undo(w)
    BY <1>4, GotoAt DEF Drain, Fill, Undo
  <1>5. CASE CheckRunning(w) \/ CheckReserved(w) \/ Meter(w)
    BY <1>5, CheckRunningAt, CheckReservedAt, MeterAt
  <1>6. CASE Bill(w)
    BY <1>6, GotoAt DEF Bill
  <1>8. CASE Finish(w) \/ Fail(w)
    BY <1>1, <1>8 DEF Finish, Fail, Fails, SetStatus, TypeOK, TableType, JobRow
  <1> QED
    BY <1>2, <1>3, <1>4, <1>5, <1>6, <1>8 DEF Worker, Execute

LEMMA OwnerStep == TypeOK /\ OwnerInv /\ [Next]_vars => OwnerInv'
  <1> SUFFICES ASSUME TypeOK, OwnerInv, [Next]_vars PROVE OwnerInv'
    OBVIOUS
  <1>1. /\ \A k \in BudgetKinds : left'[k] <= Budget[k]
        /\ Failed => Failed'
    BY BudgetStep DEF OwnerInv
  <1>2. \A k \in {"restart", "fault"} : Spend(k) => Failed'
    BY BoundsAssumption DEF OwnerInv, Failed, Spend, TypeOK, EnvType, BudgetKinds
  <1>3. ASSUME NEW j \in InStatus("running")'
        PROVE  Failed' \/ \E w \in Workers : wk'[w].job = j /\ wk'[w].pc \in Claimed
    <2>1. CASE Failed
      BY <1>1, <2>1
    <2>2. ASSUME NEW v \in Workers, wk[v].job = j, wk[v].pc \in Claimed
          PROVE  Failed' \/ (wk'[v].job = j /\ wk'[v].pc \in Claimed)
      <3>1. ASSUME NEW w \in Workers, Worker(w), v = w
            PROVE  Failed' \/ (wk'[v].job = j /\ wk'[v].pc \in Claimed)
        BY <1>2, <2>2, <3>1, OwnerStays DEF InStatus
      <3>2. ASSUME NEW w \in Workers, Worker(w), v # w
            PROVE  wk'[v] = wk[v]
        BY <3>2, OneWorker
      <3>3. CASE Restart
        BY <1>2, <3>3 DEF Restart
      <3>4. CASE UNCHANGED <<wk, history>>
        BY <2>2, <3>4
      <3> QED
        BY <2>2, <3>1, <3>2, <3>3, <3>4, OthersStep DEF Next
    <2> QED
      BY <2>1, <2>2, RunningComes DEF OwnerInv
  <1> QED
    BY <1>1, <1>3 DEF OwnerInv

\* Races between workers, cancellations and rain pauses never leave a job marked
\* running that nobody executes: only a restart or a failed store call does.
THEOREM OrphansComeFromFailures == Spec => []OrphanNeedsFailure
  <1>1. OwnerInv => OrphanNeedsFailure
    BY DEF OwnerInv, OrphanNeedsFailure, Owned
  <1> QED
    BY <1>1, InitOwner, OwnerStep, TypeCorrect, PTL DEF Spec

\* Everything the runs check as an invariant of the table and the ponds, at once.
THEOREM InductiveHolds == Spec => []Inductive
  <1> DEFINE PInv == (\A w \in Workers : ProgressInv(w)) /\ DoneHasMoved /\ FloorInv /\ OwnerInv
  <1>1. Init => PInv
    BY InitProgress, InitFloor, InitOwner DEF Init, DoneHasMoved, InStatus
  <1>2. TypeOK /\ PInv /\ [Next]_vars => PInv'
    BY ProgressStep, DoneHasMovedStep, FloorInvStep, OwnerStep
  <1>3. PInv => Inductive
    BY DEF FloorInv, Inductive
  <1> HIDE DEF PInv
  <1> QED
    BY <1>1, <1>2, <1>3, TypeCorrect, PTL DEF Spec
=============================================================================
