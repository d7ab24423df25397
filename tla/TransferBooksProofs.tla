------------------------- MODULE TransferBooksProofs -------------------------
(***************************************************************************)
(* Why the transfers keep the ledger and balance the books until one of    *)
(* them is crossed: for every set of workers, orders, ponds and readings,  *)
(* with failing calls, compensations that fail, restarts and shutdown.     *)
(***************************************************************************)
EXTENDS TransferBooks, TransferProofs, Induction

\* The levels a worker holds are the levels of the ponds, for as long as it needs
\* them.
Knows(w) ==
  /\ wk[w].pc \in {"target", "drain"} => wk[w].from = content[Order(w).from]
  /\ wk[w].pc \in {"drain", "fill"} => wk[w].to = content[Order(w).to]
  /\ wk[w].pc \in Midway => wk[w].from >= Order(w).vol + Keep[Order(w).from]
  /\ wk[w].pc \in Midway => content[Order(w).from] = wk[w].from - Order(w).vol

Known == \A w \in Workers : Knows(w)

\* Nobody else has done anything for the job of a transfer that is underway.
Solo ==
  \A w \in Workers : Underway(w) => \A v \in Workers \ {w} : Record(v, wk[w].job, 0, 0)

Clear == ~Clash /\ Known /\ Solo

BooksInv == crossed \in BOOLEAN /\ measured \in Int /\ (~crossed => Clear)

-----------------------------------------------------------------------------
\* What the steps are.

\* A step that is not a level reading.
Quiet == [Next]_vars /\ left'["report"] = left["report"] /\ measured' = measured

LEMMA StepKinds ==
  ASSUME [BooksNext]_books
  PROVE  [Next]_vars /\ (Quiet \/ \E p \in Ponds : BooksReading(p))
  <1>1. CASE \E p \in Ponds : BooksReading(p)
    BY <1>1 DEF BooksReading, Next
  <1>2. CASE BooksOther
    BY <1>2 DEF BooksOther, Quiet
  <1>3. CASE UNCHANGED books
    BY <1>3 DEF books, vars, Quiet
  <1> QED
    BY <1>1, <1>2, <1>3 DEF BooksNext

LEMMA NoReport ==
  ASSUME TypeOK, left'["report"] = left["report"], NEW p \in Ponds
  PROVE  ~ReportLevel(p)
  <1>1. left \in [BudgetKinds -> Nat] /\ "report" \in BudgetKinds
    BY DEF TypeOK, EnvType, BudgetKinds
  <1> QED
    BY <1>1 DEF ReportLevel, Spend

\* A reading of a pond that no worker holds crosses nobody.
ReadingAlone(p) == BooksReading(p) /\ (~crossed' => \A w \in Workers : p \notin Held(w))

LEMMA ReadingsCross ==
  ASSUME NEW p \in Ponds, BooksReading(p)
  PROVE  ReadingAlone(p)
  BY Zenon DEF BooksReading, ReadingAlone

\* A step without a crossing, when there was none before.
LEMMA NotCrossed ==
  ASSUME BooksInv, [BooksNext]_books, ~crossed'
  PROVE  ~crossed /\ Clear /\ ~Clash'
  <1>1. ASSUME UNCHANGED <<jobs, wk>> PROVE Clash' <=> Clash
    BY <1>1 DEF Clash, Underway, Held, Order
  <1>2. CASE BooksOther
    <2>1. ~crossed /\ ~Clash'
      BY <1>2, Zenon DEF BooksOther
    <2> QED
      BY <2>1, Zenon DEF BooksInv
  <1>3. CASE \E p \in Ponds : BooksReading(p)
    <2>1. PICK p \in Ponds : BooksReading(p)
      BY <1>3
    <2>2. ~crossed
      BY <2>1, Zenon DEF BooksReading
    <2>3. UNCHANGED <<jobs, wk>>
      BY <2>1 DEF BooksReading, ReportLevel
    <2> QED
      BY <1>1, <2>2, <2>3, Zenon DEF BooksInv, Clear
  <1>4. CASE UNCHANGED books
    <2>1. ~crossed /\ UNCHANGED <<jobs, wk>>
      BY <1>4 DEF books, vars, store
    <2> QED
      BY <1>1, <2>1, Zenon DEF BooksInv, Clear
  <1> QED
    BY <1>2, <1>3, <1>4, Zenon DEF BooksNext

LEMMA BooksRefine == BooksSpec => Spec
  <1>1. BooksInit => Init
    BY DEF BooksInit
  <1>2. [BooksNext]_books => [Next]_vars
    BY StepKinds
  <1> QED
    BY <1>1, <1>2, PTL DEF BooksSpec, Spec

\* Only the worker's three writes move brine.
LEMMA WhoMoves ==
  ASSUME TypeOK, Quiet
  PROVE  \/ UNCHANGED <<content, history>>
         \/ \E w \in Workers : Drain(w) \/ Fill(w) \/ Undo(w)
  <1>1. ASSUME NEW w \in Workers, Worker(w)
        PROVE  UNCHANGED <<content, history>> \/ Drain(w) \/ Fill(w) \/ Undo(w)
    <2>1. CASE Take(w) \/ Quit(w)
      BY <2>1 DEF Take, Quit, store, history
    <2>2. CASE \/ Load(w) \/ Claim(w) \/ Source(w) \/ Target(w) \/ CheckRunning(w)
               \/ CheckReserved(w) \/ Meter(w) \/ Bill(w) \/ Finish(w) \/ Fail(w)
      BY <2>2 DEF Load, Claim, Source, Target, CheckRunning, CheckReserved, Meter, Bill, Finish,
                  Fail, store, history
    <2> QED
      BY <1>1, <2>1, <2>2 DEF Worker, Execute
  <1>2. CASE \E c \in Clients : Request(c)
    BY <1>2 DEF Request, ScheduleSource, ScheduleTarget, ScheduleRunning, ScheduleReserved,
                ScheduleInsert, CancelRead, CancelSave, Step, store, history
  <1>3. CASE Scheduler \/ (\E q \in Pumps : ServicePump(q)) \/ RainAlert \/ PauseNext
    BY <1>3 DEF Scheduler, PollDue, Dispatch, ServicePump, RainAlert, PauseNext, store, history
  <1>4. CASE Signal \/ Restart \/ Tick \/ UNCHANGED vars
    BY <1>4 DEF Signal, Restart, Tick, vars, store, history
  <1> QED
    BY <1>1, <1>2, <1>3, <1>4, NoReport DEF Next, Quiet

\* A worker changes its own record and nobody else's.
OthersStay(w) == \A v \in Workers \ {w} : wk'[v] = wk[v]

LEMMA WorkerAlone ==
  ASSUME NEW w \in Workers, Worker(w)
  PROVE  OthersStay(w)
  <1>1. \A r : Become(w, r) => OthersStay(w)
    BY DEF Become, OthersStay
  <1>2. CASE Take(w) \/ Quit(w)
    BY <1>1, <1>2 DEF Take, Quit, Goto
  <1>3. CASE Load(w) \/ Claim(w) \/ Source(w) \/ Target(w) \/ Drain(w) \/ Fill(w) \/ Undo(w)
    BY <1>1, <1>3 DEF Load, Claim, Source, Target, Drain, Fill, Undo, Goto, Release
  <1>4. CASE \/ CheckRunning(w) \/ CheckReserved(w) \/ Meter(w) \/ Bill(w)
             \/ Finish(w) \/ Fail(w)
    BY <1>1, <1>4 DEF CheckRunning, CheckReserved, Meter, Bill, Finish, Fail, Goto, Release, Charge
  <1> QED
    BY <1>2, <1>3, <1>4 DEF Worker, Execute

\* Who takes a step that is not a reading.
LEMMA WhoSteps ==
  ASSUME TypeOK, Quiet
  PROVE  \/ \E w \in Workers : Worker(w)
         \/ Restart
         \/ UNCHANGED <<content, wk, history>>
  <1>1. CASE \E w \in Workers : Drain(w) \/ Fill(w) \/ Undo(w)
    BY <1>1 DEF Worker, Execute
  <1>2. CASE UNCHANGED <<content, history>>
    BY <1>2, OthersStep DEF Quiet, Next, history
  <1> QED
    BY <1>1, <1>2, WhoMoves

-----------------------------------------------------------------------------
\* Solo: a worker underway has the job to itself.

\* What a worker records, it records for the job it is underway with.
LEMMA OwnRecord ==
  ASSUME TypeOK, NEW w \in Workers, Worker(w), NEW v \in Workers, NEW j \in JobIds,
         v # w \/ j # wk[w].job \/ ~Underway(w)
  PROVE  drained'[v][j] = drained[v][j] /\ filled'[v][j] = filled[v][j]
  <1>1. CASE UNCHANGED <<content, history>>
    BY <1>1 DEF history
  <1>2. CASE Drain(w) \/ Fill(w) \/ Undo(w)
    <2>1. Underway(w)
      BY <1>2 DEF Drain, Fill, Undo, At, Underway, BeforeDrain, Midway
    <2>2. v # w \/ j # wk[w].job
      BY <2>1
    <2>3. drained \in [Workers -> [JobIds -> Int]] /\ filled \in [Workers -> [JobIds -> Int]]
      BY DEF TypeOK, HistoryType
    <2>4. \/ drained' = drained
          \/ drained' = [drained EXCEPT ![w][wk[w].job] = @ + 1]
          \/ drained' = [drained EXCEPT ![w][wk[w].job] = @ - 1]
      BY <1>2 DEF Drain, Fill, Undo
    <2>5. filled' = filled \/ filled' = [filled EXCEPT ![w][wk[w].job] = @ + 1]
      BY <1>2 DEF Drain, Fill, Undo
    <2>6. drained'[v][j] = drained[v][j]
      BY <2>2, <2>3, <2>4
    <2>7. filled'[v][j] = filled[v][j]
      BY <2>2, <2>3, <2>5
    <2> QED
      BY <2>6, <2>7
  <1>3. CASE Take(w) \/ Quit(w)
    BY <1>3 DEF Take, Quit, history
  <1>4. CASE \/ Load(w) \/ Claim(w) \/ Source(w) \/ Target(w) \/ CheckRunning(w)
             \/ CheckReserved(w) \/ Meter(w) \/ Bill(w) \/ Finish(w) \/ Fail(w)
    BY <1>4 DEF Load, Claim, Source, Target, CheckRunning, CheckReserved, Meter, Bill, Finish,
                Fail, history
  <1> QED
    BY <1>2, <1>3, <1>4 DEF Worker, Execute

\* A transfer gets underway when its job is found pending.
LEMMA GetsUnderway ==
  ASSUME TypeOK, NEW w \in Workers, Worker(w), Underway(w)'
  PROVE  /\ wk'[w].job = wk[w].job
         /\ Underway(w) \/ (wk[w].pc = "load" /\ jobs[wk[w].job].status = "pending")
  <1> USE DEF Underway, BeforeDrain, Midway
  <1>1. CASE Take(w)
    <2>1. wk'[w].pc = "load"
      BY <1>1, BecomeAt DEF Take, IdleWorker
    <2> QED
      BY <2>1
  <1>2. CASE Quit(w) \/ Undo(w) \/ Bill(w) \/ Finish(w) \/ Fail(w)
    BY <1>2, GotoAt, ReleaseAt DEF Quit, Undo, Bill, Finish, Fail
  <1>3. CASE Load(w)
    BY <1>3, GotoAt, ReleaseAt DEF Load, At
  <1>4. CASE Claim(w) \/ Drain(w) \/ Fill(w)
    BY <1>4, GotoAt, ReleaseAt DEF Claim, Drain, Fill, At
  <1>5. CASE Source(w) \/ Target(w)
    BY <1>5, SourceAt, TargetAt
  <1>6. CASE CheckRunning(w) \/ CheckReserved(w) \/ Meter(w)
    BY <1>6, CheckRunningAt, CheckReservedAt, MeterAt
  <1> QED
    BY <1>1, <1>2, <1>3, <1>4, <1>5, <1>6 DEF Worker, Execute

LEMMA SoloWorker ==
  ASSUME TypeOK, NEW w \in Workers, Worker(w), \A v \in Workers : ProgressInv(v), Clear
  PROVE  Solo'
  <1> SUFFICES ASSUME NEW u \in Workers, Underway(u)', NEW v \in Workers \ {u}
               PROVE  Record(v, wk[u].job, 0, 0)'
    BY DEF Solo
  <1> DEFINE j == wk[u].job
  <1>1. CASE u = w
    <2>1. wk'[u].job = j /\ (Underway(u) \/ (wk[u].pc = "load" /\ jobs[j].status = "pending"))
      BY <1>1, GetsUnderway
    <2>2. j \in JobIds
      BY <2>1, OrderType DEF Underway, BeforeDrain, Midway
    <2>3. Record(v, j, 0, 0)
      BY <2>1, <2>2 DEF Clear, Solo, ProgressInv
    <2>4. drained'[v][j] = drained[v][j] /\ filled'[v][j] = filled[v][j]
      BY <1>1, <2>2, OwnRecord
    <2> QED
      BY <2>1, <2>3, <2>4 DEF Record
  <1>2. CASE u # w
    <2>1. wk'[u] = wk[u] /\ Underway(u)
      BY <1>2, WorkerAlone DEF OthersStay, Underway
    <2>2. j \in JobIds
      BY <2>1, OrderType DEF Underway, BeforeDrain, Midway
    <2>3. Record(v, j, 0, 0)
      BY <2>1 DEF Clear, Solo
    <2>4. ~(Underway(w) /\ wk[w].job = j)
      BY <1>2, <2>1 DEF Clear, Clash
    <2>5. drained'[v][j] = drained[v][j] /\ filled'[v][j] = filled[v][j]
      BY <2>2, <2>4, OwnRecord
    <2> QED
      BY <2>1, <2>3, <2>5 DEF Record
  <1> QED
    BY <1>1, <1>2

LEMMA SoloElse ==
  ASSUME Solo, UNCHANGED <<wk, history>> \/ \A w \in Workers : wk'[w] = IdleWorker
  PROVE  Solo'
  <1>1. CASE UNCHANGED <<wk, history>>
    BY <1>1 DEF Solo, Underway, Record, history
  <1>2. CASE \A w \in Workers : wk'[w] = IdleWorker
    BY <1>2 DEF Solo, Underway, IdleWorker, BeforeDrain, Midway
  <1> QED
    BY <1>1, <1>2

-----------------------------------------------------------------------------
\* Known: the levels a worker holds are current.

\* A worker that holds the same levels for the same job, or needs none.
LEMMA KnowsFrame ==
  ASSUME TypeOK, RowsOnward, NEW w \in Workers, Knows(w),
         \A p \in Held(w) : content'[p] = content[p],
         \/ wk'[w] = wk[w]
         \/ wk'[w].pc \notin {"target", "drain", "fill", "undo"}
         \/ /\ wk[w].pc = "fill" /\ wk'[w].pc = "undo"
            /\ wk'[w].job = wk[w].job /\ wk'[w].from = wk[w].from
  PROVE  Knows(w)'
  <1>1. CASE wk'[w].pc \notin {"target", "drain", "fill", "undo"}
    BY <1>1 DEF Knows, Midway
  <1>2. CASE wk'[w].pc \in {"target", "drain", "fill", "undo"}
    <2>1. Order(w)' = Order(w)
      BY <1>2, OrderKept
    <2>2. /\ wk[w].pc \in {"target", "drain", "fill", "undo"}
               => content'[Order(w).from] = content[Order(w).from]
          /\ wk[w].pc \in {"drain", "fill"} => content'[Order(w).to] = content[Order(w).to]
      BY DEF Held
    <2> QED
      BY <1>2, <2>1, <2>2 DEF Knows, Midway
  <1> QED
    BY <1>1, <1>2

LEMMA KnowsWorker ==
  ASSUME TypeOK, RowsOnward, NEW w \in Workers, LevelInv(w), Knows(w), Worker(w)
  PROVE  Knows(w)'
  <1>1. CASE Take(w) \/ Quit(w)
    BY <1>1, BecomeAt, GotoAt, KnowsFrame DEF Take, Quit, IdleWorker, store
  <1>2. CASE Load(w) \/ Claim(w)
    BY <1>2, GotoAt, ReleaseAt, KnowsFrame DEF Load, Claim, store
  <1>3. CASE Source(w)
    <2>1. content' = content
      BY <1>3 DEF Source, store
    <2>2. CASE Goto(w, "fail")
      BY <2>1, <2>2, GotoAt, KnowsFrame
    <2>3. CASE Become(w, [wk[w] EXCEPT !.pc = "target", !.from = content[Order(w).from]])
      <3>1. /\ wk'[w].pc = "target" /\ wk'[w].job = wk[w].job
            /\ wk'[w].from = content[Order(w).from]
        BY <2>3, BecomeAt DEF TypeOK, WorkerType, WorkerRec
      <3>2. Order(w)' = Order(w)
        BY <1>3, <3>1, OrderKept DEF Source, At
      <3> QED
        BY <2>1, <3>1, <3>2 DEF Knows, Midway
    <2> QED
      BY <1>3, <2>2, <2>3 DEF Source
  <1>4. CASE Target(w)
    <2>1. content' = content
      BY <1>4 DEF Target, store
    <2>2. CASE Goto(w, "fail")
      BY <2>1, <2>2, GotoAt, KnowsFrame
    <2>3. CASE Become(w, [wk[w] EXCEPT !.pc = "drain", !.to = content[Order(w).to]])
      <3>1. /\ wk'[w].pc = "drain" /\ wk'[w].job = wk[w].job
            /\ wk'[w].from = wk[w].from /\ wk'[w].to = content[Order(w).to]
        BY <2>3, BecomeAt DEF TypeOK, WorkerType, WorkerRec
      <3>2. Order(w)' = Order(w) /\ wk[w].pc = "target"
        BY <1>4, <3>1, OrderKept DEF Target, At
      <3> QED
        BY <2>1, <3>1, <3>2 DEF Knows, Midway
    <2> QED
      BY <1>4, <2>2, <2>3 DEF Target
  <1>5. CASE Drain(w)
    <2>1. CASE Goto(w, "fail") /\ UNCHANGED content
      BY <2>1, GotoAt, KnowsFrame
    <2>2. CASE /\ content' = [content EXCEPT ![Order(w).from] = wk[w].from - Order(w).vol]
               /\ Goto(w, "fill")
      <3>1. /\ wk'[w].pc = "fill" /\ wk'[w].job = wk[w].job
            /\ wk'[w].from = wk[w].from /\ wk'[w].to = wk[w].to
        BY <2>2, GotoAt
      <3>2. Order(w)' = Order(w) /\ wk[w].pc = "drain"
        BY <1>5, <3>1, OrderKept DEF Drain, At
      <3>3. Order(w).from \in Ponds /\ Order(w).to \in Ponds /\ Order(w).from # Order(w).to
        BY <3>2, OrderType, OrdersAssumption
      <3>4. content'[Order(w).to] = content[Order(w).to]
            /\ content'[Order(w).from] = wk[w].from - Order(w).vol
        BY <2>2, <3>3 DEF TypeOK, LevelType
      <3>5. wk[w].to = content[Order(w).to]
        BY <3>2 DEF Knows
      <3>6. wk[w].from >= Order(w).vol + Keep[Order(w).from]
        BY <3>2 DEF LevelInv
      <3> QED
        BY <3>1, <3>2, <3>4, <3>5, <3>6 DEF Knows, Midway
    <2> QED
      BY <1>5, <2>1, <2>2 DEF Drain
  <1>6. CASE Fill(w)
    <2>1. CASE Goto(w, "running")
      <3>1. wk'[w].pc = "running"
        BY <2>1, GotoAt
      <3> QED
        BY <3>1 DEF Knows, Midway
    <2>2. CASE Goto(w, "undo") /\ UNCHANGED content
      BY <1>6, <2>2, GotoAt, KnowsFrame DEF Fill, At
    <2> QED
      BY <1>6, <2>1, <2>2 DEF Fill
  <1>7. CASE Undo(w)
    <2>1. wk'[w].pc = "fail"
      BY <1>7, GotoAt DEF Undo
    <2> QED
      BY <2>1 DEF Knows, Midway
  <1>8. CASE CheckRunning(w) \/ CheckReserved(w) \/ Meter(w)
    <2>1. content' = content
      BY <1>8 DEF CheckRunning, CheckReserved, Meter, store
    <2>2. wk'[w].pc \notin {"target", "drain", "fill", "undo"}
      BY <1>8, CheckRunningAt, CheckReservedAt, MeterAt
    <2> QED
      BY <2>1, <2>2, KnowsFrame
  <1>9. CASE Bill(w) \/ Finish(w) \/ Fail(w)
    BY <1>9, GotoAt, ReleaseAt, KnowsFrame DEF Bill, Finish, Fail
  <1> QED
    BY <1>1, <1>2, <1>3, <1>4, <1>5, <1>6, <1>7, <1>8, <1>9 DEF Worker, Execute

\* A worker writes the levels it holds and no others.
LEMMA WritesHeld ==
  ASSUME TypeOK, NEW w \in Workers, Worker(w), NEW p \in Ponds \ Held(w)
  PROVE  content'[p] = content[p]
  <1>1. CASE Drain(w)
    <2>1. Order(w).from # p
      BY <1>1 DEF Drain, At, Held
    <2> QED
      BY <1>1, <2>1 DEF Drain, TypeOK, LevelType
  <1>2. CASE Fill(w)
    <2>1. Order(w).to # p
      BY <1>2 DEF Fill, At, Held
    <2> QED
      BY <1>2, <2>1 DEF Fill, TypeOK, LevelType
  <1>3. CASE Undo(w)
    <2>1. Order(w).from # p
      BY <1>3 DEF Undo, At, Held
    <2> QED
      BY <1>3, <2>1 DEF Undo, TypeOK, LevelType
  <1>4. CASE Take(w) \/ Quit(w)
    BY <1>4 DEF Take, Quit, store
  <1>5. CASE \/ Load(w) \/ Claim(w) \/ Source(w) \/ Target(w) \/ CheckRunning(w)
             \/ CheckReserved(w) \/ Meter(w) \/ Bill(w) \/ Finish(w) \/ Fail(w)
    BY <1>5 DEF Load, Claim, Source, Target, CheckRunning, CheckReserved, Meter, Bill, Finish,
                Fail, store
  <1> QED
    BY <1>1, <1>2, <1>3, <1>4, <1>5 DEF Worker, Execute

LEMMA HeldIsPond ==
  ASSUME TypeOK, NEW w \in Workers
  PROVE  Held(w) \subseteq Ponds
  BY OrderType DEF Held

LEMMA KnownStep ==
  ASSUME TypeOK, RowsOnward, Inductive, Clear, NEW w \in Workers, Worker(w)
  PROVE  Known'
  <1> SUFFICES ASSUME NEW v \in Workers PROVE Knows(v)'
    BY DEF Known
  <1>1. Knows(v) /\ LevelInv(v) /\ ~Clash
    BY DEF Clear, Known, Inductive
  <1>2. CASE v = w
    BY <1>1, <1>2, KnowsWorker
  <1>3. CASE v # w
    <2>1. wk'[v] = wk[v]
      BY <1>3, WorkerAlone DEF OthersStay
    <2>2. \A p \in Held(v) : p \in Ponds \ Held(w)
      BY <1>1, <1>3, HeldIsPond DEF Clash
    <2>3. \A p \in Held(v) : content'[p] = content[p]
      BY <2>2, WritesHeld
    <2> QED
      BY <1>1, <2>1, <2>3, KnowsFrame
  <1> QED
    BY <1>2, <1>3

LEMMA KnownElse ==
  ASSUME TypeOK, RowsOnward, Known, \A w \in Workers : \A p \in Held(w) : content'[p] = content[p],
         wk' = wk \/ \A w \in Workers : wk'[w] = IdleWorker
  PROVE  Known'
  <1> SUFFICES ASSUME NEW w \in Workers PROVE Knows(w)'
    BY DEF Known
  <1>1. wk'[w] = wk[w] \/ wk'[w].pc \notin {"target", "drain", "fill", "undo"}
    BY DEF IdleWorker
  <1> QED
    BY <1>1, KnowsFrame DEF Known

\* What a reading changes.
LEMMA ReadingWrites ==
  ASSUME TypeOK, NEW p \in Ponds, BooksReading(p)
  PROVE  /\ UNCHANGED <<jobs, wk, history>>
         /\ \E x \in Levels : content' = [content EXCEPT ![p] = x]
         /\ \A q \in Ponds \ {p} : content'[q] = content[q]
         /\ content'[p] \in Levels /\ content'[p] \in Int /\ content[p] \in Int
         /\ measured' = measured + (content'[p] - content[p])
  <1>1. content \in [Ponds -> Int] /\ Levels \subseteq Int
    BY LevelsAssumption DEF TypeOK, LevelType
  <1>2. UNCHANGED <<jobs, wk, history>> /\ measured' = measured + (content'[p] - content[p])
    BY DEF BooksReading, ReportLevel
  <1>3. PICK x \in Levels : content' = [content EXCEPT ![p] = x]
    BY DEF BooksReading, ReportLevel
  <1>4. content'[p] = x /\ \A q \in Ponds \ {p} : content'[q] = content[q]
    BY <1>1, <1>3
  <1> QED
    BY <1>1, <1>2, <1>3, <1>4

LEMMA ClearStep ==
  ASSUME TypeOK, Inductive, BooksInv, [BooksNext]_books, ~crossed'
  PROVE  Clear'
  <1>1. Clear /\ ~Clash' /\ RowsOnward
    BY NotCrossed, StepKinds, RowStep
  <1>2. CASE Quiet
    <2>1. CASE \E w \in Workers : Worker(w)
      BY <1>1, <2>1, KnownStep, SoloWorker DEF Clear, Inductive
    <2>2. CASE Restart
      BY <1>1, <2>2, RestartStep, KnownElse, SoloElse DEF Clear, store
    <2>3. CASE UNCHANGED <<content, wk, history>>
      BY <1>1, <2>3, KnownElse, SoloElse DEF Clear
    <2> QED
      BY <1>2, <2>1, <2>2, <2>3, WhoSteps
  <1>3. CASE \E p \in Ponds : BooksReading(p)
    <2>1. PICK p \in Ponds : BooksReading(p)
      BY <1>3
    <2>2. \A w \in Workers : p \notin Held(w)
      BY <2>1, ReadingsCross DEF ReadingAlone
    <2>3. UNCHANGED <<wk, history>> /\ \A q \in Ponds \ {p} : content'[q] = content[q]
      BY <2>1, ReadingWrites
    <2>4. \A w \in Workers : \A q \in Held(w) : content'[q] = content[q]
      BY <2>2, <2>3, HeldIsPond
    <2> QED
      BY <1>1, <2>3, <2>4, KnownElse, SoloElse DEF Clear
  <1> QED
    BY <1>2, <1>3, StepKinds

LEMMA BooksInvStep ==
  ASSUME TypeOK, Inductive, BooksInv, [BooksNext]_books
  PROVE  BooksInv'
  <1>1. measured' \in Int
    <2>1. CASE Quiet
      BY <2>1 DEF Quiet, BooksInv
    <2>2. CASE \E p \in Ponds : BooksReading(p)
      BY <2>2, ReadingWrites DEF BooksInv
    <2> QED
      BY <2>1, <2>2, StepKinds
  <1>2. crossed' \in BOOLEAN
    <2>1. CASE UNCHANGED books
      BY <2>1 DEF books, BooksInv
    <2>2. CASE BooksNext
      BY <2>2, Zenon DEF BooksNext, BooksReading, BooksOther
    <2> QED
      BY <2>1, <2>2
  <1> QED
    BY <1>1, <1>2, ClearStep DEF BooksInv

LEMMA InitBooksInv ==
  ASSUME BooksInit
  PROVE  BooksInv
  <1>1. \A w \in Workers : wk[w].pc = "idle"
    BY DEF BooksInit, Init, IdleWorker
  <1>2. \A w \in Workers : ~Underway(w) /\ Held(w) = {} /\ Knows(w)
    BY <1>1 DEF Underway, Held, Knows, BeforeDrain, Midway
  <1>3. Clear
    BY <1>2 DEF Clear, Known, Solo, Clash
  <1>4. crossed \in BOOLEAN
    BY Zenon DEF BooksInit
  <1>5. measured \in Int
    BY DEF BooksInit
  <1> QED
    BY <1>3, <1>4, <1>5, Zenon DEF BooksInv

LEMMA BooksInvHolds == BooksSpec => []BooksInv
  <1>1. BooksInit => BooksInv
    BY InitBooksInv
  <1>2. TypeOK /\ Inductive /\ BooksInv /\ [BooksNext]_books => BooksInv'
    BY BooksInvStep
  <1> QED
    BY <1>1, <1>2, BooksRefine, TypeCorrect, InductiveHolds, PTL DEF BooksSpec

\* In a behaviour without a crossing every worker knows the levels it holds and has
\* its job to itself.
THEOREM LevelsAreKnown == BooksSpec => [](~crossed => Known /\ Solo)
  <1>1. BooksInv => (~crossed => Known /\ Solo)
    BY DEF BooksInv, Clear
  <1> QED
    BY <1>1, BooksInvHolds, PTL

-----------------------------------------------------------------------------
\* How the state reads in the ledger.

LEMMA SumOfOne ==
  ASSUME NEW x, NEW v \in Int
  PROVE  SumFunction([y \in {x} |-> v]) = v
  <1> DEFINE f == [y \in {x} |-> v]
  <1>1. IsFiniteSet({x}) /\ x \in {x} /\ {x} \ {x} = {} /\ \A y \in {x} : f[y] \in Int
    BY FS_Singleton
  <1>2. DOMAIN f = {x} /\ f[x] = v
    OBVIOUS
  <1> HIDE DEF f
  <1>3. SumFunctionOnSet(f, {x}) = f[x] + SumFunctionOnSet(f, {})
    BY <1>1, SumWithout
  <1>4. SumFunction(f) = v
    BY <1>2, <1>3, SumOfNothing DEF SumFunction
  <1> QED
    BY <1>4 DEF f

LEMMA SumOfNone ==
  ASSUME NEW v
  PROVE  SumFunction([y \in {} |-> v]) = 0
  BY SumOfNothing DEF SumFunction

\* One worker's volume on the way, and the sum when it is the only one.
Volume(w, p) == IF InFlight(w) /\ Order(w).from = p THEN Order(w).vol ELSE 0

Lone(w, p) == \A v \in Workers \ {w} : ~(InFlight(v) /\ Order(v).from = p)

LEMMA OneOnTheWay ==
  ASSUME NEW w \in Workers, NEW p \in Ponds
  PROVE  TypeOK /\ Lone(w, p) => OnTheWay(p) = Volume(w, p)
  <1> SUFFICES ASSUME TypeOK, Lone(w, p) PROVE OnTheWay(p) = Volume(w, p)
    OBVIOUS
  <1>1. CASE InFlight(w) /\ Order(w).from = p
    <2>1. Order(w).vol \in Int
      BY <1>1, OrderType DEF InFlight
    <2>2. Afloat(p) = {w}
      BY <1>1 DEF Afloat, Lone
    <2>3. [x \in Afloat(p) |-> Order(x).vol] = [x \in {w} |-> Order(w).vol]
      BY <2>2
    <2> QED
      BY <1>1, <2>1, <2>3, SumOfOne DEF OnTheWay, Volume
  <1>2. CASE ~(InFlight(w) /\ Order(w).from = p)
    <2>1. Afloat(p) = {}
      BY <1>2 DEF Afloat, Lone
    <2>2. [x \in Afloat(p) |-> Order(x).vol] = [x \in {} |-> 0]
      BY <2>1
    <2> QED
      BY <1>2, <2>2, SumOfNone DEF OnTheWay, Volume
  <1> QED
    BY <1>1, <1>2

LEMMA OneWillBe ==
  ASSUME NEW w \in Workers, NEW p \in Ponds
  PROVE  TypeOK' /\ Lone(w, p)' => OnTheWay(p)' = Volume(w, p)'
  <1> DEFINE Fact == TypeOK /\ Lone(w, p) => OnTheWay(p) = Volume(w, p)
  <1>1. Fact
    BY OneOnTheWay
  <1>2. Fact'
    <2> HIDE DEF Fact
    <2> QED
      BY <1>1, PTL
  <1> QED
    BY <1>2

\* Nobody else's volume is on the way from a pond that a worker holds, and its own
\* steps do not change that.
LEMMA HeldAlone ==
  ASSUME ~Clash, NEW w \in Workers, NEW p \in Held(w)
  PROVE  Lone(w, p)
  <1> SUFFICES ASSUME NEW v \in Workers \ {w}, InFlight(v), Order(v).from = p PROVE FALSE
    BY DEF Lone
  <1>1. p \in Held(v)
    BY DEF InFlight, Held
  <1> QED
    BY <1>1 DEF Clash

LEMMA LoneStays ==
  ASSUME TypeOK, RowsOnward, NEW w \in Workers, OthersStay(w), NEW p \in Ponds, Lone(w, p)
  PROVE  Lone(w, p)'
  <1> SUFFICES ASSUME NEW v \in Workers \ {w}, InFlight(v)', Order(v)'.from = p PROVE FALSE
    BY DEF Lone
  <1>1. wk'[v] = wk[v] /\ InFlight(v)
    BY DEF OthersStay, InFlight
  <1>2. Order(v)' = Order(v)
    BY <1>1, OrderKept DEF InFlight
  <1> QED
    BY <1>1, <1>2 DEF Lone

\* The balance of a pond that a worker holds.
LEMMA BalanceHeld ==
  ASSUME TypeOK, TypeOK', RowsOnward, ~Clash, NEW w \in Workers, OthersStay(w),
         NEW p \in Ponds, p \in Held(w)
  PROVE  Balance[p] = content[p] + Volume(w, p) /\ Balance'[p] = content'[p] + Volume(w, p)'
  <1>1. Lone(w, p)
    BY HeldAlone
  <1>2. Lone(w, p)'
    BY <1>1, LoneStays
  <1>3. OnTheWay(p) = Volume(w, p) /\ OnTheWay(p)' = Volume(w, p)'
    BY <1>1, <1>2, OneOnTheWay, OneWillBe
  <1> QED
    BY <1>3 DEF Balance

\* The same workers with the same jobs are on the way from p.
SameFloat(p) ==
  \A w \in Workers :
    /\ InFlight(w) /\ Order(w).from = p => InFlight(w)' /\ wk'[w].job = wk[w].job
    /\ InFlight(w)' /\ Order(w)'.from = p => InFlight(w) /\ wk'[w].job = wk[w].job

LEMMA FloatStays ==
  ASSUME TypeOK, RowsOnward, NEW p \in Ponds, SameFloat(p)
  PROVE  OnTheWay(p)' = OnTheWay(p)
  <1>1. ASSUME NEW w \in Workers, wk'[w].job = wk[w].job, InFlight(w)
        PROVE  Order(w)' = Order(w)
    BY <1>1, OrderKept DEF InFlight
  <1>2. Afloat(p)' = Afloat(p)
    BY <1>1 DEF Afloat, SameFloat
  <1>3. \A w \in Afloat(p) : Order(w)' = Order(w)
    BY <1>1 DEF Afloat, SameFloat
  <1>4. [w \in Afloat(p)' |-> Order(w)'.vol] = [w \in Afloat(p) |-> Order(w).vol]
    BY <1>2, <1>3
  <1> QED
    BY <1>4 DEF OnTheWay

\* The balance of a pond where nothing happens while w works.
LEMMA BalanceElse ==
  ASSUME TypeOK, RowsOnward, NEW w \in Workers, OthersStay(w), NEW p \in Ponds,
         ~(InFlight(w) /\ Order(w).from = p), ~(InFlight(w)' /\ Order(w)'.from = p),
         content'[p] = content[p]
  PROVE  Balance'[p] = Balance[p]
  <1>1. SameFloat(p)
    <2> SUFFICES ASSUME NEW v \in Workers
                 PROVE  /\ InFlight(v) /\ Order(v).from = p
                             => InFlight(v)' /\ wk'[v].job = wk[v].job
                        /\ InFlight(v)' /\ Order(v)'.from = p
                             => InFlight(v) /\ wk'[v].job = wk[v].job
      BY DEF SameFloat
    <2>1. CASE v = w
      BY <2>1
    <2>2. CASE v # w
      BY <2>2 DEF OthersStay, InFlight
    <2> QED
      BY <2>1, <2>2
  <1> QED
    BY <1>1, FloatStays DEF Balance

\* Two balances that agree on every pond.
LEMMA BalanceSame ==
  ASSUME \A p \in Ponds : Balance'[p] = Balance[p]
  PROVE  Balance' = Balance
  BY DEF Balance

-----------------------------------------------------------------------------
\* What the steps are in the ledger.

LEMMA RowsStay ==
  ASSUME RowsOnward, DOMAIN jobs' = DOMAIN jobs
  PROVE  Bookings' = Bookings
  BY DEF RowsOnward, Bookings

LEMMA WhoBooks ==
  ASSUME TypeOK, [Next]_vars
  PROVE  DOMAIN jobs' = DOMAIN jobs \/ \E c \in Clients : ScheduleInsert(c)
  <1>1. ASSUME NEW j, NEW s, SetStatus(j, s) PROVE DOMAIN jobs' = DOMAIN jobs
    BY <1>1 DEF SetStatus
  <1>2. ASSUME NEW w \in Workers, Worker(w) PROVE DOMAIN jobs' = DOMAIN jobs
    <2>1. CASE Claim(w) \/ Finish(w) \/ Fail(w)
      BY <1>1, <2>1 DEF Claim, Finish, Fail
    <2>2. CASE Take(w) \/ Quit(w)
      BY <2>2 DEF Take, Quit, store
    <2>3. CASE \/ Load(w) \/ Source(w) \/ Target(w) \/ CheckRunning(w) \/ CheckReserved(w)
               \/ Meter(w)
      BY <2>3 DEF Load, Source, Target, CheckRunning, CheckReserved, Meter, store
    <2>4. CASE Drain(w) \/ Fill(w) \/ Undo(w) \/ Bill(w)
      BY <2>4 DEF Drain, Fill, Undo, Bill
    <2> QED
      BY <1>2, <2>1, <2>2, <2>3, <2>4 DEF Worker, Execute
  <1>3. ASSUME NEW c \in Clients, Request(c), ~ScheduleInsert(c) PROVE DOMAIN jobs' = DOMAIN jobs
    <2>1. CASE CancelSave(c)
      BY <1>1, <2>1 DEF CancelSave
    <2>2. CASE ~CancelSave(c)
      BY <1>3, <2>2 DEF Request, ScheduleSource, ScheduleTarget, ScheduleRunning,
                        ScheduleReserved, CancelRead, Step, store
    <2> QED
      BY <2>1, <2>2
  <1>4. CASE PauseNext
    BY <1>1, <1>4 DEF PauseNext
  <1>5. CASE \/ Scheduler \/ (\E q \in Pumps : ServicePump(q)) \/ RainAlert
             \/ (\E p \in Ponds : ReportLevel(p))
    BY <1>5 DEF Scheduler, PollDue, Dispatch, ServicePump, RainAlert, ReportLevel, store
  <1>6. CASE Signal \/ Restart \/ Tick \/ UNCHANGED vars
    BY <1>6 DEF Signal, Restart, Tick, vars, store
  <1> QED
    BY <1>2, <1>3, <1>4, <1>5, <1>6 DEF Next

\* A step that moves no brine and leaves in flight what is.
LEMMA BalanceStays ==
  ASSUME TypeOK, RowsOnward, UNCHANGED <<content, history>>,
         \A w \in Workers : /\ InFlight(w)' <=> InFlight(w)
                            /\ InFlight(w) => wk'[w].job = wk[w].job
  PROVE  UNCHANGED <<Balance, Moved, Gone>>
  <1>1. \A p \in Ponds : SameFloat(p)
    BY DEF SameFloat
  <1>2. \A p \in Ponds : OnTheWay(p)' = OnTheWay(p)
    BY <1>1, FloatStays
  <1>3. Balance' = Balance
    BY <1>2 DEF Balance
  <1>4. Moved' = Moved
    BY DEF Moved, history
  <1>5. Gone' = Gone
    BY DEF Gone, history
  <1> QED
    BY <1>3, <1>4, <1>5

LEMMA StaysAtWork ==
  ASSUME TypeOK, RowsOnward, UNCHANGED <<content, history>>, NEW w \in Workers, OthersStay(w),
         InFlight(w)' <=> InFlight(w), InFlight(w) => wk'[w].job = wk[w].job
  PROVE  UNCHANGED <<Balance, Moved, Gone>>
  <1>1. \A v \in Workers : /\ InFlight(v)' <=> InFlight(v)
                           /\ InFlight(v) => wk'[v].job = wk[v].job
    BY DEF OthersStay, InFlight
  <1> QED
    BY <1>1, BalanceStays

\* A volume in flight belongs to an open order that its source covers.
LEMMA InFlightIsOpen ==
  ASSUME TypeOK, Clear, NEW w \in Workers, ProgressInv(w), InFlight(w)
  PROVE  /\ wk[w].job \in Ledger!Open /\ Bookings[wk[w].job] = Order(w)
         /\ OnTheWay(Order(w).from) = Order(w).vol
         /\ Balance[Order(w).from] >= Order(w).vol + Keep[Order(w).from]
  <1> DEFINE j == wk[w].job
             o == Order(w)
  <1>1. wk[w].pc \in Midway /\ Underway(w)
    BY DEF InFlight, Midway, Underway
  <1>2. j \in DOMAIN jobs /\ j \in JobIds /\ o.from \in Ponds /\ o.vol \in Nat
    BY <1>1, OrderType DEF Midway
  <1>3. Bookings[j] = o
    BY <1>2 DEF Bookings, Order
  <1>4. Record(w, j, 1, 0) /\ \A v \in Workers \ {w} : Record(v, j, 0, 0)
    BY <1>1 DEF ProgressInv, Clear, Solo
  <1>5. j \notin Moved
    BY <1>4 DEF Record, Moved
  <1>6. j \notin Gone
    BY <1>4 DEF Gone, Record
  <1>7. o.from \in Held(w)
    BY DEF InFlight, Held
  <1>8. OnTheWay(o.from) = o.vol
    BY <1>2, <1>7, HeldAlone, OneOnTheWay DEF Clear, Volume
  <1>9. content[o.from] = wk[w].from - o.vol /\ wk[w].from >= o.vol + Keep[o.from]
    BY <1>1 DEF Clear, Known, Knows
  <1>10. wk[w].from \in Int /\ Keep[o.from] \in Nat
    BY <1>2, LevelsAssumption DEF TypeOK, WorkerType, WorkerRec
  <1>11. Balance[o.from] = content[o.from] + o.vol
    BY <1>2, <1>8 DEF Balance
  <1>12. Balance[o.from] >= o.vol + Keep[o.from]
    BY <1>2, <1>9, <1>10, <1>11
  <1>13. j \in Ledger!Open
    BY <1>2, <1>5, <1>6 DEF Ledger!Open, Bookings
  <1> QED
    BY <1>3, <1>8, <1>12, <1>13

\* Lowering the source: the volume is in flight and still counts there.
LEMMA DrainStep ==
  ASSUME TypeOK, TypeOK', RowsOnward, Clear, NEW w \in Workers, ProgressInv(w), Drain(w)
  PROVE  UNCHANGED <<Bookings, Balance, Moved, Gone>>
  <1> DEFINE j == wk[w].job
             o == Order(w)
  <1>1. wk[w].pc = "drain" /\ ~InFlight(w) /\ DOMAIN jobs' = DOMAIN jobs
    BY DEF Drain, At, InFlight
  <1>2. OthersStay(w)
    BY WorkerAlone DEF Worker, Execute
  <1>3. CASE Goto(w, "fail") /\ UNCHANGED <<content, drained>>
    <2>1. ~InFlight(w)'
      BY <1>3, GotoAt DEF InFlight
    <2>2. UNCHANGED <<content, history>>
      BY <1>3 DEF Drain, history
    <2> QED
      BY <1>1, <1>2, <2>1, <2>2, StaysAtWork, RowsStay
  <1>4. CASE /\ content' = [content EXCEPT ![Order(w).from] = wk[w].from - Order(w).vol]
             /\ drained' = [drained EXCEPT ![w][wk[w].job] = @ + 1]
             /\ Goto(w, "fill")
    <2>1. j \in JobIds /\ o.from \in Ponds /\ o.vol \in Nat
      BY <1>1, OrderType
    <2>2. wk'[w].pc = "fill" /\ wk'[w].job = j
      BY <1>4, GotoAt
    <2>3. Order(w)' = o /\ InFlight(w)'
      BY <1>1, <2>2, OrderKept DEF InFlight
    <2>4. ASSUME NEW p \in Ponds PROVE Balance'[p] = Balance[p]
      <3>1. CASE p = o.from
        <4>1. Balance[p] = content[p] + Volume(w, p) /\ Balance'[p] = content'[p] + Volume(w, p)'
          BY <1>1, <1>2, <3>1, BalanceHeld DEF Held, Clear
        <4>2. Volume(w, p) = 0 /\ Volume(w, p)' = o.vol
          BY <1>1, <2>3, <3>1 DEF Volume
        <4>3. content[p] \in Int /\ wk[w].from = content[p]
          BY <1>1, <3>1 DEF Clear, Known, Knows, TypeOK, LevelType
        <4>4. content'[p] = content[p] - o.vol
          BY <1>4, <3>1, <4>3 DEF TypeOK, LevelType
        <4> QED
          BY <2>1, <4>1, <4>2, <4>3, <4>4
      <3>2. CASE p # o.from
        <4>1. content'[p] = content[p]
          BY <1>4, <3>2 DEF TypeOK, LevelType
        <4> QED
          BY <1>1, <1>2, <2>3, <3>2, <4>1, BalanceElse
      <3> QED
        BY <3>1, <3>2
    <2>5. Balance' = Balance
      BY <2>4, BalanceSame
    <2>6. Moved' = Moved
      BY <1>4 DEF Drain, Moved
    <2>7. ASSUME NEW k \in JobIds PROVE k \in Gone' <=> k \in Gone
      <3>1. CASE k = j
        <4>1. Record(w, j, 0, 0) /\ \A v \in Workers \ {w} : Record(v, j, 0, 0)
          BY <1>1 DEF ProgressInv, BeforeDrain, Clear, Solo, Underway
        <4>2. \A v \in Workers \ {w} : drained'[v][j] = 0 /\ filled'[v][j] = 0
          BY <1>4, <4>1 DEF Drain, Record, TypeOK, HistoryType
        <4>3. j \notin Gone
          BY <4>1 DEF Gone, Record
        <4>4. j \notin Gone'
          BY <2>2, <2>3, <4>2 DEF Gone
        <4> QED
          BY <3>1, <4>3, <4>4
      <3>2. CASE k # j
        <4>1. \A v \in Workers : drained'[v][k] = drained[v][k] /\ filled'[v][k] = filled[v][k]
          BY <1>4, <2>1, <3>2 DEF Drain, TypeOK, HistoryType
        <4>2. \A v \in Workers :
                (InFlight(v) /\ wk[v].job = k)' <=> (InFlight(v) /\ wk[v].job = k)
          BY <1>2, <2>2, <3>2 DEF OthersStay, InFlight
        <4> QED
          BY <4>1, <4>2 DEF Gone
      <3> QED
        BY <3>1, <3>2
    <2>8. Gone' = Gone
      BY <2>7 DEF Gone
    <2> QED
      BY <1>1, <2>5, <2>6, <2>8, RowsStay
  <1> QED
    BY <1>3, <1>4 DEF Drain

\* Raising the target: the order is moved, all of it, at once.
LEMMA FillStep ==
  ASSUME TypeOK, TypeOK', RowsOnward, Clear, NEW w \in Workers, ProgressInv(w), Fill(w)
  PROVE  UNCHANGED <<Bookings, Balance, Moved, Gone>> \/ Ledger!Next
  <1> DEFINE j == wk[w].job
             o == Order(w)
  <1>1. wk[w].pc = "fill" /\ InFlight(w) /\ DOMAIN jobs' = DOMAIN jobs
    BY DEF Fill, At, InFlight
  <1>2. OthersStay(w)
    BY WorkerAlone DEF Worker, Execute
  <1>3. CASE Goto(w, "undo") /\ UNCHANGED <<content, filled>>
    <2>1. InFlight(w)' /\ wk'[w].job = wk[w].job
      BY <1>3, GotoAt DEF InFlight
    <2>2. UNCHANGED <<content, history>>
      BY <1>3 DEF Fill, history
    <2> QED
      BY <1>1, <1>2, <2>1, <2>2, StaysAtWork, RowsStay
  <1>4. CASE /\ content' = [content EXCEPT ![Order(w).to] = wk[w].to + Order(w).vol]
             /\ filled' = [filled EXCEPT ![w][wk[w].job] = @ + 1]
             /\ Goto(w, "running")
    <2>1. /\ j \in JobIds /\ o.from \in Ponds /\ o.to \in Ponds /\ o.from # o.to
          /\ o.vol \in Nat
      BY <1>1, OrderType, OrdersAssumption
    <2>2. ~InFlight(w)' /\ o.from \in Held(w) /\ o.to \in Held(w)
      BY <1>1, <1>4, GotoAt DEF InFlight, Held
    <2>3. /\ j \in Ledger!Open /\ Bookings[j] = o
          /\ Balance[o.from] >= o.vol + Keep[o.from]
      BY <1>1, InFlightIsOpen
    <2>4. ASSUME NEW p \in Ponds
          PROVE  Balance'[p] = IF p = o.from THEN Balance[p] - o.vol
                               ELSE IF p = o.to THEN Balance[p] + o.vol
                               ELSE Balance[p]
      <3>1. /\ content[p] \in Int
            /\ content'[p] = IF p = o.to THEN content[p] + o.vol ELSE content[p]
        <4>1. wk[w].to = content[o.to]
          BY <1>1 DEF Clear, Known, Knows
        <4> QED
          BY <1>4, <4>1 DEF TypeOK, LevelType
      <3>2. CASE p \in {o.from, o.to}
        <4>1. Balance[p] = content[p] + Volume(w, p) /\ Balance'[p] = content'[p] + Volume(w, p)'
          BY <1>2, <2>2, <3>2, BalanceHeld DEF Clear
        <4>2. Volume(w, p)' = 0 /\ Volume(w, p) = IF o.from = p THEN o.vol ELSE 0
          BY <1>1, <2>2 DEF Volume
        <4> QED
          BY <2>1, <3>1, <3>2, <4>1, <4>2
      <3>3. CASE p \notin {o.from, o.to}
        BY <1>2, <2>2, <3>1, <3>3, BalanceElse
      <3> QED
        BY <3>2, <3>3
    <2>5. Balance' = [Balance EXCEPT ![o.from] = @ - o.vol, ![o.to] = @ + o.vol]
      <3>1. /\ DOMAIN Balance = Ponds /\ Balance = [p \in Ponds |-> Balance[p]]
            /\ Balance' = [p \in Ponds |-> Balance'[p]]
        BY DEF Balance
      <3> HIDE DEF o
      <3> QED
        BY <2>1, <2>4, <3>1
    <2>6. Moved' = Moved \cup {j}
      <3>1. filled[w][j] = 0 /\ \A v \in Workers, k \in JobIds \ {j} : filled'[v][k] = filled[v][k]
        BY <1>1, <1>4, <2>1 DEF ProgressInv, Midway, Record, TypeOK, HistoryType
      <3>2. filled'[w][j] = 1
        BY <1>4, <2>1, <3>1 DEF TypeOK, HistoryType
      <3> QED
        BY <2>1, <3>1, <3>2 DEF Moved
    <2>7. Gone' = Gone
      <3>1. Record(w, j, 1, 0) /\ \A v \in Workers \ {w} : Record(v, j, 0, 0)
        BY <1>1 DEF ProgressInv, Midway, Clear, Solo, Underway
      <3>2. drained' = drained /\ filled'[w][j] = 1
        BY <1>4, <2>1, <3>1 DEF Fill, Record, TypeOK, HistoryType
      <3>3. /\ \A v \in Workers \ {w} : filled'[v][j] = filled[v][j]
            /\ \A v \in Workers, k \in JobIds \ {j} : filled'[v][k] = filled[v][k]
        BY <1>4, <2>1 DEF TypeOK, HistoryType
      <3>4. ASSUME NEW k \in JobIds PROVE k \in Gone' <=> k \in Gone
        <4>1. CASE k = j
          <5>1. j \notin Gone
            BY <1>1, <3>1 DEF Gone, Record
          <5>2. j \notin Gone'
            BY <3>1, <3>2, <3>3 DEF Gone, Record
          <5> QED
            BY <4>1, <5>1, <5>2
        <4>2. CASE k # j
          <5>1. \A v \in Workers :
                  (InFlight(v) /\ wk[v].job = k)' <=> (InFlight(v) /\ wk[v].job = k)
            BY <1>2, <2>2, <4>2 DEF OthersStay, InFlight
          <5> QED
            BY <3>2, <3>3, <4>2, <5>1 DEF Gone
        <4> QED
          BY <4>1, <4>2
      <3> QED
        BY <3>4 DEF Gone
    <2>8. Ledger!Move(j)
      BY <1>1, <2>3, <2>5, <2>6, <2>7, RowsStay DEF Ledger!Move
    <2> QED
      BY <2>3, <2>8 DEF Ledger!Next
  <1> QED
    BY <1>3, <1>4 DEF Fill

\* The sums of the ledger are the sums of this module.
LEMMA LedgerSum ==
  ASSUME NEW f
  PROVE  Ledger!SumFunction(f) = SumFunction(f)
  BY DEF Ledger!SumFunction, Ledger!SumFunctionOnSet, Ledger!FoldFunctionOnSet,
         Ledger!MapThenFoldSet, SumFunction, SumFunctionOnSet, FoldFunctionOnSet, MapThenFoldSet

LEMMA BalanceType ==
  ASSUME TypeOK, NEW p \in Ponds
  PROVE  Balance[p] \in Int
  <1> DEFINE f == [w \in Afloat(p) |-> Order(w).vol]
  <1>1. IsFiniteSet(Afloat(p)) /\ DOMAIN f = Afloat(p)
    BY FiniteAssumption, FS_Subset DEF Afloat
  <1>2. \A w \in Afloat(p) : f[w] \in Int
    BY OrderType DEF Afloat, InFlight
  <1>3. OnTheWay(p) = SumFunctionOnSet(f, Afloat(p))
    BY <1>1 DEF OnTheWay, SumFunction
  <1> HIDE DEF f
  <1>4. OnTheWay(p) \in Int
    BY <1>1, <1>2, <1>3, SumsOfEquals
  <1> QED
    BY <1>4 DEF Balance, TypeOK, LevelType

\* What happens when the volumes of some workers, F, are given up at once.
LEMMA GiveUp ==
  ASSUME TypeOK, TypeOK', RowsOnward, Clear, \A w \in Workers : ProgressInv(w),
         UNCHANGED <<content, history>>, DOMAIN jobs' = DOMAIN jobs,
         NEW F \in SUBSET Workers, F # {}, \A w \in F : InFlight(w) /\ ~InFlight(w)',
         \A w \in Workers \ F : /\ InFlight(w)' <=> InFlight(w)
                                /\ InFlight(w) => wk'[w].job = wk[w].job
  PROVE  Ledger!Next
  <1> DEFINE S == {wk[w].job : w \in F}
             Of(p) == {k \in S : Bookings[k].from = p}
  <1>1. ASSUME NEW w \in F
        PROVE  /\ wk[w].job \in Ledger!Open /\ Bookings[wk[w].job] = Order(w)
               /\ OnTheWay(Order(w).from) = Order(w).vol
               /\ Balance[Order(w).from] >= Order(w).vol + Keep[Order(w).from]
               /\ Order(w).from \in Ponds /\ Order(w).vol \in Int
               /\ Record(w, wk[w].job, 1, 0) /\ wk[w].job \in JobIds
    BY <1>1, InFlightIsOpen, OrderType DEF InFlight, ProgressInv, Midway
  <1>2. S \in SUBSET Ledger!Open /\ S # {}
    BY <1>1
  <1>3. ASSUME NEW w \in F, NEW v \in Workers, InFlight(v), Order(v).from = Order(w).from
        PROVE  v = w
    BY <1>3 DEF Clear, Clash, Held, InFlight
  <1>4. ASSUME NEW w \in F PROVE Ledger!Taken(S, Order(w).from) = Order(w).vol
    <2>1. Of(Order(w).from) = {wk[w].job}
      BY <1>1, <1>3
    <2>2. [k \in Of(Order(w).from) |-> Bookings[k].vol] = [k \in {wk[w].job} |-> Order(w).vol]
      BY <1>1, <2>1
    <2>3. SumFunction([k \in {wk[w].job} |-> Order(w).vol]) = Order(w).vol
      BY <1>1, SumOfOne
    <2>4. SumFunction([k \in Of(Order(w).from) |-> Bookings[k].vol]) = Order(w).vol
      BY <2>2, <2>3
    <2> QED
      BY <2>4, LedgerSum DEF Ledger!Taken
  <1>5. ASSUME NEW p \in Ponds, \A w \in F : Order(w).from # p PROVE Ledger!Taken(S, p) = 0
    <2>1. Of(p) = {}
      BY <1>1, <1>5
    <2>2. [k \in Of(p) |-> Bookings[k].vol] = [k \in {} |-> 0]
      BY <2>1
    <2> QED
      BY <2>2, SumOfNone, LedgerSum DEF Ledger!Taken
  <1>6. ASSUME NEW p \in Ponds, NEW w \in F, Order(w).from = p PROVE OnTheWay(p)' = 0
    <2>1. ASSUME NEW v \in Workers, InFlight(v)', Order(v)'.from = p PROVE FALSE
      <3>1. v \in Workers \ F /\ InFlight(v) /\ wk'[v].job = wk[v].job
        BY <2>1
      <3>2. Order(v)' = Order(v)
        BY <3>1, OrderKept DEF InFlight
      <3> QED
        BY <1>3, <1>6, <2>1, <3>1, <3>2
    <2>2. Afloat(p)' = {}
      BY <2>1 DEF Afloat
    <2>3. [x \in Afloat(p)' |-> Order(x)'.vol] = [x \in {} |-> 0]
      BY <2>2
    <2> QED
      BY <2>3, SumOfNone DEF OnTheWay
  <1>7. ASSUME NEW p \in Ponds PROVE Balance'[p] = Balance[p] - Ledger!Taken(S, p)
    <2>1. CASE \E w \in F : Order(w).from = p
      <3>1. PICK w \in F : Order(w).from = p
        BY <2>1
      <3>2. OnTheWay(p) = Order(w).vol /\ OnTheWay(p)' = 0 /\ Order(w).vol \in Int
        BY <1>1, <1>6, <3>1
      <3>3. Balance[p] = content[p] + OnTheWay(p) /\ Balance'[p] = content[p] + OnTheWay(p)'
        BY DEF Balance
      <3>4. Ledger!Taken(S, p) = Order(w).vol /\ content[p] \in Int
        BY <1>4, <3>1 DEF TypeOK, LevelType
      <3> HIDE DEF S
      <3> QED
        BY <3>2, <3>3, <3>4
    <2>2. CASE \A w \in F : Order(w).from # p
      <3>1. SameFloat(p)
        <4> SUFFICES ASSUME NEW v \in Workers
                     PROVE  /\ InFlight(v) /\ Order(v).from = p
                                 => InFlight(v)' /\ wk'[v].job = wk[v].job
                            /\ InFlight(v)' /\ Order(v)'.from = p
                                 => InFlight(v) /\ wk'[v].job = wk[v].job
          BY DEF SameFloat
        <4> QED
          BY <2>2
      <3>2. OnTheWay(p)' = OnTheWay(p)
        BY <3>1, FloatStays
      <3>3. Balance[p] = content[p] + OnTheWay(p) /\ Balance'[p] = content[p] + OnTheWay(p)'
        BY DEF Balance
      <3>4. Ledger!Taken(S, p) = 0
        BY <1>5, <2>2
      <3>5. Balance[p] \in Int
        BY BalanceType
      <3> HIDE DEF S
      <3> QED
        BY <3>2, <3>3, <3>4, <3>5
    <2> QED
      BY <2>1, <2>2
  <1>8. Moved' = Moved
    BY DEF Moved, history
  <1>9. Gone' = Gone \cup S
    BY <1>1 DEF Gone, Record, history
  <1>10. \A k \in S : Balance[Bookings[k].from] >=
                        Ledger!Taken(S, Bookings[k].from) + Keep[Bookings[k].from]
    <2> SUFFICES ASSUME NEW w \in F
                 PROVE  Balance[Order(w).from] >= Ledger!Taken(S, Order(w).from) + Keep[Order(w).from]
      BY <1>1
    <2>1. Ledger!Taken(S, Order(w).from) = Order(w).vol
      BY <1>4
    <2> HIDE DEF S
    <2> QED
      BY <1>1, <2>1
  <1>11. Balance' = [p \in Ponds |-> Balance[p] - Ledger!Taken(S, p)]
    BY <1>7 DEF Balance
  <1>12. Ledger!Lose(S)
    BY <1>8, <1>9, <1>10, <1>11, RowsStay DEF Ledger!Lose
  <1> QED
    BY <1>2, <1>12 DEF Ledger!Next

\* Putting the source back undoes the drain; if that fails the volume is lost.
LEMMA UndoStep ==
  ASSUME TypeOK, TypeOK', RowsOnward, Clear, \A v \in Workers : ProgressInv(v),
         NEW w \in Workers, Undo(w)
  PROVE  UNCHANGED <<Bookings, Balance, Moved, Gone>> \/ Ledger!Next
  <1> DEFINE j == wk[w].job
             o == Order(w)
  <1>1. wk[w].pc = "undo" /\ InFlight(w) /\ DOMAIN jobs' = DOMAIN jobs /\ ~InFlight(w)'
    BY GotoAt DEF Undo, At, InFlight
  <1>2. OthersStay(w)
    BY WorkerAlone DEF Worker, Execute
  <1>3. CASE UNCHANGED <<content, drained>>
    <2>1. UNCHANGED <<content, history>>
      BY <1>3 DEF Undo, history
    <2>2. {w} \in SUBSET Workers /\ {w} # {} /\ \A v \in {w} : InFlight(v) /\ ~InFlight(v)'
      BY <1>1
    <2>3. \A v \in Workers \ {w} : /\ InFlight(v)' <=> InFlight(v)
                                   /\ InFlight(v) => wk'[v].job = wk[v].job
      BY <1>2 DEF OthersStay, InFlight
    <2> QED
      BY <1>1, <2>1, <2>2, <2>3, GiveUp
  <1>4. CASE /\ content' = [content EXCEPT ![Order(w).from] = wk[w].from]
             /\ drained' = [drained EXCEPT ![w][wk[w].job] = @ - 1]
    <2>1. j \in JobIds /\ o.from \in Ponds /\ o.vol \in Nat /\ wk[w].from \in Int
      BY <1>1, OrderType DEF TypeOK, WorkerType, WorkerRec
    <2>2. ASSUME NEW p \in Ponds PROVE Balance'[p] = Balance[p]
      <3>1. CASE p = o.from
        <4>1. Balance[p] = content[p] + Volume(w, p) /\ Balance'[p] = content'[p] + Volume(w, p)'
          BY <1>1, <1>2, <3>1, BalanceHeld DEF Held, Clear
        <4>2. Volume(w, p)' = 0 /\ Volume(w, p) = o.vol
          BY <1>1, <3>1 DEF Volume
        <4>3. content[p] \in Int /\ content[p] = wk[w].from - o.vol
          BY <1>1, <3>1 DEF Clear, Known, Knows, Midway, TypeOK, LevelType
        <4>4. content'[p] = wk[w].from
          BY <1>4, <3>1, <4>3 DEF TypeOK, LevelType
        <4> QED
          BY <2>1, <4>1, <4>2, <4>3, <4>4
      <3>2. CASE p # o.from
        <4>1. content'[p] = content[p]
          BY <1>4, <3>2 DEF TypeOK, LevelType
        <4> QED
          BY <1>1, <1>2, <3>2, <4>1, BalanceElse
      <3> QED
        BY <3>1, <3>2
    <2>3. Balance' = Balance
      BY <2>2, BalanceSame
    <2>4. Moved' = Moved
      BY DEF Undo, Moved
    <2>5. ASSUME NEW k \in JobIds PROVE k \in Gone' <=> k \in Gone
      <3>1. Record(w, j, 1, 0) /\ filled' = filled /\ \A v \in Workers \ {w} : Record(v, j, 0, 0)
        BY <1>1 DEF ProgressInv, Midway, Undo, Clear, Solo, Underway
      <3>2. CASE k = j
        <4>1. drained'[w][j] = 0 /\ \A v \in Workers \ {w} : drained'[v][j] = drained[v][j]
          BY <1>4, <2>1, <3>1 DEF Record, TypeOK, HistoryType
        <4>2. j \notin Gone
          BY <1>1, <3>1 DEF Gone, Record
        <4>3. j \notin Gone'
          BY <3>1, <4>1 DEF Gone, Record
        <4> QED
          BY <3>2, <4>2, <4>3
      <3>3. CASE k # j
        <4>1. \A v \in Workers : drained'[v][k] = drained[v][k]
          BY <1>4, <2>1, <3>3 DEF TypeOK, HistoryType
        <4>2. \A v \in Workers :
                (InFlight(v) /\ wk[v].job = k)' <=> (InFlight(v) /\ wk[v].job = k)
          BY <1>1, <1>2, <3>3 DEF OthersStay, InFlight
        <4> QED
          BY <3>1, <4>1, <4>2 DEF Gone
      <3> QED
        BY <3>2, <3>3
    <2>6. Gone' = Gone
      BY <2>5 DEF Gone
    <2> QED
      BY <1>1, <2>3, <2>4, <2>6, RowsStay
  <1> QED
    BY <1>3, <1>4 DEF Undo

\* The other steps of a worker move nothing.
LEMMA OtherWork ==
  ASSUME TypeOK, RowsOnward, NEW w \in Workers, Worker(w), ~Drain(w), ~Fill(w), ~Undo(w)
  PROVE  UNCHANGED <<Balance, Moved, Gone, content, history>>
  <1>1. UNCHANGED <<content, history>>
    <2>1. CASE Take(w) \/ Quit(w)
      BY <2>1 DEF Take, Quit, store, history
    <2>2. CASE \/ Load(w) \/ Claim(w) \/ Source(w) \/ Target(w) \/ CheckRunning(w)
               \/ CheckReserved(w) \/ Meter(w) \/ Bill(w) \/ Finish(w) \/ Fail(w)
      BY <2>2 DEF Load, Claim, Source, Target, CheckRunning, CheckReserved, Meter, Bill, Finish,
                  Fail, store, history
    <2> QED
      BY <2>1, <2>2 DEF Worker, Execute
  <1>2. ~InFlight(w) /\ ~InFlight(w)'
    <2>1. CASE Take(w)
      <3>1. wk[w].pc = "idle" /\ wk'[w].pc = "load"
        BY <2>1, BecomeAt DEF Take, IdleWorker, At
      <3> QED
        BY <3>1 DEF InFlight
    <2>4. CASE Quit(w)
      <3>1. wk[w].pc = "idle" /\ wk'[w].pc = "exited"
        BY <2>4, GotoAt DEF Quit, At
      <3> QED
        BY <3>1 DEF InFlight
    <2>2. CASE Load(w) \/ Claim(w) \/ Bill(w) \/ Finish(w) \/ Fail(w)
      BY <2>2, GotoAt, ReleaseAt DEF Load, Claim, Bill, Finish, Fail, At, InFlight
    <2>3. CASE Source(w) \/ Target(w) \/ CheckRunning(w) \/ CheckReserved(w) \/ Meter(w)
      BY <2>3, SourceAt, TargetAt, CheckRunningAt, CheckReservedAt, MeterAt DEF InFlight
    <2> QED
      BY <2>1, <2>2, <2>3, <2>4 DEF Worker, Execute
  <1> QED
    BY <1>1, <1>2, WorkerAlone, StaysAtWork

\* Accepting an order enters it.
LEMMA InsertStep ==
  ASSUME TypeOK, RowsOnward, NEW c \in Clients, ScheduleInsert(c)
  PROVE  Ledger!Next
  <1>1. UNCHANGED <<Balance, Moved, Gone>>
    <2>1. wk' = wk /\ UNCHANGED <<content, history>>
      BY DEF ScheduleInsert, history
    <2> QED
      BY <2>1, BalanceStays DEF InFlight
  <1>2. PICK j \in JobIds \ DOMAIN jobs :
          jobs' = [k \in DOMAIN jobs \cup {j} |->
                     IF k = j THEN [order |-> cl[c].order, status |-> "pending"] ELSE jobs[k]]
    BY DEF ScheduleInsert
  <1>3. cl[c].order \in Orders
    BY DEF ScheduleInsert, TypeOK, ClientType, ClientPc
  <1>4. Bookings' = [k \in DOMAIN Bookings \cup {j} |->
                       IF k = j THEN cl[c].order ELSE Bookings[k]]
    BY <1>2 DEF Bookings
  <1>5. Ledger!Book(j, cl[c].order)
    BY <1>1, <1>2, <1>4 DEF Ledger!Book, Bookings
  <1> QED
    BY <1>2, <1>3, <1>5 DEF Ledger!Next

\* A reading of a pond that nobody holds resets its content.
LEMMA ReadingStep ==
  ASSUME TypeOK, RowsOnward, NEW p \in Ponds, BooksReading(p),
         \A w \in Workers : p \notin Held(w)
  PROVE  Ledger!Next
  <1>1. /\ UNCHANGED <<jobs, wk, history>> /\ content'[p] \in Levels /\ content'[p] \in Int
        /\ \A q \in Ponds \ {p} : content'[q] = content[q]
    BY ReadingWrites
  <1>2. \A q \in Ponds : OnTheWay(q)' = OnTheWay(q)
    BY <1>1, FloatStays DEF SameFloat, InFlight, Order
  <1>3. OnTheWay(p) = 0
    <2>1. Afloat(p) = {}
      BY DEF Afloat, InFlight, Held
    <2>2. [w \in Afloat(p) |-> Order(w).vol] = [w \in {} |-> 0]
      BY <2>1
    <2> QED
      BY <2>2, SumOfNone DEF OnTheWay
  <1>4. Balance'[p] = content'[p] /\ \A q \in Ponds \ {p} : Balance'[q] = Balance[q]
    BY <1>1, <1>2, <1>3 DEF Balance
  <1>5. Balance' = [Balance EXCEPT ![p] = Balance'[p]]
    <2>1. DOMAIN Balance = Ponds /\ Balance' = [q \in Ponds |-> Balance'[q]]
      BY DEF Balance
    <2> QED
      BY <1>4, <2>1
  <1>6. UNCHANGED <<Bookings, Moved, Gone>>
    BY <1>1 DEF Bookings, Moved, Gone, InFlight, history
  <1>7. Ledger!Measure(p)
    BY <1>1, <1>4, <1>5, <1>6 DEF Ledger!Measure
  <1> QED
    BY <1>7 DEF Ledger!Next

LEMMA RestartLoses ==
  ASSUME TypeOK, TypeOK', RowsOnward, Clear, \A w \in Workers : ProgressInv(w), Restart
  PROVE  Ledger!Next \/ UNCHANGED <<Bookings, Balance, Moved, Gone>>
  <1> DEFINE F == {w \in Workers : InFlight(w)}
  <1>1. UNCHANGED <<content, history>> /\ DOMAIN jobs' = DOMAIN jobs
    BY RestartStep DEF store
  <1>2. \A w \in Workers : ~InFlight(w)'
    BY RestartStep DEF IdleWorker, InFlight
  <1>3. CASE F = {}
    <2>1. \A w \in Workers : ~InFlight(w)
      BY <1>3
    <2> QED
      BY <1>1, <1>2, <2>1, BalanceStays, RowsStay
  <1>4. CASE F # {}
    <2>1. /\ F \in SUBSET Workers /\ \A w \in F : InFlight(w) /\ ~InFlight(w)'
          /\ \A w \in Workers \ F : ~InFlight(w) /\ ~InFlight(w)'
      BY <1>2
    <2> HIDE DEF F
    <2> QED
      BY <1>1, <1>4, <2>1, GiveUp
  <1> QED
    BY <1>3, <1>4

LEMMA LedgerStep ==
  ASSUME TypeOK, TypeOK', Inductive, BooksInv, [BooksNext]_books, ~crossed'
  PROVE  Ledger!Next \/ UNCHANGED <<Bookings, Balance, Moved, Gone>>
  <1>1. RowsOnward /\ [Next]_vars
    BY StepKinds, RowStep
  <1>2. Clear /\ \A w \in Workers : ProgressInv(w)
    BY NotCrossed DEF Inductive
  <1>3. CASE \E p \in Ponds : BooksReading(p)
    <2>1. PICK p \in Ponds : BooksReading(p)
      BY <1>3
    <2>2. \A w \in Workers : p \notin Held(w)
      BY <2>1, ReadingsCross DEF ReadingAlone
    <2> QED
      BY <1>1, <2>1, <2>2, ReadingStep
  <1>4. ASSUME NEW w \in Workers, Worker(w)
        PROVE  Ledger!Next \/ UNCHANGED <<Bookings, Balance, Moved, Gone>>
    <2>1. CASE Drain(w)
      BY <1>1, <1>2, <2>1, DrainStep
    <2>2. CASE Fill(w)
      BY <1>1, <1>2, <2>2, FillStep
    <2>3. CASE Undo(w)
      BY <1>1, <1>2, <2>3, UndoStep
    <2>4. CASE ~Drain(w) /\ ~Fill(w) /\ ~Undo(w)
      <3>1. UNCHANGED <<Balance, Moved, Gone>>
        BY <1>1, <1>4, <2>4, OtherWork
      <3>2. DOMAIN jobs' = DOMAIN jobs \/ \E c \in Clients : ScheduleInsert(c)
        BY <1>1, WhoBooks
      <3> QED
        BY <1>1, <3>1, <3>2, InsertStep, RowsStay
    <2> QED
      BY <2>1, <2>2, <2>3, <2>4
  <1>5. CASE Restart
    BY <1>1, <1>2, <1>5, RestartLoses
  <1>6. CASE UNCHANGED <<content, wk, history>>
    <2>1. UNCHANGED <<Balance, Moved, Gone>>
      BY <1>1, <1>6, BalanceStays DEF InFlight
    <2>2. DOMAIN jobs' = DOMAIN jobs \/ \E c \in Clients : ScheduleInsert(c)
      BY <1>1, WhoBooks
    <2> QED
      BY <1>1, <2>1, <2>2, InsertStep, RowsStay
  <1> QED
    BY <1>3, <1>4, <1>5, <1>6, StepKinds, WhoSteps

LEMMA LedgerInit ==
  ASSUME Init, TypeOK
  PROVE  Ledger!Init
  <1>1. \A w \in Workers : ~InFlight(w)
    BY DEF Init, IdleWorker, InFlight
  <1>2. ASSUME NEW p \in Ponds PROVE Balance[p] = InitContent[p]
    <2>1. Afloat(p) = {}
      BY <1>1 DEF Afloat
    <2>2. [w \in Afloat(p) |-> Order(w).vol] = [w \in {} |-> 0]
      BY <2>1
    <2>3. OnTheWay(p) = 0
      BY <2>2, SumOfNone DEF OnTheWay
    <2> QED
      BY <2>3, LevelsAssumption DEF Init, Balance
  <1>3. Balance = InitContent
    <2>1. Balance = [p \in Ponds |-> Balance[p]]
      BY DEF Balance
    <2> QED
      BY <1>2, <2>1, LevelsAssumption
  <1>4. Bookings \in [{} -> Orders]
    BY DEF Init, Bookings
  <1>5. Moved = {} /\ Gone = {}
    BY DEF Init, Moved, Gone
  <1> QED
    BY <1>3, <1>4, <1>5 DEF Ledger!Init

\* Until a transfer is crossed the component implements the abstract ledger, with any
\* number of workers and readings: every order moves as a whole and once, or not at
\* all, or is lost by a failure in the middle.
THEOREM LedgerIsKept == BooksSpec => KeepsLedger
  <1>1. BooksInit /\ TypeOK => Ledger!Init
    BY LedgerInit DEF BooksInit
  <1>2. TypeOK /\ TypeOK' /\ Inductive /\ BooksInv /\ [BooksNext]_books
          => [~crossed' => Ledger!Next]_<<Bookings, Balance, Moved, Gone>>
    BY LedgerStep
  <1> QED
    BY <1>1, <1>2, BooksRefine, TypeCorrect, InductiveHolds, BooksInvHolds, PTL
    DEF BooksSpec, KeepsLedger

-----------------------------------------------------------------------------
\* The balance.

Even == SumFunction(content) + AllMissing = SumFunction(InitContent) + measured

\* One pond written: the total changes by as much.
LEMMA OneLevel ==
  ASSUME TypeOK, NEW p \in Ponds, NEW v \in Int, content' = [content EXCEPT ![p] = v]
  PROVE  /\ SumFunction(content) \in Int
         /\ SumFunction(content') = (SumFunction(content) - content[p]) + v
  <1> DEFINE f == content
             g == content'
  <1>1. /\ DOMAIN f = Ponds /\ DOMAIN g = Ponds /\ g[p] = v
        /\ \A x \in Ponds : f[x] \in Int
        /\ \A x \in Ponds \ {p} : g[x] = f[x]
    BY DEF TypeOK, LevelType
  <1> HIDE DEF f, g
  <1>2. /\ SumFunctionOnSet(f, Ponds) \in Int
        /\ SumFunctionOnSet(g, Ponds) = SumFunctionOnSet(f, Ponds) - f[p] + g[p]
    BY <1>1, FiniteAssumption, SumChanged
  <1>3. SumFunction(f) = SumFunctionOnSet(f, Ponds) /\ SumFunction(g) = SumFunctionOnSet(g, Ponds)
    BY <1>1 DEF SumFunction
  <1>4. f[p] \in Int
    BY <1>1
  <1>5. SumFunction(f) \in Int /\ SumFunction(g) = (SumFunction(f) - f[p]) + v
    BY <1>1, <1>2, <1>3, <1>4
  <1> QED
    BY <1>5 DEF f, g

\* What w owes for j is the only debt that changes, by d.
OwesMore(w, j, d) ==
  /\ Missing(w, j)' = Missing(w, j) + d
  /\ \A v \in Workers, i \in JobIds : <<v, i>> # <<w, j>> => Missing(v, i)' = Missing(v, i)

LEMMA MissingType ==
  ASSUME TypeOK, NEW v \in Workers, NEW i \in JobIds
  PROVE  Missing(v, i) \in Int
  <1>1. i \in DOMAIN jobs => jobs[i].order.vol \in Int
    BY OrdersAssumption DEF TypeOK, TableType, JobRow
  <1>2. drained[v][i] \in Int /\ filled[v][i] \in Int
    BY DEF TypeOK, HistoryType
  <1>3. drained[v][i] - filled[v][i] \in Int
    BY <1>2
  <1> QED
    BY <1>1, <1>3 DEF Missing

LEMMA DebtsType ==
  ASSUME TypeOK
  PROVE  AllMissing \in Int
  <1> DEFINE K == Workers \X JobIds
             f == [k \in K |-> Missing(k[1], k[2])]
  <1>1. IsFiniteSet(K) /\ DOMAIN f = K
    BY FiniteAssumption, FS_Product
  <1>2. \A x \in K : f[x] \in Int
    BY MissingType
  <1>3. AllMissing = SumFunction(f)
    BY DEF AllMissing
  <1> HIDE DEF f, K
  <1> QED
    BY <1>1, <1>2, <1>3, SumsOfEquals DEF SumFunction

LEMMA StartType == SumFunction(InitContent) \in Int
  <1>1. DOMAIN InitContent = Ponds /\ \A p \in Ponds : InitContent[p] \in Int
    BY LevelsAssumption
  <1> QED
    BY <1>1, FiniteAssumption, SumsOfEquals DEF SumFunction

\* One debt changed: so does the sum of all of them.
LEMMA OneDebt ==
  ASSUME TypeOK, NEW w \in Workers, NEW j \in JobIds, NEW d \in Int,
         OwesMore(w, j, d)
  PROVE  /\ AllMissing \in Int
         /\ AllMissing' = AllMissing + d
  <1> DEFINE K == Workers \X JobIds
             f == [k \in K |-> Missing(k[1], k[2])]
             g == [k \in K |-> Missing(k[1], k[2])']
             y == <<w, j>>
  <1>1. \A v \in Workers, i \in JobIds : Missing(v, i) \in Int
    BY MissingType
  <1>2. \A x \in K : f[x] \in Int
    BY <1>1
  <1>3. y \in K /\ f[y] = Missing(w, j) /\ g[y] = Missing(w, j)'
    OBVIOUS
  <1>4. \A x \in K \ {y} : g[x] = f[x]
    <2> SUFFICES ASSUME NEW x \in K \ {y} PROVE g[x] = f[x]
      OBVIOUS
    <2>1. PICK v \in Workers, i \in JobIds : x = <<v, i>>
      OBVIOUS
    <2>2. Missing(v, i)' = Missing(v, i)
      BY <2>1 DEF OwesMore
    <2>3. f[x] = Missing(v, i) /\ g[x] = Missing(v, i)'
      BY <2>1
    <2> QED
      BY <2>2, <2>3
  <1>5. f[y] \in Int /\ g[y] = f[y] + d /\ g[y] \in Int
    BY <1>1, <1>3 DEF OwesMore
  <1>6. IsFiniteSet(K)
    BY FiniteAssumption, FS_Product
  <1>7. DOMAIN f = K /\ DOMAIN g = K
    OBVIOUS
  <1>8. AllMissing = SumFunction(f) /\ AllMissing' = SumFunction(g)
    BY DEF AllMissing
  <1> HIDE DEF f, g, K, y
  <1>9. /\ SumFunctionOnSet(f, K) \in Int
        /\ SumFunctionOnSet(g, K) = SumFunctionOnSet(f, K) - f[y] + g[y]
    BY <1>2, <1>3, <1>4, <1>5, <1>6, SumChanged
  <1>10. AllMissing = SumFunctionOnSet(f, K) /\ AllMissing' = SumFunctionOnSet(g, K)
    BY <1>7, <1>8 DEF SumFunction
  <1> QED
    BY <1>5, <1>9, <1>10

\* What a pond gives is missing from then on, what it gets is missing no more.
LEMMA GiveAndTake ==
  ASSUME TypeOK, Even, NEW w \in Workers, NEW j \in JobIds,
         NEW p \in Ponds, NEW v \in Int, content' = [content EXCEPT ![p] = v],
         NEW d \in Int, v = content[p] - d, OwesMore(w, j, d), measured' = measured
  PROVE  Even'
  <1>1. AllMissing \in Int /\ AllMissing' = AllMissing + d
    BY OneDebt
  <1>2. /\ SumFunction(content) \in Int
        /\ SumFunction(content') = (SumFunction(content) - content[p]) + v
    BY OneLevel
  <1>3. content[p] \in Int
    BY DEF TypeOK, LevelType
  <1>4. SumFunction(content') = SumFunction(content) - d
    BY <1>2, <1>3
  <1>5. SumFunction(content') + AllMissing' = SumFunction(content) + AllMissing
    BY <1>1, <1>2, <1>4
  <1> QED
    BY <1>5 DEF Even

\* A step that touches neither levels nor records: new orders owe nothing.
LEMMA EvenStays ==
  ASSUME TypeOK, TypeOK', RowsOnward, Even, \A w \in Workers : ProgressInv(w),
         UNCHANGED <<content, history, measured>>
  PROVE  Even'
  <1>1. ASSUME NEW w \in Workers, NEW j \in JobIds PROVE Missing(w, j)' = Missing(w, j)
    <2>1. CASE j \in DOMAIN jobs
      BY <2>1 DEF RowsOnward, Missing, history
    <2>2. CASE j \notin DOMAIN jobs
      <3>1. Record(w, j, 0, 0)
        BY <2>2 DEF ProgressInv
      <3>2. j \in DOMAIN jobs' => jobs'[j].order.vol \in Int
        BY OrdersAssumption DEF TypeOK, TableType, JobRow
      <3>3. Missing(w, j)' = 0
        BY <3>1, <3>2 DEF Missing, Record, history
      <3> QED
        BY <2>2, <3>3 DEF Missing
    <2> QED
      BY <2>1, <2>2
  <1>2. [k \in Workers \X JobIds |-> Missing(k[1], k[2])']
          = [k \in Workers \X JobIds |-> Missing(k[1], k[2])]
    BY <1>1
  <1>3. AllMissing' = AllMissing
    BY <1>2 DEF AllMissing
  <1> QED
    BY <1>3 DEF Even

LEMMA EvenInit ==
  ASSUME BooksInit
  PROVE  Even
  <1> DEFINE K == Workers \X JobIds
             f == [k \in K |-> Missing(k[1], k[2])]
  <1>1. IsFiniteSet(K) /\ DOMAIN f = K
    BY FiniteAssumption, FS_Product
  <1>2. \A x \in K : f[x] = 0
    BY DEF BooksInit, Init, Missing
  <1>3. AllMissing = SumFunction(f)
    BY DEF AllMissing
  <1>4. AllMissing = 0
    <2> HIDE DEF f, K
    <2> QED
      BY <1>1, <1>2, <1>3, SumOfZeros DEF SumFunction
  <1>5. SumFunction(InitContent) \in Int
    BY StartType
  <1> QED
    BY <1>4, <1>5 DEF BooksInit, Init, Even

LEMMA EvenWorker ==
  ASSUME TypeOK, TypeOK', RowsOnward, Clear, \A w \in Workers : ProgressInv(w), Even,
         NEW w \in Workers, Drain(w) \/ Fill(w) \/ Undo(w), measured' = measured
  PROVE  Even'
  <1>1. PICK j, o : j = wk[w].job /\ o = Order(w)
    OBVIOUS
  <1>2. /\ ProgressInv(w) /\ Knows(w)
        /\ drained \in [Workers -> [JobIds -> Int]] /\ filled \in [Workers -> [JobIds -> Int]]
    BY DEF Clear, Known, TypeOK, HistoryType
  <1>3. /\ j \in DOMAIN jobs /\ j \in JobIds /\ jobs' = jobs
        /\ o.from \in Ponds /\ o.to \in Ponds /\ o.vol \in Nat
        /\ wk[w].from \in Int /\ wk[w].to \in Int
        /\ content[o.from] \in Int /\ content[o.to] \in Int
    BY <1>1, OrderType
    DEF Drain, Fill, Undo, At, TypeOK, LevelType, WorkerType, WorkerRec
  <1>4. CASE Drain(w)
    <2>1. CASE UNCHANGED <<content, drained>>
      BY <1>4, <2>1, EvenStays DEF Drain, history
    <2>2. CASE /\ content' = [content EXCEPT ![Order(w).from] = wk[w].from - Order(w).vol]
               /\ drained' = [drained EXCEPT ![w][wk[w].job] = @ + 1]
      <3>1. Record(w, j, 0, 0) /\ wk[w].from = content[o.from]
        BY <1>2, <1>4, <1>1 DEF Drain, At, ProgressInv, Knows, BeforeDrain
      <3>2. drained'[w][j] = 1 /\ filled' = filled
        BY <1>2, <1>3, <1>4, <1>1, <2>2, <3>1 DEF Record, Drain
      <3>3. Missing(w, j)' = Missing(w, j) + o.vol
        <4>1. /\ Missing(w, j) = (drained[w][j] - filled[w][j]) * o.vol
              /\ Missing(w, j)' = (drained'[w][j] - filled'[w][j]) * o.vol
          BY <1>3, <1>4, <1>1 DEF Missing, Order
        <4>2. (0 - 0) * o.vol = 0 /\ (1 - 0) * o.vol = o.vol
          BY <1>3
        <4> QED
          BY <1>3, <1>4, <3>1, <3>2, <4>1, <4>2 DEF Record
      <3>4. OwesMore(w, j, o.vol)
        BY <1>2, <1>3, <1>4, <1>1, <2>2, <3>2, <3>3 DEF Missing, OwesMore
      <3>5. wk[w].from - o.vol \in Int /\ wk[w].from - o.vol = content[o.from] - o.vol
        BY <1>3, <1>4, <3>1
      <3>6. content' = [content EXCEPT ![o.from] = wk[w].from - o.vol]
        BY <1>1, <2>2
      <3>7. PICK v : v = wk[w].from - o.vol
        OBVIOUS
      <3>8. v \in Int /\ v = content[o.from] - o.vol /\ content' = [content EXCEPT ![o.from] = v]
        BY <3>5, <3>6, <3>7
      <3>9. o.vol \in Int /\ j \in JobIds /\ o.from \in Ponds
        BY <1>3
      <3> QED
        BY <3>4, <3>8, <3>9, GiveAndTake
    <2> QED
      BY <1>4, <2>1, <2>2 DEF Drain
  <1>5. CASE Fill(w)
    <2>1. CASE UNCHANGED <<content, filled>>
      BY <1>5, <2>1, EvenStays DEF Fill, history
    <2>2. CASE /\ content' = [content EXCEPT ![Order(w).to] = wk[w].to + Order(w).vol]
               /\ filled' = [filled EXCEPT ![w][wk[w].job] = @ + 1]
      <3>1. Record(w, j, 1, 0) /\ wk[w].to = content[o.to]
        BY <1>2, <1>5, <1>1 DEF Fill, At, ProgressInv, Knows, Midway
      <3>2. filled'[w][j] = 1 /\ drained' = drained
        BY <1>2, <1>3, <1>5, <1>1, <2>2, <3>1 DEF Record, Fill
      <3>3. Missing(w, j)' = Missing(w, j) + (-o.vol)
        <4>1. /\ Missing(w, j) = (drained[w][j] - filled[w][j]) * o.vol
              /\ Missing(w, j)' = (drained'[w][j] - filled'[w][j]) * o.vol
          BY <1>3, <1>5, <1>1 DEF Missing, Order
        <4>2. (1 - 0) * o.vol = o.vol /\ (1 - 1) * o.vol = 0
          BY <1>3
        <4> QED
          BY <1>3, <1>5, <3>1, <3>2, <4>1, <4>2 DEF Record
      <3>4. OwesMore(w, j, -o.vol)
        BY <1>2, <1>3, <1>5, <1>1, <2>2, <3>2, <3>3 DEF Missing, OwesMore
      <3>5. /\ wk[w].to + o.vol \in Int /\ -o.vol \in Int
            /\ wk[w].to + o.vol = content[o.to] - (-o.vol)
        BY <1>3, <1>5, <3>1
      <3>6. content' = [content EXCEPT ![o.to] = wk[w].to + o.vol]
        BY <1>1, <2>2
      <3> QED
        BY <1>3, <1>5, <3>4, <3>5, <3>6, GiveAndTake
    <2> QED
      BY <1>5, <2>1, <2>2 DEF Fill
  <1>6. CASE Undo(w)
    <2>1. CASE UNCHANGED <<content, drained>>
      BY <1>6, <2>1, EvenStays DEF Undo, history
    <2>2. CASE /\ content' = [content EXCEPT ![Order(w).from] = wk[w].from]
               /\ drained' = [drained EXCEPT ![w][wk[w].job] = @ - 1]
      <3>1. Record(w, j, 1, 0) /\ content[o.from] = wk[w].from - o.vol
        BY <1>2, <1>6, <1>1 DEF Undo, At, ProgressInv, Knows, Midway
      <3>2. drained'[w][j] = 0 /\ filled' = filled
        BY <1>2, <1>3, <1>6, <1>1, <2>2, <3>1 DEF Record, Undo
      <3>3. Missing(w, j)' = Missing(w, j) + (-o.vol)
        <4>1. /\ Missing(w, j) = (drained[w][j] - filled[w][j]) * o.vol
              /\ Missing(w, j)' = (drained'[w][j] - filled'[w][j]) * o.vol
          BY <1>3, <1>6, <1>1 DEF Missing, Order
        <4>2. (1 - 0) * o.vol = o.vol /\ (0 - 0) * o.vol = 0
          BY <1>3
        <4> QED
          BY <1>3, <1>6, <3>1, <3>2, <4>1, <4>2 DEF Record
      <3>4. OwesMore(w, j, -o.vol)
        BY <1>2, <1>3, <1>6, <1>1, <2>2, <3>2, <3>3 DEF Missing, OwesMore
      <3>5. -o.vol \in Int /\ wk[w].from = content[o.from] - (-o.vol)
        BY <1>3, <1>6, <3>1
      <3>6. content' = [content EXCEPT ![o.from] = wk[w].from]
        BY <1>1, <2>2
      <3> QED
        BY <1>3, <1>6, <3>4, <3>5, <3>6, GiveAndTake
    <2> QED
      BY <1>6, <2>1, <2>2 DEF Undo
  <1> QED
    BY <1>4, <1>5, <1>6

LEMMA EvenStep ==
  ASSUME TypeOK, TypeOK', Inductive, BooksInv, [BooksNext]_books, ~crossed', Even
  PROVE  Even'
  <1>1. RowsOnward /\ [Next]_vars
    BY StepKinds, RowStep
  <1>2. Clear /\ \A w \in Workers : ProgressInv(w)
    BY NotCrossed DEF Inductive
  <1>3. CASE Quiet
    <2>1. measured' = measured
      BY <1>3 DEF Quiet
    <2> QED
      BY <1>1, <1>2, <1>3, <2>1, WhoMoves, EvenWorker, EvenStays
  <1>4. CASE \E p \in Ponds : BooksReading(p)
    <2>1. PICK p \in Ponds : BooksReading(p)
      BY <1>4
    <2>2. PICK x \in Int : content' = [content EXCEPT ![p] = x]
      BY <2>1, ReadingWrites, LevelsAssumption
    <2>3. /\ SumFunction(content) \in Int
          /\ SumFunction(content') = (SumFunction(content) - content[p]) + x
      BY <2>2, OneLevel
    <2>4. /\ UNCHANGED <<jobs, history>> /\ content'[p] = x /\ content[p] \in Int
          /\ measured' = measured + (content'[p] - content[p])
      BY <2>1, <2>2, ReadingWrites DEF TypeOK, LevelType
    <2>5. AllMissing' = AllMissing
      BY <2>4 DEF AllMissing, Missing, history
    <2>6. AllMissing \in Int /\ SumFunction(InitContent) \in Int /\ measured \in Int
      BY DebtsType, StartType DEF BooksInv
    <2> QED
      BY <2>3, <2>4, <2>5, <2>6 DEF Even
  <1> QED
    BY <1>3, <1>4, StepKinds

\* Until a transfer is crossed brine is neither made nor lost: what the ponds lack
\* against the readings is what left a source for an order and did not arrive.
THEOREM BooksAreBalanced == BooksSpec => []BooksBalance
  <1> DEFINE I == ~crossed => Even
  <1>1. BooksInit => I
    BY EvenInit
  <1>2. TypeOK /\ TypeOK' /\ Inductive /\ BooksInv /\ I /\ [BooksNext]_books => I'
    <2> SUFFICES ASSUME TypeOK, TypeOK', Inductive, BooksInv, I, [BooksNext]_books, ~crossed'
                 PROVE  Even'
      OBVIOUS
    <2>1. ~crossed
      BY NotCrossed
    <2> QED
      BY <2>1, EvenStep
  <1>3. I => BooksBalance
    BY DEF BooksBalance, Even
  <1> HIDE DEF I
  <1> QED
    BY <1>1, <1>2, <1>3, BooksRefine, TypeCorrect, InductiveHolds, BooksInvHolds, PTL DEF BooksSpec

-----------------------------------------------------------------------------
\* Pumps.

RunsOn(u) == {j \in Busy(u) : jobs[j].status = "running"}

\* What AvailableFor has found so far, for a pump that nobody has taken meanwhile.
Reserved(u) ==
  /\ \A j, k \in Busy(u) : j = k
  /\ \A c \in Checking(u) : cl[c].pc = "reserved" => RunsOn(u) = {}
  /\ \A c \in Checking(u) : cl[c].pc = "insert" => Busy(u) = {}

PumpsInv == \A u \in Pumps \ raced : Reserved(u)

\* Only ScheduleInsert adds a row.
LEMMA RowsAdded ==
  ASSUME [Next]_vars
  PROVE  \/ DOMAIN jobs' = DOMAIN jobs
         \/ \E c \in Clients : ScheduleInsert(c)
  <1>1. CASE \E w \in Workers : Worker(w)
    BY <1>1 DEF Worker, Take, Quit, Execute, Load, Claim, Source, Target, Drain, Fill, Undo,
                CheckRunning, CheckReserved, Meter, Bill, Finish, Fail, SetStatus, store
  <1>2. CASE \E c \in Clients : Request(c)
    BY <1>2 DEF Request, ScheduleSource, ScheduleTarget, ScheduleRunning, ScheduleReserved,
                Step, CancelRead, CancelSave, SetStatus, store
  <1>3. CASE Scheduler \/ RainAlert \/ PauseNext
    BY <1>3 DEF Scheduler, PollDue, Dispatch, RainAlert, PauseNext, SetStatus, store
  <1>4. CASE \/ \E p \in Ponds : ReportLevel(p)
             \/ \E p \in Pumps : ServicePump(p)
             \/ Signal \/ Restart \/ Tick \/ UNCHANGED vars
    BY <1>4 DEF ReportLevel, ServicePump, Signal, Restart, Tick, store, vars
  <1> QED
    BY <1>1, <1>2, <1>3, <1>4 DEF Next

\* A request comes to either point of the check by finding a list empty.
LEMMA CheckGoesOn ==
  ASSUME TypeOK, [Next]_vars, NEW c \in Clients, cl'[c] # cl[c], cl'[c].pc \in {"reserved", "insert"}
  PROVE  /\ cl'[c].order = cl[c].order
         /\ \/ cl'[c].pc = "reserved" /\ RunningOn(cl[c].order.pump) = {}
            \/ /\ cl'[c].pc = "insert" /\ cl[c].pc = "reserved"
               /\ ReservedOn(cl[c].order.pump) = {}
  <1> cl \in [Clients -> ClientRec]
    BY DEF TypeOK, ClientType
  <1>1. CASE \E d \in Clients : Request(d)
    <2>1. PICK d \in Clients : Request(d)
      BY <1>1
    <2>2. d = c
      BY <2>1 DEF Request, ScheduleSource, ScheduleTarget, ScheduleRunning, ScheduleReserved,
                  ScheduleInsert, Step, CancelRead, CancelSave
    <2>3. ~ScheduleSource(c)
      BY DEF ScheduleSource, IdleClient, ClientRec
    <2>4. ~ScheduleTarget(c)
      BY DEF ScheduleTarget, Step, IdleClient, ClientRec
    <2>5. ~ScheduleInsert(c) /\ ~CancelSave(c)
      BY DEF ScheduleInsert, CancelSave, IdleClient, ClientRec
    <2>6. ~CancelRead(c)
      BY DEF CancelRead, IdleClient, ClientRec
    <2>7. ScheduleRunning(c) \/ ScheduleReserved(c)
      BY <2>1, <2>2, <2>3, <2>4, <2>5, <2>6 DEF Request
    <2> QED
      BY <2>7 DEF ScheduleRunning, ScheduleReserved, Step, IdleClient, ClientRec
  <1>2. CASE Restart
    BY <1>2 DEF Restart, Reboot, IdleClient
  <1>3. CASE cl' = cl
    BY <1>3
  <1>4. CASE \E w \in Workers : Worker(w)
    BY <1>4 DEF Worker, Take, Quit, Execute, Load, Claim, Source, Target, Drain, Fill, Undo,
                CheckRunning, CheckReserved, Meter, Bill, Finish, Fail
  <1> QED
    BY <1>1, <1>2, <1>3, <1>4
    DEF Next, Scheduler, PollDue, Dispatch, RainAlert, PauseNext, ReportLevel, ServicePump,
        Signal, Tick, vars

\* A pump that is not raced in this step keeps its jobs, and none of them is claimed while
\* it is being checked.
LEMMA NotOvertaken ==
  ASSUME TypeOK, [Next]_vars, NEW u, ~Overtaken(u)
  PROVE  /\ Busy(u)' \cap DOMAIN jobs \subseteq Busy(u)
         /\ Checking(u)' # {} => Busy(u)' \subseteq Busy(u) /\ RunsOn(u)' \subseteq RunsOn(u)
  <1>1. \A j \in DOMAIN jobs : j \in DOMAIN jobs' /\ jobs'[j].order = jobs[j].order
    BY RowStep DEF RowsOnward
  <1>2. \A j \in Busy(u)' \cap DOMAIN jobs : jobs'[j] = jobs[j] \/ j \in Unfinished
    BY DEF Overtaken
  <1>3. \A j \in Busy(u)' \cap DOMAIN jobs : j \in Busy(u)
    BY <1>1, <1>2 DEF Busy, Unfinished, InStatus
  <1>4. ASSUME Checking(u)' # {}
        PROVE  \A j \in Busy(u)' : j \in DOMAIN jobs /\ jobs'[j] = jobs[j]
    BY <1>4 DEF Overtaken
  <1> QED
    BY <1>3, <1>4 DEF RunsOn

LEMMA PumpKept ==
  ASSUME TypeOK, [Next]_vars, NEW u \in Pumps, ~Overtaken(u), Reserved(u)
  PROVE  Reserved(u)'
  <1>1. \A j, k \in Busy(u)' : j = k
    <2>1. CASE DOMAIN jobs' = DOMAIN jobs
      <3>1. Busy(u)' \subseteq DOMAIN jobs
        BY <2>1 DEF Busy, Unfinished, InStatus
      <3> QED
        BY <3>1, NotOvertaken DEF Reserved
    <2>2. CASE \E c \in Clients : ScheduleInsert(c)
      <3>1. PICK c \in Clients : ScheduleInsert(c)
        BY <2>2
      <3>2. PICK i \in JobIds \ DOMAIN jobs :
              jobs' = [k \in DOMAIN jobs \cup {i} |->
                         IF k = i THEN [order |-> cl[c].order, status |-> "pending"] ELSE jobs[k]]
        BY <3>1 DEF ScheduleInsert
      <3>3. Busy(u)' \subseteq Busy(u) \cup {i}
        <4>1. Busy(u)' \subseteq DOMAIN jobs \cup {i}
          BY <3>2 DEF Busy, Unfinished, InStatus
        <4> QED
          BY <4>1, NotOvertaken
      <3>4. i \in Busy(u)' => Busy(u) = {}
        <4>1. i \in Busy(u)' => cl[c].order.pump = u
          BY <3>2 DEF Busy
        <4>2. cl[c].pc = "insert"
          BY <3>1 DEF ScheduleInsert
        <4> QED
          BY <4>1, <4>2 DEF Reserved, Checking
      <3> QED
        BY <3>3, <3>4 DEF Reserved
    <2> QED
      BY <2>1, <2>2, RowsAdded
  <1>2. ASSUME NEW c \in Checking(u)'
        PROVE  /\ cl'[c].pc = "reserved" => RunsOn(u)' = {}
               /\ cl'[c].pc = "insert" => Busy(u)' = {}
    <2>1. Busy(u)' \subseteq Busy(u) /\ RunsOn(u)' \subseteq RunsOn(u)
      BY <1>2, NotOvertaken
    <2>2. c \in Clients /\ cl'[c].pc \in {"reserved", "insert"} /\ cl'[c].order.pump = u
      BY <1>2 DEF Checking
    <2>3. CASE cl'[c] = cl[c]
      BY <2>1, <2>2, <2>3 DEF Reserved, Checking
    <2>4. CASE cl'[c] # cl[c] /\ cl'[c].pc = "reserved"
      <3>1. RunningOn(u) = {}
        BY <2>2, <2>4, CheckGoesOn
      <3>2. RunsOn(u) = {}
        BY <3>1 DEF RunsOn, Busy, RunningOn, Unfinished, InStatus
      <3> QED
        BY <2>1, <2>4, <3>2
    <2>5. CASE cl'[c] # cl[c] /\ cl'[c].pc = "insert"
      <3>1. cl[c].pc = "reserved" /\ cl[c].order.pump = u /\ ReservedOn(u) = {}
        BY <2>2, <2>5, CheckGoesOn
      <3>2. RunsOn(u) = {}
        BY <2>2, <3>1 DEF Reserved, Checking
      <3>3. ASSUME NEW j \in Busy(u) PROVE FALSE
        <4>1. j \in DOMAIN jobs /\ jobs[j].status = "pending"
          BY <3>2, <3>3 DEF RunsOn, Busy, Unfinished, InStatus
        <4>2. jobs[j].order.pump = u /\ jobs[j].order.sched <= Horizon
          BY <3>3 DEF Busy
        <4>3. jobs[j].order.sched \in Nat /\ now \in Nat /\ Horizon \in Nat
          BY <4>1, OrdersAssumption, BoundsAssumption DEF TypeOK, TableType, EnvType, JobRow
        <4>4. jobs[j].order.sched <= now + Horizon
          BY <4>2, <4>3
        <4>5. j \in ReservedOn(u)
          BY <4>1, <4>2, <4>4 DEF ReservedOn, Pending, InStatus
        <4> QED
          BY <3>1, <4>5
      <3> QED
        BY <2>1, <2>5, <3>3
    <2> QED
      BY <2>2, <2>3, <2>4, <2>5
  <1> QED
    BY <1>1, <1>2 DEF Reserved

\* A pump has one unfinished job unless it was raced, whatever the number of requests,
\* workers, failures and restarts.
THEOREM PumpsServeOneJob == BooksSpec => []OneJobUnlessRaced
  <1>1. BooksInit => PumpsInv
    <2> SUFFICES ASSUME BooksInit PROVE PumpsInv
      OBVIOUS
    <2>1. \A u \in Pumps : Busy(u) = {}
      BY DEF BooksInit, Init, Busy, Unfinished, InStatus
    <2> QED
      BY <2>1 DEF PumpsInv, Reserved, RunsOn
  <1>2. TypeOK /\ PumpsInv /\ [BooksNext]_books => PumpsInv'
    <2> SUFFICES ASSUME TypeOK, PumpsInv, [BooksNext]_books, NEW u \in Pumps \ raced'
                 PROVE  Reserved(u)'
      BY DEF PumpsInv
    <2>1. [Next]_vars
      BY StepKinds
    <2>2. CASE BooksNext
      <3>1. u \notin raced /\ ~Overtaken(u)
        BY <2>2 DEF BooksNext
      <3> QED
        BY <2>1, <3>1, PumpKept DEF PumpsInv
    <2>3. CASE UNCHANGED books
      BY <2>3 DEF books, vars, store, PumpsInv, Reserved, Busy, RunsOn, Checking, Unfinished,
                  InStatus
    <2> QED
      BY <2>2, <2>3
  <1>3. PumpsInv => OneJobUnlessRaced
    BY DEF PumpsInv, Reserved, OneJobUnlessRaced
  <1> QED
    BY <1>1, <1>2, <1>3, BooksRefine, TypeCorrect, PTL DEF BooksSpec
=============================================================================
