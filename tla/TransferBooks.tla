---------------------------- MODULE TransferBooks ----------------------------
(***************************************************************************)
(* The books of Transfer: how its ponds and jobs read as the abstract      *)
(* ledger, and the balance of the brine.  A worker computes both new       *)
(* levels from what it read before (transfer.go:119, 126), so the books    *)
(* hold exactly as long as nobody crosses it: no second transfer underway  *)
(* for the same job or on a pond whose level it holds, and no reading of   *)
(* such a pond.  Nothing in the code prevents a crossing; what this module *)
(* says is that nothing but a crossing breaks the books.  Pumps are alike: *)
(* AvailableFor is two reads, the insert is a third statement (pump.go:94, *)
(* 106, transfer.go:60), and only what happens on the pump from the first  *)
(* to the last of them can give it to two jobs.                            *)
(***************************************************************************)
EXTENDS Transfer, FiniteSets, Functions

ASSUME FiniteAssumption == IsFiniteSet(Ponds) /\ IsFiniteSet(JobIds) /\ IsFiniteSet(Workers)

VARIABLES
  crossed,   \* history: a crossing has happened
  measured,  \* history: by how much the readings have changed the levels
  raced      \* history: the pumps taken while a request was checking them

books == <<vars, crossed, measured, raced>>

-----------------------------------------------------------------------------
\* Crossings.

\* The ponds whose level w has read or written and will rely on in a later step.
Held(w) ==
  CASE wk[w].pc \in {"target", "undo"} -> {Order(w).from}
    [] wk[w].pc \in {"drain", "fill"}  -> {Order(w).from, Order(w).to}
    [] OTHER                           -> {}

Underway(w) == wk[w].pc \in BeforeDrain \cup Midway

Clash ==
  \E v, w \in Workers :
    /\ v # w
    /\ \/ Underway(v) /\ Underway(w) /\ wk[v].job = wk[w].job
       \/ Held(v) \cap Held(w) # {}

\* The requests that have read whether u runs and have yet to insert their job.
Checking(u) == {c \in Clients : cl[c].pc \in {"reserved", "insert"} /\ cl[c].order.pump = u}

\* The unfinished jobs of u that AvailableFor can see.
Unfinished == InStatus("pending") \cup InStatus("running")
Busy(u)    == {j \in Unfinished : jobs[j].order.pump = u /\ jobs[j].order.sched <= Horizon}

\* A job comes to occupy u, or is claimed, while another request is checking u; or one
\* that had been cancelled or had failed is claimed after all.
Overtaken(u) ==
  \E j \in Busy(u)' :
    /\ j \in DOMAIN jobs => jobs'[j] # jobs[j]
    /\ Checking(u)' # {} \/ j \in DOMAIN jobs \ Unfinished

BooksInit == Init /\ crossed = FALSE /\ measured = 0 /\ raced = {}

BooksReading(p) ==
  /\ ReportLevel(p)
  /\ measured' = measured + (content'[p] - content[p])
  /\ crossed' = (crossed \/ \E w \in Workers : p \in Held(w))

BooksOther ==
  /\ Next /\ left'["report"] = left["report"]
  /\ crossed' = (crossed \/ Clash')
  /\ UNCHANGED measured

BooksNext ==
  /\ (\E p \in Ponds : BooksReading(p)) \/ BooksOther
  /\ raced' = raced \cup {u \in Pumps : Overtaken(u)}

BooksSpec == BooksInit /\ [][BooksNext]_books
BooksFairSpec == BooksSpec /\ Fairness

-----------------------------------------------------------------------------
\* The reading as a ledger.

\* A worker has lowered the source and has yet to raise the target.
InFlight(w) == wk[w].pc \in {"fill", "undo"}

Afloat(p) == {w \in Workers : InFlight(w) /\ Order(w).from = p}

\* What has left the pond and may still come back, or arrive.
OnTheWay(p) == SumFunction([w \in Afloat(p) |-> Order(w).vol])

Moved == {j \in JobIds : \E w \in Workers : filled[w][j] > 0}
Gone  == {j \in JobIds : \E w \in Workers :
            drained[w][j] > filled[w][j] /\ ~(InFlight(w) /\ wk[w].job = j)}

\* A move takes effect when the target is raised; until then the volume still
\* counts at its source.
Balance  == [p \in Ponds |-> content[p] + OnTheWay(p)]
Bookings == [j \in DOMAIN jobs |-> jobs[j].order]

Ledger == INSTANCE TransferLedger WITH
  book <- Bookings, bal <- Balance, moved <- Moved, lost <- Gone

\* Transfers as executed, statement by statement, by any number of workers, with
\* failed calls, compensations, repeated ids, readings, restarts and shutdown, keep
\* the promise of the abstract ledger for as long as none has been crossed.
KeepsLedger ==
  Ledger!Init /\ [][~crossed' => Ledger!Next]_<<Bookings, Balance, Moved, Gone>>

\* Until then brine is neither made nor lost by transfers: the ponds hold what they
\* held at the start and what readings added, less the volumes that left a source
\* and did not reach a target.
Missing(w, j) ==
  IF j \in DOMAIN jobs THEN (drained[w][j] - filled[w][j]) * jobs[j].order.vol ELSE 0

AllMissing == SumFunction([k \in Workers \X JobIds |-> Missing(k[1], k[2])])

BooksBalance ==
  crossed \/ SumFunction(content) + AllMissing = SumFunction(InitContent) + measured

-----------------------------------------------------------------------------
\* A pump serves one unfinished job at a time, unless one came to occupy it while
\* another request was checking it, or a finished one was claimed: however many orders,
\* failures, cancellations and restarts there are, the check of AvailableFor is enough.
OneJobUnlessRaced == \A u \in Pumps \ raced : \A j, k \in Busy(u) : j = k
=============================================================================
