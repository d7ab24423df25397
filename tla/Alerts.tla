------------------------------- MODULE Alerts -------------------------------
(***************************************************************************)
(* The alert table, the evaluator that raises and clears alerts, and the   *)
(* operators who acknowledge and close them (internal/service/alert.go,    *)
(* internal/store/alert.go, the evaluator loop of internal/engine).        *)
(*                                                                         *)
(* A round of the evaluator is a chain of store calls with operators'      *)
(* calls between them: the ponds one by one, then the pumps, then the      *)
(* overdue tasks.  What the round still has to do is a list.  A severity   *)
(* belongs to its kind and a message is never read: neither is modelled.   *)
(***************************************************************************)
EXTENDS Integers, Sequences

CONSTANTS
  PondList,    \* the active ponds, in the order ListPonds gives them
  StageZero,   \* the ponds of stage 0, which are never too weak
  PumpList,    \* the pumps, in the order ListPumps gives them
  Tasks,       \* the maintenance tasks
  Target,      \* the thing each task is for
  Reading,     \* what a reading may say: weak (below 3 Be), hot (45 C or more), level in cm
  LevelDrop,   \* 40 cm
  Clients,     \* concurrent API requests
  Budget,      \* bounds on the environment: see BudgetKinds
  MaxCount,    \* BOUND: counts are exact up to here
  None

\* BOUND: how many of each may happen in a behaviour.
BudgetKinds == {"measure", "field", "decide", "fault"}

Ponds == {PondList[i] : i \in DOMAIN PondList}
Pumps == {PumpList[i] : i \in DOMAIN PumpList}
Kinds == {"low_be", "high_temp", "level_drop"}
Conditions == {"well", "worn", "fault"}

\* DedupKeyOf, the subject's type being part of the subject's name.
Keys == Kinds \X Ponds
          \cup {"pump_fault", "pump_service"} \X Pumps
          \cup {"maintenance_overdue"} \X {Target[t] : t \in Tasks}

ASSUME ListsAssumption ==
  PondList \in Seq(Ponds) /\ PumpList \in Seq(Pumps)
ASSUME ReadingAssumption ==
  Reading \subseteq [weak : BOOLEAN, hot : BOOLEAN, level : Nat] /\ LevelDrop \in Nat
ASSUME BoundsAssumption == Budget \in [BudgetKinds -> Nat] /\ MaxCount \in Nat \ {0}
ASSUME NoneAssumption == None \notin Keys /\ None \notin Reading

VARIABLES
  alerts,   \* table alerts, by key
  todo,     \* what is left of the evaluator's round
  find,     \* the call in progress on the first of todo: what FindOpenByDedupKey found
  req,      \* operators' requests in flight
  latest,   \* the latest reading of each pond
  older,    \* the one before it
  aged,     \* the ponds whose latest reading is older than 8 h
  pump,     \* each pump: well, in fault, or due for service
  overdue,  \* the tasks past their due time, in the order they fell due
  left      \* what is left of Budget

env  == <<latest, older, aged, pump, overdue>>
vars == <<alerts, todo, find, req, latest, older, aged, pump, overdue, left>>

Row     == [status : {"open", "acked", "closed"}, count : 1..MaxCount,
            acked : BOOLEAN, closed : BOOLEAN]
NewRow  == [status |-> "open", count |-> 1, acked |-> FALSE, closed |-> FALSE]

IdleReq  == [pc |-> "idle", key |-> None, status |-> "acked"]
NotFound == [pc |-> "none", row |-> NewRow]

Init ==
  /\ alerts = [k \in {} |-> NewRow]
  /\ todo = <<>> /\ find = NotFound
  /\ req = [c \in Clients |-> IdleReq]
  /\ latest = [p \in Ponds |-> None] /\ older = latest
  /\ aged = {} /\ overdue = <<>>
  /\ pump = [p \in Pumps |-> "well"]
  /\ left = Budget

Spend(kind) == left[kind] > 0 /\ left' = [left EXCEPT ![kind] = @ - 1]
Fails    == Spend("fault")
Succeeds == UNCHANGED left

-----------------------------------------------------------------------------
\* The store.

Tally(n) == IF n < MaxCount THEN n + 1 ELSE n

Active(k) == k \in DOMAIN alerts /\ alerts[k].status # "closed"

\* UpdateAlertObservation writes the count computed from the row found.
Observed(k, row) == [alerts EXCEPT ![k].count = Tally(row.count)]

BugUpserted(k) == [j \in DOMAIN alerts \cup {k} |->
  IF j \notin DOMAIN alerts THEN NewRow
  ELSE IF j = k THEN [alerts[k] EXCEPT !.count = Tally(@), !.status = "open"] ELSE alerts[j]]

\* UpsertAlert: a row of that key, whatever its status, is counted.
Upserted(k) ==
  IF k \in DOMAIN alerts THEN [alerts EXCEPT ![k].count = Tally(@)]
  ELSE [j \in DOMAIN alerts \cup {k} |-> IF j = k THEN NewRow ELSE alerts[j]]

\* UpdateAlertStatus: the status and its own stamp.
Marked(k, s) ==
  [alerts EXCEPT ![k].status = s,
                 ![k].acked  = @ \/ s = "acked",
                 ![k].closed = @ \/ s = "closed"]

-----------------------------------------------------------------------------
\* The evaluator.

Item(op, x)  == [op |-> op, of |-> x, r |-> None]
Raise(kind, x) == Item("raise", <<kind, x>>)
Clear(kind, x) == Item("clear", <<kind, x>>)
Each(op, s)  == [i \in DOMAIN s |-> Item(op, s[i])]

Now(op)    == todo # <<>> /\ find.pc = "none" /\ Head(todo).op = op
Then(s)    == todo' = s \o Tail(todo)
Subject    == Head(todo).of
\* An error that evaluateOnce returns ends the round.
Abandon    == Fails /\ todo' = <<>>

\* ListPonds begins a round.
StartRound ==
  /\ todo = <<>>
  /\ todo' = Each("look", PondList) \o <<Item("pumps", None), Item("tasks", None)>>
  /\ UNCHANGED <<alerts, find, req, env, left>>

BugVerdict(p, r) ==
  IF p \in aged THEN <<Raise("low_be", p)>>
  ELSE (IF r.weak /\ p \notin StageZero THEN <<Raise("low_be", p)>>
        ELSE IF r.hot THEN <<Raise("high_temp", p)>>
        ELSE <<Clear("low_be", p), Clear("high_temp", p)>>)
       \o <<[op |-> "compare", of |-> p, r |-> r]>>

BugSilentVerdict(p, r) ==
  IF p \in aged THEN <<Raise("low_be", p)>>
  ELSE (IF r.weak /\ p \notin StageZero THEN <<Raise("low_be", p)>>
        ELSE IF r.hot THEN <<>>
        ELSE <<Clear("low_be", p), Clear("high_temp", p), Clear("level_drop", p)>>)
       \o <<[op |-> "compare", of |-> p, r |-> r]>>

\* What LatestReading calls for; the level is compared afterwards.
Verdict(p, r) ==
  IF p \in aged THEN <<Raise("low_be", p)>>
  ELSE (IF r.weak /\ p \notin StageZero THEN <<Raise("low_be", p)>>
        ELSE IF r.hot THEN <<Raise("high_temp", p)>>
        ELSE <<Clear("low_be", p), Clear("high_temp", p), Clear("level_drop", p)>>)
       \o <<[op |-> "compare", of |-> p, r |-> r]>>

Look ==
  /\ Now("look")
  /\ \/ latest[Subject] = None /\ Then(<<>>) /\ Succeeds
     \/ latest[Subject] # None /\ Then(Verdict(Subject, latest[Subject])) /\ Succeeds
     \/ Abandon
  /\ UNCHANGED <<alerts, find, req, env>>

\* previousReading: the second latest by now; an error counts as none.
Compare ==
  /\ Now("compare")
  /\ LET r == Head(todo).r
         drops == older[Subject] # None /\ r.level + LevelDrop < older[Subject].level
     IN \/ drops /\ Then(<<Raise("level_drop", Subject)>>) /\ Succeeds
        \/ ~drops /\ Then(<<>>) /\ Succeeds
        \/ Then(<<>>) /\ Fails
  /\ UNCHANGED <<alerts, find, req, env>>

PumpKind(condition) == IF condition = "fault" THEN "pump_fault" ELSE "pump_service"

\* EvaluatePumps.  A pump that is well again keeps its alerts: clearQuiet looks for the
\* three kinds a pond has, which no pump has; one such look stands for them.
CheckPumps ==
  /\ Now("pumps")
  /\ \/ /\ Then([i \in DOMAIN PumpList |->
                  LET p == PumpList[i] IN
                  IF pump[p] = "well" THEN Clear("low_be", p) ELSE Raise(PumpKind(pump[p]), p)])
        /\ Succeeds
     \/ Abandon
  /\ UNCHANGED <<alerts, find, req, env>>

\* ScanOverdue, the last of the round that raises alerts.
ScanOverdue ==
  /\ Now("tasks")
  /\ \/ /\ Then([i \in DOMAIN overdue |-> Raise("maintenance_overdue", Target[overdue[i]])])
        /\ Succeeds
     \/ Abandon
  /\ UNCHANGED <<alerts, find, req, env>>

BugFind ==
  /\ Now("raise") \/ Now("clear")
  /\ find' = [pc |-> IF Head(todo).op = "clear" THEN "close"
                    ELSE IF Active(Subject) THEN "observe" ELSE "upsert",
              row |-> IF Active(Subject) THEN alerts[Subject] ELSE NewRow]
  /\ Succeeds
  /\ UNCHANGED <<alerts, todo, req, env>>

\* FindOpenByDedupKey.  For Raise an error is the same as no open alert; clearQuiet
\* then leaves the kind alone.
Find ==
  /\ Now("raise") \/ Now("clear")
  /\ LET raising == Head(todo).op = "raise"
     IN \/ /\ Active(Subject) /\ Succeeds /\ todo' = todo
           /\ find' = [pc |-> IF raising THEN "observe" ELSE "close", row |-> alerts[Subject]]
        \/ /\ (~Active(Subject) /\ Succeeds) \/ Fails
           /\ IF raising THEN find' = [NotFound EXCEPT !.pc = "upsert"] /\ todo' = todo
                         ELSE find' = find /\ Then(<<>>)
  /\ UNCHANGED <<alerts, req, env>>

BugWrite ==
  /\ find.pc # "none"
  /\ alerts' = CASE find.pc = "observe" ->
                      [alerts EXCEPT ![Subject] = [find.row EXCEPT !.count = Tally(@)]]
                 [] find.pc = "upsert"  -> Upserted(Subject)
                 [] find.pc = "close"   -> Marked(Subject, "closed")
  /\ Succeeds
  /\ find' = NotFound /\ Then(<<>>)
  /\ UNCHANGED <<req, env>>

\* The write that follows; raiseQuiet and clearQuiet swallow its error.
Write ==
  /\ find.pc # "none"
  /\ \/ /\ alerts' = CASE find.pc = "observe" -> Observed(Subject, find.row)
                       [] find.pc = "upsert"  -> Upserted(Subject)
                       [] find.pc = "close"   -> Marked(Subject, "closed")
        /\ Succeeds
     \/ alerts' = alerts /\ Fails
  /\ find' = NotFound /\ Then(<<>>)
  /\ UNCHANGED <<req, env>>

Evaluator ==
  \/ StartRound \/ Look \/ Compare \/ CheckPumps \/ ScanOverdue \/ Find \/ Write

-----------------------------------------------------------------------------
\* Operators.

\* Acknowledge and Close: the check is on the row read here, ...
AckRead(c) ==
  /\ req[c].pc = "idle" /\ Spend("decide")
  /\ \E k \in DOMAIN alerts :
       /\ alerts[k].status = "open"
       /\ req' = [req EXCEPT ![c] = [pc |-> "save", key |-> k, status |-> "acked"]]
  /\ UNCHANGED <<alerts, todo, find, env>>

CloseRead(c) ==
  /\ req[c].pc = "idle" /\ Spend("decide")
  /\ \E k \in DOMAIN alerts :
       /\ alerts[k].status \in {"open", "acked"}
       /\ req' = [req EXCEPT ![c] = [pc |-> "save", key |-> k, status |-> "closed"]]
  /\ UNCHANGED <<alerts, todo, find, env>>

BugSettleSave(c) ==
  /\ req[c].pc = "save"
  /\ alerts' = [alerts EXCEPT ![req[c].key].status = req[c].status,
                              ![req[c].key].acked  = req[c].status = "acked",
                              ![req[c].key].closed = req[c].status = "closed"]
  /\ Succeeds
  /\ req' = [req EXCEPT ![c] = IdleReq]
  /\ UNCHANGED <<todo, find, env>>

\* ... and the status is written whatever the row has become.
SettleSave(c) ==
  /\ req[c].pc = "save"
  /\ \/ alerts' = Marked(req[c].key, req[c].status) /\ Succeeds
     \/ alerts' = alerts /\ Fails
  /\ req' = [req EXCEPT ![c] = IdleReq]
  /\ UNCHANGED <<todo, find, env>>

Operator(c) == AckRead(c) \/ CloseRead(c) \/ SettleSave(c)

-----------------------------------------------------------------------------
\* The field: readings arrive or stop arriving, pumps wear, fail and are serviced,
\* tasks fall due (see Readings and Upkeep).

Measure(p) ==
  /\ Spend("measure")
  /\ \E r \in Reading : latest' = [latest EXCEPT ![p] = r]
  /\ older' = [older EXCEPT ![p] = latest[p]]
  /\ aged' = aged \ {p}
  /\ UNCHANGED <<alerts, todo, find, req, pump, overdue>>

Age(p) ==
  /\ latest[p] # None /\ p \notin aged /\ Spend("field")
  /\ aged' = aged \cup {p}
  /\ UNCHANGED <<alerts, todo, find, req, latest, older, pump, overdue>>

Wear(p) ==
  /\ Spend("field")
  /\ \E condition \in Conditions \ {pump[p]} : pump' = [pump EXCEPT ![p] = condition]
  /\ UNCHANGED <<alerts, todo, find, req, latest, older, aged, overdue>>

\* No route starts a task, so none is completed: what is overdue stays so.
Lapse(t) ==
  /\ \A i \in DOMAIN overdue : overdue[i] # t
  /\ Spend("field")
  /\ overdue' = Append(overdue, t)
  /\ UNCHANGED <<alerts, todo, find, req, latest, older, aged, pump>>

\* The process ends between any two statements and is started again.
Restart ==
  /\ Spend("fault")
  /\ todo' = <<>> /\ find' = NotFound
  /\ req' = [c \in Clients |-> IdleReq]
  /\ UNCHANGED <<alerts, env>>

Next ==
  \/ Evaluator
  \/ \E c \in Clients : Operator(c)
  \/ \E p \in Ponds : Measure(p) \/ Age(p)
  \/ \E p \in Pumps : Wear(p)
  \/ \E t \in Tasks : Lapse(t)
  \/ Restart

Spec == Init /\ [][Next]_vars

\* The evaluator is a goroutine of the engine with a ticker; operators and the field
\* owe nothing.
FairSpec == Spec /\ WF_vars(Evaluator)

-----------------------------------------------------------------------------
(***************************************************************************)
(* Properties.                                                             *)
(***************************************************************************)

\* What a round may still have to do.
Items == [op : {"look"}, of : Ponds, r : {None}]
           \cup [op : {"compare"}, of : Ponds, r : Reading]
           \cup [op : {"pumps", "tasks"}, of : {None}, r : {None}]
           \cup [op : {"raise"}, of : Keys, r : {None}]
           \cup [op : {"clear"}, of : Kinds \X (Ponds \cup Pumps), r : {None}]

RowsType == DOMAIN alerts \subseteq Keys /\ alerts \in [DOMAIN alerts -> Row]

FindType ==
  /\ find \in [pc : {"none", "observe", "upsert", "close"}, row : Row]
  /\ find.pc # "none" =>
       /\ todo # <<>>
       /\ Head(todo).op = IF find.pc = "close" THEN "clear" ELSE "raise"
       /\ find.pc # "upsert" => Subject \in DOMAIN alerts

ReqType ==
  /\ req \in [Clients -> [pc : {"idle", "save"}, key : Keys \cup {None},
                          status : {"acked", "closed"}]]
  /\ \A c \in Clients : req[c].pc = "save" => req[c].key \in DOMAIN alerts

FieldType ==
  /\ latest \in [Ponds -> Reading \cup {None}] /\ older \in [Ponds -> Reading \cup {None}]
  /\ aged \subseteq Ponds /\ overdue \in Seq(Tasks) /\ pump \in [Pumps -> Conditions]

\* The shape of the state: every step on an alert concerns a key that exists where it
\* must, and the evaluator writes only on behalf of the first item of its list.
TypeOK ==
  /\ RowsType /\ todo \in Seq(Items) /\ FindType /\ ReqType /\ FieldType
  /\ left \in [BudgetKinds -> Nat]

\* The calls of Raise, clearQuiet, Acknowledge and Close interleave, and yet every
\* observation is counted once, no decision is lost to one, and no row opens again.
Book == INSTANCE AlertBook WITH
  book <- [k \in DOMAIN alerts |-> [status |-> alerts[k].status, count |-> alerts[k].count]]
KeepsBook == Book!Spec

\* The status agrees with the stamps, whoever wrote it last: an open alert has never
\* been decided on, an acknowledged or closed one carries the time of that decision.
StampsMatch ==
  \A k \in DOMAIN alerts :
    /\ alerts[k].status = "open" => ~alerts[k].acked /\ ~alerts[k].closed
    /\ alerts[k].status = "acked" => alerts[k].acked
    /\ alerts[k].status = "closed" => alerts[k].closed

\* No decision is forgotten: the time an alert was acknowledged survives its closing,
\* and the time it was closed survives a late acknowledgement.
StampsStay ==
  [][\A k \in DOMAIN alerts :
       /\ alerts[k].acked => alerts'[k].acked
       /\ alerts[k].closed => alerts'[k].closed]_vars

\* The keys the field calls for.
Read      == {p \in Ponds : latest[p] # None}
Weak(p)   == latest[p].weak /\ p \notin StageZero
Drops(p)  == older[p] # None /\ latest[p].level + LevelDrop < older[p].level
Wanted ==
  { <<"low_be", p>> : p \in {q \in Read : q \in aged \/ Weak(q)} }
  \cup { <<"high_temp", p>> : p \in {q \in Read \ aged : latest[q].hot /\ ~Weak(q)} }
  \cup { <<"level_drop", p>> : p \in {q \in Read \ aged : Drops(q)} }
  \cup { <<PumpKind(pump[p]), p>> : p \in {q \in Pumps : pump[q] # "well"} }
  \cup { <<"maintenance_overdue", Target[overdue[i]]>> : i \in DOMAIN overdue }

\* Once the field stays as it is, all that is wrong with it is on the books, although
\* rounds are cut short by errors and restarts.
WrongIsNoted == <>[][FALSE]_env => []<>(Wanted \subseteq DOMAIN alerts)

\* And a pond that is well, its level having stopped falling, has no reading alert left,
\* although clearing may fail and a late acknowledgement may bring a closed alert back.
Well(p) == p \in Read \ aged /\ ~latest[p].hot /\ ~Weak(p) /\ ~Drops(p)
WellIsCleared ==
  <>[][FALSE]_env =>
    <>[](\A p \in Ponds : Well(p) => \A kind \in Kinds : ~Active(<<kind, p>>))

-----------------------------------------------------------------------------
\* What the comments say and the code does not keep.

\* Raise aggregates alerts of the same key that are not closed.  The row of a closed
\* alert is counted too, and stays closed: what comes back is not raised again.
RaisedIsActive ==
  [][\A k \in DOMAIN alerts :
       alerts'[k].count # alerts[k].count => alerts'[k].status # "closed"]_vars
=============================================================================
