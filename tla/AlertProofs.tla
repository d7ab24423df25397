---------------------------- MODULE AlertProofs ----------------------------
(***************************************************************************)
(* Theorems of Alerts: the alert table implements AlertBook, its stamps    *)
(* match its statuses and are never lost, for any field, any number of     *)
(* operators and any budget.                                               *)
(*                                                                         *)
(* The inductive invariant adds to TypeOK the one fact that makes the      *)
(* count right: between FindOpenByDedupKey and the write, the count on the *)
(* row is still the one that was found, because operators write statuses   *)
(* only and there is one evaluator.                                        *)
(***************************************************************************)
EXTENDS Alerts, TLAPS

Counted ==
  find.pc = "observe" => alerts[Subject].count = find.row.count

IInv == TypeOK /\ Counted

-----------------------------------------------------------------------------
(***************************************************************************)
(* Lists.                                                                  *)
(***************************************************************************)

\* What a round puts in front of the rest of its list is a list again.
LEMMA ThenIsList ==
  ASSUME NEW S, NEW s \in Seq(S), NEW t \in Seq(S), t # <<>>
  PROVE  s \o Tail(t) \in Seq(S) /\ Head(t) \in S
  OBVIOUS

\* A list made by going through another one.
LEMMA MappedIsList ==
  ASSUME NEW S, NEW T, NEW s \in Seq(S), NEW f, DOMAIN f = DOMAIN s,
         f = [i \in DOMAIN s |-> f[i]], \A i \in DOMAIN s : f[i] \in T
  PROVE  f \in Seq(T)
<1>1. DOMAIN s = 1..Len(s) /\ Len(s) \in Nat
  OBVIOUS
<1>2. f \in [1..Len(s) -> T]
  BY <1>1
<1> QED
  BY <1>1, <1>2

-----------------------------------------------------------------------------
(***************************************************************************)
(* Rows: what each of the store's updates does to the table.               *)
(***************************************************************************)

LEMMA TallyType == \A n \in 1..MaxCount : Tally(n) \in 1..MaxCount
  BY BoundsAssumption DEF Tally

LEMMA NewRowType == NewRow \in Row
  BY BoundsAssumption DEF NewRow, Row

LEMMA ObservedRows ==
  ASSUME RowsType, NEW k \in DOMAIN alerts, NEW row \in Row
  PROVE  /\ Observed(k, row) \in [DOMAIN alerts -> Row]
         /\ Observed(k, row)[k] = [alerts[k] EXCEPT !.count = Tally(row.count)]
         /\ \A j \in DOMAIN alerts \ {k} : Observed(k, row)[j] = alerts[j]
  BY TallyType DEF RowsType, Observed, Row

LEMMA UpsertedRows ==
  ASSUME RowsType, NEW k \in Keys
  PROVE  /\ Upserted(k) \in [DOMAIN alerts \cup {k} -> Row]
         /\ Upserted(k)[k] = IF k \in DOMAIN alerts
                               THEN [alerts[k] EXCEPT !.count = Tally(alerts[k].count)] ELSE NewRow
         /\ \A j \in DOMAIN alerts \ {k} : Upserted(k)[j] = alerts[j]
  BY TallyType, NewRowType DEF RowsType, Upserted, Row

LEMMA MarkedRows ==
  ASSUME RowsType, NEW k \in DOMAIN alerts, NEW s \in {"acked", "closed"}
  PROVE  /\ Marked(k, s) \in [DOMAIN alerts -> Row]
         /\ Marked(k, s)[k] = [status |-> s, count |-> alerts[k].count,
                               acked |-> alerts[k].acked \/ s = "acked",
                               closed |-> alerts[k].closed \/ s = "closed"]
         /\ \A j \in DOMAIN alerts \ {k} : Marked(k, s)[j] = alerts[j]
  <1> DEFINE a == alerts[k].acked \/ s = "acked"
             b == alerts[k].closed \/ s = "closed"
             f == Marked(k, s)
  <1>1. a \in BOOLEAN /\ b \in BOOLEAN
    OBVIOUS
  <1>2. f = [alerts EXCEPT ![k].status = s, ![k].acked = a, ![k].closed = b]
    BY DEF Marked
  <1> HIDE DEF a, b
  <1>3. alerts[k] \in Row /\ DOMAIN f = DOMAIN alerts
    BY <1>2 DEF RowsType
  <1>4. \A j \in DOMAIN alerts \ {k} : f[j] = alerts[j]
    BY <1>2 DEF RowsType
  <1>5. f[k] = [status |-> s, count |-> alerts[k].count, acked |-> a, closed |-> b]
    BY <1>2, <1>3 DEF Row
  <1>6. f[k] \in Row
    BY <1>1, <1>3, <1>5 DEF Row
  <1>7. f = [j \in DOMAIN alerts |-> f[j]]
    BY <1>2
  <1>8. f \in [DOMAIN alerts -> Row]
    BY <1>3, <1>4, <1>6, <1>7 DEF RowsType
  <1> QED
    BY <1>4, <1>5, <1>8 DEF a, b

LEMMA MarkedCounts ==
  ASSUME RowsType, NEW k \in DOMAIN alerts, NEW s \in {"acked", "closed"}, NEW j \in DOMAIN alerts
  PROVE  Marked(k, s)[j].count = alerts[j].count
  BY DEF RowsType, Marked, Row

-----------------------------------------------------------------------------
(***************************************************************************)
(* The invariant.                                                          *)
(***************************************************************************)

LEMMA SpendType ==
  ASSUME TypeOK, (\E kind \in BudgetKinds : Spend(kind)) \/ Fails \/ Succeeds
  PROVE  left' \in [BudgetKinds -> Nat]
  BY DEF TypeOK, Spend, Fails, Succeeds, BudgetKinds

\* What a round has to do, whatever it finds.
LEMMA LookIsList ==
  ASSUME TypeOK, NEW p \in Ponds, latest[p] # None
  PROVE  Verdict(p, latest[p]) \in Seq(Items)
  <1> DEFINE r == latest[p]
  <1>1. r \in Reading /\ [op |-> "compare", of |-> p, r |-> r] \in Items
    BY DEF TypeOK, FieldType, Items
  <1>2. \A kind \in Kinds : Raise(kind, p) \in Items /\ Clear(kind, p) \in Items
    BY DEF Raise, Clear, Item, Items, Keys, Ponds
  <1>3. {"low_be", "high_temp", "level_drop"} \subseteq Kinds
    BY DEF Kinds
  <1> HIDE DEF r
  <1>4. /\ <<Raise("low_be", p)>> \in Seq(Items)
        /\ <<Raise("high_temp", p)>> \in Seq(Items)
        /\ <<Clear("low_be", p), Clear("high_temp", p), Clear("level_drop", p)>> \in Seq(Items)
        /\ <<[op |-> "compare", of |-> p, r |-> r]>> \in Seq(Items)
    BY <1>1, <1>2, <1>3
  <1> QED
    BY <1>4 DEF Verdict, r

LEMMA RoundIsList ==
  Each("look", PondList) \o <<Item("pumps", None), Item("tasks", None)>> \in Seq(Items)
  <1>1. \A i \in DOMAIN PondList : Item("look", PondList[i]) \in Items
    BY DEF Item, Items, Ponds
  <1>2. Each("look", PondList) \in Seq(Items)
    BY <1>1, ListsAssumption, MappedIsList DEF Each
  <1>3. Item("pumps", None) \in Items /\ Item("tasks", None) \in Items
    BY DEF Item, Items
  <1> QED
    BY <1>2, <1>3

LEMMA PumpsAreList ==
  ASSUME TypeOK
  PROVE  [i \in DOMAIN PumpList |->
            LET p == PumpList[i] IN
            IF pump[p] = "well" THEN Clear("low_be", p) ELSE Raise(PumpKind(pump[p]), p)]
           \in Seq(Items)
  <1>1. \A p \in Pumps : Clear("low_be", p) \in Items /\ Raise(PumpKind(pump[p]), p) \in Items
    BY DEF Clear, Raise, Item, Items, Kinds, Keys, PumpKind
  <1>2. \A i \in DOMAIN PumpList : PumpList[i] \in Pumps
    BY DEF Pumps
  <1> QED
    BY <1>1, <1>2, ListsAssumption, MappedIsList

LEMMA TasksAreList ==
  ASSUME TypeOK
  PROVE  [i \in DOMAIN overdue |-> Raise("maintenance_overdue", Target[overdue[i]])]
           \in Seq(Items)
  <1>1. \A t \in Tasks : Raise("maintenance_overdue", Target[t]) \in Items
    BY DEF Raise, Item, Items, Keys
  <1>2. overdue \in Seq(Tasks) /\ \A i \in DOMAIN overdue : overdue[i] \in Tasks
    BY DEF TypeOK, FieldType
  <1> QED
    BY <1>1, <1>2, MappedIsList

LEMMA InitInv == Init => IInv
  <1> SUFFICES ASSUME Init PROVE IInv
    OBVIOUS
  <1>1. RowsType /\ todo \in Seq(Items)
    BY DEF Init, RowsType
  <1>2. FindType /\ Counted
    BY NewRowType DEF Init, FindType, Counted, NotFound
  <1>3. ReqType
    BY DEF Init, ReqType, IdleReq
  <1>4. FieldType
    BY DEF Init, FieldType, Conditions
  <1> QED
    BY <1>1, <1>2, <1>3, <1>4, BoundsAssumption DEF Init, IInv, TypeOK

\* A step of the round that only changes what is left of it.
LEMMA RoundStep ==
  ASSUME IInv, find.pc = "none", todo' \in Seq(Items), Fails \/ Succeeds,
         UNCHANGED <<alerts, find, req, env>>
  PROVE  IInv'
  <1>1. left' \in [BudgetKinds -> Nat]
    BY SpendType DEF IInv
  <1>2. RowsType' /\ ReqType' /\ FieldType'
    BY DEF IInv, TypeOK, RowsType, ReqType, FieldType, env
  <1>3. FindType' /\ Counted'
    BY DEF IInv, TypeOK, FindType, Counted
  <1> QED
    BY <1>1, <1>2, <1>3 DEF IInv, TypeOK

LEMMA EmptyIsList == <<>> \in Seq(Items)
  OBVIOUS

\* The first of the list, and what a list may begin with.
LEMMA FirstItem ==
  ASSUME TypeOK, todo # <<>>
  PROVE  /\ Head(todo) \in Items
         /\ Head(todo).op \in {"look", "compare"} => Subject \in Ponds
         /\ Head(todo).op = "raise" => Subject \in Keys
         /\ \A s \in Seq(Items) : s \o Tail(todo) \in Seq(Items)
  <1>1. Head(todo) \in Items
    BY ThenIsList, EmptyIsList DEF TypeOK
  <1> QED
    BY <1>1, ThenIsList DEF TypeOK, Items, Subject

LEMMA LookInv ==
  ASSUME IInv, StartRound \/ Look \/ Compare
  PROVE  IInv'
  <1>1. CASE StartRound
    <2>1. find.pc = "none"
      BY <1>1 DEF StartRound, IInv, TypeOK, FindType
    <2> QED
      BY <1>1, <2>1, RoundIsList, RoundStep DEF StartRound, Succeeds
  <1>2. CASE Look
    <2>1. find.pc = "none" /\ todo # <<>> /\ Subject \in Ponds
      BY <1>2, FirstItem DEF Look, Now, IInv
    <2>2. latest[Subject] # None => Verdict(Subject, latest[Subject]) \in Seq(Items)
      BY <2>1, LookIsList DEF IInv
    <2>3. todo' \in Seq(Items) /\ (Fails \/ Succeeds)
      BY <1>2, <2>1, <2>2, FirstItem, EmptyIsList DEF Look, Then, Abandon, IInv
    <2> QED
      BY <1>2, <2>1, <2>3, RoundStep DEF Look
  <1>3. CASE Compare
    <2>1. find.pc = "none" /\ todo # <<>> /\ Subject \in Ponds
      BY <1>3, FirstItem DEF Compare, Now, IInv
    <2>2. <<Raise("level_drop", Subject)>> \in Seq(Items)
      BY <2>1 DEF Raise, Item, Items, Keys, Kinds
    <2>3. todo' \in Seq(Items) /\ (Fails \/ Succeeds)
      BY <1>3, <2>1, <2>2, FirstItem, EmptyIsList DEF Compare, Then, IInv
    <2> QED
      BY <1>3, <2>1, <2>3, RoundStep DEF Compare
  <1> QED
    BY <1>1, <1>2, <1>3

LEMMA ScanInv ==
  ASSUME IInv, CheckPumps \/ ScanOverdue
  PROVE  IInv'
  <1>1. CASE CheckPumps
    <2>1. find.pc = "none" /\ todo # <<>>
      BY <1>1 DEF CheckPumps, Now
    <2>2. todo' \in Seq(Items) /\ (Fails \/ Succeeds)
      BY <1>1, <2>1, PumpsAreList, FirstItem, EmptyIsList DEF CheckPumps, Then, Abandon, IInv
    <2> QED
      BY <1>1, <2>1, <2>2, RoundStep DEF CheckPumps
  <1>2. CASE ScanOverdue
    <2>1. find.pc = "none" /\ todo # <<>>
      BY <1>2 DEF ScanOverdue, Now
    <2>2. todo' \in Seq(Items) /\ (Fails \/ Succeeds)
      BY <1>2, <2>1, TasksAreList, FirstItem, EmptyIsList DEF ScanOverdue, Then, Abandon, IInv
    <2> QED
      BY <1>2, <2>1, <2>2, RoundStep DEF ScanOverdue
  <1> QED
    BY <1>1, <1>2

LEMMA FindInv ==
  ASSUME IInv, Find
  PROVE  IInv'
  <1>1. todo # <<>> /\ find.pc = "none" /\ Head(todo).op \in {"raise", "clear"}
    BY DEF Find, Now
  <1>2. UNCHANGED <<alerts, req, env>> /\ left' \in [BudgetKinds -> Nat]
    BY SpendType DEF Find, IInv
  <1>3. RowsType' /\ ReqType' /\ FieldType'
    BY <1>2 DEF IInv, TypeOK, RowsType, ReqType, FieldType, env
  <1>4. CASE Head(todo).op = "raise"
    <2>1. CASE Active(Subject) /\ find' = [pc |-> "observe", row |-> alerts[Subject]]
      <3>1. todo' = todo /\ Subject \in DOMAIN alerts /\ alerts[Subject] \in Row
        BY <1>4, <2>1 DEF Find, Active, IInv, TypeOK, RowsType
      <3>2. FindType' /\ Counted'
        BY <1>1, <1>2, <1>4, <2>1, <3>1 DEF FindType, Counted, Subject
      <3> QED
        BY <1>2, <1>3, <3>1, <3>2 DEF IInv, TypeOK
    <2>2. CASE find' = [NotFound EXCEPT !.pc = "upsert"]
      <3>1. todo' = todo
        BY <1>4 DEF Find
      <3>2. FindType' /\ Counted'
        BY <1>1, <1>4, <2>2, <3>1, NewRowType DEF FindType, Counted, NotFound
      <3> QED
        BY <1>2, <1>3, <3>1, <3>2 DEF IInv, TypeOK
    <2> QED
      BY <1>4, <2>1, <2>2 DEF Find
  <1>5. CASE Head(todo).op = "clear"
    <2>1. CASE Active(Subject) /\ find' = [pc |-> "close", row |-> alerts[Subject]] /\ todo' = todo
      <3>1. Subject \in DOMAIN alerts /\ alerts[Subject] \in Row
        BY <2>1 DEF Active, IInv, TypeOK, RowsType
      <3>2. FindType' /\ Counted'
        BY <1>1, <1>2, <1>5, <2>1, <3>1 DEF FindType, Counted, Subject
      <3> QED
        BY <1>2, <1>3, <2>1, <3>2 DEF IInv, TypeOK
    <2>2. CASE find' = find /\ Then(<<>>)
      <3>1. todo' \in Seq(Items)
        BY <1>1, <2>2, FirstItem, EmptyIsList DEF Then, IInv
      <3>2. FindType' /\ Counted'
        BY <1>1, <2>2 DEF FindType, Counted, IInv, TypeOK
      <3> QED
        BY <1>2, <1>3, <3>1, <3>2 DEF IInv, TypeOK
    <2> QED
      BY <1>5, <2>1, <2>2 DEF Find
  <1> QED
    BY <1>1, <1>4, <1>5

-----------------------------------------------------------------------------
\* What a step may do to the table.
Effect ==
  \/ UNCHANGED alerts
  \/ \E k \in DOMAIN alerts, row \in Row :
       row.count = alerts[k].count /\ alerts' = Observed(k, row)
  \/ \E k \in Keys : alerts' = Upserted(k)
  \/ \E k \in DOMAIN alerts, s \in {"acked", "closed"} : alerts' = Marked(k, s)

LEMMA EffectRows ==
  ASSUME TypeOK, Effect
  PROVE  RowsType' /\ DOMAIN alerts \subseteq DOMAIN alerts'
  <1>0. RowsType
    BY DEF TypeOK
  <1>1. CASE UNCHANGED alerts
    BY <1>0, <1>1 DEF RowsType
  <1>2. CASE \E k \in DOMAIN alerts, row \in Row : alerts' = Observed(k, row)
    BY <1>0, <1>2, ObservedRows DEF RowsType
  <1>3. CASE \E k \in Keys : alerts' = Upserted(k)
    BY <1>0, <1>3, UpsertedRows DEF RowsType
  <1>4. CASE \E k \in DOMAIN alerts, s \in {"acked", "closed"} : alerts' = Marked(k, s)
    BY <1>0, <1>4, MarkedRows DEF RowsType
  <1> QED
    BY <1>1, <1>2, <1>3, <1>4 DEF Effect

LEMMA WriteEffect ==
  ASSUME IInv, Write
  PROVE  Effect
  <1>1. /\ todo # <<>> /\ find.row \in Row
        /\ find.pc \in {"observe", "close"} => Subject \in DOMAIN alerts
        /\ find.pc = "upsert" => Subject \in Keys
    BY FirstItem DEF Write, IInv, TypeOK, FindType
  <1>2. CASE find.pc = "observe"
    BY <1>1, <1>2 DEF Write, Effect, IInv, Counted
  <1>3. CASE find.pc = "upsert"
    BY <1>1, <1>3 DEF Write, Effect
  <1>4. CASE find.pc = "close"
    BY <1>1, <1>4 DEF Write, Effect
  <1> QED
    BY <1>2, <1>3, <1>4 DEF Write, IInv, TypeOK, FindType

LEMMA WriteInv ==
  ASSUME IInv, Write
  PROVE  IInv'
  <1>1. todo # <<>> /\ UNCHANGED <<req, env>> /\ find' = NotFound /\ Then(<<>>)
    BY DEF Write, IInv, TypeOK, FindType
  <1>2. RowsType' /\ DOMAIN alerts \subseteq DOMAIN alerts'
    BY WriteEffect, EffectRows DEF IInv
  <1>3. todo' \in Seq(Items)
    BY <1>1, FirstItem, EmptyIsList DEF Then, IInv
  <1>4. FindType' /\ Counted'
    BY <1>1, NewRowType DEF FindType, Counted, NotFound
  <1>5. ReqType' /\ FieldType'
    BY <1>1, <1>2 DEF IInv, TypeOK, ReqType, FieldType, env
  <1>6. left' \in [BudgetKinds -> Nat]
    BY SpendType DEF Write, IInv
  <1> QED
    BY <1>2, <1>3, <1>4, <1>5, <1>6 DEF IInv, TypeOK

LEMMA OperatorInv ==
  ASSUME IInv, NEW c \in Clients, Operator(c)
  PROVE  IInv' /\ Effect
  <1>1. UNCHANGED <<todo, find, env>> /\ left' \in [BudgetKinds -> Nat]
    BY SpendType DEF Operator, AckRead, CloseRead, SettleSave, BudgetKinds, IInv
  <1>2. FieldType'
    BY <1>1 DEF IInv, TypeOK, FieldType, env
  <1>3. CASE AckRead(c) \/ CloseRead(c)
    <2>1. PICK k \in DOMAIN alerts, s \in {"acked", "closed"} :
            req' = [req EXCEPT ![c] = [pc |-> "save", key |-> k, status |-> s]]
      BY <1>3 DEF AckRead, CloseRead
    <2>2. UNCHANGED alerts
      BY <1>3 DEF AckRead, CloseRead
    <2>3. ReqType'
      BY <2>1, <2>2 DEF IInv, TypeOK, RowsType, ReqType
    <2>4. RowsType' /\ FindType' /\ Counted'
      BY <1>1, <2>2 DEF IInv, TypeOK, RowsType, FindType, Counted, Subject
    <2> QED
      BY <1>1, <1>2, <2>2, <2>3, <2>4 DEF IInv, TypeOK, Effect
  <1>4. CASE SettleSave(c)
    <2>1. req[c].key \in DOMAIN alerts /\ req[c].status \in {"acked", "closed"}
      BY <1>4 DEF SettleSave, IInv, TypeOK, ReqType
    <2>2. Effect
      BY <1>4, <2>1 DEF SettleSave, Effect
    <2>3. RowsType' /\ DOMAIN alerts \subseteq DOMAIN alerts'
      BY <2>2, EffectRows DEF IInv
    <2>4. ReqType'
      BY <1>4, <2>3 DEF SettleSave, IInv, TypeOK, ReqType, IdleReq
    <2>5. FindType'
      BY <1>1, <2>3 DEF IInv, TypeOK, FindType, Subject
    <2>6. \A k \in DOMAIN alerts : alerts'[k].count = alerts[k].count
      BY <1>4, <2>1, MarkedCounts DEF SettleSave, IInv, TypeOK
    <2>7. Counted'
      BY <1>1, <2>6 DEF IInv, TypeOK, FindType, Counted, Subject
    <2> QED
      BY <1>1, <1>2, <2>2, <2>3, <2>4, <2>5, <2>7 DEF IInv, TypeOK
  <1> QED
    BY <1>3, <1>4 DEF Operator

LEMMA FieldInv ==
  ASSUME IInv,
         \/ \E p \in Ponds : Measure(p) \/ Age(p)
         \/ \E p \in Pumps : Wear(p)
         \/ \E t \in Tasks : Lapse(t)
  PROVE  IInv' /\ UNCHANGED alerts
  <1>1. UNCHANGED <<alerts, todo, find, req>> /\ left' \in [BudgetKinds -> Nat]
    BY SpendType DEF Measure, Age, Wear, Lapse, BudgetKinds, IInv
  <1>2. FieldType'
    <2>1. CASE \E p \in Ponds : Measure(p)
      BY <2>1 DEF Measure, IInv, TypeOK, FieldType
    <2>2. CASE \E p \in Ponds : Age(p)
      BY <2>2 DEF Age, IInv, TypeOK, FieldType
    <2>3. CASE \E p \in Pumps : Wear(p)
      BY <2>3 DEF Wear, IInv, TypeOK, FieldType
    <2>4. CASE \E t \in Tasks : Lapse(t)
      BY <2>4 DEF Lapse, IInv, TypeOK, FieldType
    <2> QED
      BY <2>1, <2>2, <2>3, <2>4
  <1>3. RowsType' /\ FindType' /\ ReqType' /\ Counted'
    BY <1>1 DEF IInv, TypeOK, RowsType, FindType, ReqType, Counted, Subject
  <1> QED
    BY <1>1, <1>2, <1>3 DEF IInv, TypeOK

LEMMA RestartInv ==
  ASSUME IInv, Restart
  PROVE  IInv' /\ UNCHANGED alerts
  <1>1. UNCHANGED <<alerts, env>> /\ left' \in [BudgetKinds -> Nat]
    BY SpendType DEF Restart, BudgetKinds, IInv
  <1>2. FindType' /\ Counted' /\ ReqType'
    BY NewRowType DEF Restart, FindType, Counted, ReqType, NotFound, IdleReq
  <1> QED
    BY <1>1, <1>2, EmptyIsList DEF Restart, IInv, TypeOK, RowsType, FieldType, env

LEMMA StepInv ==
  ASSUME IInv, [Next]_vars
  PROVE  IInv' /\ Effect
  <1>1. CASE Evaluator
    <2>1. CASE StartRound \/ Look \/ Compare
      BY <2>1, LookInv DEF StartRound, Look, Compare, Effect
    <2>2. CASE CheckPumps \/ ScanOverdue
      BY <2>2, ScanInv DEF CheckPumps, ScanOverdue, Effect
    <2>3. CASE Find
      BY <2>3, FindInv DEF Find, Effect
    <2>4. CASE Write
      BY <2>4, WriteInv, WriteEffect
    <2> QED
      BY <1>1, <2>1, <2>2, <2>3, <2>4 DEF Evaluator
  <1>2. CASE \E c \in Clients : Operator(c)
    BY <1>2, OperatorInv
  <1>3. CASE \/ \E p \in Ponds : Measure(p) \/ Age(p)
             \/ \E p \in Pumps : Wear(p)
             \/ \E t \in Tasks : Lapse(t)
    BY <1>3, FieldInv DEF Effect
  <1>4. CASE Restart
    BY <1>4, RestartInv DEF Effect
  <1>5. CASE UNCHANGED vars
    <2>1. RowsType' /\ FindType' /\ ReqType' /\ FieldType' /\ Counted'
      BY <1>5 DEF vars, IInv, TypeOK, RowsType, FindType, ReqType, FieldType, Counted, Subject
    <2> QED
      BY <1>5, <2>1 DEF vars, IInv, TypeOK, Effect
  <1> QED
    BY <1>1, <1>2, <1>3, <1>4, <1>5 DEF Next

-----------------------------------------------------------------------------
(***************************************************************************)
(* Stamps.                                                                 *)
(***************************************************************************)

\* A status and the times of its decisions fit together, row by row.
Stamped(row) ==
  /\ row.status = "open" => ~row.acked /\ ~row.closed
  /\ row.status = "acked" => row.acked
  /\ row.status = "closed" => row.closed

LEMMA StampsStep ==
  ASSUME TypeOK, Effect
  PROVE  /\ StampsMatch => StampsMatch'
         /\ \A k \in DOMAIN alerts :
              /\ alerts[k].acked => alerts'[k].acked
              /\ alerts[k].closed => alerts'[k].closed
  <1> DEFINE Keeps(old, new) ==
        /\ Stamped(old) => Stamped(new)
        /\ old.acked => new.acked
        /\ old.closed => new.closed
  <1>0. RowsType /\ \A k \in DOMAIN alerts : alerts[k] \in Row
    BY DEF TypeOK, RowsType
  <1>1. \A k \in DOMAIN alerts' :
          IF k \in DOMAIN alerts THEN Keeps(alerts[k], alerts'[k]) ELSE Stamped(alerts'[k])
    <2>1. CASE UNCHANGED alerts
      BY <2>1
    <2>2. CASE \E k \in DOMAIN alerts, row \in Row : alerts' = Observed(k, row)
      <3>1. PICK k \in DOMAIN alerts, row \in Row : alerts' = Observed(k, row)
        BY <2>2
      <3>2. /\ DOMAIN alerts' = DOMAIN alerts
            /\ alerts'[k] = [alerts[k] EXCEPT !.count = Tally(row.count)]
            /\ \A j \in DOMAIN alerts \ {k} : alerts'[j] = alerts[j]
        BY <1>0, <3>1, ObservedRows
      <3> QED
        BY <1>0, <3>2 DEF Stamped, Row
    <2>3. CASE \E k \in Keys : alerts' = Upserted(k)
      <3>1. PICK k \in Keys : alerts' = Upserted(k)
        BY <2>3
      <3>2. /\ DOMAIN alerts' = DOMAIN alerts \cup {k}
            /\ alerts'[k] = IF k \in DOMAIN alerts
                 THEN [alerts[k] EXCEPT !.count = Tally(alerts[k].count)] ELSE NewRow
            /\ \A j \in DOMAIN alerts \ {k} : alerts'[j] = alerts[j]
        BY <1>0, <3>1, UpsertedRows
      <3> QED
        BY <1>0, <3>2 DEF Stamped, Row, NewRow
    <2>4. CASE \E k \in DOMAIN alerts, s \in {"acked", "closed"} : alerts' = Marked(k, s)
      <3>1. PICK k \in DOMAIN alerts, s \in {"acked", "closed"} : alerts' = Marked(k, s)
        BY <2>4
      <3>2. /\ DOMAIN alerts' = DOMAIN alerts
            /\ alerts'[k] = [status |-> s, count |-> alerts[k].count,
                             acked |-> alerts[k].acked \/ s = "acked",
                             closed |-> alerts[k].closed \/ s = "closed"]
            /\ \A j \in DOMAIN alerts \ {k} : alerts'[j] = alerts[j]
        BY <1>0, <3>1, MarkedRows
      <3>3. Keeps(alerts[k], alerts'[k])
        <4> DEFINE a == alerts[k].acked \/ s = "acked"
                   b == alerts[k].closed \/ s = "closed"
        <4>1. /\ s = "acked" => a
              /\ s = "closed" => b
              /\ alerts[k].acked => a
              /\ alerts[k].closed => b
              /\ a \in BOOLEAN /\ b \in BOOLEAN
          OBVIOUS
        <4>2. alerts'[k] = [status |-> s, count |-> alerts[k].count, acked |-> a, closed |-> b]
          BY <3>2
        <4> HIDE DEF a, b
        <4> QED
          BY <4>1, <4>2 DEF Stamped
      <3> QED
        BY <3>2, <3>3
    <2> QED
      BY <2>1, <2>2, <2>3, <2>4 DEF Effect
  <1>2. DOMAIN alerts \subseteq DOMAIN alerts'
    BY EffectRows
  <1>3. StampsMatch <=> \A k \in DOMAIN alerts : Stamped(alerts[k])
    BY DEF StampsMatch, Stamped
  <1>4. StampsMatch' <=> \A k \in DOMAIN alerts' : Stamped(alerts'[k])
    BY DEF StampsMatch, Stamped
  <1> QED
    BY <1>1, <1>2, <1>3, <1>4

-----------------------------------------------------------------------------
(***************************************************************************)
(* The book.                                                               *)
(***************************************************************************)

Pages == [k \in DOMAIN alerts |-> [status |-> alerts[k].status, count |-> alerts[k].count]]

\* A step that writes one row changes one page.
LEMMA PagesChange ==
  ASSUME TypeOK, RowsType', NEW k, DOMAIN alerts' = DOMAIN alerts \cup {k},
         \A j \in DOMAIN alerts \ {k} : alerts'[j] = alerts[j]
  PROVE  Pages' = [j \in DOMAIN Pages \cup {k} |->
                     IF j = k THEN [status |-> alerts'[k].status, count |-> alerts'[k].count]
                     ELSE Pages[j]]
  BY DEF Pages

LEMMA PageCounted ==
  ASSUME NEW k \in DOMAIN alerts
  PROVE  [Pages EXCEPT ![k].count = Tally(@)] =
           [j \in DOMAIN Pages \cup {k} |->
              IF j = k THEN [status |-> alerts[k].status, count |-> Tally(alerts[k].count)]
              ELSE Pages[j]]
  <1>1. /\ DOMAIN Pages = DOMAIN alerts
        /\ Pages[k] = [status |-> alerts[k].status, count |-> alerts[k].count]
    BY DEF Pages
  <1>2. [Pages[k] EXCEPT !.count = Tally(@)]
          = [status |-> alerts[k].status, count |-> Tally(alerts[k].count)]
    BY <1>1
  <1> QED
    BY <1>1, <1>2

LEMMA PageDecided ==
  ASSUME NEW k \in DOMAIN alerts, NEW s
  PROVE  [Pages EXCEPT ![k].status = s] =
           [j \in DOMAIN Pages \cup {k} |->
              IF j = k THEN [status |-> s, count |-> alerts[k].count] ELSE Pages[j]]
  <1>1. /\ DOMAIN Pages = DOMAIN alerts
        /\ Pages[k] = [status |-> alerts[k].status, count |-> alerts[k].count]
    BY DEF Pages
  <1>2. [Pages[k] EXCEPT !.status = s] = [status |-> s, count |-> alerts[k].count]
    BY <1>1
  <1> QED
    BY <1>1, <1>2

LEMMA BookStep ==
  ASSUME TypeOK, Effect
  PROVE  [Book!Next]_Pages
  <1>0. RowsType /\ DOMAIN alerts \subseteq Keys /\ \A k \in DOMAIN alerts : alerts[k] \in Row
    BY DEF TypeOK, RowsType
  <1>1. RowsType' /\ DOMAIN Pages = DOMAIN alerts
    BY EffectRows DEF Pages
  <1>2. ASSUME NEW k \in DOMAIN alerts, DOMAIN alerts' = DOMAIN alerts,
               alerts'[k] = [alerts[k] EXCEPT !.count = Tally(alerts[k].count)],
               \A j \in DOMAIN alerts \ {k} : alerts'[j] = alerts[j]
        PROVE  Book!Next
    <2>1. alerts'[k].status = alerts[k].status /\ alerts'[k].count = Tally(alerts[k].count)
      BY <1>0, <1>2 DEF Row
    <2>2. Pages' = [Pages EXCEPT ![k].count = Tally(@)]
      <3>1. DOMAIN alerts' = DOMAIN alerts \cup {k}
        BY <1>2
      <3>2. Pages' = [j \in DOMAIN Pages \cup {k} |->
                        IF j = k THEN [status |-> alerts'[k].status, count |-> alerts'[k].count]
                        ELSE Pages[j]]
        BY <1>1, <1>2, <3>1, PagesChange
      <3> QED
        BY <2>1, <3>2, PageCounted
    <2>3. Book!Observe(k)
      BY <1>1, <2>2 DEF Book!Observe, Book!Tally, Tally, Pages
    <2> QED
      BY <1>0, <2>3 DEF Book!Next
  <1>3. CASE UNCHANGED alerts
    BY <1>3 DEF Pages
  <1>4. CASE \E k \in DOMAIN alerts, row \in Row :
               row.count = alerts[k].count /\ alerts' = Observed(k, row)
    <2>1. PICK k \in DOMAIN alerts, row \in Row :
            row.count = alerts[k].count /\ alerts' = Observed(k, row)
      BY <1>4
    <2>2. /\ DOMAIN alerts' = DOMAIN alerts
          /\ alerts'[k] = [alerts[k] EXCEPT !.count = Tally(row.count)]
          /\ \A j \in DOMAIN alerts \ {k} : alerts'[j] = alerts[j]
      BY <1>0, <2>1, ObservedRows
    <2> QED
      BY <1>2, <2>1, <2>2
  <1>5. CASE \E k \in Keys : alerts' = Upserted(k)
    <2>1. PICK k \in Keys : alerts' = Upserted(k)
      BY <1>5
    <2>2. /\ DOMAIN alerts' = DOMAIN alerts \cup {k}
          /\ alerts'[k] = IF k \in DOMAIN alerts
               THEN [alerts[k] EXCEPT !.count = Tally(alerts[k].count)] ELSE NewRow
          /\ \A j \in DOMAIN alerts \ {k} : alerts'[j] = alerts[j]
      BY <1>0, <2>1, UpsertedRows
    <2>3. CASE k \in DOMAIN alerts
      BY <1>2, <2>2, <2>3
    <2>4. CASE k \notin DOMAIN alerts
      <3>1. Pages' = [j \in DOMAIN Pages \cup {k} |->
                        IF j = k THEN [status |-> "open", count |-> 1] ELSE Pages[j]]
        BY <1>1, <2>2, <2>4, PagesChange DEF NewRow
      <3>2. Book!Observe(k)
        BY <1>1, <2>4, <3>1 DEF Book!Observe, Pages
      <3> QED
        BY <3>2 DEF Book!Next
    <2> QED
      BY <2>3, <2>4
  <1>6. CASE \E k \in DOMAIN alerts, s \in {"acked", "closed"} : alerts' = Marked(k, s)
    <2>1. PICK k \in DOMAIN alerts, s \in {"acked", "closed"} : alerts' = Marked(k, s)
      BY <1>6
    <2>2. /\ DOMAIN alerts' = DOMAIN alerts
          /\ alerts'[k] = [status |-> s, count |-> alerts[k].count,
                           acked |-> alerts[k].acked \/ s = "acked",
                           closed |-> alerts[k].closed \/ s = "closed"]
          /\ \A j \in DOMAIN alerts \ {k} : alerts'[j] = alerts[j]
      BY <1>0, <2>1, MarkedRows
    <2>3. Pages' = [Pages EXCEPT ![k].status = s]
      <3>1. DOMAIN alerts' = DOMAIN alerts \cup {k}
        BY <2>2
      <3>2. Pages' = [j \in DOMAIN Pages \cup {k} |->
                        IF j = k THEN [status |-> alerts'[k].status, count |-> alerts'[k].count]
                        ELSE Pages[j]]
        BY <1>1, <2>2, <3>1, PagesChange
      <3>3. alerts'[k].status = s /\ alerts'[k].count = alerts[k].count
        BY <2>2
      <3> QED
        BY <3>2, <3>3, PageDecided
    <2>4. Book!Decide(k, s)
      BY <1>1, <2>3 DEF Book!Decide, Pages
    <2> QED
      BY <1>0, <2>4 DEF Book!Next
  <1> QED
    BY <1>3, <1>4, <1>5, <1>6 DEF Effect

-----------------------------------------------------------------------------
(***************************************************************************)
(* Theorems.                                                               *)
(***************************************************************************)

LEMMA InvHolds == Spec => []IInv
<1>1. IInv /\ [Next]_vars => IInv'
  BY StepInv
<1> QED
  BY InitInv, <1>1, PTL DEF Spec

\* Every step concerns an alert that exists where it must, every list is one of things a
\* round may do, and the evaluator writes on behalf of the first of them only.
THEOREM TypeCorrect == Spec => []TypeOK
<1>1. IInv => TypeOK
  BY DEF IInv
<1> QED
  BY InvHolds, <1>1, PTL

\* The status of an alert agrees with the times on it, whoever wrote it last.
THEOREM StampsHold == Spec => []StampsMatch
<1>1. Init => StampsMatch
  BY DEF Init, StampsMatch
<1>2. IInv /\ StampsMatch /\ [Next]_vars => StampsMatch'
  BY StepInv, StampsStep DEF IInv
<1> QED
  BY InvHolds, <1>1, <1>2, PTL DEF Spec

\* The time of a decision is never lost, whatever comes after it.
THEOREM StampsAreKept == Spec => StampsStay
<1>1. IInv /\ [Next]_vars =>
        [\A k \in DOMAIN alerts :
           /\ alerts[k].acked => alerts'[k].acked
           /\ alerts[k].closed => alerts'[k].closed]_vars
  BY StepInv, StampsStep DEF IInv
<1> QED
  BY InvHolds, <1>1, PTL DEF Spec, StampsStay

\* The alert table implements the book: one row per key, every observation counted once,
\* every decision a change of the status alone.
THEOREM BookIsKept == Spec => KeepsBook
<1>1. Init => Book!Init
  BY DEF Init, Book!Init
<1>2. IInv /\ [Next]_vars => [Book!Next]_Pages
  BY StepInv, BookStep DEF IInv
<1> QED
  BY InvHolds, <1>1, <1>2, PTL DEF Spec, KeepsBook, Book!Spec, Pages
=============================================================================
