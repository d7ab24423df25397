---------------------------- MODULE HarvestProofs ---------------------------
(***************************************************************************)
(* Theorems about Harvest, for every value of its constants.               *)
(***************************************************************************)
EXTENDS Harvest, TLAPS

-----------------------------------------------------------------------------
\* Type correctness.

LEMMA EmptyRowType == EmptyRow \in CrystRow
  BY DEF EmptyRow, CrystRow, States

LEMMA IdleReqType == IdleReq \in ReqRec
  BY EmptyRowType DEF IdleReq, ReqRec, ReqPc

LEMMA InitType == Init => TypeOK
  <1> SUFFICES ASSUME Init PROVE TypeOK
    OBVIOUS
  <1>1. CrystType /\ RoundType
    BY DEF Init, CrystType, RoundType
  <1>2. BatchType
    BY DEF Init, BatchType
  <1>3. ReqType
    BY IdleReqType DEF Init, ReqType, Idle, IdleReq
  <1>4. EnvType
    BY TimesAssumption DEF Init, EnvType
  <1> QED
    BY <1>1, <1>2, <1>3, <1>4 DEF TypeOK

LEMMA SpendType ==
  ASSUME TypeOK, NEW k \in BudgetKinds, Spend(k) \/ UNCHANGED left
  PROVE  left' \in [BudgetKinds -> Nat]
  BY DEF TypeOK, EnvType, Spend

LEMMA FaultType ==
  ASSUME TypeOK, Fails \/ Succeeds
  PROVE  left' \in [BudgetKinds -> Nat]
  BY SpendType DEF Fails, Succeeds, BudgetKinds

\* What a step leaves alone keeps its type, though tables grow and time goes on.
LEMMA Frame ==
  ASSUME TypeOK, DOMAIN cryst \subseteq DOMAIN cryst', now' \in Nat, now <= now',
         \A b \in DOMAIN batch : b \in DOMAIN batch' /\ batch'[b].cr = batch[b].cr
  PROVE  /\ UNCHANGED cryst => CrystType'
         /\ UNCHANGED batch => BatchType'
         /\ UNCHANGED round => RoundType'
         /\ UNCHANGED req => ReqType'
  <1>1. \A c, row : row \in CrystRow /\ Fits(c, row) => Fits(c, row)'
    BY DEF Fits, CrystRow, TypeOK, EnvType
  <1>2. UNCHANGED cryst => CrystType'
    BY <1>1 DEF TypeOK, CrystType
  <1>3. UNCHANGED batch => BatchType'
    BY DEF TypeOK, BatchType
  <1>4. UNCHANGED round => RoundType'
    BY <1>1 DEF TypeOK, RoundType
  <1>5. UNCHANGED req => ReqType'
    <2> SUFFICES ASSUME UNCHANGED req PROVE ReqType'
      OBVIOUS
    <2>1. \A r \in Clients : req[r].row \in CrystRow
      BY DEF TypeOK, ReqType, ReqRec
    <2> QED
      BY <1>1, <2>1 DEF TypeOK, ReqType, Idle, Mine
  <1> QED
    BY <1>2, <1>3, <1>4, <1>5

\* A request's record replaced by another, over tables that keep their rows.
LEMMA BecomeType ==
  ASSUME TypeOK, NEW r \in Clients, NEW q \in ReqRec, Become(r, q),
         UNCHANGED now, DOMAIN cryst \subseteq DOMAIN cryst',
         \A b \in DOMAIN batch : b \in DOMAIN batch' /\ batch'[b].cr = batch[b].cr,
         q.pc # "idle" => q.cr \in DOMAIN cryst /\ Fits(q.cr, q.row),
         q.pc \in {"weigh", "book"} => q.bt \in DOMAIN batch /\ batch[q.bt].cr = q.cr
  PROVE  ReqType'
  <1>1. req' \in [Clients -> ReqRec]
    BY DEF TypeOK, ReqType, Become
  <1>2. ASSUME NEW s \in Clients
        PROVE  /\ ~Idle(s)' => Mine(s)' \in DOMAIN cryst' /\ Fits(Mine(s), req[s].row)'
               /\ req'[s].pc \in {"weigh", "book"} =>
                    req'[s].bt \in DOMAIN batch' /\ batch'[req'[s].bt].cr = Mine(s)'
    <2>1. CASE s = r
      BY <2>1 DEF TypeOK, ReqType, Become, Idle, Mine, Fits
    <2>2. CASE s # r
      BY <2>2 DEF TypeOK, ReqType, Become, Idle, Mine, Fits
    <2> QED
      BY <2>1, <2>2
  <1> QED
    BY <1>1, <1>2 DEF ReqType

LEMMA EndType ==
  ASSUME TypeOK, NEW r \in Clients, End(r),
         UNCHANGED now, DOMAIN cryst \subseteq DOMAIN cryst',
         \A b \in DOMAIN batch : b \in DOMAIN batch' /\ batch'[b].cr = batch[b].cr
  PROVE  ReqType'
  BY BecomeType, IdleReqType DEF End, IdleReq

\* Rows computed from rows keep their type.
LEMMA FilledType ==
  ASSUME TypeOK, NEW c \in Crysts, NEW row \in CrystRow, Fits(c, row),
         NEW t \in Pours, NEW s \in Salinities, Fillable(c, row, t)
  PROVE  Filled(row, t, s) \in CrystRow /\ Fits(c, Filled(row, t, s))
  <1>1. t \in Nat /\ s \in Nat /\ row.tons \in Nat
    BY TonsAssumption, SalinitiesAssumption DEF CrystRow
  <1>2. Filled(row, t, s) \in CrystRow
    <2>1. row.tons + t \in Nat
      BY <1>1
    <2>2. (IF s > row.sal THEN s ELSE row.sal) \in Nat
      BY <1>1 DEF CrystRow
    <2>3. (IF row.state = "empty" THEN "filling" ELSE row.state) \in States
      BY DEF CrystRow, States
    <2> QED
      BY <2>1, <2>2, <2>3 DEF Filled, CrystRow
  <1>3. Filled(row, t, s).tons = row.tons + t /\ Filled(row, t, s).since = row.since
    BY DEF Filled, CrystRow
  <1> QED
    BY <1>1, <1>2, <1>3 DEF Fits, Fillable

LEMMA MovedType ==
  ASSUME TypeOK, NEW c \in Crysts, NEW row \in CrystRow, Fits(c, row), NEW to \in States
  PROVE  Moved(row, to) \in CrystRow /\ Fits(c, Moved(row, to))
  <1>1. now \in Nat /\ Cap[c] \in Nat
    BY TonsAssumption DEF TypeOK, EnvType
  <1>2. CASE to = "empty"
    BY <1>1, <1>2, EmptyRowType DEF Moved, Fits, EmptyRow
  <1>3. CASE to # "empty"
    <2>1. Moved(row, to) = [row EXCEPT !.state = to, !.since = IF to = "ripening" THEN now ELSE @]
      BY <1>3 DEF Moved
    <2>2. Moved(row, to) \in CrystRow
      BY <1>1, <2>1 DEF CrystRow
    <2>3. /\ Moved(row, to).tons = row.tons
          /\ Moved(row, to).since = IF to = "ripening" THEN now ELSE row.since
      BY <2>1 DEF CrystRow
    <2> QED
      BY <1>1, <2>2, <2>3 DEF Fits
  <1> QED
    BY <1>2, <1>3

LEMMA SavingType ==
  ASSUME NEW c \in Crysts, NEW row \in CrystRow, NEW t \in Nat
  PROVE  /\ Saving(c, row, t) \in ReqRec
         /\ Saving(c, row, t).pc = "save" /\ Saving(c, row, t).cr = c
         /\ Saving(c, row, t).row = row /\ Saving(c, row, t).tons = t
  BY IdleReqType DEF Saving, IdleReq, ReqRec, ReqPc

\* Requests.  Every read, check and refusal leaves the tables alone.
LEMMA StepType ==
  ASSUME TypeOK, NEW r \in Clients, NEW q \in ReqRec, Become(r, q),
         Fails \/ Succeeds \/ \E k \in BudgetKinds : Spend(k),
         UNCHANGED <<cryst, batch, round, now, poured>>, UNCHANGED met \/ met' \subseteq Crysts,
         q.pc # "idle" => q.cr \in DOMAIN cryst /\ Fits(q.cr, q.row),
         q.pc \in {"weigh", "book"} => q.bt \in DOMAIN batch /\ batch[q.bt].cr = q.cr
  PROVE  TypeOK'
  <1>1. ReqType'
    BY BecomeType
  <1>2. EnvType'
    BY FaultType, SpendType DEF TypeOK, EnvType
  <1> QED
    BY <1>1, <1>2, Frame DEF TypeOK, EnvType

LEMMA EndStepType ==
  ASSUME TypeOK, NEW r \in Clients, End(r), Fails \/ Succeeds,
         UNCHANGED <<cryst, batch, round, now, poured, met>>
  PROVE  TypeOK'
  BY StepType, IdleReqType DEF End, IdleReq

\* A request that goes on, with the row it has or with another.
LEMMA NextPc ==
  ASSUME TypeOK, NEW r \in Clients, NEW pc \in ReqPc
  PROVE  LET q == [req[r] EXCEPT !.pc = pc]
         IN q \in ReqRec /\ q.pc = pc /\ q.cr = Mine(r) /\ q.row = req[r].row
  BY DEF TypeOK, ReqType, ReqRec, Mine

LEMMA NextRow ==
  ASSUME TypeOK, NEW r \in Clients, NEW pc \in ReqPc, NEW row \in CrystRow
  PROVE  LET q == [req[r] EXCEPT !.pc = pc, !.row = row]
         IN /\ q \in ReqRec /\ q.pc = pc /\ q.cr = Mine(r) /\ q.row = row
            /\ q.bt = req[r].bt /\ q.tons = req[r].tons
  BY DEF TypeOK, ReqType, ReqRec, Mine

LEMMA RowAt ==
  ASSUME TypeOK, NEW c \in DOMAIN cryst
  PROVE  c \in Crysts /\ cryst[c] \in CrystRow /\ Fits(c, cryst[c])
  BY DEF TypeOK, CrystType

LEMMA RequestAt ==
  ASSUME TypeOK, NEW r \in Clients, ~Idle(r)
  PROVE  /\ Mine(r) \in DOMAIN cryst /\ Mine(r) \in Crysts
         /\ req[r].row \in CrystRow /\ Fits(Mine(r), req[r].row) /\ req[r].tons \in Nat
  BY DEF TypeOK, ReqType, ReqRec, CrystType

\* A table row replaced by one that fits.
LEMMA SaveType ==
  ASSUME TypeOK, NEW c \in DOMAIN cryst, NEW row \in CrystRow, Fits(c, row),
         cryst' = [cryst EXCEPT ![c] = row], UNCHANGED now
  PROVE  CrystType' /\ DOMAIN cryst' = DOMAIN cryst
  BY DEF TypeOK, CrystType, Fits

LEMMA CreateType == \A c \in Crysts : TypeOK /\ Create(c) => TypeOK'
  <1> SUFFICES ASSUME NEW c \in Crysts, TypeOK, Create(c) PROVE TypeOK'
    OBVIOUS
  <1>1. DOMAIN cryst' = DOMAIN cryst \cup {c}
    BY DEF Create
  <1>2. cryst' \in [DOMAIN cryst' -> CrystRow]
    BY <1>1, EmptyRowType DEF Create, TypeOK, CrystType
  <1>3. Fits(c, EmptyRow)
    BY TonsAssumption DEF Fits, EmptyRow, TypeOK, EnvType
  <1>4. CrystType'
    BY <1>1, <1>2, <1>3 DEF Create, TypeOK, CrystType, Fits
  <1>5. EnvType'
    BY SpendType DEF Create, BudgetKinds, TypeOK, EnvType
  <1> QED
    BY <1>1, <1>4, <1>5, Frame DEF Create, TypeOK, EnvType

LEMMA RequestType == \A r \in Clients : TypeOK /\ Request(r) => TypeOK'
  <1> SUFFICES ASSUME NEW r \in Clients, TypeOK, Request(r) PROVE TypeOK'
    OBVIOUS
  <1>1. CASE FillRead(r)
    <2>1. PICK c \in DOMAIN cryst, t \in Pours, s \in Salinities :
            Fillable(c, cryst[c], t) /\ Become(r, Saving(c, Filled(cryst[c], t, s), t))
      BY <1>1 DEF FillRead
    <2>2. t \in Nat
      BY TonsAssumption
    <2> DEFINE q == Saving(c, Filled(cryst[c], t, s), t)
    <2>3. /\ Filled(cryst[c], t, s) \in CrystRow /\ Fits(c, Filled(cryst[c], t, s))
      BY <2>1, RowAt, FilledType
    <2>4. q \in ReqRec /\ q.pc = "save" /\ q.cr = c /\ q.row = Filled(cryst[c], t, s)
      BY <2>2, <2>3, RowAt, SavingType
    <2> QED
      BY <1>1, <2>1, <2>3, <2>4, StepType DEF FillRead, BudgetKinds
  <1>2. CASE TransitionRead(r)
    <2>1. PICK c \in DOMAIN cryst, to \in States :
            Become(r, Saving(c, Moved(cryst[c], to), 0))
      BY <1>2 DEF TransitionRead
    <2> DEFINE q == Saving(c, Moved(cryst[c], to), 0)
    <2>2. Moved(cryst[c], to) \in CrystRow /\ Fits(c, Moved(cryst[c], to))
      BY RowAt, MovedType
    <2>3. q \in ReqRec /\ q.pc = "save" /\ q.cr = c /\ q.row = Moved(cryst[c], to)
      BY <2>2, RowAt, SavingType
    <2> QED
      BY <1>2, <2>1, <2>2, <2>3, StepType DEF TransitionRead, BudgetKinds
  <1>3. CASE SaveRow(r)
    <2>1. ~Idle(r)
      BY <1>3 DEF SaveRow, At, Idle
    <2>2. CrystType' /\ DOMAIN cryst' = DOMAIN cryst
      BY <1>3, <2>1, RequestAt, SaveType DEF SaveRow, TypeOK, CrystType, Fits
    <2>3. poured' \in [Crysts -> Nat]
      BY <1>3, <2>1, RequestAt DEF SaveRow, TypeOK, EnvType
    <2>4. EnvType'
      BY <1>3, <2>3, FaultType DEF SaveRow, TypeOK, EnvType
    <2>5. ReqType'
      BY <1>3, <2>2, EndType DEF SaveRow
    <2> QED
      BY <1>3, <2>2, <2>4, <2>5, Frame DEF SaveRow, TypeOK, EnvType
  <1>4. CASE OpenRead(r)
    <2>1. PICK c \in DOMAIN cryst :
            /\ Become(r, [IdleReq EXCEPT !.pc = "check", !.cr = c, !.row = cryst[c]])
            /\ met' = IF Opening(c) = {} THEN met ELSE met \cup {c}
      BY <1>4 DEF OpenRead
    <2> DEFINE q == [IdleReq EXCEPT !.pc = "check", !.cr = c, !.row = cryst[c]]
    <2>2. q \in ReqRec /\ q.pc = "check" /\ q.cr = c /\ q.row = cryst[c]
      BY IdleReqType, RowAt DEF IdleReq, ReqRec, ReqPc
    <2>3. met' \subseteq Crysts
      BY <2>1, RowAt DEF TypeOK, EnvType
    <2> QED
      BY <1>4, <2>1, <2>2, <2>3, RowAt, StepType DEF OpenRead, BudgetKinds
  <1>5. CASE OpenCheck(r)
    <2>1. ~Idle(r)
      BY <1>5 DEF OpenCheck, At, Idle
    <2>2. CASE Become(r, [req[r] EXCEPT !.pc = "create"])
      <3> DEFINE q == [req[r] EXCEPT !.pc = "create"]
      <3>1. q \in ReqRec /\ q.pc = "create" /\ q.cr = Mine(r) /\ q.row = req[r].row
        BY NextPc DEF ReqPc
      <3> QED
        BY <1>5, <2>1, <2>2, <3>1, RequestAt, StepType DEF OpenCheck
    <2> QED
      BY <1>5, <2>2, EndStepType DEF OpenCheck
  <1>6. CASE OpenCreate(r)
    <2>1. ~Idle(r)
      BY <1>6 DEF OpenCreate, At, Idle
    <2>2. /\ \A b \in DOMAIN batch : b \in DOMAIN batch' /\ batch'[b] = batch[b]
          /\ BatchType'
      <3>1. CASE batch' = batch
        BY <1>6, <3>1 DEF OpenCreate, TypeOK, BatchType
      <3>2. CASE batch' # batch
        <4>1. PICK b \in BatchIds \ DOMAIN batch :
                batch' = [k \in DOMAIN batch \cup {b} |->
                            IF k = b THEN [cr |-> Mine(r), status |-> "open", tons |-> 0]
                                     ELSE batch[k]]
          BY <1>6, <3>2 DEF OpenCreate
        <4>2. [cr |-> Mine(r), status |-> "open", tons |-> 0] \in BatchRow
          BY <2>1, RequestAt DEF BatchRow
        <4>3. Mine(r) \in DOMAIN cryst'
          BY <1>6, <2>1, RequestAt DEF OpenCreate
        <4> QED
          BY <1>6, <4>1, <4>2, <4>3 DEF OpenCreate, TypeOK, BatchType
      <3> QED
        BY <3>1, <3>2
    <2>3. ReqType'
      <3>1. CASE End(r)
        BY <1>6, <2>2, <3>1, EndType DEF OpenCreate
      <3>2. CASE Become(r, [req[r] EXCEPT !.pc = "advance"])
        <4> DEFINE q == [req[r] EXCEPT !.pc = "advance"]
        <4>1. q \in ReqRec /\ q.pc = "advance" /\ q.cr = Mine(r) /\ q.row = req[r].row
          BY NextPc DEF ReqPc
        <4> QED
          BY <1>6, <2>1, <2>2, <3>2, <4>1, RequestAt, BecomeType DEF OpenCreate
      <3> QED
        BY <1>6, <3>1, <3>2 DEF OpenCreate
    <2>4. EnvType'
      BY <1>6, FaultType DEF OpenCreate, TypeOK, EnvType
    <2> QED
      BY <1>6, <2>2, <2>3, <2>4, Frame DEF OpenCreate, TypeOK, EnvType
  <1>7. CASE OpenAdvance(r)
    <2>1. ~Idle(r)
      BY <1>7 DEF OpenAdvance, At, Idle
    <2>2. CASE Become(r, Saving(Mine(r), Moved(cryst[Mine(r)], "harvesting"), 0))
      <3> DEFINE row == Moved(cryst[Mine(r)], "harvesting")
                 q   == Saving(Mine(r), row, 0)
      <3>1. row \in CrystRow /\ Fits(Mine(r), row)
        BY <2>1, RequestAt, RowAt, MovedType DEF States
      <3>2. q \in ReqRec /\ q.pc = "save" /\ q.cr = Mine(r) /\ q.row = row
        BY <2>1, <3>1, RequestAt, SavingType
      <3> QED
        BY <1>7, <2>1, <2>2, <3>1, <3>2, RequestAt, StepType DEF OpenAdvance
    <2> QED
      BY <1>7, <2>2, EndStepType DEF OpenAdvance
  <1>8. CASE CompleteRead(r)
    <2>1. PICK b \in DOMAIN batch, y \in Yields :
            Become(r, [IdleReq EXCEPT !.pc = "weigh", !.cr = batch[b].cr, !.bt = b, !.tons = y])
      BY <1>8 DEF CompleteRead
    <2> DEFINE q == [IdleReq EXCEPT !.pc = "weigh", !.cr = batch[b].cr, !.bt = b, !.tons = y]
    <2>2. y \in Nat /\ batch[b].cr \in DOMAIN cryst /\ b \in BatchIds
      BY TonsAssumption DEF TypeOK, BatchType
    <2>3. batch[b].cr \in Crysts
      BY <2>2, RowAt
    <2>4. q \in ReqRec /\ q.pc = "weigh" /\ q.cr = batch[b].cr /\ q.bt = b /\ q.row = EmptyRow
      BY <2>2, <2>3, IdleReqType DEF IdleReq, ReqRec, ReqPc
    <2>5. Fits(q.cr, EmptyRow)
      BY <2>3, <2>4, TonsAssumption DEF Fits, EmptyRow, TypeOK, EnvType
    <2> QED
      BY <1>8, <2>1, <2>2, <2>4, <2>5, StepType DEF CompleteRead, BudgetKinds
  <1>9. CASE CompleteWeigh(r)
    <2>1. ~Idle(r)
      BY <1>9 DEF CompleteWeigh, At, Idle
    <2>2. CASE Become(r, [req[r] EXCEPT !.pc = "book", !.row = cryst[Mine(r)]])
      <3> DEFINE q == [req[r] EXCEPT !.pc = "book", !.row = cryst[Mine(r)]]
      <3>1. cryst[Mine(r)] \in CrystRow /\ Fits(Mine(r), cryst[Mine(r)])
        BY <2>1, RequestAt, RowAt
      <3>2. /\ q \in ReqRec /\ q.pc = "book" /\ q.cr = Mine(r)
            /\ q.row = cryst[Mine(r)] /\ q.bt = req[r].bt
        <4>1. "book" \in ReqPc
          BY DEF ReqPc
        <4> QED
          BY <2>1, <3>1, <4>1 DEF TypeOK, ReqType, ReqRec, Mine
      <3>3. req[r].bt \in DOMAIN batch /\ batch[req[r].bt].cr = Mine(r)
        BY <1>9 DEF CompleteWeigh, At, TypeOK, ReqType
      <3> QED
        BY <1>9, <2>1, <2>2, <3>1, <3>2, <3>3, RequestAt, StepType DEF CompleteWeigh
    <2> QED
      BY <1>9, <2>2, EndStepType DEF CompleteWeigh
  <1>10. CASE CompleteBook(r)
    <2>1. ~Idle(r) /\ req[r].bt \in DOMAIN batch
      BY <1>10 DEF CompleteBook, At, Idle, TypeOK, ReqType
    <2>2. /\ DOMAIN batch' = DOMAIN batch /\ BatchType'
          /\ \A b \in DOMAIN batch : batch'[b].cr = batch[b].cr
      <3>1. CASE batch' = batch
        BY <1>10, <3>1 DEF CompleteBook, TypeOK, BatchType
      <3>2. CASE batch' = [batch EXCEPT ![req[r].bt].status = "completed",
                                        ![req[r].bt].tons = req[r].tons]
        <4>1. req[r].tons \in Nat
          BY <2>1, RequestAt
        <4>2. batch' \in [DOMAIN batch -> BatchRow] /\ DOMAIN batch' = DOMAIN batch
          BY <2>1, <3>2, <4>1 DEF TypeOK, BatchType, BatchRow
        <4>3. \A b \in DOMAIN batch : batch'[b].cr = batch[b].cr
          BY <2>1, <3>2 DEF TypeOK, BatchType, BatchRow
        <4> QED
          BY <1>10, <4>2, <4>3 DEF CompleteBook, TypeOK, BatchType
      <3> QED
        BY <1>10, <3>1, <3>2 DEF CompleteBook
    <2>3. ReqType'
      <3>1. CASE End(r)
        BY <1>10, <2>2, <3>1, EndType DEF CompleteBook
      <3>2. CASE Become(r, Saving(Mine(r), Moved(req[r].row, "empty"), 0))
        <4> DEFINE row == Moved(req[r].row, "empty")
                   q   == Saving(Mine(r), row, 0)
        <4>1. row \in CrystRow /\ Fits(Mine(r), row)
          BY <2>1, RequestAt, MovedType DEF States
        <4>2. q \in ReqRec /\ q.pc = "save" /\ q.cr = Mine(r) /\ q.row = row
          BY <2>1, <4>1, RequestAt, SavingType
        <4> QED
          BY <1>10, <2>1, <2>2, <3>2, <4>1, <4>2, RequestAt, BecomeType DEF CompleteBook
      <3> QED
        BY <1>10, <3>1, <3>2 DEF CompleteBook
    <2>4. EnvType'
      BY <1>10, FaultType DEF CompleteBook, TypeOK, EnvType
    <2> QED
      BY <1>10, <2>2, <2>3, <2>4, Frame DEF CompleteBook, TypeOK, EnvType
  <1> QED
    BY <1>1, <1>2, <1>3, <1>4, <1>5, <1>6, <1>7, <1>8, <1>9, <1>10 DEF Request

LEMMA PollerType == TypeOK /\ Poller => TypeOK'
  <1> SUFFICES ASSUME TypeOK, Poller PROVE TypeOK'
    OBVIOUS
  <1>1. CASE PromoteList
    <2>1. \A c \in DOMAIN cryst : /\ [cryst[c] EXCEPT !.state = "harvest_ready"] \in CrystRow
                                   /\ Fits(c, [cryst[c] EXCEPT !.state = "harvest_ready"])
      BY RowAt DEF CrystRow, States, Fits
    <2>2. RoundType'
      BY <1>1, <2>1 DEF PromoteList, RoundType, Fits
    <2> QED
      BY <1>1, <2>2, Frame DEF PromoteList, TypeOK, EnvType
  <1>2. CASE PromoteSave
    <2>1. PICK c \in DOMAIN round :
            \/ /\ cryst' = [cryst EXCEPT ![c] = round[c]]
               /\ round' = [d \in DOMAIN round \ {c} |-> round[d]]
               /\ Succeeds
            \/ Fails /\ cryst' = cryst /\ round' = [d \in {} |-> EmptyRow]
      BY <1>2 DEF PromoteSave
    <2>2. c \in DOMAIN cryst /\ round[c] \in CrystRow /\ Fits(c, round[c])
      BY DEF TypeOK, RoundType
    <2>3. CrystType' /\ DOMAIN cryst' = DOMAIN cryst
      BY <1>2, <2>1, <2>2, SaveType DEF PromoteSave, TypeOK, CrystType, Fits
    <2>4. RoundType'
      BY <1>2, <2>1, <2>3 DEF PromoteSave, TypeOK, RoundType, Fits
    <2>5. EnvType'
      BY <1>2, <2>1, FaultType DEF PromoteSave, TypeOK, EnvType
    <2> QED
      BY <1>2, <2>3, <2>4, <2>5, Frame DEF PromoteSave, TypeOK, EnvType
  <1> QED
    BY <1>1, <1>2 DEF Poller

LEMMA TypeStep == TypeOK /\ [Next]_vars => TypeOK'
  <1> SUFFICES ASSUME TypeOK, [Next]_vars PROVE TypeOK'
    OBVIOUS
  <1>1. CASE Restart
    <2>1. ReqType'
      BY <1>1, IdleReqType DEF Restart, ReqType, Idle, IdleReq
    <2>2. RoundType'
      BY <1>1 DEF Restart, RoundType
    <2>3. EnvType'
      BY <1>1, SpendType DEF Restart, BudgetKinds, TypeOK, EnvType
    <2> QED
      BY <1>1, <2>1, <2>2, <2>3, Frame DEF Restart, TypeOK, EnvType
  <1>2. CASE Tick
    <2>1. EnvType'
      BY <1>2, SpendType DEF Tick, BudgetKinds, TypeOK, EnvType
    <2> QED
      BY <1>2, <2>1, Frame DEF Tick, TypeOK, EnvType
  <1>3. CASE UNCHANGED vars
    BY <1>3, Frame DEF vars, TypeOK, EnvType
  <1> QED
    BY <1>1, <1>2, <1>3, CreateType, RequestType, PollerType DEF Next

\* The tables keep their shape and rows stay within their capacity.
THEOREM TypeCorrect == Spec => []TypeOK
  <1>1. Init => TypeOK
    BY InitType
  <1>2. TypeOK /\ [Next]_vars => TypeOK'
    BY TypeStep
  <1> QED
    BY <1>1, <1>2, PTL DEF Spec

-----------------------------------------------------------------------------
\* Every row that may be saved is sound.

ReqSound(r) ==
  /\ At(r, "save") => Sound(Mine(r), req[r].row, req[r].tons)
  /\ At(r, "book") => 10 * req[r].tons <= 11 * poured[Mine(r)]

LEMMA Onward ==
  ASSUME TypeOK, [Next]_vars
  PROVE  now <= now' /\ \A c \in Crysts : poured[c] <= poured'[c]
  <1> USE DEF TypeOK, EnvType
  <1>1. CASE Tick
    BY <1>1 DEF Tick
  <1>2. ASSUME NEW r \in Clients, SaveRow(r)
        PROVE  now <= now' /\ \A c \in Crysts : poured[c] <= poured'[c]
    <2>1. req[r].tons \in Nat /\ Mine(r) \in Crysts
      BY <1>2, RequestAt DEF SaveRow, At, Idle
    <2> QED
      BY <1>2, <2>1 DEF SaveRow
  <1>3. UNCHANGED <<now, poured>> => now <= now' /\ \A c \in Crysts : poured[c] <= poured'[c]
    OBVIOUS
  <1> QED
    BY <1>1, <1>2, <1>3 DEF Next, Create, Request, FillRead, TransitionRead, OpenRead, OpenCheck,
      OpenCreate, OpenAdvance, CompleteRead, CompleteWeigh, CompleteBook, Poller, PromoteList,
      PromoteSave, Restart, vars

\* What was sound stays sound: time and pours only grow.
LEMMA SoundStays ==
  ASSUME TypeOK, [Next]_vars
  PROVE  \A c \in Crysts, row \in CrystRow, p \in Nat : Sound(c, row, p) => Sound(c, row, p)'
  <1>1. now' \in Nat /\ now \in Nat /\ now <= now'
    BY TypeStep, Onward DEF TypeOK, EnvType
  <1>2. \A c \in Crysts : poured[c] \in Nat /\ poured'[c] \in Nat /\ poured[c] <= poured'[c]
    BY TypeStep, Onward DEF TypeOK, EnvType
  <1> QED
    BY <1>1, <1>2, TonsAssumption, TimesAssumption DEF Sound, WellFilled, CrystRow

LEMMA SoundFrame ==
  ASSUME TypeOK, RowsSound, [Next]_vars
  PROVE  /\ UNCHANGED cryst => \A c \in DOMAIN cryst : Sound(c, cryst[c], 0)'
         /\ \A c \in DOMAIN round : Sound(c, round[c], 0)
         /\ UNCHANGED round => \A c \in DOMAIN round : Sound(c, round[c], 0)'
         /\ \A r \in Clients : req'[r] = req[r] => ReqSound(r)'
  <1>1. \A c \in DOMAIN cryst : Sound(c, cryst[c], 0) /\ c \in Crysts /\ cryst[c] \in CrystRow
    BY RowAt DEF RowsSound
  <1>2. \A c \in DOMAIN round : Sound(c, round[c], 0) /\ c \in Crysts /\ round[c] \in CrystRow
    BY DEF RowsSound, TypeOK, RoundType, CrystType
  <1>3. ASSUME NEW r \in Clients, req'[r] = req[r] PROVE ReqSound(r)'
    <2>1. CASE Idle(r)
      BY <1>3, <2>1 DEF Idle, At, ReqSound
    <2>2. CASE ~Idle(r)
      <3>1. /\ Mine(r) \in Crysts /\ req[r].row \in CrystRow /\ req[r].tons \in Nat
        BY <2>2, RequestAt
      <3>2. poured[Mine(r)] \in Nat /\ poured'[Mine(r)] \in Nat /\ poured[Mine(r)] <= poured'[Mine(r)]
        BY <3>1, TypeStep, Onward DEF TypeOK, EnvType
      <3>3. At(r, "save") => Sound(Mine(r), req[r].row, req[r].tons)'
        BY <1>3, <3>1, SoundStays DEF RowsSound, Mine, Sound, WellFilled
      <3>4. At(r, "book") => 10 * req[r].tons <= 11 * poured'[Mine(r)]
        BY <3>1, <3>2 DEF RowsSound
      <3> QED
        BY <1>3, <3>3, <3>4 DEF ReqSound, At, Mine
    <2> QED
      BY <2>1, <2>2
  <1> QED
    BY <1>1, <1>2, <1>3, SoundStays DEF Sound, WellFilled

\* The rules of a row keep it sound.
LEMMA FilledSound ==
  ASSUME TypeOK, NEW c \in Crysts, NEW row \in CrystRow, NEW t \in Pours, NEW s \in Salinities,
         Fillable(c, row, t), Sound(c, row, 0)
  PROVE  Sound(c, Filled(row, t, s), t)
  <1>1. t \in Nat /\ row.tons \in Nat /\ Cap[c] \in Nat /\ poured[c] \in Nat
    BY TonsAssumption DEF CrystRow, TypeOK, EnvType
  <1>2. /\ Filled(row, t, s).tons = row.tons + t /\ Filled(row, t, s).since = row.since
        /\ Filled(row, t, s).state = IF row.state = "empty" THEN "filling" ELSE row.state
    BY DEF Filled, CrystRow
  <1> QED
    BY <1>1, <1>2 DEF Sound, Fillable, WellFilled

LEMMA MovedSound ==
  ASSUME TypeOK, NEW c \in Crysts, NEW row \in CrystRow, Sound(c, row, 0), NEW to \in States,
         <<row.state, to>> \in Legal, to = "ripening" => WellFilled(c, row),
         to = "harvest_ready" => Aged(row)
  PROVE  Sound(c, Moved(row, to), 0)
  <1>1. /\ now \in Nat \ {0} /\ row.since \in Nat /\ row.tons \in Nat
        /\ Cap[c] \in Nat /\ poured[c] \in Nat
    BY TonsAssumption DEF CrystRow, TypeOK, EnvType
  <1>2. CASE to = "empty"
    BY <1>1, <1>2 DEF Moved, EmptyRow, Sound
  <1>3. CASE to # "empty"
    <2>1. Moved(row, to) = [row EXCEPT !.state = to, !.since = IF to = "ripening" THEN now ELSE @]
      BY <1>3 DEF Moved
    <2>2. /\ Moved(row, to).tons = row.tons /\ Moved(row, to).state = to
          /\ Moved(row, to).since = IF to = "ripening" THEN now ELSE row.since
      BY <2>1 DEF CrystRow
    <2>3. to = "harvest_ready" => row.state = "ripening"
      BY DEF Legal
    <2>4. to = "harvesting" => row.state = "harvest_ready"
      BY DEF Legal
    <2> QED
      BY <1>1, <2>2, <2>3, <2>4 DEF Sound, WellFilled, Aged
  <1> QED
    BY <1>2, <1>3

\* A request that is about to save a sound row, or about to book a yield.
LEMMA SavingSound ==
  ASSUME TypeOK, NEW r \in Clients, NEW c \in Crysts, NEW row \in CrystRow, NEW t \in Nat,
         Sound(c, row, t), Become(r, Saving(c, row, t)), UNCHANGED <<now, poured>>
  PROVE  ReqSound(r)'
  <1>1. req'[r] = Saving(c, row, t)
    BY DEF Become, TypeOK, ReqType
  <1>2. /\ req'[r].pc = "save" /\ req'[r].cr = c
        /\ req'[r].row = row /\ req'[r].tons = t
    BY <1>1, SavingType
  <1> QED
    BY <1>2 DEF ReqSound, At, Mine, Sound, WellFilled

LEMMA EndSound ==
  ASSUME TypeOK, NEW r \in Clients, End(r)
  PROVE  ReqSound(r)'
  BY DEF End, Become, TypeOK, ReqType, IdleReq, ReqSound, At

LEMMA OtherRequests ==
  ASSUME TypeOK, NEW r \in Clients, Request(r)
  PROVE  UNCHANGED round /\ \A s \in Clients \ {r} : req'[s] = req[s]
  BY DEF TypeOK, ReqType, Request, FillRead, TransitionRead, SaveRow, OpenRead, OpenCheck, OpenCreate,
     OpenAdvance, CompleteRead, CompleteWeigh, CompleteBook, Become, End

LEMMA RequestSound ==
  ASSUME TypeOK, RowsSound, NEW r \in Clients, Request(r)
  PROVE  ReqSound(r)' /\ \A c \in DOMAIN cryst' : Sound(c, cryst[c], 0)'
  <1>0. [Next]_vars
    BY DEF Next
  <1>1. UNCHANGED cryst => \A c \in DOMAIN cryst' : Sound(c, cryst[c], 0)'
    BY <1>0, SoundFrame
  <1>2. \A c \in DOMAIN cryst : Sound(c, cryst[c], 0) /\ c \in Crysts /\ cryst[c] \in CrystRow
    BY RowAt DEF RowsSound
  <1>3. CASE FillRead(r)
    <2>1. PICK c \in DOMAIN cryst, t \in Pours, s \in Salinities :
            Fillable(c, cryst[c], t) /\ Become(r, Saving(c, Filled(cryst[c], t, s), t))
      BY <1>3 DEF FillRead
    <2>2. Filled(cryst[c], t, s) \in CrystRow /\ t \in Nat
      BY <2>1, RowAt, FilledType, TonsAssumption
    <2>3. Sound(c, Filled(cryst[c], t, s), t)
      BY <1>2, <2>1, FilledSound
    <2> QED
      BY <1>1, <1>2, <1>3, <2>1, <2>2, <2>3, SavingSound DEF FillRead
  <1>4. CASE TransitionRead(r)
    <2>1. PICK c \in DOMAIN cryst, to \in States :
            /\ <<cryst[c].state, to>> \in Legal
            /\ to = "ripening" => WellFilled(c, cryst[c])
            /\ to = "harvest_ready" => Aged(cryst[c])
            /\ Become(r, Saving(c, Moved(cryst[c], to), 0))
      BY <1>4 DEF TransitionRead
    <2>2. Moved(cryst[c], to) \in CrystRow
      BY RowAt, MovedType
    <2>3. Sound(c, Moved(cryst[c], to), 0)
      BY <1>2, <2>1, MovedSound
    <2> QED
      BY <1>1, <1>2, <1>4, <2>1, <2>2, <2>3, SavingSound DEF TransitionRead
  <1>5. CASE SaveRow(r)
    <2>1. ReqSound(r)'
      BY <1>5, EndSound DEF SaveRow
    <2>2. /\ Mine(r) \in DOMAIN cryst /\ Mine(r) \in Crysts /\ req[r].row \in CrystRow
          /\ req[r].tons \in Nat /\ Sound(Mine(r), req[r].row, req[r].tons)
      BY <1>5, RequestAt DEF SaveRow, At, Idle, RowsSound
    <2>3. CASE UNCHANGED cryst
      BY <1>1, <2>1, <2>3
    <2>4. CASE /\ cryst' = [cryst EXCEPT ![Mine(r)] = req[r].row]
               /\ poured' = [poured EXCEPT ![Mine(r)] = @ + req[r].tons]
      <3>1. ASSUME NEW c \in DOMAIN cryst' PROVE Sound(c, cryst[c], 0)'
        <4>1. c \in DOMAIN cryst
          BY <2>4 DEF TypeOK, CrystType
        <4>2. CASE c = Mine(r)
          <5>1. poured[c] \in Nat /\ poured'[c] = poured[c] + req[r].tons
            BY <2>2, <2>4, <4>2 DEF TypeOK, EnvType
          <5>2. cryst'[c] = req[r].row /\ req[r].row.tons \in Nat
            BY <2>2, <2>4, <4>2 DEF TypeOK, CrystType, CrystRow
          <5>3. req[r].row.tons <= poured'[c] + 0
            BY <2>2, <4>2, <5>1, <5>2 DEF Sound
          <5> QED
            BY <1>5, <2>2, <4>2, <5>2, <5>3 DEF SaveRow, Sound, WellFilled
        <4>3. CASE c # Mine(r)
          <5>1. cryst'[c] = cryst[c]
            BY <2>4, <4>1, <4>3 DEF TypeOK, CrystType
          <5>2. poured'[c] = poured[c]
            BY <1>2, <2>4, <4>1, <4>3 DEF TypeOK, EnvType
          <5> QED
            BY <1>2, <1>5, <4>1, <5>1, <5>2 DEF SaveRow, Sound, WellFilled
        <4> QED
          BY <4>2, <4>3
      <3> QED
        BY <2>1, <3>1
    <2> QED
      BY <1>5, <2>3, <2>4 DEF SaveRow
  <1>6. CASE OpenAdvance(r)
    <2>1. CASE End(r)
      BY <1>1, <1>6, <2>1, EndSound DEF OpenAdvance
    <2>2. CASE /\ <<cryst[Mine(r)].state, "harvesting">> \in Legal
               /\ Become(r, Saving(Mine(r), Moved(cryst[Mine(r)], "harvesting"), 0))
      <3>1. Mine(r) \in DOMAIN cryst /\ "harvesting" \in States
        BY <1>6, RequestAt DEF OpenAdvance, At, Idle, States
      <3>2. Moved(cryst[Mine(r)], "harvesting") \in CrystRow
        BY <3>1, RowAt, MovedType
      <3>3. Sound(Mine(r), Moved(cryst[Mine(r)], "harvesting"), 0)
        BY <1>2, <2>2, <3>1, MovedSound
      <3> QED
        BY <1>1, <1>2, <1>6, <2>2, <3>1, <3>2, <3>3, SavingSound DEF OpenAdvance
    <2> QED
      BY <1>6, <2>1, <2>2 DEF OpenAdvance
  <1>7. CASE CompleteWeigh(r)
    <2>1. CASE End(r)
      BY <1>1, <1>7, <2>1, EndSound DEF CompleteWeigh
    <2>2. CASE /\ 10 * req[r].tons <= 11 * cryst[Mine(r)].tons
               /\ Become(r, [req[r] EXCEPT !.pc = "book", !.row = cryst[Mine(r)]])
      <3>1. /\ Mine(r) \in DOMAIN cryst /\ Mine(r) \in Crysts /\ req[r].tons \in Nat
        BY <1>7, RequestAt DEF CompleteWeigh, At, Idle
      <3>2. /\ req'[r].pc = "book" /\ req'[r].cr = Mine(r) /\ req'[r].tons = req[r].tons
        BY <2>2 DEF Become, TypeOK, ReqType, ReqRec, Mine
      <3>3. cryst[Mine(r)].tons \in Nat /\ poured[Mine(r)] \in Nat
            /\ cryst[Mine(r)].tons <= poured[Mine(r)]
        BY <1>2, <3>1 DEF Sound, CrystRow, TypeOK, EnvType
      <3>4. 10 * req[r].tons <= 11 * poured[Mine(r)]
        BY <2>2, <3>1, <3>3
      <3> QED
        BY <1>1, <1>7, <3>2, <3>4 DEF CompleteWeigh, ReqSound, At, Mine
    <2> QED
      BY <1>7, <2>1, <2>2 DEF CompleteWeigh
  <1>8. CASE CompleteBook(r)
    <2>1. CASE End(r)
      BY <1>1, <1>8, <2>1, EndSound DEF CompleteBook
    <2>2. CASE Become(r, Saving(Mine(r), Moved(req[r].row, "empty"), 0))
      <3>1. /\ Mine(r) \in Crysts /\ req[r].row \in CrystRow
            /\ Moved(req[r].row, "empty") = EmptyRow
        BY <1>8, RequestAt DEF CompleteBook, At, Idle, Moved
      <3>2. Sound(Mine(r), EmptyRow, 0)
        BY <3>1 DEF Sound, EmptyRow, TypeOK, EnvType
      <3> QED
        BY <1>1, <1>8, <2>2, <3>1, <3>2, EmptyRowType, SavingSound DEF CompleteBook
    <2> QED
      BY <1>8, <2>1, <2>2 DEF CompleteBook
  <1>9. CASE OpenRead(r) \/ OpenCheck(r) \/ OpenCreate(r) \/ CompleteRead(r)
    <2>1. req'[r].pc \notin {"save", "book"}
      <3>1. \A q : Become(r, q) => req'[r] = q
        BY DEF Become, TypeOK, ReqType
      <3>2. req[r] \in ReqRec
        BY DEF TypeOK, ReqType
      <3>3. CASE OpenRead(r)
        BY <3>1, <3>3 DEF OpenRead, IdleReq
      <3>4. CASE OpenCheck(r)
        BY <3>1, <3>2, <3>4 DEF OpenCheck, End, IdleReq, ReqRec
      <3>5. CASE OpenCreate(r)
        BY <3>1, <3>2, <3>5 DEF OpenCreate, End, IdleReq, ReqRec
      <3>6. CASE CompleteRead(r)
        BY <3>1, <3>6 DEF CompleteRead, IdleReq
      <3> QED
        BY <1>9, <3>3, <3>4, <3>5, <3>6
    <2> QED
      BY <1>1, <1>9, <2>1 DEF OpenRead, OpenCheck, OpenCreate, CompleteRead, ReqSound, At
  <1> QED
    BY <1>3, <1>4, <1>5, <1>6, <1>7, <1>8, <1>9 DEF Request

LEMMA PollerSound ==
  ASSUME TypeOK, RowsSound, Poller
  PROVE  RowsSound'
  <1>0. [Next]_vars
    BY DEF Next
  <1>1. \A r \in Clients : ReqSound(r)'
    BY <1>0, SoundFrame DEF Poller, PromoteList, PromoteSave
  <1>2. \A c \in DOMAIN cryst : Sound(c, cryst[c], 0) /\ c \in Crysts /\ cryst[c] \in CrystRow
    BY RowAt DEF RowsSound
  <1>3. CASE PromoteList
    <2>1. ASSUME NEW c \in DOMAIN round' PROVE Sound(c, round[c], 0)'
      <3>1. c \in DOMAIN cryst /\ Ripe(c) /\ round'[c] = [cryst[c] EXCEPT !.state = "harvest_ready"]
        BY <1>3 DEF PromoteList
      <3>2. /\ round'[c].state = "harvest_ready" /\ round'[c].tons = cryst[c].tons
            /\ round'[c].since = cryst[c].since
        BY <1>2, <3>1 DEF CrystRow
      <3>3. UNCHANGED <<now, poured>>
        BY <1>3 DEF PromoteList
      <3> QED
        BY <1>2, <3>1, <3>2, <3>3 DEF Ripe, Aged, Sound, WellFilled
    <2>2. \A c \in DOMAIN cryst' : Sound(c, cryst[c], 0)'
      BY <1>0, <1>3, SoundFrame DEF PromoteList
    <2> QED
      BY <1>1, <2>1, <2>2 DEF RowsSound, ReqSound
  <1>4. CASE PromoteSave
    <2>1. PICK c \in DOMAIN round :
            \/ /\ cryst' = [cryst EXCEPT ![c] = round[c]]
               /\ round' = [d \in DOMAIN round \ {c} |-> round[d]]
            \/ cryst' = cryst /\ round' = [d \in {} |-> EmptyRow]
      BY <1>4 DEF PromoteSave
    <2>2. \A d \in DOMAIN round : Sound(d, round[d], 0)
      BY DEF RowsSound
    <2>3. UNCHANGED <<now, poured>>
      BY <1>4 DEF PromoteSave
    <2>4. ASSUME NEW d \in DOMAIN cryst' PROVE Sound(d, cryst[d], 0)'
      <3>1. d \in DOMAIN cryst /\ cryst'[d] \in {cryst[d], round[c]} /\ (cryst'[d] # cryst[d] => d = c)
        BY <2>1 DEF TypeOK, CrystType
      <3>2. Sound(d, cryst'[d], 0)
        BY <1>2, <2>2, <3>1
      <3> QED
        BY <2>3, <3>2 DEF Sound, WellFilled
    <2>5. ASSUME NEW d \in DOMAIN round' PROVE Sound(d, round[d], 0)'
      <3>1. d \in DOMAIN round /\ round'[d] = round[d]
        BY <2>1
      <3> QED
        BY <2>2, <2>3, <3>1 DEF Sound, WellFilled
    <2> QED
      BY <1>1, <2>4, <2>5 DEF RowsSound, ReqSound
  <1> QED
    BY <1>3, <1>4 DEF Poller

LEMMA SoundStep == TypeOK /\ RowsSound /\ [Next]_vars => RowsSound'
  <1> SUFFICES ASSUME TypeOK, RowsSound, [Next]_vars PROVE RowsSound'
    OBVIOUS
  <1>1. ASSUME NEW c \in Crysts, Create(c) PROVE RowsSound'
    <2>1. ASSUME NEW d \in DOMAIN cryst' PROVE Sound(d, cryst[d], 0)'
      <3>1. d \in Crysts /\ UNCHANGED <<now, poured>>
        BY <1>1 DEF Create, TypeOK, CrystType
      <3>2. CASE d = c
        <4>1. cryst'[d] = EmptyRow /\ poured[d] \in Nat
          BY <1>1, <3>1, <3>2 DEF Create, TypeOK, EnvType
        <4> QED
          BY <3>1, <4>1 DEF Sound, EmptyRow
      <3>3. CASE d # c
        <4>1. d \in DOMAIN cryst /\ cryst'[d] = cryst[d]
          BY <1>1, <3>3 DEF Create
        <4> QED
          BY <3>1, <4>1 DEF Sound, WellFilled, RowsSound
      <3> QED
        BY <3>2, <3>3
    <2>2. \A d \in DOMAIN round' : Sound(d, round[d], 0)'
      BY <1>1, SoundFrame DEF Create
    <2>3. \A r \in Clients : ReqSound(r)'
      BY <1>1, SoundFrame DEF Create
    <2> QED
      BY <2>1, <2>2, <2>3 DEF RowsSound, ReqSound
  <1>2. ASSUME NEW r \in Clients, Request(r) PROVE RowsSound'
    <2>1. ReqSound(r)' /\ \A c \in DOMAIN cryst' : Sound(c, cryst[c], 0)'
      BY <1>2, RequestSound
    <2>2. \A s \in Clients \ {r} : ReqSound(s)'
      BY <1>2, OtherRequests, SoundFrame
    <2>3. \A c \in DOMAIN round' : Sound(c, round[c], 0)'
      BY <1>2, OtherRequests, SoundFrame
    <2> QED
      BY <2>1, <2>2, <2>3 DEF RowsSound, ReqSound
  <1>3. CASE Poller
    BY <1>3, PollerSound
  <1>4. CASE Restart
    <2>1. \A r \in Clients : ReqSound(r)'
      BY <1>4 DEF Restart, ReqSound, At, IdleReq
    <2>2. /\ \A c \in DOMAIN cryst' : Sound(c, cryst[c], 0)'
          /\ DOMAIN round' = {}
      BY <1>4, SoundFrame DEF Restart
    <2> QED
      BY <2>1, <2>2 DEF RowsSound, ReqSound
  <1>5. CASE Tick \/ UNCHANGED vars
    <2>1. UNCHANGED <<cryst, round, req>>
      BY <1>5 DEF Tick, vars
    <2>2. \A r \in Clients : ReqSound(r)'
      BY <2>1, SoundFrame
    <2>3. /\ \A c \in DOMAIN cryst' : Sound(c, cryst[c], 0)'
          /\ \A c \in DOMAIN round' : Sound(c, round[c], 0)'
      BY <2>1, SoundFrame
    <2> QED
      BY <2>2, <2>3 DEF RowsSound, ReqSound
  <1> QED
    BY <1>1, <1>2, <1>3, <1>4, <1>5 DEF Next

LEMMA InitSound == Init => RowsSound
  BY DEF Init, RowsSound, At, IdleReq

\* Every row that is stored, held or listed was earned, though it may be stale.
THEOREM RowsAreSound == Spec => []RowsSound
  <1>1. TypeOK /\ RowsSound /\ [Next]_vars => RowsSound'
    BY SoundStep
  <1>2. Init => RowsSound
    BY InitSound
  <1> QED
    BY <1>1, <1>2, TypeCorrect, PTL DEF Spec

\* No crystallizer is ready or being harvested that has not ripened and is not full
\* enough, whatever requests and the poller write over one another.
THEOREM HarvestIsEarned == Spec => []RipeBeforeHarvest
  <1>1. TypeOK /\ RowsSound => RipeBeforeHarvest
    <2> SUFFICES ASSUME TypeOK, RowsSound, NEW c \in DOMAIN cryst,
                        cryst[c].state \in {"harvest_ready", "harvesting"}
                 PROVE  Aged(cryst[c]) /\ WellFilled(c, cryst[c])
      BY DEF RipeBeforeHarvest
    <2>1. Sound(c, cryst[c], 0) /\ cryst[c].since \in Nat
      BY RowAt DEF RowsSound, CrystRow
    <2> QED
      BY <2>1 DEF Sound, Aged
  <1> QED
    BY <1>1, TypeCorrect, RowsAreSound, PTL

-----------------------------------------------------------------------------
\* Nothing is counted that was not poured.

LEMMA YieldStep == TypeOK /\ RowsSound /\ OnlyWhatWasPoured /\ [Next]_vars => OnlyWhatWasPoured'
  <1> SUFFICES ASSUME TypeOK, RowsSound, OnlyWhatWasPoured, [Next]_vars
               PROVE  OnlyWhatWasPoured'
    OBVIOUS
  <1>1. TypeOK' /\ RowsSound'
    BY TypeStep, SoundStep
  <1>2. \A c \in DOMAIN cryst' : cryst'[c].tons <= poured'[c]
    <2> SUFFICES ASSUME NEW c \in DOMAIN cryst' PROVE cryst'[c].tons <= poured'[c]
      OBVIOUS
    <2>1. cryst'[c].tons <= poured'[c] + 0
      BY <1>1 DEF RowsSound, Sound
    <2>2. poured'[c] \in Nat
      BY <1>1 DEF TypeOK, CrystType, EnvType
    <2> QED
      BY <2>1, <2>2
  <1>3. ASSUME NEW b \in DOMAIN batch', b \in DOMAIN batch, batch'[b] = batch[b]
        PROVE  10 * batch'[b].tons <= 11 * poured'[batch'[b].cr]
    <2>1. batch[b].cr \in Crysts /\ batch[b].tons \in Nat
      BY <1>3 DEF TypeOK, BatchType, BatchRow
    <2>2. /\ poured[batch[b].cr] \in Nat /\ poured'[batch[b].cr] \in Nat
          /\ poured[batch[b].cr] <= poured'[batch[b].cr]
      BY <1>1, <2>1, Onward DEF TypeOK, EnvType
    <2>3. 10 * batch[b].tons <= 11 * poured[batch[b].cr]
      BY <1>3 DEF OnlyWhatWasPoured
    <2> QED
      BY <1>3, <2>1, <2>2, <2>3
  <1>4. ASSUME NEW r \in Clients, OpenCreate(r), NEW b \in DOMAIN batch'
        PROVE  10 * batch'[b].tons <= 11 * poured'[batch'[b].cr]
    <2>1. CASE b \in DOMAIN batch
      BY <1>3, <1>4, <2>1 DEF OpenCreate
    <2>2. CASE b \notin DOMAIN batch
      <3>1. batch'[b] = [cr |-> Mine(r), status |-> "open", tons |-> 0]
        BY <1>4, <2>2 DEF OpenCreate
      <3>2. poured'[batch'[b].cr] \in Nat
        BY <1>1 DEF TypeOK, BatchType, BatchRow, EnvType
      <3> QED
        BY <3>1, <3>2
    <2> QED
      BY <2>1, <2>2
  <1>5. ASSUME NEW r \in Clients, CompleteBook(r), NEW b \in DOMAIN batch'
        PROVE  10 * batch'[b].tons <= 11 * poured'[batch'[b].cr]
    <2>1. req[r].bt \in DOMAIN batch /\ batch[req[r].bt].cr = Mine(r) /\ UNCHANGED poured
          /\ 10 * req[r].tons <= 11 * poured[Mine(r)]
      BY <1>5 DEF CompleteBook, At, TypeOK, ReqType, RowsSound
    <2>2. CASE batch' = batch
      BY <1>3, <2>2
    <2>3. CASE batch' = [batch EXCEPT ![req[r].bt].status = "completed",
                                      ![req[r].bt].tons = req[r].tons]
      <3>1. b \in DOMAIN batch
        BY <2>3
      <3>2. CASE b # req[r].bt
        BY <1>3, <2>3, <3>1, <3>2
      <3>3. CASE b = req[r].bt
        <4>1. batch'[b].tons = req[r].tons /\ batch'[b].cr = Mine(r)
          BY <2>1, <2>3, <3>3 DEF TypeOK, BatchType, BatchRow
        <4> QED
          BY <2>1, <4>1
      <3> QED
        BY <3>2, <3>3
    <2> QED
      BY <1>5, <2>2, <2>3 DEF CompleteBook
  <1>6. UNCHANGED batch \/ \E r \in Clients : OpenCreate(r) \/ CompleteBook(r)
    BY DEF Next, Create, Request, FillRead, TransitionRead, SaveRow, OpenRead, OpenCheck,
       OpenAdvance, CompleteRead, CompleteWeigh, Poller, PromoteList, PromoteSave, Restart,
       Tick, vars
  <1>7. \A b \in DOMAIN batch' : 10 * batch'[b].tons <= 11 * poured'[batch'[b].cr]
    BY <1>3, <1>4, <1>5, <1>6
  <1> QED
    BY <1>2, <1>7 DEF OnlyWhatWasPoured

\* No crystallizer shows and no batch counts more than was poured, though lost
\* updates may bring brine back.
THEOREM NothingFromNothing == Spec => []OnlyWhatWasPoured
  <1>1. Init => OnlyWhatWasPoured
    BY DEF Init, OnlyWhatWasPoured
  <1>2. TypeOK /\ RowsSound /\ OnlyWhatWasPoured /\ [Next]_vars => OnlyWhatWasPoured'
    BY YieldStep
  <1> QED
    BY <1>1, <1>2, TypeCorrect, RowsAreSound, PTL DEF Spec

-----------------------------------------------------------------------------
\* One open batch, unless two requests have met.

\* Alone between its check and its insert, a request inserts where nothing is open.
OneAtATime(c) ==
  /\ \A r, s \in Opening(c) : r = s
  /\ \A r \in Opening(c) : At(r, "create") => OpenBatches(c) = {}
  /\ AtMostOneOpen(c)

\* No request comes to open, or gets further in it, and no open batch is added.
Calm(c) ==
  /\ OpenBatches(c)' \subseteq OpenBatches(c)
  /\ \A r \in Opening(c)' : r \in Opening(c) /\ (At(r, "create")' => At(r, "create"))

LEMMA CalmStep ==
  ASSUME NEW c, OneAtATime(c), Calm(c)
  PROVE  OneAtATime(c)'
  <1>1. \A r, s \in Opening(c)' : r = s
    BY DEF Calm, OneAtATime
  <1>2. \A r \in Opening(c)' : At(r, "create")' => OpenBatches(c)' = {}
    BY DEF Calm, OneAtATime
  <1>3. \A a, b \in OpenBatches(c)' : a = b
    BY DEF Calm, OneAtATime, AtMostOneOpen
  <1> QED
    BY <1>1, <1>2, <1>3 DEF OneAtATime, AtMostOneOpen, OpenBatches

\* Requests other than the one that moves stay where they are.
LEMMA OthersOpening ==
  ASSUME TypeOK, NEW r \in Clients, Request(r), NEW c
  PROVE  \A s \in Clients \ {r} : /\ s \in Opening(c)' <=> s \in Opening(c)
                                  /\ At(s, "create")' <=> At(s, "create")
  BY OtherRequests DEF Opening, At, Mine

\* Only Open's steps concern what is being opened; a completion closes a batch.
LEMMA CalmFrame ==
  ASSUME TypeOK, NEW c \in Crysts, [Next]_vars,
         \A r \in Clients : ~OpenRead(r) /\ ~OpenCheck(r) /\ ~OpenCreate(r)
  PROVE  Calm(c) /\ UNCHANGED met
  <1>1. ASSUME NEW r \in Clients, Request(r)
        PROVE  Calm(c) /\ UNCHANGED met
    <2>1. req'[r].pc \notin {"check", "create"} /\ UNCHANGED met
      <3>1. \A q : Become(r, q) => req'[r] = q
        BY DEF Become, TypeOK, ReqType
      <3>2. req[r] \in ReqRec
        BY DEF TypeOK, ReqType
      <3>3. \A d, row, t : Saving(d, row, t).pc = "save"
        BY DEF Saving, IdleReq
      <3>4. End(r) => req'[r].pc = "idle"
        BY <3>1 DEF End, IdleReq
      <3>5. CASE FillRead(r) \/ TransitionRead(r) \/ SaveRow(r)
        BY <3>1, <3>3, <3>4, <3>5 DEF FillRead, TransitionRead, SaveRow
      <3>6. CASE OpenAdvance(r) \/ CompleteBook(r)
        BY <3>1, <3>3, <3>4, <3>6 DEF OpenAdvance, CompleteBook
      <3>7. CASE CompleteRead(r)
        BY <3>1, <3>7 DEF CompleteRead, IdleReq
      <3>8. CASE CompleteWeigh(r)
        BY <3>1, <3>2, <3>4, <3>8 DEF CompleteWeigh, ReqRec
      <3> QED
        BY <1>1, <3>5, <3>6, <3>7, <3>8 DEF Request
    <2>2. \A s \in Opening(c)' : s \in Opening(c) /\ (At(s, "create")' => At(s, "create"))
      <3>1. r \notin Opening(c)' /\ \A s \in Opening(c)' : s \in Clients
        BY <2>1 DEF Opening
      <3> QED
        BY <1>1, <3>1, OthersOpening
    <2>3. OpenBatches(c)' \subseteq OpenBatches(c)
      <3>1. CASE CompleteBook(r)
        <4>1. CASE batch' = batch
          BY <4>1 DEF OpenBatches
        <4>2. CASE batch' = [batch EXCEPT ![req[r].bt].status = "completed",
                                          ![req[r].bt].tons = req[r].tons]
          <5>1. \A b \in DOMAIN batch : batch[b] \in BatchRow
            BY DEF TypeOK, BatchType
          <5>2. \A b \in DOMAIN batch' : b \in DOMAIN batch /\ batch'[b].cr = batch[b].cr
            BY <4>2, <5>1 DEF BatchRow
          <5>3. \A b \in DOMAIN batch' : batch'[b].status = "open" => batch[b].status = "open"
            BY <4>2, <5>1 DEF BatchRow
          <5> QED
            BY <5>2, <5>3 DEF OpenBatches
        <4> QED
          BY <3>1, <4>1, <4>2 DEF CompleteBook
      <3>2. CASE ~CompleteBook(r)
        BY <1>1, <3>2 DEF Request, FillRead, TransitionRead, SaveRow, OpenAdvance,
          CompleteRead, CompleteWeigh, OpenBatches
      <3> QED
        BY <3>1, <3>2
    <2> QED
      BY <2>1, <2>2, <2>3 DEF Calm
  <1>2. CASE Restart
    BY <1>2 DEF Restart, Calm, OpenBatches, Opening, At, IdleReq
  <1>3. CASE UNCHANGED <<batch, req, met>>
    BY <1>3 DEF Calm, OpenBatches, Opening, At, Mine
  <1> QED
    BY <1>1, <1>2, <1>3 DEF Next, Create, Poller, PromoteList, PromoteSave, Tick, vars

\* A request that comes to open is noted when it is not alone.
LEMMA OpenReadStep ==
  ASSUME TypeOK, NEW c \in Crysts, c \notin met', c \notin met => OneAtATime(c),
         NEW r \in Clients, OpenRead(r)
  PROVE  OneAtATime(c)'
  <1>1. PICK d \in DOMAIN cryst :
          /\ Become(r, [IdleReq EXCEPT !.pc = "check", !.cr = d, !.row = cryst[d]])
          /\ met' = IF Opening(d) = {} THEN met ELSE met \cup {d}
    BY DEF OpenRead
  <1>2. req'[r].pc = "check" /\ Mine(r)' = d
    BY <1>1 DEF Become, TypeOK, ReqType, IdleReq, Mine
  <1>3. c \notin met /\ OneAtATime(c) /\ OpenBatches(c)' = OpenBatches(c)
    BY <1>1 DEF OpenRead, OpenBatches
  <1>4. \A s \in Clients \ {r} : /\ s \in Opening(c)' <=> s \in Opening(c)
                                 /\ At(s, "create")' <=> At(s, "create")
    BY OthersOpening DEF Request
  <1>5. CASE d = c
    <2>1. Opening(c) = {}
      BY <1>1, <1>5
    <2>2. Opening(c)' \subseteq {r} /\ ~At(r, "create")'
      BY <1>2, <1>4, <2>1 DEF Opening, At
    <2> QED
      BY <1>3, <2>2 DEF OneAtATime, AtMostOneOpen
  <1>6. CASE d # c
    <2>1. r \notin Opening(c)' /\ \A s \in Opening(c)' : s \in Clients
      BY <1>2, <1>6 DEF Opening
    <2> QED
      BY <1>3, <1>4, <2>1, CalmStep DEF Calm
  <1> QED
    BY <1>5, <1>6

\* OpenBatchByCryst finds nothing, or the request ends.
LEMMA OpenCheckStep ==
  ASSUME TypeOK, NEW c \in Crysts, OneAtATime(c), NEW r \in Clients, OpenCheck(r)
  PROVE  OneAtATime(c)'
  <1>1. OpenBatches(c)' = OpenBatches(c)
    BY DEF OpenCheck, OpenBatches
  <1>2. \A s \in Clients \ {r} : /\ s \in Opening(c)' <=> s \in Opening(c)
                                 /\ At(s, "create")' <=> At(s, "create")
    BY OthersOpening DEF Request
  <1>3. \A s \in Opening(c)' : s \in Clients
    BY DEF Opening
  <1>4. CASE End(r)
    <2>1. r \notin Opening(c)'
      BY <1>4 DEF End, Become, IdleReq, Opening, TypeOK, ReqType
    <2> QED
      BY <1>1, <1>2, <1>3, <2>1, CalmStep DEF Calm
  <1>5. CASE OpenBatches(Mine(r)) = {} /\ Become(r, [req[r] EXCEPT !.pc = "create"])
    <2>1. Mine(r)' = Mine(r) /\ req'[r].pc = "create"
      BY <1>5 DEF Become, Mine, TypeOK, ReqType, ReqRec
    <2>2. CASE Mine(r) = c
      <3>1. r \in Opening(c)
        BY <2>2 DEF OpenCheck, Opening, At
      <3>2. \A s \in Opening(c)' : s \in Opening(c)
        BY <1>2, <1>3, <3>1
      <3> QED
        BY <1>1, <1>5, <2>2, <3>2 DEF OneAtATime, AtMostOneOpen
    <2>3. CASE Mine(r) # c
      <3>1. r \notin Opening(c)'
        BY <2>1, <2>3 DEF Opening
      <3> QED
        BY <1>1, <1>2, <1>3, <3>1, CalmStep DEF Calm
    <2> QED
      BY <2>2, <2>3
  <1> QED
    BY <1>4, <1>5 DEF OpenCheck

\* The insert: the request was alone, and found nothing open.
LEMMA OpenCreateStep ==
  ASSUME TypeOK, NEW c \in Crysts, OneAtATime(c), NEW r \in Clients, OpenCreate(r)
  PROVE  OneAtATime(c)'
  <1>1. \A s \in Clients \ {r} : /\ s \in Opening(c)' <=> s \in Opening(c)
                                 /\ At(s, "create")' <=> At(s, "create")
    BY OthersOpening DEF Request
  <1>2. req'[r].pc \notin {"check", "create"}
    BY DEF OpenCreate, Become, End, IdleReq, TypeOK, ReqType, ReqRec
  <1>3. r \notin Opening(c)' /\ \A s \in Opening(c)' : s \in Clients
    BY <1>2 DEF Opening
  <1>4. CASE OpenBatches(c)' \subseteq OpenBatches(c)
    BY <1>1, <1>3, <1>4, CalmStep DEF Calm
  <1>5. CASE ~(OpenBatches(c)' \subseteq OpenBatches(c))
    <2>1. PICK b \in BatchIds \ DOMAIN batch :
            batch' = [k \in DOMAIN batch \cup {b} |->
                        IF k = b THEN [cr |-> Mine(r), status |-> "open", tons |-> 0]
                                 ELSE batch[k]]
      BY <1>5 DEF OpenCreate, OpenBatches
    <2>2. Mine(r) = c
      BY <1>5, <2>1 DEF OpenBatches
    <2>3. OpenBatches(c)' \subseteq OpenBatches(c) \cup {b}
      BY <2>1 DEF OpenBatches
    <2>4. r \in Opening(c) /\ At(r, "create")
      BY <2>2 DEF OpenCreate, Opening, At
    <2>5. OpenBatches(c) = {} /\ \A s \in Opening(c) : s = r
      BY <2>4 DEF OneAtATime
    <2>6. \A s \in Opening(c)' : FALSE
      BY <1>1, <1>3, <2>5
    <2> QED
      BY <2>3, <2>5, <2>6 DEF OneAtATime, AtMostOneOpen
  <1> QED
    BY <1>4, <1>5

OneUnlessMet == \A c \in Crysts \ met : OneAtATime(c)

LEMMA OneStep == TypeOK /\ OneUnlessMet /\ [Next]_vars => OneUnlessMet'
  <1> SUFFICES ASSUME TypeOK, OneUnlessMet, [Next]_vars, NEW c \in Crysts, c \notin met'
               PROVE  OneAtATime(c)'
    BY DEF OneUnlessMet
  <1>1. c \notin met => OneAtATime(c)
    BY DEF OneUnlessMet
  <1>2. ASSUME NEW r \in Clients, OpenRead(r) PROVE OneAtATime(c)'
    BY <1>1, <1>2, OpenReadStep
  <1>3. ASSUME NEW r \in Clients, OpenCheck(r) PROVE OneAtATime(c)'
    <2>1. UNCHANGED met
      BY <1>3 DEF OpenCheck
    <2> QED
      BY <1>1, <1>3, <2>1, OpenCheckStep
  <1>4. ASSUME NEW r \in Clients, OpenCreate(r) PROVE OneAtATime(c)'
    <2>1. UNCHANGED met
      BY <1>4 DEF OpenCreate
    <2> QED
      BY <1>1, <1>4, <2>1, OpenCreateStep
  <1>5. CASE \A r \in Clients : ~OpenRead(r) /\ ~OpenCheck(r) /\ ~OpenCreate(r)
    <2>1. Calm(c) /\ UNCHANGED met
      BY <1>5, CalmFrame
    <2> QED
      BY <1>1, <2>1, CalmStep
  <1> QED
    BY <1>2, <1>3, <1>4, <1>5

\* Open: as long as no two requests open batches of a crystallizer at once, at most one
\* is open, however many are opened, completed, refused and cut off.
THEOREM OneBatchIsOpen == Spec => []OneBatchUnlessMet
  <1>1. Init => OneUnlessMet
    <2> SUFFICES ASSUME Init, NEW c \in Crysts PROVE OneAtATime(c)
      BY DEF OneUnlessMet
    <2>1. Opening(c) = {}
      BY DEF Init, Opening, IdleReq
    <2>2. OpenBatches(c) = {}
      BY DEF Init, OpenBatches
    <2> QED
      BY <2>1, <2>2 DEF OneAtATime, AtMostOneOpen
  <1>2. TypeOK /\ OneUnlessMet /\ [Next]_vars => OneUnlessMet'
    BY OneStep
  <1>3. TypeOK /\ OneUnlessMet => OneBatchUnlessMet
    BY DEF TypeOK, CrystType, OneUnlessMet, OneAtATime, OneBatchUnlessMet
  <1> QED
    BY <1>1, <1>2, <1>3, TypeCorrect, PTL DEF Spec
=============================================================================
