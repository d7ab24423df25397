--------------------------- MODULE ReadingsProofs ---------------------------
(***************************************************************************)
(* Theorems of Readings: types, the flags, levels, offsets, stages and     *)
(* targets the tables may hold, and what a client was told is stored, for  *)
(* any ponds, sensors, batches, clients, thresholds and any budget.        *)
(***************************************************************************)
EXTENDS Readings, Induction

-----------------------------------------------------------------------------
(***************************************************************************)
(* The inductive invariant: what a request knows at each of its points.    *)
(***************************************************************************)

\* The row a request carries is that of the item it is at.
Drafted(r) ==
  LET m == r.batch[r.done + 1]
  IN r.row.pond = m.pond /\ r.row.at = m.at /\ r.row.level = m.level /\ r.row.dev = m.dev

\* A flag has, in what is stored already, a reading that warrants it.
Justified(x) ==
  x.flag # "none" => \E j \in DOMAIN readings : readings[j].pond = x.pond /\ Warrants(readings[j], x)

Kept(m) ==
  \E i \in DOMAIN readings :
    /\ readings[i].pond = m.pond /\ readings[i].at = m.at
    /\ readings[i].level = m.level /\ readings[i].dev = m.dev

\* Some reading that was not rejected is behind this value, or reached this value.
Current(p, n) ==
  \E i \in DOMAIN readings : /\ readings[i].pond = p /\ readings[i].flag # "rejected"
                             /\ readings[i].be + readings[i].dev = n
Reached(p, n) ==
  \E i \in DOMAIN readings : /\ readings[i].pond = p /\ readings[i].flag # "rejected"
                             /\ readings[i].be + readings[i].dev >= n

Steps(p, stage) == stage - Pond0[p].stage

\* The comparison AdvanceStage made: with the value CurrentBe compensated once more.
StageIsReached ==
  \A p \in Ponds : ponds[p].stage > Pond0[p].stage => Reached(p, LastTarget(p))

\* What AdvanceStage computed is a stage the pond has earned and the target of that stage.
Earned(p, next) ==
  /\ next.stage > Pond0[p].stage
  /\ next.target = Target(p, Steps(p, next.stage))
  /\ Reached(p, Target(p, Steps(p, next.stage) - 1))

Knows(r) ==
  /\ r.pc \in {"offset", "flag", "insert", "level"} => Drafted(r)
  /\ r.pc = "insert" => Justified(r.row)
  /\ r.pc = "level" => r.row.flag = "ok" /\ \E i \in DOMAIN readings : readings[i] = r.row
  /\ r.pc = "apply" => <<r.of, r.n>> \in calibrations
  /\ r.pc = "stage" => Current(r.of, r.n)
  /\ r.pc = "advance" => Earned(r.of, r.next)
  /\ \A k \in 1..r.done : Kept(r.batch[k])

RowsHold ==
  /\ FlagsJustified /\ LevelIsMeasured /\ OffsetIsRecorded
  /\ StageIsReached /\ TargetFollowsStage

IInv == TypeOK /\ RowsHold /\ \A c \in Clients : Knows(req[c])

-----------------------------------------------------------------------------
(***************************************************************************)
(* The formulas.                                                           *)
(***************************************************************************)

\* LatestReading is nobody's, or a reading of the pond that is stored.
LEMMA LatestIsStored ==
  ASSUME readings \in Seq(Row), NEW p, LatestReading(p) # None
  PROVE  \E i \in DOMAIN readings : readings[i].pond = p /\ readings[i] = LatestReading(p)
  <1> DEFINE mine == {i \in DOMAIN readings : readings[i].pond = p}
             key  == [i \in 1..Len(readings) |-> readings[i].at]
  <1>1. /\ Len(readings) \in Nat /\ DOMAIN readings = 1..Len(readings)
        /\ \A i \in DOMAIN readings : readings[i] \in Row
    OBVIOUS
  <1>2. mine # {} /\ mine \in SUBSET (1..Len(readings))
    BY <1>1 DEF LatestReading
  <1>3. key \in [1..Len(readings) -> Int]
    BY <1>1 DEF Row
  <1>4. \E i \in mine : \A j \in mine : key[j] <= key[i]
    <2> HIDE DEF mine, key
    <2> QED
      BY <1>1, <1>2, <1>3, GreatestRow
  <1>5. \E i \in mine : \A j \in mine : readings[j].at <= readings[i].at
    BY <1>2, <1>4
  <1> DEFINE last == CHOOSE i \in mine : \A j \in mine : readings[j].at <= readings[i].at
  <1>6. last \in mine
    <2> HIDE DEF mine
    <2> QED
      BY <1>5
  <1>7. LatestReading(p) = readings[last]
    BY <1>2 DEF LatestReading
  <1> HIDE DEF last
  <1> QED
    BY <1>6, <1>7

\* The flag Ingest gives is warranted by the reading it was compared with, once the
\* value is compensated or, if it was rejected, left raw.
LEMMA FlagIsWarranted ==
  ASSUME NEW prev \in Row, prev # None, NEW r \in Row, NEW f, f = FlagOf(prev, r.be, r.level),
         NEW x \in Row, x.level = r.level, x.dev = r.dev, x.flag = f,
         x.be = IF f = "rejected" THEN r.be ELSE CompensateBe(r.be, r.dev)
  PROVE  Warrants(prev, x)
  <1>1. RawBe(x) = r.be
    BY DEF RawBe, CompensateBe, Row
  <1> QED
    BY <1>1 DEF Warrants, FlagOf

\* The next target of a target is the target of the next stage.
LEMMA NextTargetIsTarget ==
  ASSUME NEW p \in Ponds, NEW k \in Nat
  PROVE  NextTarget(Target(p, k)) = Target(p, k + 1)
  <1> DEFINE t == Pond0[p].target
             s == TargetStep
  <1>1. t \in Nat /\ s \in Nat /\ TargetCap \in Nat
    BY PondsAssumption, NumbersAssumption
  <1>2. k * s \in Nat /\ (k + 1) * s = k * s + s
    BY <1>1
  <1>3. k = 0 => k * s = 0
    BY <1>1
  <1> QED
    BY <1>1, <1>2, <1>3 DEF NextTarget, Target

LEMMA InitInv == Init => IInv
  <1> SUFFICES ASSUME Init PROVE IInv
    OBVIOUS
  <1>1. RowsType /\ left \in [BudgetKinds -> Nat]
    BY PondsAssumption, BudgetAssumption DEF Init, RowsType
  <1>2. req \in [Clients -> ReqRec] /\ \A c \in Clients : CallType(req[c]) /\ Knows(req[c])
    BY DEF Init, CallType, Knows, IdleReq, ReqRec
  <1>3. RowsHold
    <2>1. FlagsJustified /\ LevelIsMeasured /\ OffsetIsRecorded
      BY DEF Init, FlagsJustified, LevelIsMeasured, OffsetIsRecorded
    <2>2. \A p \in Ponds : Pond0[p].stage \in Nat /\ Pond0[p].target \in Nat
      BY PondsAssumption, NumbersAssumption
    <2>3. \A p \in Ponds : Target(p, Pond0[p].stage - Pond0[p].stage) = Pond0[p].target
      BY <2>2, NumbersAssumption DEF Target
    <2> QED
      BY <2>1, <2>2, <2>3 DEF Init, RowsHold, StageIsReached, TargetFollowsStage
  <1> QED
    BY <1>1, <1>2, <1>3 DEF IInv, TypeOK

LEMMA LeftType ==
  ASSUME IInv, (\E kind \in BudgetKinds : Spend(kind)) \/ Fails \/ Succeeds
  PROVE  left' \in [BudgetKinds -> Nat]
  BY DEF IInv, TypeOK, Spend, Fails, Succeeds, BudgetKinds

-----------------------------------------------------------------------------
(***************************************************************************)
(* What a step leaves alone.                                               *)
(***************************************************************************)

\* Readings are only appended, sensors and calibrations only added.
Grows ==
  /\ DOMAIN readings \subseteq DOMAIN readings'
  /\ \A i \in DOMAIN readings : readings'[i] = readings[i]
  /\ DOMAIN sensors \subseteq DOMAIN sensors'
  /\ calibrations \subseteq calibrations'

LEMMA CallFrame ==
  ASSUME Grows, NEW r, CallType(r), Knows(r)
  PROVE  CallType(r)' /\ Knows(r)'
  <1>1. CallType(r)'
    BY DEF Grows, CallType
  <1>2. Justified(r.row) => Justified(r.row)'
    BY DEF Grows, Justified, Warrants, RawBe
  <1>3. Current(r.of, r.n) => Current(r.of, r.n)'
    BY DEF Grows, Current
  <1>4. Earned(r.of, r.next) => Earned(r.of, r.next)'
    BY DEF Grows, Earned, Reached, Target, Steps
  <1>5. \A m : Kept(m) => Kept(m)'
    BY DEF Grows, Kept
  <1> QED
    BY <1>1, <1>2, <1>3, <1>4, <1>5 DEF Grows, Knows, Drafted

\* What holds of a record in the next state holds of the request that it then is.
LEMMA CallIs ==
  ASSUME NEW c \in Clients, NEW r, req'[c] = r, CallType(r)', Knows(r)'
  PROVE  CallType(req[c])' /\ Knows(req[c])'
  <1>1. CallType(req[c])'
    BY DEF CallType
  <1>2. Justified(r.row)' => Justified(req[c].row)'
    BY DEF Justified, Warrants, RawBe
  <1>3. Current(r.of, r.n)' => Current(req[c].of, req[c].n)'
    BY DEF Current
  <1>4. Earned(r.of, r.next)' => Earned(req[c].of, req[c].next)'
    BY DEF Earned, Reached, Target, Steps
  <1>5. ASSUME NEW k \in 1..r.done PROVE Kept(r.batch[k])' => Kept(req[c].batch[k])'
    BY DEF Kept
  <1>6. Drafted(r)' => Drafted(req[c])'
    BY DEF Drafted
  <1> QED
    BY <1>1, <1>2, <1>3, <1>4, <1>5, <1>6 DEF Knows

\* The other requests do not notice what one request does.
LEMMA CallsFrame ==
  ASSUME IInv, Grows, NEW c \in Clients, NEW r, r \in ReqRec,
         CallType(r)', Knows(r)', req' = [req EXCEPT ![c] = r]
  PROVE  /\ req' \in [Clients -> ReqRec]
         /\ \A d \in Clients : CallType(req[d])' /\ Knows(req[d])'
  <1>1. req' \in [Clients -> ReqRec] /\ req'[c] = r
    BY DEF IInv, TypeOK
  <1>2. ASSUME NEW d \in Clients PROVE CallType(req[d])' /\ Knows(req[d])'
    <2>1. CASE d = c
      BY <1>1, <2>1, CallIs
    <2>2. CASE d # c
      <3>1. PICK x : x = req[d]
        OBVIOUS
      <3>2. CallType(x) /\ Knows(x) /\ req'[d] = x
        BY <2>2, <3>1 DEF IInv, TypeOK
      <3>3. CallType(x)' /\ Knows(x)'
        BY <3>2, CallFrame
      <3> QED
        BY <3>2, <3>3, CallIs
    <2> QED
      BY <2>1, <2>2
  <1> QED
    BY <1>1, <1>2

LEMMA RowsFrame ==
  ASSUME IInv, Grows
  PROVE  /\ readings' = readings => FlagsJustified'
         /\ ponds' = ponds => (LevelIsMeasured /\ StageIsReached /\ TargetFollowsStage)'
         /\ UNCHANGED <<sensors, calibrations>> => OffsetIsRecorded'
  <1>1. RowsHold
    BY DEF IInv
  <1>2. ASSUME readings' = readings PROVE FlagsJustified'
    BY <1>1, <1>2 DEF RowsHold, FlagsJustified, Warrants, RawBe
  <1>3. ASSUME ponds' = ponds PROVE (LevelIsMeasured /\ StageIsReached /\ TargetFollowsStage)'
    <2>1. LevelIsMeasured'
      BY <1>1, <1>3 DEF RowsHold, Grows, LevelIsMeasured
    <2>2. StageIsReached'
      BY <1>1, <1>3 DEF RowsHold, Grows, StageIsReached, Reached, LastTarget, Target
    <2>3. TargetFollowsStage'
      BY <1>1, <1>3 DEF RowsHold, TargetFollowsStage, Target
    <2> QED
      BY <2>1, <2>2, <2>3
  <1>4. ASSUME UNCHANGED <<sensors, calibrations>> PROVE OffsetIsRecorded'
    BY <1>1, <1>4 DEF RowsHold, OffsetIsRecorded
  <1> QED
    BY <1>2, <1>3, <1>4

\* A request that writes no table.
LEMMA QuietInv ==
  ASSUME IInv, NEW c \in Clients, NEW r, r \in ReqRec, CallType(r), Knows(r),
         req' = [req EXCEPT ![c] = r], left' \in [BudgetKinds -> Nat],
         UNCHANGED <<readings, ponds, sensors, calibrations>>
  PROVE  IInv'
  <1>1. Grows
    BY DEF Grows
  <1>2. CallType(r)' /\ Knows(r)'
    BY <1>1, CallFrame
  <1>3. /\ req' \in [Clients -> ReqRec]
        /\ \A d \in Clients : CallType(req[d])' /\ Knows(req[d])'
    BY <1>1, <1>2, CallsFrame
  <1>4. RowsHold'
    BY <1>1, RowsFrame DEF RowsHold
  <1> QED
    BY <1>3, <1>4 DEF IInv, TypeOK, RowsType

LEMMA IdleKnows == IdleReq \in ReqRec /\ CallType(IdleReq) /\ Knows(IdleReq)
  BY DEF IdleReq, ReqRec, CallType, Knows

LEMMA LeaveInv ==
  ASSUME IInv, NEW c \in Clients, Leave(c), left' \in [BudgetKinds -> Nat],
         UNCHANGED <<readings, ponds, sensors, calibrations>>
  PROVE  IInv'
  BY IdleKnows, QuietInv DEF Leave, Goto

-----------------------------------------------------------------------------
(***************************************************************************)
(* Ingest.                                                                 *)
(***************************************************************************)

LEMMA PostInv ==
  ASSUME IInv, NEW c \in Clients, Post(c)
  PROVE  IInv'
  <1>1. left' \in [BudgetKinds -> Nat]
    BY LeftType DEF Post, BudgetKinds
  <1>2. PICK b \in Batches : Goto(c, [IdleReq EXCEPT !.pc = "check", !.batch = b])
    BY DEF Post
  <1> DEFINE r == [IdleReq EXCEPT !.pc = "check", !.batch = b]
  <1>3. r \in ReqRec /\ CallType(r) /\ Knows(r)
    <2>1. Len(b) \in Nat
      BY ItemsAssumption
    <2>2. r \in ReqRec
      BY IdleKnows DEF ReqRec
    <2>3. r.pc = "check" /\ r.batch = b /\ r.done = 0
      BY DEF IdleReq
    <2> HIDE DEF r
    <2> QED
      BY <2>1, <2>2, <2>3 DEF CallType, Knows
  <1> QED
    BY <1>1, <1>2, <1>3, QuietInv DEF Post, Goto

LEMMA DraftKeeps ==
  ASSUME NEW m
  PROVE  /\ Draft(m).pond = m.pond /\ Draft(m).at = m.at
         /\ Draft(m).level = m.level /\ Draft(m).dev = m.dev
  BY DEF Draft

\* The item a request is at, and the row it becomes.
LEMMA DraftType ==
  ASSUME IInv, NEW c \in Clients, At(c, "check"), req[c].done < Len(req[c].batch)
  PROVE  Draft(Item(c)) \in Row /\ Item(c).be \in Int
  <1> DEFINE q == req[c]
  <1>1. q \in ReqRec /\ q.batch \in Batches /\ q.done \in 0..Len(q.batch)
    BY DEF IInv, TypeOK, CallType, At
  <1>2. q.done + 1 \in 1..Len(q.batch)
    BY <1>1 DEF ReqRec
  <1> DEFINE I == [pond : Ponds, at : Nat, be : Int, dev : Int, level : Nat,
                   src : Sensors \cup {"manual"}]
  <1>3. Item(c) \in I
    <2>1. q.batch \in Seq(I)
      BY <1>1, ItemsAssumption
    <2> HIDE DEF I
    <2> QED
      BY <1>2, <2>1 DEF Item
  <1> QED
    BY <1>3 DEF Draft, Row, Flags

LEMMA CheckInv ==
  ASSUME IInv, NEW c \in Clients, Check(c)
  PROVE  IInv'
  <1>1. left' \in [BudgetKinds -> Nat]
    BY LeftType DEF Check, Refused
  <1>2. CASE Leave(c)
    BY <1>1, <1>2, LeaveInv DEF Check
  <1>3. CASE /\ req[c].done < Len(req[c].batch)
             /\ Goto(c, [req[c] EXCEPT !.pc = IF Item(c).src = "manual" THEN "flag" ELSE "offset",
                                       !.row = Draft(Item(c))])
    <2> DEFINE q == req[c]
               pc == IF Item(c).src = "manual" THEN "flag" ELSE "offset"
               r == [q EXCEPT !.pc = pc, !.row = Draft(Item(c))]
    <2>1. q \in ReqRec /\ CallType(q) /\ Knows(q) /\ q.pc = "check"
      BY DEF IInv, TypeOK, Check, At
    <2>2. Draft(Item(c)) \in Row
      BY <1>3, DraftType DEF Check
    <2>3. r \in ReqRec /\ r.pc \in {"flag", "offset"} /\ r.row = Draft(Item(c))
          /\ r.batch = q.batch /\ r.done = q.done
      BY <2>1, <2>2 DEF ReqRec
    <2>4. CallType(r)
      <3>1. q.batch \in Batches /\ q.done \in 0..Len(q.batch) /\ Len(q.batch) \in Nat
        BY <2>1, ItemsAssumption DEF CallType
      <3> QED
        BY <1>3, <2>2, <2>3, <3>1 DEF CallType
    <2>5. Knows(r)
      <3>1. \A k \in 1..q.done : Kept(q.batch[k])
        BY <2>1 DEF Knows
      <3> HIDE DEF r
      <3>2. Drafted(r)
        <4>1. r.batch[r.done + 1] = Item(c)
          BY <2>3 DEF Item
        <4> QED
          BY <2>3, <4>1, DraftKeeps DEF Drafted
      <3> QED
        BY <2>3, <3>1, <3>2 DEF Knows
    <2> QED
      BY <1>1, <1>3, <2>3, <2>4, <2>5, QuietInv DEF Check, Goto
  <1> QED
    BY <1>2, <1>3 DEF Check, Refused

\* A step on the row of an item that stays the row of that item.
LEMMA RowStep ==
  ASSUME IInv, NEW c \in Clients, req[c].pc \in {"offset", "flag"},
         NEW pc \in {"flag", "insert"}, NEW x \in Row,
         x.pond = req[c].row.pond, x.at = req[c].row.at,
         x.level = req[c].row.level, x.dev = req[c].row.dev,
         pc = "insert" => Justified(x),
         Goto(c, [req[c] EXCEPT !.pc = pc, !.row = x]), left' \in [BudgetKinds -> Nat],
         UNCHANGED <<readings, ponds, sensors, calibrations>>
  PROVE  IInv'
  <1> DEFINE q == req[c]
             r == [q EXCEPT !.pc = pc, !.row = x]
  <1>1. q \in ReqRec /\ CallType(q) /\ Knows(q)
    BY DEF IInv, TypeOK
  <1>2. /\ r \in ReqRec /\ r.pc = pc /\ r.row = x
        /\ r.batch = q.batch /\ r.done = q.done
    BY <1>1 DEF ReqRec
  <1>3. q.batch \in Batches /\ q.done \in 0..Len(q.batch) - 1
    BY <1>1 DEF CallType
  <1>4. Drafted(q) /\ \A k \in 1..q.done : Kept(q.batch[k])
    BY <1>1 DEF Knows
  <1>5. req' = [req EXCEPT ![c] = r]
    BY DEF Goto
  <1> HIDE DEF r
  <1>6. CallType(r)
    BY <1>2, <1>3 DEF CallType
  <1>7. Drafted(r)
    BY <1>2, <1>4 DEF Drafted
  <1>8. Knows(r)
    BY <1>2, <1>4, <1>7 DEF Knows
  <1> QED
    BY <1>2, <1>5, <1>6, <1>8, QuietInv

LEMMA OffsetInv ==
  ASSUME IInv, NEW c \in Clients, Offset(c)
  PROVE  IInv'
  <1> DEFINE q == req[c]
             s == Item(c).src
             be == Item(c).be + sensors[s].offset
  <1>1. q \in ReqRec /\ q.pc = "offset" /\ q.row \in Row
    BY DEF IInv, TypeOK, CallType, Offset, At
  <1>2. left' \in [BudgetKinds -> Nat] /\ UNCHANGED <<readings, ponds, sensors, calibrations>>
    BY LeftType DEF Offset
  <1>3. CASE be \in BeMin..BeMax /\ Goto(c, [req[c] EXCEPT !.pc = "flag", !.row.be = be])
    <2> DEFINE x == [q.row EXCEPT !.be = be]
    <2>1. be \in Int
      BY <1>3, NumbersAssumption
    <2> HIDE DEF be
    <2>2. x \in Row /\ x.pond = q.row.pond /\ x.at = q.row.at /\ x.level = q.row.level
          /\ x.dev = q.row.dev
      BY <1>1, <2>1 DEF Row
    <2>3. Goto(c, [req[c] EXCEPT !.pc = "flag", !.row = x])
      BY <1>1, <1>3 DEF ReqRec, Goto
    <2> QED
      BY <1>1, <1>2, <2>2, <2>3, RowStep
  <1>4. CASE Goto(c, [req[c] EXCEPT !.pc = "flag"])
    <2>1. Goto(c, [req[c] EXCEPT !.pc = "flag", !.row = q.row])
      BY <1>1, <1>4 DEF ReqRec, Goto
    <2> QED
      BY <1>1, <1>2, <2>1, RowStep
  <1> QED
    BY <1>3, <1>4 DEF Offset

LEMMA FlagInv ==
  ASSUME IInv, NEW c \in Clients, Flag(c)
  PROVE  IInv'
  <1> DEFINE q == req[c]
             prev == LatestReading(q.row.pond)
             f == FlagOf(prev, q.row.be, q.row.level)
             be == IF f = "rejected" THEN q.row.be ELSE CompensateBe(q.row.be, q.row.dev)
             x == [q.row EXCEPT !.flag = f, !.be = be]
  <1>1. q \in ReqRec /\ q.pc = "flag" /\ q.row \in Row /\ readings \in Seq(Row)
    BY DEF IInv, TypeOK, RowsType, CallType, Flag, At
  <1>2. left' \in [BudgetKinds -> Nat] /\ UNCHANGED <<readings, ponds, sensors, calibrations>>
    BY LeftType DEF Flag, Refused
  <1>3. CASE Leave(c)
    BY <1>2, <1>3, LeaveInv
  <1>4. CASE Goto(c, [req[c] EXCEPT !.pc = "insert", !.row.flag = f,
                        !.row.be = IF f = "rejected" THEN @ ELSE CompensateBe(@, q.row.dev)])
    <2>1. f \in Flags
      BY DEF FlagOf, Flags
    <2> HIDE DEF f
    <2>2. q.row.be \in Int /\ q.row.dev \in Int
      BY <1>1 DEF Row
    <2>3. be \in Int
      BY <2>2 DEF CompensateBe
    <2>4. /\ x \in Row /\ x.flag = f /\ x.be = be
          /\ x.pond = q.row.pond /\ x.at = q.row.at /\ x.level = q.row.level /\ x.dev = q.row.dev
      BY <1>1, <2>1, <2>3 DEF Row
    <2>5. Goto(c, [req[c] EXCEPT !.pc = "insert", !.row = x])
      BY <1>1, <1>4 DEF ReqRec, Goto, Row
    <2> HIDE DEF x
    <2>6. Justified(x)
      <3>1. CASE prev = None
        <4>1. f = "none"
          BY <3>1 DEF f, FlagOf
        <4> QED
          BY <2>4, <4>1 DEF Justified
      <3>2. CASE prev # None
        <4>1. PICK i \in DOMAIN readings : readings[i].pond = q.row.pond /\ readings[i] = prev
          BY <1>1, <3>2, LatestIsStored
        <4>2. prev \in Row
          BY <1>1, <4>1
        <4>3. Warrants(prev, x)
          <5> HIDE DEF prev
          <5> QED
            BY <1>1, <2>4, <3>2, <4>2, FlagIsWarranted DEF f
        <4> QED
          BY <2>4, <4>1, <4>3 DEF Justified
      <3> QED
        BY <3>1, <3>2
    <2> QED
      BY <1>1, <1>2, <2>4, <2>5, <2>6, RowStep
  <1> QED
    BY <1>3, <1>4 DEF Flag, Refused

\* The next item of a batch, once what is stored answers for the item before.
LEMMA NextItemKnows ==
  ASSUME IInv, Grows, NEW c \in Clients, req[c].pc \in {"insert", "level"},
         NEW m, m = Item(c), Kept(m)', NEW r, r = NextItem(c)
  PROVE  r \in ReqRec /\ CallType(r)' /\ Knows(r)'
  <1>1. PICK q : q = req[c]
    OBVIOUS
  <1>2. q \in ReqRec /\ CallType(q) /\ Knows(q) /\ q.pc \in {"insert", "level"}
    BY <1>1 DEF IInv, TypeOK
  <1>3. q.batch \in Batches /\ q.done \in 0..Len(q.batch) - 1 /\ Len(q.batch) \in Nat
    BY <1>2, ItemsAssumption DEF CallType
  <1>4. r = [q EXCEPT !.pc = "check", !.done = q.done + 1, !.row = None]
    BY <1>1 DEF NextItem
  <1>5. r \in ReqRec
    <2>1. q.done + 1 \in Nat /\ None \in Row \cup {None}
      BY <1>3
    <2> QED
      BY <1>2, <1>4, <2>1 DEF ReqRec
  <1>6. r.pc = "check" /\ r.batch = q.batch /\ r.done = q.done + 1
    BY <1>2, <1>4 DEF ReqRec
  <1>7. CallType(r)'
    BY <1>3, <1>6 DEF CallType
  <1>8. ASSUME NEW k \in 1..r.done PROVE Kept(r.batch[k])'
    <2>1. CASE k \in 1..q.done
      BY <1>2, <1>6, <2>1 DEF Knows, Grows, Kept
    <2>2. CASE k = q.done + 1
      BY <1>1, <1>6, <2>2 DEF Item, Kept
    <2> QED
      BY <1>3, <1>6, <2>1, <2>2
  <1> QED
    BY <1>5, <1>6, <1>7, <1>8 DEF Knows

\* What is stored answers for the item of the row that was stored.
LEMMA StoredIsKept ==
  ASSUME NEW m, NEW x, x.pond = m.pond, x.at = m.at, x.level = m.level, x.dev = m.dev,
         \E i \in DOMAIN readings' : readings'[i] = x
  PROVE  Kept(m)'
  BY DEF Kept

LEMMA InsertInv ==
  ASSUME IInv, NEW c \in Clients, Insert(c)
  PROVE  IInv'
  <1>1. left' \in [BudgetKinds -> Nat] /\ UNCHANGED <<ponds, sensors, calibrations>>
    BY LeftType DEF Insert
  <1>2. CASE Leave(c) /\ readings' = readings
    BY <1>1, <1>2, LeaveInv
  <1>3. CASE /\ readings' = Append(readings, req[c].row)
             /\ Goto(c, IF req[c].row.flag = "ok" THEN [req[c] EXCEPT !.pc = "level"] ELSE NextItem(c))
    <2>1. PICK q : q = req[c]
      OBVIOUS
    <2>2. q \in ReqRec /\ q.pc = "insert" /\ CallType(q) /\ Knows(q)
      BY <2>1 DEF IInv, TypeOK, Insert, At
    <2>3. PICK x : x = q.row
      OBVIOUS
    <2>4. x \in Row /\ Justified(x) /\ readings \in Seq(Row)
      BY <2>2, <2>3 DEF CallType, Knows, IInv, TypeOK, RowsType
    <2>5. readings' = Append(readings, x)
      BY <1>3, <2>1, <2>3
    <2>0. PICK N \in Nat : N = Len(readings)
      BY <2>4
    <2>6. /\ readings' \in Seq(Row) /\ DOMAIN readings = 1..N
          /\ DOMAIN readings' = 1..N + 1 /\ readings'[N + 1] = x
          /\ \A i \in 1..N : readings'[i] = readings[i]
      BY <2>0, <2>4, <2>5
    <2>7. Grows
      BY <1>1, <2>6 DEF Grows
    <2>8. FlagsJustified'
      <3> SUFFICES ASSUME NEW i \in 1..N + 1, readings'[i].flag # "none"
                   PROVE  \E j \in 1..i - 1 : /\ readings'[j].pond = readings'[i].pond
                                              /\ Warrants(readings'[j], readings'[i])
        BY <2>6 DEF FlagsJustified
      <3>1. CASE i = N + 1
        <4>1. PICK j \in 1..N : readings[j].pond = x.pond /\ Warrants(readings[j], x)
          BY <2>4, <2>6, <3>1 DEF Justified
        <4>2. j \in 1..i - 1
          BY <2>0, <3>1, <4>1
        <4>3. readings'[j] = readings[j] /\ readings'[i] = x
          BY <2>6, <3>1, <4>1
        <4> QED
          BY <4>1, <4>2, <4>3
      <3>2. CASE i \in 1..N
        <4>1. PICK j \in 1..i - 1 : readings[j].pond = readings[i].pond
                                     /\ Warrants(readings[j], readings[i])
          BY <2>6, <3>2 DEF IInv, RowsHold, FlagsJustified
        <4>2. readings'[j] = readings[j] /\ readings'[i] = readings[i]
          BY <2>0, <2>6, <3>2, <4>1
        <4> QED
          BY <4>1, <4>2
      <3>3. i = N + 1 \/ i \in 1..N
        BY <2>0
      <3> QED
        BY <3>1, <3>2, <3>3
    <2>9. RowsHold'
      BY <1>1, <2>7, <2>8, RowsFrame DEF RowsHold
    <2>10. PICK r : r = IF x.flag = "ok" THEN [q EXCEPT !.pc = "level"] ELSE NextItem(c)
      OBVIOUS
    <2>11. r \in ReqRec /\ CallType(r)' /\ Knows(r)'
      <3>1. CASE x.flag = "ok"
        <4>1. /\ r \in ReqRec /\ r.pc = "level" /\ r.row = q.row
              /\ r.batch = q.batch /\ r.done = q.done
          BY <2>2, <2>10, <3>1 DEF ReqRec
        <4>2. CallType(r)'
          BY <2>2, <4>1 DEF CallType
        <4>3. Drafted(r)
          BY <2>2, <4>1 DEF Drafted, Knows
        <4>4. \A k \in 1..r.done : Kept(r.batch[k])'
          BY <2>2, <2>7, <4>1 DEF Knows, Grows, Kept
        <4>5. \E i \in DOMAIN readings' : readings'[i] = r.row
          BY <2>3, <2>6, <4>1
        <4> QED
          BY <2>3, <3>1, <4>1, <4>2, <4>3, <4>4, <4>5 DEF Knows, Drafted
      <3>2. CASE x.flag # "ok"
        <4>1. PICK m : m = Item(c)
          OBVIOUS
        <4>2. x.pond = m.pond /\ x.at = m.at /\ x.level = m.level /\ x.dev = m.dev
          BY <2>1, <2>2, <2>3, <4>1 DEF Knows, Drafted, Item
        <4>3. Kept(m)'
          BY <2>6, <4>2, StoredIsKept
        <4> QED
          BY <2>1, <2>2, <2>7, <2>10, <3>2, <4>1, <4>3, NextItemKnows
      <3> QED
        BY <3>1, <3>2
    <2>12. req' = [req EXCEPT ![c] = r]
      BY <1>3, <2>1, <2>3, <2>10 DEF Goto
    <2>13. /\ req' \in [Clients -> ReqRec]
           /\ \A d \in Clients : CallType(req[d])' /\ Knows(req[d])'
      BY <2>7, <2>11, <2>12, CallsFrame
    <2> QED
      BY <1>1, <2>6, <2>9, <2>13 DEF IInv, TypeOK, RowsType
  <1> QED
    BY <1>2, <1>3 DEF Insert

LEMMA LevelInv ==
  ASSUME IInv, NEW c \in Clients, Level(c)
  PROVE  IInv'
  <1>1. left' \in [BudgetKinds -> Nat] /\ UNCHANGED <<readings, sensors, calibrations>>
    BY LeftType DEF Level, Refused
  <1>2. CASE Leave(c) /\ ponds' = ponds
    BY <1>1, <1>2, LeaveInv
  <1>3. CASE /\ ponds' = [ponds EXCEPT ![req[c].row.pond].level = req[c].row.level]
             /\ Goto(c, NextItem(c))
    <2>1. PICK q : q = req[c]
      OBVIOUS
    <2>2. q \in ReqRec /\ q.pc = "level" /\ CallType(q) /\ Knows(q)
      BY <2>1 DEF IInv, TypeOK, Level, At
    <2>3. PICK x : x = q.row
      OBVIOUS
    <2>4. x \in Row /\ x.flag = "ok" /\ \E i \in DOMAIN readings : readings[i] = x
      BY <2>2, <2>3 DEF CallType, Knows
    <2>5. ponds' = [ponds EXCEPT ![x.pond].level = x.level] /\ x.pond \in Ponds /\ x.level \in Nat
      BY <1>3, <2>1, <2>3, <2>4 DEF Row
    <2>6. RowsType'
      BY <1>1, <2>5 DEF IInv, TypeOK, RowsType
    <2>7. /\ ponds'[x.pond].level = x.level
          /\ \A p \in Ponds :
               /\ ponds'[p].stage = ponds[p].stage /\ ponds'[p].target = ponds[p].target
               /\ p # x.pond => ponds'[p].level = ponds[p].level
      BY <2>5 DEF IInv, TypeOK, RowsType
    <2>8. Grows
      BY <1>1 DEF Grows
    <2>9. LevelIsMeasured'
      BY <1>1, <2>4, <2>7 DEF IInv, RowsHold, LevelIsMeasured
    <2>10. StageIsReached'
      BY <1>1, <2>7 DEF IInv, RowsHold, StageIsReached, Reached, LastTarget, Target
    <2>11. TargetFollowsStage'
      BY <2>7 DEF IInv, RowsHold, TargetFollowsStage, Target
    <2>12. PICK r : r = NextItem(c)
      OBVIOUS
    <2>13. r \in ReqRec /\ CallType(r)' /\ Knows(r)'
      <3>1. PICK m : m = Item(c)
        OBVIOUS
      <3>2. x.pond = m.pond /\ x.at = m.at /\ x.level = m.level /\ x.dev = m.dev
        BY <2>1, <2>2, <2>3, <3>1 DEF Knows, Drafted, Item
      <3>3. Kept(m)'
        BY <1>1, <2>4, <3>2, StoredIsKept
      <3> QED
        BY <2>1, <2>2, <2>8, <2>12, <3>1, <3>3, NextItemKnows
    <2>14. /\ req' \in [Clients -> ReqRec]
           /\ \A d \in Clients : CallType(req[d])' /\ Knows(req[d])'
      BY <1>3, <2>8, <2>12, <2>13, CallsFrame DEF Goto
    <2> QED
      BY <1>1, <2>6, <2>8, <2>9, <2>10, <2>11, <2>14, RowsFrame DEF IInv, TypeOK, RowsHold
  <1> QED
    BY <1>2, <1>3 DEF Level, Refused

LEMMA IngestInv ==
  ASSUME IInv, NEW c \in Clients, Ingest(c)
  PROVE  IInv'
  BY PostInv, CheckInv, OffsetInv, FlagInv, InsertInv, LevelInv DEF Ingest

-----------------------------------------------------------------------------
(***************************************************************************)
(* Register and Calibrate.                                                 *)
(***************************************************************************)

\* Requests that a step on the tables of sensors and calibrations leaves alone.
LEMMA SensorsStep ==
  ASSUME IInv, Grows, UNCHANGED <<readings, ponds>>, RowsType', OffsetIsRecorded',
         left' \in [BudgetKinds -> Nat], req' \in [Clients -> ReqRec],
         \A d \in Clients : CallType(req[d])' /\ Knows(req[d])'
  PROVE  IInv'
  BY RowsFrame DEF IInv, TypeOK, RowsHold

LEMMA RegisterInv ==
  ASSUME IInv, Register
  PROVE  IInv'
  <1>1. left' \in [BudgetKinds -> Nat] /\ UNCHANGED <<readings, ponds, calibrations, req>>
    BY LeftType DEF Register, BudgetKinds
  <1>2. PICK s \in Sensors \ DOMAIN sensors, kind \in {"be", "temp", "level"} :
          sensors' = [t \in DOMAIN sensors \cup {s} |->
                        IF t = s THEN [kind |-> kind, offset |-> 0] ELSE sensors[t]]
    BY DEF Register
  <1>3. Grows
    BY <1>1, <1>2 DEF Grows
  <1>4. RowsType'
    BY <1>1, <1>2 DEF IInv, TypeOK, RowsType
  <1>5. OffsetIsRecorded'
    BY <1>1, <1>2 DEF IInv, RowsHold, OffsetIsRecorded
  <1>6. ASSUME NEW d \in Clients PROVE CallType(req[d])' /\ Knows(req[d])'
    <2>1. PICK x : x = req[d]
      OBVIOUS
    <2>2. CallType(x)' /\ Knows(x)'
      BY <1>3, <2>1, CallFrame DEF IInv, TypeOK
    <2> QED
      BY <1>1, <2>1, <2>2, CallIs
  <1> QED
    BY <1>1, <1>3, <1>4, <1>5, <1>6, SensorsStep DEF IInv, TypeOK

LEMMA CalibrateReadInv ==
  ASSUME IInv, NEW c \in Clients, CalibrateRead(c)
  PROVE  IInv'
  <1>1. left' \in [BudgetKinds -> Nat]
    BY LeftType DEF CalibrateRead, BudgetKinds
  <1>2. PICK s \in DOMAIN sensors, n \in Calibrations :
          Goto(c, [IdleReq EXCEPT !.pc = "record", !.of = s, !.n = n])
    BY DEF CalibrateRead
  <1>3. PICK r : r = [IdleReq EXCEPT !.pc = "record", !.of = s, !.n = n]
    OBVIOUS
  <1>4. r \in ReqRec /\ r.pc = "record" /\ r.of = s /\ r.n = n /\ r.done = 0
    BY <1>3, NumbersAssumption DEF IInv, TypeOK, RowsType, ReqRec, IdleReq
  <1>5. CallType(r) /\ Knows(r)
    BY <1>4 DEF CallType, Knows
  <1> QED
    BY <1>1, <1>2, <1>3, <1>4, <1>5, QuietInv DEF CalibrateRead, Goto

LEMMA CalibrateRecordInv ==
  ASSUME IInv, NEW c \in Clients, CalibrateRecord(c)
  PROVE  IInv'
  <1>1. left' \in [BudgetKinds -> Nat] /\ UNCHANGED <<readings, ponds, sensors>>
    BY LeftType DEF CalibrateRecord, Refused
  <1>2. CASE Leave(c) /\ calibrations' = calibrations
    BY <1>1, <1>2, LeaveInv
  <1>3. CASE /\ calibrations' = calibrations \cup {<<req[c].of, req[c].n>>}
             /\ Goto(c, [req[c] EXCEPT !.pc = "apply"])
    <2>1. PICK q : q = req[c]
      OBVIOUS
    <2>2. q \in ReqRec /\ q.pc = "record" /\ CallType(q) /\ Knows(q)
      BY <2>1 DEF IInv, TypeOK, CalibrateRecord, At
    <2>3. PICK r : r = [q EXCEPT !.pc = "apply"]
      OBVIOUS
    <2>4. /\ r \in ReqRec /\ r.pc = "apply" /\ r.of = q.of /\ r.n = q.n
          /\ r.batch = q.batch /\ r.done = q.done
      BY <2>2, <2>3 DEF ReqRec
    <2>5. calibrations' = calibrations \cup {<<r.of, r.n>>} /\ r.of \in DOMAIN sensors /\ r.n \in Int
      BY <1>3, <2>1, <2>2, <2>4 DEF CallType, ReqRec
    <2>6. Grows
      BY <1>1, <2>5 DEF Grows
    <2>7. RowsType' /\ OffsetIsRecorded'
      BY <1>1, <2>5 DEF IInv, TypeOK, RowsType, RowsHold, OffsetIsRecorded
    <2>8. CallType(r)' /\ Knows(r)'
      <3>1. \A k \in 1..r.done : Kept(r.batch[k])'
        BY <2>2, <2>4, <2>6 DEF Knows, Grows, Kept
      <3> QED
        BY <1>1, <2>4, <2>5, <3>1 DEF CallType, Knows
    <2>9. req' = [req EXCEPT ![c] = r]
      BY <1>3, <2>1, <2>3 DEF Goto
    <2>10. /\ req' \in [Clients -> ReqRec]
           /\ \A d \in Clients : CallType(req[d])' /\ Knows(req[d])'
      BY <2>4, <2>6, <2>8, <2>9, CallsFrame
    <2> QED
      BY <1>1, <2>6, <2>7, <2>10, SensorsStep
  <1> QED
    BY <1>2, <1>3 DEF CalibrateRecord, Refused

LEMMA CalibrateApplyInv ==
  ASSUME IInv, NEW c \in Clients, CalibrateApply(c)
  PROVE  IInv'
  <1>1. /\ left' \in [BudgetKinds -> Nat] /\ UNCHANGED <<readings, ponds, calibrations>>
        /\ Leave(c)
    BY LeftType DEF CalibrateApply
  <1>2. CASE sensors' = sensors
    BY <1>1, <1>2, LeaveInv
  <1>3. CASE sensors' = [sensors EXCEPT ![req[c].of].offset = req[c].n]
    <2>1. PICK q : q = req[c]
      OBVIOUS
    <2>2. q \in ReqRec /\ q.pc = "apply" /\ CallType(q) /\ Knows(q)
      BY <2>1 DEF IInv, TypeOK, CalibrateApply, At
    <2>3. q.of \in DOMAIN sensors /\ q.n \in Int /\ <<q.of, q.n>> \in calibrations
      BY <2>2 DEF CallType, Knows, ReqRec
    <2>4. sensors' = [sensors EXCEPT ![q.of].offset = q.n]
      BY <1>3, <2>1
    <2>5. Grows
      BY <1>1, <2>4 DEF Grows
    <2>6. RowsType'
      BY <1>1, <2>3, <2>4 DEF IInv, TypeOK, RowsType
    <2>7. OffsetIsRecorded'
      BY <1>1, <2>3, <2>4 DEF IInv, TypeOK, RowsType, RowsHold, OffsetIsRecorded
    <2>8. CallType(IdleReq)' /\ Knows(IdleReq)'
      BY <2>5, IdleKnows DEF IdleReq, CallType, Knows
    <2>9. /\ req' \in [Clients -> ReqRec]
          /\ \A d \in Clients : CallType(req[d])' /\ Knows(req[d])'
      BY <1>1, <2>5, <2>8, IdleKnows, CallsFrame DEF Leave, Goto
    <2> QED
      BY <1>1, <2>5, <2>6, <2>7, <2>9, SensorsStep
  <1> QED
    BY <1>2, <1>3 DEF CalibrateApply

-----------------------------------------------------------------------------
(***************************************************************************)
(* The advance route.                                                      *)
(***************************************************************************)

LEMMA AdvanceReadInv ==
  ASSUME IInv, NEW c \in Clients, AdvanceRead(c)
  PROVE  IInv'
  <1>1. left' \in [BudgetKinds -> Nat]
    BY LeftType DEF AdvanceRead, BudgetKinds
  <1>2. PICK p \in Ponds :
          LET r == LatestReading(p) IN
          /\ r # None /\ r.flag # "rejected"
          /\ Goto(c, [IdleReq EXCEPT !.pc = "stage", !.of = p, !.n = CompensateBe(r.be, r.dev)])
    BY DEF AdvanceRead
  <1>3. PICK i \in DOMAIN readings : readings[i].pond = p /\ readings[i] = LatestReading(p)
    BY <1>2, LatestIsStored DEF IInv, TypeOK, RowsType
  <1>4. readings[i] \in Row
    BY <1>3 DEF IInv, TypeOK, RowsType
  <1>5. PICK x : x = readings[i]
    OBVIOUS
  <1>6. PICK n : n = x.be + x.dev
    OBVIOUS
  <1>7. n \in Int
    BY <1>4, <1>5, <1>6 DEF Row
  <1>8. PICK r : r = [IdleReq EXCEPT !.pc = "stage", !.of = p, !.n = n]
    OBVIOUS
  <1>9. r \in ReqRec /\ r.pc = "stage" /\ r.of = p /\ r.n = n /\ r.done = 0
    BY <1>7, <1>8 DEF ReqRec, IdleReq
  <1>10. Current(p, n)
    BY <1>2, <1>3, <1>5, <1>6 DEF Current
  <1>11. CallType(r) /\ Knows(r)
    BY <1>2, <1>9, <1>10 DEF CallType, Knows
  <1>12. Goto(c, r)
    BY <1>2, <1>3, <1>5, <1>6, <1>8 DEF CompensateBe
  <1> QED
    BY <1>1, <1>9, <1>11, <1>12, QuietInv DEF AdvanceRead, Goto

\* What AdvanceStage computes from a row it read.
LEMMA AdvanceEarns ==
  ASSUME IInv, NEW p \in Ponds, NEW n \in Int, Current(p, n),
         ponds[p].stage < LastStage, n >= ponds[p].target,
         NEW next, next = [stage |-> ponds[p].stage + 1, target |-> NextTarget(ponds[p].target)]
  PROVE  next \in Advanced /\ Earned(p, next)
  <1> DEFINE k == Steps(p, ponds[p].stage)
  <1>1. /\ ponds[p].stage \in 0..LastStage /\ LastStage \in Nat /\ Pond0[p].stage \in Nat
        /\ ponds[p].target \in Nat /\ TargetCap \in Nat /\ TargetStep \in Nat
    BY PondsAssumption, NumbersAssumption DEF IInv, TypeOK, RowsType
  <1>2. ponds[p].stage >= Pond0[p].stage /\ ponds[p].target = Target(p, k)
    BY DEF IInv, RowsHold, TargetFollowsStage, Steps
  <1>3. k \in Nat
    BY <1>1, <1>2 DEF Steps
  <1>4. next.stage = ponds[p].stage + 1 /\ next.target = NextTarget(ponds[p].target)
    OBVIOUS
  <1>5. Steps(p, next.stage) = k + 1 /\ Steps(p, next.stage) - 1 = k
    BY <1>1, <1>4 DEF Steps
  <1>6. next \in Advanced
    BY <1>1 DEF Advanced, NextTarget
  <1>7. Reached(p, Target(p, k))
    <2>1. PICK i \in DOMAIN readings : /\ readings[i].pond = p /\ readings[i].flag # "rejected"
                                       /\ readings[i].be + readings[i].dev = n
      BY DEF Current
    <2> QED
      BY <1>2, <2>1 DEF Reached
  <1>8. next.target = Target(p, k + 1)
    BY <1>2, <1>3, <1>4, NextTargetIsTarget
  <1>9. next.stage > Pond0[p].stage
    BY <1>1, <1>2, <1>4
  <1> QED
    BY <1>5, <1>6, <1>7, <1>8, <1>9 DEF Earned

LEMMA AdvanceCheckInv ==
  ASSUME IInv, NEW c \in Clients, AdvanceCheck(c)
  PROVE  IInv'
  <1>1. left' \in [BudgetKinds -> Nat] /\ UNCHANGED <<readings, ponds, sensors, calibrations>>
    BY LeftType DEF AdvanceCheck, Refused
  <1>2. CASE Leave(c)
    BY <1>1, <1>2, LeaveInv
  <1>3. CASE /\ ponds[req[c].of].stage < LastStage /\ req[c].n >= ponds[req[c].of].target
             /\ Goto(c, [req[c] EXCEPT !.pc = "advance",
                           !.next = [stage |-> ponds[req[c].of].stage + 1,
                                     target |-> NextTarget(ponds[req[c].of].target)]])
    <2>1. PICK q : q = req[c]
      OBVIOUS
    <2>2. q \in ReqRec /\ q.pc = "stage" /\ CallType(q) /\ Knows(q)
      BY <2>1 DEF IInv, TypeOK, AdvanceCheck, At
    <2>3. q.of \in Ponds /\ q.n \in Int /\ Current(q.of, q.n)
      BY <2>2 DEF CallType, Knows, ReqRec
    <2>4. PICK next : next = [stage |-> ponds[q.of].stage + 1,
                              target |-> NextTarget(ponds[q.of].target)]
      OBVIOUS
    <2>5. next \in Advanced /\ Earned(q.of, next)
      BY <1>3, <2>1, <2>3, <2>4, AdvanceEarns
    <2>6. PICK r : r = [q EXCEPT !.pc = "advance", !.next = next]
      OBVIOUS
    <2>7. /\ r \in ReqRec /\ r.pc = "advance" /\ r.of = q.of /\ r.next = next
          /\ r.batch = q.batch /\ r.done = q.done
      BY <2>2, <2>5, <2>6 DEF ReqRec
    <2>8. CallType(r) /\ Knows(r)
      <3>1. \A k \in 1..r.done : Kept(r.batch[k])
        BY <2>2, <2>7 DEF Knows
      <3> QED
        BY <2>3, <2>5, <2>7, <3>1 DEF CallType, Knows
    <2>9. Goto(c, r)
      BY <1>3, <2>1, <2>4, <2>6
    <2> QED
      BY <1>1, <2>7, <2>8, <2>9, QuietInv DEF Goto
  <1> QED
    BY <1>2, <1>3 DEF AdvanceCheck, Refused

LEMMA AdvanceSaveInv ==
  ASSUME IInv, NEW c \in Clients, AdvanceSave(c)
  PROVE  IInv'
  <1>1. /\ left' \in [BudgetKinds -> Nat] /\ UNCHANGED <<readings, sensors, calibrations>>
        /\ Leave(c)
    BY LeftType DEF AdvanceSave
  <1>2. CASE ponds' = ponds
    BY <1>1, <1>2, LeaveInv
  <1>3. CASE ponds' = [ponds EXCEPT ![req[c].of].stage = req[c].next.stage,
                                    ![req[c].of].target = req[c].next.target]
    <2>1. PICK q : q = req[c]
      OBVIOUS
    <2>2. q \in ReqRec /\ q.pc = "advance" /\ CallType(q) /\ Knows(q)
      BY <2>1 DEF IInv, TypeOK, AdvanceSave, At
    <2>3. PICK o, next : o = q.of /\ next = q.next
      OBVIOUS
    <2>4. o \in Ponds /\ next \in Advanced /\ Earned(o, next)
      BY <2>2, <2>3 DEF CallType, Knows
    <2>5. ponds' = [ponds EXCEPT ![o].stage = next.stage, ![o].target = next.target]
      BY <1>3, <2>1, <2>3
    <2>6. RowsType'
      <3>1. next.stage \in 0..LastStage /\ next.target \in Nat
        BY <2>4, NumbersAssumption DEF Advanced
      <3> QED
        BY <1>1, <2>4, <2>5, <3>1 DEF IInv, TypeOK, RowsType
    <2>7. /\ ponds'[o].stage = next.stage /\ ponds'[o].target = next.target
          /\ \A p \in Ponds : ponds'[p].level = ponds[p].level
          /\ \A p \in Ponds \ {o} : ponds'[p] = ponds[p]
      BY <2>4, <2>5 DEF IInv, TypeOK, RowsType
    <2>8. Grows
      BY <1>1 DEF Grows
    <2>9. LevelIsMeasured'
      BY <1>1, <2>7 DEF IInv, RowsHold, LevelIsMeasured
    <2>10. StageIsReached'
      BY <1>1, <2>4, <2>7 DEF IInv, RowsHold, StageIsReached, Earned, Reached, Steps, LastTarget, Target
    <2>11. TargetFollowsStage'
      <3>1. ASSUME NEW p \in Ponds
            PROVE  /\ ponds'[p].stage >= Pond0[p].stage
                   /\ ponds'[p].target = Target(p, ponds'[p].stage - Pond0[p].stage)
        <4>1. CASE p = o
          <5>1. next.stage \in Nat /\ Pond0[o].stage \in Nat
            BY <2>4, PondsAssumption, NumbersAssumption DEF Advanced
          <5> QED
            BY <2>4, <2>7, <4>1, <5>1 DEF Earned, Steps
        <4>2. CASE p # o
          BY <2>7, <4>2 DEF IInv, RowsHold, TargetFollowsStage
        <4> QED
          BY <4>1, <4>2
      <3> QED
        BY <3>1 DEF TargetFollowsStage, Target
    <2>12. CallType(IdleReq)' /\ Knows(IdleReq)'
      BY <2>8, IdleKnows DEF IdleReq, CallType, Knows
    <2>13. /\ req' \in [Clients -> ReqRec]
           /\ \A d \in Clients : CallType(req[d])' /\ Knows(req[d])'
      BY <1>1, <2>8, <2>12, IdleKnows, CallsFrame DEF Leave, Goto
    <2> QED
      BY <1>1, <2>6, <2>8, <2>9, <2>10, <2>11, <2>13, RowsFrame DEF IInv, TypeOK, RowsHold
  <1> QED
    BY <1>2, <1>3 DEF AdvanceSave

-----------------------------------------------------------------------------
(***************************************************************************)
(* Every step, and the theorems.                                           *)
(***************************************************************************)

LEMMA RestartInv ==
  ASSUME IInv, Restart
  PROVE  IInv'
  <1>1. /\ left' \in [BudgetKinds -> Nat] /\ req' = [c \in Clients |-> IdleReq]
        /\ UNCHANGED <<readings, ponds, sensors, calibrations>>
    BY LeftType DEF Restart, BudgetKinds
  <1>2. Grows
    BY <1>1 DEF Grows
  <1>3. CallType(IdleReq)' /\ Knows(IdleReq)'
    BY <1>2, IdleKnows DEF IdleReq, CallType, Knows
  <1>4. ASSUME NEW d \in Clients PROVE CallType(req[d])' /\ Knows(req[d])'
    BY <1>1, <1>3, CallIs
  <1>5. req' \in [Clients -> ReqRec]
    BY <1>1, IdleKnows
  <1>6. RowsType' /\ RowsHold'
    BY <1>1, <1>2, RowsFrame DEF IInv, TypeOK, RowsType, RowsHold
  <1> QED
    BY <1>1, <1>4, <1>5, <1>6 DEF IInv, TypeOK

LEMMA StutterInv ==
  ASSUME IInv, UNCHANGED vars
  PROVE  IInv'
  <1>1. /\ UNCHANGED <<readings, ponds, sensors, calibrations, req, left>>
        /\ Grows
    BY DEF vars, Grows
  <1>2. ASSUME NEW d \in Clients PROVE CallType(req[d])' /\ Knows(req[d])'
    <2>1. PICK x : x = req[d]
      OBVIOUS
    <2>2. CallType(x)' /\ Knows(x)'
      BY <1>1, <2>1, CallFrame DEF IInv, TypeOK
    <2> QED
      BY <1>1, <2>1, <2>2, CallIs
  <1>3. RowsType' /\ RowsHold'
    BY <1>1, RowsFrame DEF IInv, TypeOK, RowsType, RowsHold
  <1> QED
    BY <1>1, <1>2, <1>3 DEF IInv, TypeOK

LEMMA NextInv == IInv /\ [Next]_vars => IInv'
  <1> SUFFICES ASSUME IInv, [Next]_vars PROVE IInv'
    OBVIOUS
  <1>1. ASSUME NEW c \in Clients, Ingest(c) PROVE IInv'
    BY <1>1, IngestInv
  <1>2. ASSUME NEW c \in Clients, Calibrate(c) PROVE IInv'
    BY <1>2, CalibrateReadInv, CalibrateRecordInv, CalibrateApplyInv DEF Calibrate
  <1>3. ASSUME NEW c \in Clients, AdvancePond(c) PROVE IInv'
    BY <1>3, AdvanceReadInv, AdvanceCheckInv, AdvanceSaveInv DEF AdvancePond
  <1>4. CASE Register
    BY <1>4, RegisterInv
  <1>5. CASE Restart
    BY <1>5, RestartInv
  <1>6. CASE Idle \/ UNCHANGED vars
    BY <1>6, StutterInv DEF Idle
  <1> QED
    BY <1>1, <1>2, <1>3, <1>4, <1>5, <1>6 DEF Next

LEMMA Invariance == Spec => []IInv
  BY InitInv, NextInv, PTL DEF Spec

\* Types: each step of Ingest, Calibrate and AdvanceStage finds what the step before it
\* left, whatever the other requests did between the two.
THEOREM TypeCorrect == Spec => []TypeOK
  <1>1. IInv => TypeOK
    BY DEF IInv
  <1> QED
    BY <1>1, Invariance, PTL

\* Ingest's flags: every flag is warranted by an earlier reading of the same pond, however
\* many batches were being stored between the comparison and the insert.
THEOREM FlagsAreJustified == Spec => []FlagsJustified
  <1>1. IInv => FlagsJustified
    BY DEF IInv, RowsHold
  <1> QED
    BY <1>1, Invariance, PTL

\* Ingest's level update: a pond's level is its first one or that of a stored reading of the
\* pond that was flagged ok.
THEOREM LevelsAreMeasured == Spec => []LevelIsMeasured
  <1>1. IInv => LevelIsMeasured
    BY DEF IInv, RowsHold
  <1> QED
    BY <1>1, Invariance, PTL

\* BatchIngest's count: what was accepted is stored.
THEOREM AcceptedIsStored == Spec => []AcceptedAreStored
  <1>1. IInv => AcceptedAreStored
    <2> SUFFICES ASSUME IInv, NEW c \in Clients, NEW k \in 1..req[c].done
                 PROVE  Kept(req[c].batch[k])
      BY DEF AcceptedAreStored, Kept
    <2>1. Knows(req[c])
      BY DEF IInv
    <2> QED
      BY <2>1 DEF Knows
  <1> QED
    BY <1>1, Invariance, PTL

\* Calibrate: the offset a sensor has is that of a calibration on record.
THEOREM OffsetsAreRecorded == Spec => []OffsetIsRecorded
  <1>1. IInv => OffsetIsRecorded
    BY DEF IInv, RowsHold
  <1> QED
    BY <1>1, Invariance, PTL

\* AdvanceStage: a pond none of whose readings is warm stands at no stage its readings
\* have not earned.  What was compared is stored be plus dev, and dev adds nothing here.
THEOREM ColdStagesAreEarned == Spec => []ColdStageIsEarned
  <1>1. IInv => ColdStageIsEarned
    <2> SUFFICES ASSUME IInv, NEW p \in Ponds, ponds[p].stage > Pond0[p].stage,
                        \A i \in DOMAIN readings : readings[i].pond = p => readings[i].dev <= 0
                 PROVE  Measured(p, LastTarget(p))
      BY DEF ColdStageIsEarned
    <2>1. PICK t : t = LastTarget(p)
      OBVIOUS
    <2>2. t \in Int
      <3>1. /\ Pond0[p].stage \in Nat /\ Pond0[p].target \in Nat /\ ponds[p].stage \in Nat
            /\ TargetStep \in Nat /\ TargetCap \in Nat
        BY PondsAssumption, NumbersAssumption DEF IInv, TypeOK, RowsType
      <3>2. PICK k : k = ponds[p].stage - Pond0[p].stage - 1
        OBVIOUS
      <3>3. k \in Int /\ k * TargetStep \in Int
        BY <3>1, <3>2
      <3> QED
        BY <2>1, <3>1, <3>2, <3>3 DEF LastTarget, Target
    <2>3. PICK i \in DOMAIN readings : /\ readings[i].pond = p /\ readings[i].flag # "rejected"
                                       /\ readings[i].be + readings[i].dev >= t
      BY <2>1 DEF IInv, RowsHold, StageIsReached, Reached
    <2>4. readings[i].be \in Int /\ readings[i].dev \in Int /\ readings[i].dev <= 0
      <3>1. readings[i] \in Row
        BY DEF IInv, TypeOK, RowsType
      <3> QED
        BY <2>3, <3>1 DEF Row
    <2>5. readings[i].be >= t
      BY <2>2, <2>3, <2>4
    <2> QED
      BY <2>1, <2>3, <2>5 DEF Measured
  <1> QED
    BY <1>1, Invariance, PTL

\* AdvanceStage: stage and target belong together, also when late writes move a pond back.
THEOREM TargetsFollowStages == Spec => []TargetFollowsStage
  <1>1. IInv => TargetFollowsStage
    BY DEF IInv, RowsHold
  <1> QED
    BY <1>1, Invariance, PTL
=============================================================================
