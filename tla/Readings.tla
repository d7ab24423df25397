------------------------------ MODULE Readings ------------------------------
(***************************************************************************)
(* Brine readings, the sensors they come from and the pond rows they move  *)
(* (internal/service/brine.go, SensorService in quality.go, AdvanceStage   *)
(* in pond.go).  Requests run on the server's goroutines: each is a chain  *)
(* of store calls, and the chains interleave.                              *)
(*                                                                         *)
(* Concentrations are integers whose unit is what CompensateBe adds for    *)
(* one degree above 20 C; dev is the reading's distance from 20 C.         *)
(* Transfers, which move levels too, belong to module Transfer.            *)
(***************************************************************************)
EXTENDS Integers, Sequences, FiniteSets

CONSTANTS
  Pond0,        \* the ponds, by id: level, stage, target
  Sensors,      \* ids a sensor may get
  Batches,      \* what a client may post: sequences of items, a single reading being one of 1
  Calibrations, \* the offsets (reference minus raw) a client may calibrate with
  BeMin, BeMax, \* range of a reading
  BeJump,       \* a change beyond it is rejected (6 Be)
  LevelJump,    \* a change beyond it is suspect (60 cm)
  OffsetMax,    \* a calibration beyond it is refused (5 Be)
  LastStage,    \* 4
  TargetStep,   \* 4.5 Be
  TargetCap,    \* no later target is above it (28 Be); the first may be (30 Be)
  Clients,      \* concurrent API requests
  Budget,       \* BOUND: how many requests of each kind and faults a behaviour has
  None

BudgetKinds == {"post", "register", "calibrate", "advance", "fault"}
Ponds       == DOMAIN Pond0
Flags       == {"none", "ok", "suspect", "rejected"}  \* "none": the column is empty

ASSUME PondsAssumption ==
  Pond0 \in [Ponds -> [level : Nat, stage : 0..LastStage, target : Nat]]
ASSUME ItemsAssumption ==
  Batches \subseteq Seq([pond : Ponds, at : Nat, be : Int, dev : Int, level : Nat,
                         src : Sensors \cup {"manual"}])
ASSUME NumbersAssumption ==
  /\ Calibrations \subseteq Int /\ OffsetMax \in Nat
  /\ {BeMin, BeMax, BeJump, LevelJump, LastStage, TargetStep, TargetCap} \subseteq Nat
ASSUME BudgetAssumption == Budget \in [BudgetKinds -> Nat]

VARIABLES
  readings,      \* table brine_readings, in order of id
  ponds,         \* table ponds: level, stage, target
  sensors,       \* table sensors: kind and offset, by id
  calibrations,  \* table calibrations: the sensor and the offset of each
  req,           \* requests in flight
  left           \* what is left of Budget

vars == <<readings, ponds, sensors, calibrations, req, left>>

Row == [pond : Ponds, at : Nat, be : Int, dev : Int, level : Nat, flag : Flags]

IdleReq == [pc |-> "idle", batch |-> <<>>, done |-> 0, row |-> None,
            of |-> None, n |-> 0, next |-> None]

Init ==
  /\ readings = <<>> /\ ponds = Pond0 /\ calibrations = {}
  /\ sensors = [s \in {} |-> [kind |-> "be", offset |-> 0]]
  /\ req = [c \in Clients |-> IdleReq]
  /\ left = Budget

Spend(kind) == left[kind] > 0 /\ left' = [left EXCEPT ![kind] = @ - 1]
Fails    == Spend("fault")
Succeeds == UNCHANGED left

At(c, pc)  == req[c].pc = pc
Goto(c, r) == req' = [req EXCEPT ![c] = r]
Leave(c)   == Goto(c, IdleReq)
\* A store call that fails ends the request with its error.
Refused(c) == Fails /\ Leave(c)

-----------------------------------------------------------------------------
\* The formulas.

CompensateBe(be, dev) == be + dev

Abs(n) == IF n < 0 THEN -n ELSE n

\* Without a previous reading Ingest does not ask FlagOf, and the flag stays empty.
FlagOf(prev, be, level) ==
  IF prev = None THEN "none"
  ELSE IF Abs(be - prev.be) > BeJump THEN "rejected"
  ELSE IF Abs(level - prev.level) > LevelJump THEN "suspect" ELSE "ok"

\* LatestReading: by the time it was taken, not by the time it came.
LatestReading(p) ==
  LET mine == {i \in DOMAIN readings : readings[i].pond = p} IN
  IF mine = {} THEN None
  ELSE readings[CHOOSE i \in mine : \A j \in mine : readings[j].at <= readings[i].at]

Taken(p, t) == \E i \in DOMAIN readings : readings[i].pond = p /\ readings[i].at = t

\* AdvanceStage's next target.
NextTarget(t) == IF t + TargetStep > TargetCap THEN TargetCap ELSE t + TargetStep

-----------------------------------------------------------------------------
\* Ingest and BatchIngest.

Post(c) ==
  /\ At(c, "idle") /\ Spend("post")
  /\ \E b \in Batches : Goto(c, [IdleReq EXCEPT !.pc = "check", !.batch = b])
  /\ UNCHANGED <<readings, ponds, sensors, calibrations>>

\* The next item of the batch, and the row it is to become.
Item(c) == req[c].batch[req[c].done + 1]
Draft(i) == [pond |-> i.pond, at |-> i.at, be |-> i.be, dev |-> i.dev,
             level |-> i.level, flag |-> "none"]

BugCheck(c) ==
  /\ At(c, "check")
  /\ \/ req[c].done > Len(req[c].batch) /\ Leave(c)
     \/ /\ req[c].done <= Len(req[c].batch)
        /\ Goto(c, [req[c] EXCEPT !.pc = "flag",
                      !.row = IF req[c].done < Len(req[c].batch) THEN Draft(Item(c)) ELSE None])
  /\ Succeeds
  /\ UNCHANGED <<readings, ponds, sensors, calibrations>>

\* ctx.Err, GetPond and ValidateReading: the client may have gone between two items.
Check(c) ==
  /\ At(c, "check")
  /\ \/ req[c].done = Len(req[c].batch) /\ Leave(c) /\ Succeeds
     \/ /\ req[c].done < Len(req[c].batch) /\ Item(c).be \notin BeMin..BeMax
        /\ Leave(c) /\ Succeeds
     \/ /\ req[c].done < Len(req[c].batch) /\ Item(c).be \in BeMin..BeMax
        /\ Goto(c, [req[c] EXCEPT !.pc = IF Item(c).src = "manual" THEN "flag" ELSE "offset",
                                  !.row = Draft(Item(c))])
        /\ Succeeds
     \/ Refused(c)
  /\ UNCHANGED <<readings, ponds, sensors, calibrations>>

\* ApplyOffset: whatever is wrong with the sensor, the raw value is used.
Offset(c) ==
  /\ At(c, "offset")
  /\ LET s    == Item(c).src
         be   == Item(c).be + sensors[s].offset
         fits == s \in DOMAIN sensors /\ sensors[s].kind = "be" /\ be \in BeMin..BeMax
     IN \/ fits /\ Goto(c, [req[c] EXCEPT !.pc = "flag", !.row.be = be]) /\ Succeeds
        \/ ((~fits /\ Succeeds) \/ Fails) /\ Goto(c, [req[c] EXCEPT !.pc = "flag"])
  /\ UNCHANGED <<readings, ponds, sensors, calibrations>>

BugFlag(c) ==
  /\ At(c, "flag")
  /\ LET r == req[c].row
         be == CompensateBe(r.be, r.dev)
     IN Goto(c, [req[c] EXCEPT !.pc = "insert", !.row.be = be,
                               !.row.flag = FlagOf(LatestReading(r.pond), be, r.level)])
  /\ Succeeds
  /\ UNCHANGED <<readings, ponds, sensors, calibrations>>

\* The flag compares this value, still raw, with the stored, compensated one; a rejected
\* value stays raw.
Flag(c) ==
  /\ At(c, "flag")
  /\ \/ /\ LET r == req[c].row
               f == FlagOf(LatestReading(r.pond), r.be, r.level)
           IN Goto(c, [req[c] EXCEPT !.pc = "insert", !.row.flag = f,
                         !.row.be = IF f = "rejected" THEN @ ELSE CompensateBe(@, r.dev)])
        /\ Succeeds
     \/ Refused(c)
  /\ UNCHANGED <<readings, ponds, sensors, calibrations>>

NextItem(c) == [req[c] EXCEPT !.pc = "check", !.done = @ + 1, !.row = None]

BugInsert(c) ==
  /\ At(c, "insert")
  /\ LET r == req[c].row
     IN /\ readings' = IF Taken(r.pond, r.at) THEN readings ELSE Append(readings, r)
        /\ Goto(c, IF r.flag = "ok" THEN [req[c] EXCEPT !.pc = "level"] ELSE NextItem(c))
  /\ Succeeds
  /\ UNCHANGED <<ponds, sensors, calibrations>>

BugInsertAny(c) ==
  /\ At(c, "insert")
  /\ ~Taken(req[c].row.pond, req[c].row.at)
  /\ readings' = Append(readings, req[c].row)
  /\ Goto(c, IF req[c].row.flag # "rejected" THEN [req[c] EXCEPT !.pc = "level"]
             ELSE NextItem(c))
  /\ Succeeds
  /\ UNCHANGED <<ponds, sensors, calibrations>>

\* InsertReading; a second reading of the same pond and second is a duplicate.
Insert(c) ==
  /\ At(c, "insert")
  /\ LET r == req[c].row
     IN \/ /\ ~Taken(r.pond, r.at)
           /\ readings' = Append(readings, r)
           /\ Goto(c, IF r.flag = "ok" THEN [req[c] EXCEPT !.pc = "level"] ELSE NextItem(c))
           /\ Succeeds
        \/ /\ (Taken(r.pond, r.at) /\ Succeeds) \/ Fails
           /\ Leave(c) /\ readings' = readings
  /\ UNCHANGED <<ponds, sensors, calibrations>>

\* UpdatePondLevel, with the level of this reading, however old it is.
Level(c) ==
  /\ At(c, "level")
  /\ \/ /\ ponds' = [ponds EXCEPT ![req[c].row.pond].level = req[c].row.level]
        /\ Goto(c, NextItem(c)) /\ Succeeds
     \/ ponds' = ponds /\ Refused(c)
  /\ UNCHANGED <<readings, sensors, calibrations>>

Ingest(c) == Post(c) \/ Check(c) \/ Offset(c) \/ Flag(c) \/ Insert(c) \/ Level(c)

-----------------------------------------------------------------------------
\* Register and Calibrate.

Register ==
  /\ Spend("register")
  /\ \E s \in Sensors \ DOMAIN sensors, kind \in {"be", "temp", "level"} :
       sensors' = [t \in DOMAIN sensors \cup {s} |->
                     IF t = s THEN [kind |-> kind, offset |-> 0] ELSE sensors[t]]
  /\ UNCHANGED <<readings, ponds, calibrations, req>>

\* GetSensor, then the offset's plausibility.
CalibrateRead(c) ==
  /\ At(c, "idle") /\ Spend("calibrate")
  /\ \E s \in DOMAIN sensors, n \in Calibrations :
       Abs(n) <= OffsetMax /\ Goto(c, [IdleReq EXCEPT !.pc = "record", !.of = s, !.n = n])
  /\ UNCHANGED <<readings, ponds, sensors, calibrations>>

BugCalibrateRecord(c) ==
  /\ At(c, "record")
  /\ \/ calibrations' = calibrations \cup {<<req[c].of, req[c].n>>} /\ Succeeds
     \/ calibrations' = calibrations /\ Fails
  /\ Goto(c, [req[c] EXCEPT !.pc = "apply"])
  /\ UNCHANGED <<readings, ponds, sensors>>

CalibrateRecord(c) ==
  /\ At(c, "record")
  /\ \/ /\ calibrations' = calibrations \cup {<<req[c].of, req[c].n>>}
        /\ Goto(c, [req[c] EXCEPT !.pc = "apply"]) /\ Succeeds
     \/ calibrations' = calibrations /\ Refused(c)
  /\ UNCHANGED <<readings, ponds, sensors>>

CalibrateApply(c) ==
  /\ At(c, "apply")
  /\ \/ sensors' = [sensors EXCEPT ![req[c].of].offset = req[c].n] /\ Succeeds
     \/ sensors' = sensors /\ Fails
  /\ Leave(c)
  /\ UNCHANGED <<readings, ponds, calibrations>>

Calibrate(c) == CalibrateRead(c) \/ CalibrateRecord(c) \/ CalibrateApply(c)

-----------------------------------------------------------------------------
\* The advance route: CurrentBe, then AdvanceStage.

BugAdvanceRead(c) ==
  /\ At(c, "idle") /\ Spend("advance")
  /\ \E p \in Ponds :
       LET r == LatestReading(p) IN
       /\ r # None
       /\ Goto(c, [IdleReq EXCEPT !.pc = "stage", !.of = p, !.n = CompensateBe(r.be, r.dev)])
  /\ UNCHANGED <<readings, ponds, sensors, calibrations>>

\* CurrentBe compensates once more what was stored compensated.
AdvanceRead(c) ==
  /\ At(c, "idle") /\ Spend("advance")
  /\ \E p \in Ponds :
       LET r == LatestReading(p) IN
       /\ r # None /\ r.flag # "rejected"
       /\ Goto(c, [IdleReq EXCEPT !.pc = "stage", !.of = p, !.n = CompensateBe(r.be, r.dev)])
  /\ UNCHANGED <<readings, ponds, sensors, calibrations>>

AdvanceCheck(c) ==
  /\ At(c, "stage")
  /\ LET p  == ponds[req[c].of]
         ok == p.stage < LastStage /\ req[c].n >= p.target
     IN \/ /\ ok /\ Succeeds
           /\ Goto(c, [req[c] EXCEPT !.pc = "advance",
                         !.next = [stage |-> p.stage + 1, target |-> NextTarget(p.target)]])
        \/ ~ok /\ Leave(c) /\ Succeeds
        \/ Refused(c)
  /\ UNCHANGED <<readings, ponds, sensors, calibrations>>

BugAdvanceSave(c) ==
  /\ At(c, "advance")
  /\ ponds' = [ponds EXCEPT ![req[c].of].stage = IF @ < LastStage THEN @ + 1 ELSE @,
                            ![req[c].of].target = req[c].next.target]
  /\ Succeeds
  /\ Leave(c)
  /\ UNCHANGED <<readings, sensors, calibrations>>

\* UpdatePondStage writes what was computed from the row read, whatever it is by now.
AdvanceSave(c) ==
  /\ At(c, "advance")
  /\ \/ /\ ponds' = [ponds EXCEPT ![req[c].of].stage = req[c].next.stage,
                                  ![req[c].of].target = req[c].next.target]
        /\ Succeeds
     \/ ponds' = ponds /\ Fails
  /\ Leave(c)
  /\ UNCHANGED <<readings, sensors, calibrations>>

AdvancePond(c) == AdvanceRead(c) \/ AdvanceCheck(c) \/ AdvanceSave(c)

-----------------------------------------------------------------------------
\* The process ends between any two statements and is started again.
Restart ==
  /\ Spend("fault")
  /\ req' = [c \in Clients |-> IdleReq]
  /\ UNCHANGED <<readings, ponds, sensors, calibrations>>

\* Every request has been answered and no other comes.
Idle ==
  /\ \A c \in Clients : At(c, "idle")
  /\ UNCHANGED vars

Next ==
  \/ \E c \in Clients : Ingest(c) \/ Calibrate(c) \/ AdvancePond(c)
  \/ Register \/ Restart \/ Idle

Spec == Init /\ [][Next]_vars

-----------------------------------------------------------------------------
(***************************************************************************)
(* Properties.                                                             *)
(***************************************************************************)

RowsType ==
  /\ readings \in Seq(Row)
  /\ ponds \in [Ponds -> [level : Nat, stage : 0..LastStage, target : Nat]]
  /\ DOMAIN sensors \subseteq Sensors
  /\ sensors \in [DOMAIN sensors -> [kind : {"be", "temp", "level"}, offset : Int]]
  /\ calibrations \subseteq (DOMAIN sensors) \X Int

Advanced == [stage : 0..LastStage, target : 0..TargetCap]

ReqRec == [pc : {"idle", "check", "offset", "flag", "insert", "level", "record", "apply",
                 "stage", "advance"},
           batch : Batches \cup {<<>>}, done : Nat, row : Row \cup {None},
           of : Ponds \cup Sensors \cup {None}, n : Int, next : Advanced \cup {None}]

CallType(r) ==
  /\ r.pc = "check" => r.batch \in Batches /\ r.done \in 0..Len(r.batch)
  /\ r.pc \in {"offset", "flag", "insert", "level"} =>
       r.batch \in Batches /\ r.done \in 0..Len(r.batch) - 1 /\ r.row \in Row
  /\ r.pc \in {"record", "apply"} => r.of \in DOMAIN sensors
  /\ r.pc \in {"stage", "advance"} => r.of \in Ponds
  /\ r.pc = "advance" => r.next \in Advanced

\* The shape of the state: every step of a request has what the step before it left.
TypeOK ==
  /\ RowsType /\ left \in [BudgetKinds -> Nat]
  /\ req \in [Clients -> ReqRec] /\ \A c \in Clients : CallType(req[c])

\* A flag is never out of thin air: whoever else was storing, some reading of the pond
\* was stored before this one and differs from its raw value as the flag says.
RawBe(r) == IF r.flag = "rejected" THEN r.be ELSE r.be - r.dev
Warrants(prev, r) ==
  LET far  == Abs(RawBe(r) - prev.be) > BeJump
      deep == Abs(r.level - prev.level) > LevelJump
  IN r.flag = IF far THEN "rejected" ELSE IF deep THEN "suspect" ELSE "ok"
FlagsJustified ==
  \A i \in DOMAIN readings : readings[i].flag # "none" =>
    \E j \in 1..i - 1 : readings[j].pond = readings[i].pond
                          /\ Warrants(readings[j], readings[i])

\* A pond's level is what an accepted, stored reading of that pond measured; a reading
\* that is suspect, rejected, a duplicate or the first of its pond never moves it.
LevelIsMeasured ==
  \A p \in Ponds :
    \/ ponds[p].level = Pond0[p].level
    \/ \E i \in DOMAIN readings :
         /\ readings[i].pond = p /\ readings[i].flag = "ok"
         /\ readings[i].level = ponds[p].level

\* What a batch counts as accepted is in the table as it was sent, whatever else was
\* being stored for the same seconds.
AcceptedAreStored ==
  \A c \in Clients : \A k \in 1..req[c].done :
    \E i \in DOMAIN readings :
      LET r == readings[i]
          m == req[c].batch[k]
      IN r.pond = m.pond /\ r.at = m.at /\ r.level = m.level /\ r.dev = m.dev

\* An offset in use is on record: calibrations that overlap, fail or are cut off never
\* leave a sensor with an offset nobody can trace.
OffsetIsRecorded ==
  \A s \in DOMAIN sensors :
    sensors[s].offset # 0 => <<s, sensors[s].offset>> \in calibrations

\* The target a pond has after k advances, and what the last of them took.
Target(p, k) ==
  LET t == Pond0[p].target + k * TargetStep IN IF k > 0 /\ t > TargetCap THEN TargetCap ELSE t
LastTarget(p) == Target(p, ponds[p].stage - Pond0[p].stage - 1)
Measured(p, be) ==
  \E i \in DOMAIN readings :
    readings[i].pond = p /\ readings[i].flag # "rejected" /\ readings[i].be >= be

\* Where no reading was taken above 20 C, a pond has advanced only if a reading of its own
\* that was not rejected measured the target of the stage before: by stale and crossing
\* advances, too, and although the latest reading may be another one by then.
ColdStageIsEarned ==
  \A p \in Ponds :
    /\ ponds[p].stage > Pond0[p].stage
    /\ \A i \in DOMAIN readings : readings[i].pond = p => readings[i].dev <= 0
    => Measured(p, LastTarget(p))

\* Stage and target belong together, although two requests may advance the same pond
\* from the same row.
TargetFollowsStage ==
  \A p \in Ponds :
    /\ ponds[p].stage >= Pond0[p].stage
    /\ ponds[p].target = Target(p, ponds[p].stage - Pond0[p].stage)

-----------------------------------------------------------------------------
\* What the comments say and the code does not keep.

\* A stage is advanced when the concentration has reached the target, and a stored value
\* is the concentration at 20 C.  CurrentBe adds the correction a second time: a warm
\* reading below the target is enough.
StageIsEarned ==
  \A p \in Ponds : ponds[p].stage > Pond0[p].stage => Measured(p, LastTarget(p))
=============================================================================
