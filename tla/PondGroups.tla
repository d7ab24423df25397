----------------------------- MODULE PondGroups -----------------------------
(***************************************************************************)
(* Pond groups (internal/service/pondgroup.go): Create accepts a chain of  *)
(* ponds of ascending stage, BalancePlan proposes how to even out their    *)
(* levels.  Both read the ponds one by one while levels and stages move.   *)
(*                                                                         *)
(* Brine is counted in integers, 1 cm on 1 m2 being the unit; a move that  *)
(* is not a whole number of units is rounded down.                         *)
(***************************************************************************)
EXTENDS Integers, Sequences, FiniteSets

CONSTANTS
  Area,       \* the ponds' areas, by id
  Levels,     \* the levels they may have, in cm
  LastStage,  \* 4
  Chains,     \* the lists of ponds a client may ask a group of
  MinKeep,    \* a group's min_keep_cm
  Gap,        \* 5 cm: a smaller move is not worth it
  Clients,    \* concurrent API requests
  Budget,     \* BOUND: how many of each a behaviour has
  None

BudgetKinds == {"create", "balance", "field", "fault"}
Ponds       == DOMAIN Area

ASSUME AreaAssumption == Area \in [Ponds -> Nat \ {0}]
ASSUME NumbersAssumption ==
  Levels \subseteq Nat /\ LastStage \in Nat /\ MinKeep \in Nat /\ Gap \in Nat \ {0}
ASSUME ChainsAssumption == Chains \subseteq Seq(Ponds)
ASSUME BudgetAssumption == Budget \in [BudgetKinds -> Nat]

VARIABLES
  level, stage,  \* table ponds
  groups,        \* table pond_groups: the chains
  req,           \* requests in flight
  left           \* what is left of Budget

vars == <<level, stage, groups, req, left>>

Move    == [from : Nat, to : Nat, vol : Nat]
IdleReq == [pc |-> "idle", chain |-> <<>>, prior |-> -1, read |-> <<>>, rows |-> <<>>,
            plan |-> <<>>]

Init ==
  /\ level \in [Ponds -> Levels] /\ stage \in [Ponds -> 0..LastStage]
  /\ groups = {}
  /\ req = [c \in Clients |-> IdleReq]
  /\ left = Budget

Spend(kind) == left[kind] > 0 /\ left' = [left EXCEPT ![kind] = @ - 1]
Fails    == Spend("fault")
Succeeds == UNCHANGED left

At(c, pc)  == req[c].pc = pc
Goto(c, r) == req' = [req EXCEPT ![c] = r]
Leave(c)   == Goto(c, IdleReq)

-----------------------------------------------------------------------------
\* Create.

CreateBegin(c) ==
  /\ At(c, "idle") /\ Spend("create")
  /\ \E s \in Chains : Len(s) >= 2 /\ Goto(c, [IdleReq EXCEPT !.pc = "climb", !.chain = s])
  /\ UNCHANGED <<level, stage, groups>>

\* The next pond of the chain; read counts those before it.
Due(c) == req[c].chain[Len(req[c].read) + 1]
Complete(c) == Len(req[c].read) = Len(req[c].chain)

BugCreateClimb(c) ==
  /\ At(c, "climb") /\ ~Complete(c)
  /\ LET s == stage[Due(c)]
     IN IF s < req[c].prior THEN Leave(c)
        ELSE Goto(c, [req[c] EXCEPT !.prior = s, !.read = Append(@, s)])
  /\ Succeeds
  /\ UNCHANGED <<level, stage, groups>>

\* GetPond, and the comparison with the stage read before it.
CreateClimb(c) ==
  /\ At(c, "climb") /\ ~Complete(c)
  /\ LET s == stage[Due(c)]
     IN \/ s > req[c].prior /\ Goto(c, [req[c] EXCEPT !.prior = s, !.read = Append(@, s)])
           /\ Succeeds
        \/ ((s <= req[c].prior /\ Succeeds) \/ Fails) /\ Leave(c)
  /\ UNCHANGED <<level, stage, groups>>

\* The insert.  Names are UNIQUE: a name that is taken is one more way to fail.
CreateInsert(c) ==
  /\ At(c, "climb") /\ Complete(c)
  /\ \/ groups' = groups \cup {req[c].chain} /\ Succeeds
     \/ groups' = groups /\ Fails
  /\ Leave(c)
  /\ UNCHANGED <<level, stage>>

-----------------------------------------------------------------------------
\* BalancePlan.

\* List, and the group asked for.
BalanceBegin(c) ==
  /\ At(c, "idle") /\ Spend("balance")
  /\ \E s \in groups : Goto(c, [IdleReq EXCEPT !.pc = "read", !.chain = s])
  /\ UNCHANGED <<level, stage, groups>>

BalanceRead(c) ==
  /\ At(c, "read") /\ ~Complete(c)
  /\ \/ /\ Goto(c, [req[c] EXCEPT !.read = Append(@, level[Due(c)] * Area[Due(c)])])
        /\ Succeeds
     \/ Leave(c) /\ Fails
  /\ UNCHANGED <<level, stage, groups>>

BugBalanceSort(c) ==
  /\ At(c, "read")
  /\ Goto(c, [req[c] EXCEPT !.pc = "plan", !.rows = req[c].read])
  /\ Succeeds
  /\ UNCHANGED <<level, stage, groups>>

BalanceSort(c) ==
  /\ At(c, "read") /\ Complete(c)
  /\ Goto(c, [req[c] EXCEPT !.pc = "plan", !.rows = req[c].read])
  /\ Succeeds
  /\ UNCHANGED <<level, stage, groups>>

AreaOf(c, i) == Area[req[c].chain[i]]

\* Row i stands at least as high as row j.
Above(c, i, j) == req[c].rows[i] * AreaOf(c, j) >= req[c].rows[j] * AreaOf(c, i)

\* The two ends of the sorted rows; equal levels may come in any order.
Ends(c) == { e \in (DOMAIN req[c].rows) \X (DOMAIN req[c].rows) :
  e[1] # e[2] /\ \A i \in DOMAIN req[c].rows : Above(c, e[1], i) /\ Above(c, i, e[2]) }

BugVolume(src, srcArea, dst, dstArea) == (src * dstArea - dst * srcArea) \div (2 * srcArea)

\* What lifts dst to the common level of the two.
Volume(src, srcArea, dst, dstArea) ==
  (src * dstArea - dst * srcArea) \div (srcArea + dstArea)

BugWorth(src, srcArea, dstArea, v) == v >= Gap * dstArea

\* The move is of at least Gap cm, and those cm leave src above min_keep_cm.
Worth(src, srcArea, dstArea, v) ==
  /\ v >= Gap * dstArea
  /\ src * dstArea - v * srcArea >= MinKeep * srcArea * dstArea

BugBalanceMove(c) ==
  /\ At(c, "plan")
  /\ \E e \in Ends(c) :
       LET i == e[1]
           j == e[2]
           v == Volume(req[c].rows[i], AreaOf(c, i), req[c].rows[j], AreaOf(c, j))
       IN /\ Worth(req[c].rows[i], AreaOf(c, i), AreaOf(c, j), v)
          /\ Goto(c, [req[c] EXCEPT
               !.plan = Append(@, [from |-> i, to |-> j, vol |-> v]),
               !.rows[i] = @ - (v \div AreaOf(c, j)) * AreaOf(c, i), !.rows[j] = @ + v])
  /\ Succeeds
  /\ UNCHANGED <<level, stage, groups>>

\* One turn of the loop.
BalanceMove(c) ==
  /\ At(c, "plan")
  /\ \E e \in Ends(c) :
       LET i == e[1]
           j == e[2]
           v == Volume(req[c].rows[i], AreaOf(c, i), req[c].rows[j], AreaOf(c, j))
       IN /\ Worth(req[c].rows[i], AreaOf(c, i), AreaOf(c, j), v)
          /\ Goto(c, [req[c] EXCEPT !.plan = Append(@, [from |-> i, to |-> j, vol |-> v]),
                                    !.rows[i] = @ - v, !.rows[j] = @ + v])
  /\ Succeeds
  /\ UNCHANGED <<level, stage, groups>>

BugBalanceEnd(c) ==
  /\ At(c, "plan")
  /\ \E e \in Ends(c) :
       LET v == Volume(req[c].rows[e[1]], AreaOf(c, e[1]), req[c].rows[e[2]], AreaOf(c, e[2]))
       IN /\ ~Worth(req[c].rows[e[1]], AreaOf(c, e[1]), AreaOf(c, e[2]), v)
          /\ Goto(c, IF v < Gap * AreaOf(c, e[2]) THEN IdleReq ELSE req[c])
  /\ Succeeds
  /\ UNCHANGED <<level, stage, groups>>

BalanceEnd(c) ==
  /\ At(c, "plan")
  /\ \E e \in Ends(c) :
       LET v == Volume(req[c].rows[e[1]], AreaOf(c, e[1]), req[c].rows[e[2]], AreaOf(c, e[2]))
       IN ~Worth(req[c].rows[e[1]], AreaOf(c, e[1]), AreaOf(c, e[2]), v)
  /\ Leave(c) /\ Succeeds
  /\ UNCHANGED <<level, stage, groups>>

-----------------------------------------------------------------------------
\* Readings and transfers move levels, the advance route stages (see Readings).
Disturb ==
  /\ Spend("field")
  /\ \E p \in Ponds :
       \/ \E n \in Levels : level' = [level EXCEPT ![p] = n] /\ stage' = stage
       \/ \E n \in 0..LastStage : stage' = [stage EXCEPT ![p] = n] /\ level' = level
  /\ UNCHANGED <<groups, req>>

Restart ==
  /\ Spend("fault")
  /\ req' = [c \in Clients |-> IdleReq]
  /\ UNCHANGED <<level, stage, groups>>

\* Every request has been answered and no other comes.
Idle ==
  /\ \A c \in Clients : At(c, "idle")
  /\ UNCHANGED vars

Create(c) == CreateClimb(c) \/ CreateInsert(c)
Balance(c) == BalanceRead(c) \/ BalanceSort(c) \/ BalanceMove(c) \/ BalanceEnd(c)

Next ==
  \/ \E c \in Clients : CreateBegin(c) \/ Create(c) \/ BalanceBegin(c) \/ Balance(c)
  \/ Disturb \/ Restart \/ Idle

\* A request is a goroutine of the server: once begun it runs on.
Spec == Init /\ [][Next]_vars /\ \A c \in Clients : WF_vars(Create(c) \/ Balance(c))

-----------------------------------------------------------------------------
(***************************************************************************)
(* Properties.                                                             *)
(***************************************************************************)

\* The shape of the state: a plan moves brine between ponds of its own group.
RowsType ==
  /\ level \in [Ponds -> Levels] /\ stage \in [Ponds -> 0..LastStage]
  /\ groups \subseteq Chains
ReqRec == [pc : {"idle", "climb", "read", "plan"}, chain : Chains \cup {<<>>},
           prior : -1..LastStage, read : Seq(Nat), rows : Seq(Nat), plan : Seq(Move)]
CallType(r) ==
  /\ r.pc # "idle" => r.chain \in Chains /\ Len(r.read) <= Len(r.chain)
  /\ r.pc = "plan" => r.rows \in [DOMAIN r.chain -> Nat] /\ r.read \in [DOMAIN r.chain -> Nat]
  /\ \A k \in DOMAIN r.plan : {r.plan[k].from, r.plan[k].to} \subseteq DOMAIN r.chain
TypeOK ==
  /\ RowsType
  /\ left \in [BudgetKinds -> Nat]
  /\ req \in [Clients -> ReqRec] /\ \A c \in Clients : CallType(req[c])

\* Whatever the stages do while they are read, a group of strictly ascending reads has at
\* least two ponds and at most one per stage.
GroupsBounded == \A s \in groups : Len(s) \in 2..LastStage + 1

\* The plan and the levels it was worked out on agree: poured out as planned, the brine
\* read is where the plan supposes it, pond by pond.
Gain(m, i) == (IF m.to = i THEN m.vol ELSE 0) - (IF m.from = i THEN m.vol ELSE 0)
Poured(plan, i) ==
  LET vols[k \in 0..Len(plan)] == IF k = 0 THEN 0 ELSE vols[k - 1] + Gain(plan[k], i)
  IN vols[Len(plan)]
PlanExplainsRows ==
  \A c \in Clients : At(c, "plan") =>
    \A i \in DOMAIN req[c].rows : req[c].rows[i] = req[c].read[i] + Poured(req[c].plan, i)

\* A plan levels out: no pond is planned above the highest or below the lowest level read.
WithinRange ==
  \A c \in Clients : At(c, "plan") =>
    \A i \in DOMAIN req[c].rows :
      /\ \E j \in DOMAIN req[c].rows :
           req[c].rows[i] * AreaOf(c, j) <= req[c].read[j] * AreaOf(c, i)
      /\ \E j \in DOMAIN req[c].rows :
           req[c].rows[i] * AreaOf(c, j) >= req[c].read[j] * AreaOf(c, i)

\* No pond that stood above min_keep_cm is planned below it, as long as brine goes to ponds
\* no larger than the one it comes from: the check subtracts what dst rises, not what src
\* falls, and says nothing of a larger dst.
KeepLine ==
  \A c \in Clients :
    /\ At(c, "plan")
    /\ \A k \in DOMAIN req[c].plan :
         AreaOf(c, req[c].plan[k].to) <= AreaOf(c, req[c].plan[k].from)
    => \A i \in DOMAIN req[c].rows :
         req[c].read[i] >= MinKeep * AreaOf(c, i) => req[c].rows[i] >= MinKeep * AreaOf(c, i)

\* The loop comes to an end, and so does every request.
RequestsEnd == \A c \in Clients : ~At(c, "idle") ~> At(c, "idle")
=============================================================================
