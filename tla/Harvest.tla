------------------------------ MODULE Harvest -------------------------------
(***************************************************************************)
(* Crystallizers and their harvest batches: the API requests that fill a   *)
(* crystallizer, move it through its states, open and complete batches,    *)
(* and the poller that promotes what has ripened                           *)
(* (internal/service/crystallizer.go, internal/service/harvest.go).        *)
(*                                                                         *)
(* A function reads a row, works on its copy and later saves the whole     *)
(* row, so each store call is an action and the copy stays in its request  *)
(* (req) or in the poller's round while others write.  The clock is read   *)
(* right after the row, in the same tick: a tick is hours.  A request that *)
(* is refused changes nothing; only those that get further are followed.   *)
(***************************************************************************)
EXTENDS Integers

CONSTANTS
  Crysts,      \* ids the crystallizers table can hand out
  BatchIds,    \* ids the harvest_batches table can hand out
  Clients,     \* concurrent API requests
  Cap,         \* capacity of each crystallizer, in tons
  Pours,       \* tons a fill request may ask for
  Salinities,  \* saturations it may state, in percent
  Yields,      \* tons a completion may report
  RipeTime,    \* 72 h
  Budget,      \* bounds on the environment: see BudgetKinds
  None

\* BOUND: how many of each may happen in a behaviour.
BudgetKinds == {"create", "fill", "move", "open", "complete", "fault", "restart", "tick"}

ASSUME TonsAssumption ==
  Cap \in [Crysts -> Nat \ {0}] /\ Pours \subseteq Nat \ {0} /\ Yields \subseteq Nat \ {0}
ASSUME SalinitiesAssumption == Salinities \subseteq Nat
ASSUME TimesAssumption == RipeTime \in Nat /\ Budget \in [BudgetKinds -> Nat]
ASSUME IdsAssumption == None \notin Crysts /\ None \notin BatchIds

VARIABLES
  cryst,   \* table crystallizers: a function from the ids in use to rows
  batch,   \* table harvest_batches, likewise
  req,     \* API requests in flight
  round,   \* rows PromoteRipened has promoted in memory and not saved yet
  now,     \* the clock; it starts after 0, which ripened_since uses for "never"
  left,    \* what is left of Budget
  poured,  \* history: tons that saved fills have added to each crystallizer
  met      \* history: the crystallizers two requests were opening batches of at once

vars == <<cryst, batch, req, round, now, left, poured, met>>

States == {"empty", "filling", "ripening", "harvest_ready", "harvesting"}

\* crystTransitions
Legal == { <<"empty", "filling">>,
           <<"filling", "ripening">>, <<"filling", "empty">>,
           <<"ripening", "harvest_ready">>, <<"ripening", "filling">>,
           <<"harvest_ready", "harvesting">>, <<"harvest_ready", "ripening">>,
           <<"harvesting", "empty">> }

EmptyRow == [state |-> "empty", tons |-> 0, sal |-> 0, since |-> 0]

ReqPc   == {"idle", "save", "check", "create", "advance", "weigh", "book"}
IdleReq == [pc |-> "idle", cr |-> None, row |-> EmptyRow, bt |-> None, tons |-> 0]

Init ==
  /\ cryst = [c \in {} |-> EmptyRow]
  /\ batch = [b \in {} |-> None]
  /\ req = [r \in Clients |-> IdleReq]
  /\ round = [c \in {} |-> EmptyRow]
  /\ now = 1
  /\ left = Budget
  /\ poured = [c \in Crysts |-> 0] /\ met = {}

-----------------------------------------------------------------------------
\* The rules of a row.

\* Fill; the caller has checked that the row may be filled.
Fillable(c, row, t) ==
  row.state \notin {"harvest_ready", "harvesting"} /\ row.tons + t <= Cap[c]

Filled(row, t, s) ==
  [row EXCEPT !.tons = @ + t,
              !.sal = IF s > @ THEN s ELSE @,
              !.state = IF @ = "empty" THEN "filling" ELSE @]

\* Transition: entering ripening starts the clock, entering empty clears the row.
Moved(row, to) ==
  IF to = "empty" THEN EmptyRow
  ELSE [row EXCEPT !.state = to, !.since = IF to = "ripening" THEN now ELSE @]

\* RipenessHours, at least 72: a row that never ripened has ripened for 0 hours.
Aged(row) == (IF row.since = 0 THEN 0 ELSE now - row.since) >= RipeTime

\* At least 80 percent full.
WellFilled(c, row) == 10 * row.tons >= 8 * Cap[c]

-----------------------------------------------------------------------------
\* Requests.

Spend(kind) == left[kind] > 0 /\ left' = [left EXCEPT ![kind] = @ - 1]
Fails    == Spend("fault")
Succeeds == UNCHANGED left

Idle(r)    == req[r].pc = "idle"
At(r, pc)  == req[r].pc = pc
Become(r, q) == req' = [req EXCEPT ![r] = q]
End(r)     == Become(r, IdleReq)
Saving(c, row, t) == [IdleReq EXCEPT !.pc = "save", !.cr = c, !.row = row, !.tons = t]
Mine(r)    == req[r].cr

Create(c) ==
  /\ c \notin DOMAIN cryst /\ Spend("create")
  /\ cryst' = [d \in DOMAIN cryst \cup {c} |-> IF d = c THEN EmptyRow ELSE cryst[d]]
  /\ UNCHANGED <<batch, req, round, now, poured, met>>

BugFillRead(r) ==
  /\ Idle(r) /\ Spend("fill")
  /\ \E c \in DOMAIN cryst, t \in Pours, s \in Salinities :
       /\ s >= 85
       /\ cryst[c].state \notin {"harvest_ready", "harvesting"} /\ t <= Cap[c]
       /\ Become(r, Saving(c, Filled(cryst[c], t, s), t))
  /\ UNCHANGED <<cryst, batch, round, now, poured, met>>

\* FillBrine: brine of less than 0.85 is refused.
FillRead(r) ==
  /\ Idle(r) /\ Spend("fill")
  /\ \E c \in DOMAIN cryst, t \in Pours, s \in Salinities :
       /\ s >= 85 /\ Fillable(c, cryst[c], t)
       /\ Become(r, Saving(c, Filled(cryst[c], t, s), t))
  /\ UNCHANGED <<cryst, batch, round, now, poured, met>>

BugTransitionRead(r) ==
  /\ Idle(r) /\ Spend("move")
  /\ \E c \in DOMAIN cryst, to \in States :
       /\ <<cryst[c].state, to>> \in Legal
       /\ to = "ripening" => WellFilled(c, cryst[c])
       /\ Become(r, Saving(c, Moved(cryst[c], to), 0))
  /\ UNCHANGED <<cryst, batch, round, now, poured, met>>

\* Transition: legal, and full or ripe enough for the states that ask for it.
TransitionRead(r) ==
  /\ Idle(r) /\ Spend("move")
  /\ \E c \in DOMAIN cryst, to \in States :
       /\ <<cryst[c].state, to>> \in Legal
       /\ to = "ripening" => WellFilled(c, cryst[c])
       /\ to = "harvest_ready" => Aged(cryst[c])
       /\ Become(r, Saving(c, Moved(cryst[c], to), 0))
  /\ UNCHANGED <<cryst, batch, round, now, poured, met>>

\* SaveCrystallizer: an unconditional UPDATE of the whole row, and the last store
\* call of every request that makes it.
SaveRow(r) ==
  /\ At(r, "save")
  /\ \/ /\ cryst' = [cryst EXCEPT ![Mine(r)] = req[r].row]
        /\ poured' = [poured EXCEPT ![Mine(r)] = @ + req[r].tons]
        /\ Succeeds
     \/ Fails /\ UNCHANGED <<cryst, poured>>
  /\ End(r)
  /\ UNCHANGED <<batch, round, now, met>>

\* The requests between Open's first read and its insert.
Opening(c) == {r \in Clients : req[r].pc \in {"check", "create"} /\ Mine(r) = c}

\* Open: the crystallizer is ready, or being harvested already.
OpenRead(r) ==
  /\ Idle(r) /\ Spend("open")
  /\ \E c \in DOMAIN cryst :
       /\ cryst[c].state \in {"harvest_ready", "harvesting"}
       /\ Become(r, [IdleReq EXCEPT !.pc = "check", !.cr = c, !.row = cryst[c]])
       /\ met' = IF Opening(c) = {} THEN met ELSE met \cup {c}
  /\ UNCHANGED <<cryst, batch, round, now, poured>>

OpenBatches(c) == {b \in DOMAIN batch : batch[b].cr = c /\ batch[b].status = "open"}

BugOpenCheck(r) ==
  /\ At(r, "check")
  /\ Become(r, [req[r] EXCEPT !.pc = "create"]) /\ Succeeds
  /\ UNCHANGED <<cryst, batch, round, now, poured, met>>

\* OpenBatchByCryst
OpenCheck(r) ==
  /\ At(r, "check")
  /\ \/ OpenBatches(Mine(r)) = {} /\ Become(r, [req[r] EXCEPT !.pc = "create"]) /\ Succeeds
     \/ OpenBatches(Mine(r)) # {} /\ End(r) /\ Succeeds
     \/ End(r) /\ Fails
  /\ UNCHANGED <<cryst, batch, round, now, poured, met>>

\* CreateHarvestBatch; a crystallizer that was ready has yet to be moved.
OpenCreate(r) ==
  /\ At(r, "create")
  /\ \/ /\ \E b \in BatchIds \ DOMAIN batch :
             batch' = [k \in DOMAIN batch \cup {b} |->
                         IF k = b THEN [cr |-> Mine(r), status |-> "open", tons |-> 0]
                                  ELSE batch[k]]
        /\ IF req[r].row.state = "harvest_ready"
           THEN Become(r, [req[r] EXCEPT !.pc = "advance"]) ELSE End(r)
        /\ Succeeds
     \/ End(r) /\ Fails /\ batch' = batch
  /\ UNCHANGED <<cryst, round, now, poured, met>>

\* CrystTransition reads the row again; the batch stays whatever comes of it.
OpenAdvance(r) ==
  /\ At(r, "advance")
  /\ LET row == cryst[Mine(r)]
         legal == <<row.state, "harvesting">> \in Legal
     IN \/ legal /\ Become(r, Saving(Mine(r), Moved(row, "harvesting"), 0)) /\ Succeeds
        \/ ~legal /\ End(r) /\ Succeeds
        \/ End(r) /\ Fails
  /\ UNCHANGED <<cryst, batch, round, now, poured, met>>

\* Complete: a batch that is open when it is read, ...
CompleteRead(r) ==
  /\ Idle(r) /\ Spend("complete")
  /\ \E b \in DOMAIN batch, y \in Yields :
       /\ batch[b].status = "open"
       /\ Become(r, [IdleReq EXCEPT !.pc = "weigh", !.cr = batch[b].cr, !.bt = b, !.tons = y])
  /\ UNCHANGED <<cryst, batch, round, now, poured, met>>

BugCompleteWeigh(r) ==
  /\ At(r, "weigh")
  /\ 10 * req[r].tons <= 11 * Cap[Mine(r)] /\ Succeeds
  /\ Become(r, [req[r] EXCEPT !.pc = "book", !.row = cryst[Mine(r)]])
  /\ UNCHANGED <<cryst, batch, round, now, poured, met>>

\* ... a yield of at most 1.1 times the brine, ...
CompleteWeigh(r) ==
  /\ At(r, "weigh")
  /\ LET fits == 10 * req[r].tons <= 11 * cryst[Mine(r)].tons
     IN \/ /\ fits /\ Succeeds
           /\ Become(r, [req[r] EXCEPT !.pc = "book", !.row = cryst[Mine(r)]])
        \/ ~fits /\ End(r) /\ Succeeds
        \/ End(r) /\ Fails
  /\ UNCHANGED <<cryst, batch, round, now, poured, met>>

\* ... SaveHarvestBatch, and the emptied row if the one read was being harvested.
CompleteBook(r) ==
  /\ At(r, "book")
  /\ \/ /\ batch' = [batch EXCEPT ![req[r].bt].status = "completed",
                                  ![req[r].bt].tons = req[r].tons]
        /\ IF req[r].row.state = "harvesting"
           THEN Become(r, Saving(Mine(r), Moved(req[r].row, "empty"), 0)) ELSE End(r)
        /\ Succeeds
     \/ End(r) /\ Fails /\ batch' = batch
  /\ UNCHANGED <<cryst, round, now, poured, met>>

Request(r) ==
  \/ FillRead(r) \/ TransitionRead(r) \/ SaveRow(r)
  \/ OpenRead(r) \/ OpenCheck(r) \/ OpenCreate(r) \/ OpenAdvance(r)
  \/ CompleteRead(r) \/ CompleteWeigh(r) \/ CompleteBook(r)

-----------------------------------------------------------------------------
\* The poller goroutine: PromoteRipened.

Ripe(c) == cryst[c].state = "ripening" /\ Aged(cryst[c]) /\ cryst[c].sal >= 95

BugPromoteList ==
  /\ DOMAIN round = {}
  /\ round' = [c \in {d \in DOMAIN cryst : Ripe(d) /\ now - cryst[d].since > RipeTime} |->
                 [cryst[c] EXCEPT !.state = "harvest_ready"]]
  /\ UNCHANGED <<cryst, batch, req, now, left, poured, met>>

\* ListCrystallizers, and the rows that are to be promoted.
PromoteList ==
  /\ DOMAIN round = {}
  /\ round' = [c \in {d \in DOMAIN cryst : Ripe(d)} |->
                 [cryst[c] EXCEPT !.state = "harvest_ready"]]
  /\ UNCHANGED <<cryst, batch, req, now, left, poured, met>>

\* Save them one by one, whatever has become of them; an error ends the round.
\* (The code goes by name; any order is allowed here.)
PromoteSave ==
  /\ \E c \in DOMAIN round :
       \/ /\ cryst' = [cryst EXCEPT ![c] = round[c]]
          /\ round' = [d \in DOMAIN round \ {c} |-> round[d]]
          /\ Succeeds
       \/ Fails /\ cryst' = cryst /\ round' = [d \in {} |-> EmptyRow]
  /\ UNCHANGED <<batch, req, now, poured, met>>

Poller == PromoteList \/ PromoteSave

-----------------------------------------------------------------------------
\* The process ends between any two statements and is started again.
Restart ==
  /\ Spend("restart")
  /\ req' = [r \in Clients |-> IdleReq]
  /\ round' = [c \in {} |-> EmptyRow]
  /\ UNCHANGED <<cryst, batch, now, poured, met>>

Tick ==
  /\ Spend("tick")
  /\ now' = now + 1
  /\ UNCHANGED <<cryst, batch, req, round, poured, met>>

Next ==
  \/ \E c \in Crysts : Create(c)
  \/ \E r \in Clients : Request(r)
  \/ Poller \/ Restart \/ Tick

Spec == Init /\ [][Next]_vars

\* The poller is a goroutine of the engine; requests and the clock owe nothing.
FairSpec == Spec /\ WF_vars(Poller)

-----------------------------------------------------------------------------
(***************************************************************************)
(* Properties.                                                             *)
(***************************************************************************)

CrystRow == [state : States, tons : Nat, sal : Nat, since : Nat]
BatchRow == [cr : Crysts, status : {"open", "completed"}, tons : Nat]
ReqRec   == [pc : ReqPc, cr : Crysts \cup {None}, row : CrystRow,
             bt : BatchIds \cup {None}, tons : Nat]
Fits(c, row) == row.tons <= Cap[c] /\ row.since <= now

CrystType ==
  /\ DOMAIN cryst \subseteq Crysts /\ cryst \in [DOMAIN cryst -> CrystRow]
  /\ \A c \in DOMAIN cryst : Fits(c, cryst[c])
BatchType ==
  /\ DOMAIN batch \subseteq BatchIds /\ batch \in [DOMAIN batch -> BatchRow]
  /\ \A b \in DOMAIN batch : batch[b].cr \in DOMAIN cryst
RoundType ==
  /\ DOMAIN round \subseteq DOMAIN cryst /\ round \in [DOMAIN round -> CrystRow]
  /\ \A c \in DOMAIN round : Fits(c, round[c])
ReqType ==
  /\ req \in [Clients -> ReqRec]
  /\ \A r \in Clients :
       /\ ~Idle(r) => Mine(r) \in DOMAIN cryst /\ Fits(Mine(r), req[r].row)
       /\ req[r].pc \in {"weigh", "book"} =>
            req[r].bt \in DOMAIN batch /\ batch[req[r].bt].cr = Mine(r)
EnvType ==
  /\ now \in Nat \ {0} /\ left \in [BudgetKinds -> Nat]
  /\ poured \in [Crysts -> Nat] /\ met \subseteq Crysts

\* The shape of the state.  No row, stored, held by a request or listed by the
\* poller, is above its capacity or ripening since a time to come.
TypeOK == CrystType /\ BatchType /\ RoundType /\ ReqType /\ EnvType

\* Whatever requests and the poller write over one another, a crystallizer that is
\* ready or being harvested has ripened for 72 h and holds 80 percent: a stale row
\* may bring back a state, never one that was not earned.
RipeBeforeHarvest ==
  \A c \in DOMAIN cryst :
    cryst[c].state \in {"harvest_ready", "harvesting"} =>
      Aged(cryst[c]) /\ WellFilled(c, cryst[c])

\* Where no two requests were ever opening batches of a crystallizer at once, it has at
\* most one that is open: across failed calls, completions, dumped fillings and restarts
\* that leave a batch behind, the check Open makes is enough.
AtMostOneOpen(c) == \A a, b \in OpenBatches(c) : a = b
OneBatchUnlessMet == \A c \in DOMAIN cryst \ met : AtMostOneOpen(c)

\* No crystallizer ever shows more brine than was poured into it, and no batch
\* counts more than 1.1 times that, though lost updates may bring brine back.
OnlyWhatWasPoured ==
  /\ \A c \in DOMAIN cryst : cryst[c].tons <= poured[c]
  /\ \A b \in DOMAIN batch : 10 * batch[b].tons <= 11 * poured[batch[b].cr]

\* What is ripe is promoted, unless someone takes it out of ripening first.
RipeIsPromoted ==
  \A c \in Crysts : (c \in DOMAIN cryst /\ Ripe(c)) ~> (c \in DOMAIN cryst => ~Ripe(c))

-----------------------------------------------------------------------------
\* The inductive invariant: what holds of every row that was ever read holds of
\* every row that is ever saved.

Sound(c, row, pour) ==
  /\ row.state \in {"ripening", "harvest_ready", "harvesting"} =>
       row.since > 0 /\ WellFilled(c, row)
  /\ row.state \in {"harvest_ready", "harvesting"} => now - row.since >= RipeTime
  /\ row.tons <= poured[c] + pour

RowsSound ==
  /\ \A c \in DOMAIN cryst : Sound(c, cryst[c], 0)
  /\ \A c \in DOMAIN round : Sound(c, round[c], 0)
  /\ \A r \in Clients : /\ At(r, "save") => Sound(Mine(r), req[r].row, req[r].tons)
                        /\ At(r, "book") => 10 * req[r].tons <= 11 * poured[Mine(r)]

-----------------------------------------------------------------------------
\* What the comments say and the code does not keep.

\* Complete: the batch is recorded and the crystallizer returns to empty.  A batch
\* whose filling was dumped meanwhile is recorded against the next filling, which
\* stays, is harvested and counted again.
CompletionEmpties ==
  [][\A r \in Clients :
       At(r, "book") /\ batch' # batch /\ Idle(r)' => cryst'[Mine(r)].state = "empty"]_vars

\* Open: a batch is opened only where none is open.  Two requests may both look before
\* either has inserted its batch.
OneOpenBatch == \A c \in DOMAIN cryst : AtMostOneOpen(c)
=============================================================================
