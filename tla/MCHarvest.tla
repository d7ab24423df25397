------------------------------ MODULE MCHarvest -----------------------------
(***************************************************************************)
(* Small instances of Harvest: one crystallizer of 5 units, which is well  *)
(* filled at 4 and yields up to 1.1 times what it holds.                   *)
(***************************************************************************)
EXTENDS Harvest, TLC

CONSTANTS k1

MCCrysts == {k1}
MCCap    == k1 :> 5

\* Once enough to ripen and once what tops it up; 5 can only be drawn from 5.
MCPours  == {1, 4}
MCYields == {4, 5}

\* The poller promotes at 95; below that only the API makes a crystallizer ready.
Strong == {95}
Weak   == {84, 90}

Zero == [k \in BudgetKinds |-> 0]

\* Everything two requests, the poller, a failure and a restart can do together.
RaceBudget == [Zero EXCEPT !["create"] = 1, !["fill"] = 2, !["move"] = 2, !["open"] = 3,
                           !["complete"] = 1, !["fault"] = 1, !["restart"] = 1, !["tick"] = 2]

\* One filling, and two requests that open a batch of it.
TwinBudget == [Zero EXCEPT !["create"] = 1, !["fill"] = 1, !["move"] = 1, !["open"] = 2,
                           !["tick"] = 1]

\* One request at a time, no failure and nothing to promote; a filling is dumped
\* while its batch is open.
DumpBudget == [Zero EXCEPT !["create"] = 1, !["fill"] = 2, !["move"] = 4, !["open"] = 1,
                           !["complete"] = 1, !["tick"] = 1]
=============================================================================
