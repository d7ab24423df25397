----------------------------- MODULE MCTransfer -----------------------------
(***************************************************************************)
(* Small instances of Transfer: two ponds that feed each other's level     *)
(* checks and one pump, in units of 50 m3 (so the default rate is 1).      *)
(***************************************************************************)
EXTENDS Transfer, FiniteSets, TLC

CONSTANTS p1, p2, u1

MCPonds == {p1, p2}
MCPumps == {u1}

\* p1 covers the order twice.
MCInit == p1 :> 11 @@ p2 :> 2
MCKeep == p1 :> 1 @@ p2 :> 1
MCRim  == p1 :> 11 @@ p2 :> 11
MCRate == u1 :> 2

Transfers(p, q, u, v, t) == [from |-> p, to |-> q, pump |-> u, vol |-> v, sched |-> t]

\* An order that falls due later; at the default rate of 1 it takes longer than a run
\* of MaxRunHours may be, at the pump's own rate it does not.
MCOrders == {Transfers(p1, p2, u1, 5, 1)}

\* A level that covers the order, but not without going below the keep line.
MCLevels == {5}

Zero == [k \in BudgetKinds |-> 0]

\* One job, and one of everything else that can get in its way, any three of them in
\* one behaviour.
RaceBudget == [k \in BudgetKinds |-> 1]

Disturbances    == BudgetKinds \ {"order", "tick"}
FewDisturbances == Cardinality({k \in Disturbances : left[k] = 0}) <= 3

\* The smallest environment in which a comment is contradicted.
OneOrderBudget == [Zero EXCEPT !["order"] = 1, !["tick"] = 1]

Interchangeable == Permutations(Workers) \cup Permutations(JobIds)
=============================================================================
