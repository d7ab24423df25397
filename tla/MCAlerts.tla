------------------------------ MODULE MCAlerts ------------------------------
(***************************************************************************)
(* Small instances of Alerts: one pond, one pump with a task on it, levels *)
(* on both sides of the 40 cm that count as a drop.                        *)
(***************************************************************************)
EXTENDS Alerts, TLC

CONSTANTS p1, u1, t1

MCPonds  == <<p1>>
MCPumps  == <<u1>>
MCTarget == t1 :> u1
Says(w, h, l) == [weak |-> w, hot |-> h, level |-> l]
MCReading  == {Says(FALSE, FALSE, 100), Says(FALSE, FALSE, 50), Says(FALSE, TRUE, 50)}
AllReading == MCReading \cup {Says(TRUE, FALSE, 100)}

\* Three readings, so that a level may drop and then rest; a pond that goes silent or a
\* pump that wears or a task that falls due; a decision of an operator, and an error or a
\* restart.
BusyBudget == ("measure" :> 3) @@ ("field" :> 1) @@ ("decide" :> 1) @@ ("fault" :> 1)

\* Two readings, and nobody but the evaluator.
QuietBudget == [k \in BudgetKinds |-> IF k = "measure" THEN 2 ELSE 0]
=============================================================================
