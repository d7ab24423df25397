------------------------------ MODULE MCUpkeep ------------------------------
(***************************************************************************)
(* A small instance of Upkeep: one pump, one task on it or elsewhere, and  *)
(* two callers.                                                            *)
(***************************************************************************)
EXTENDS Upkeep, TLC

MCBudget == ("create" :> 1) @@ ("plan" :> 1) @@ ("task" :> 3) @@ ("service" :> 1)
              @@ ("run" :> 2) @@ ("fault" :> 1) @@ ("tick" :> 1)

Alike == Permutations(Callers)
=============================================================================
