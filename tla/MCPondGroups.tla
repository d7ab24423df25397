---------------------------- MODULE MCPondGroups ----------------------------
(***************************************************************************)
(* Small instances of PondGroups: three ponds, one of them three times as  *)
(* large; levels that are even, too close to move, and far apart; chains   *)
(* that are long enough, too short, and too long for the stages there are. *)
(***************************************************************************)
EXTENDS PondGroups, TLC

CONSTANTS p1, p2, p3

MCArea   == (p1 :> 3) @@ (p2 :> 1) @@ (p3 :> 1)
MCChains == {<<p1>>, <<p1, p2>>, <<p2, p1>>, <<p1, p2, p3>>, <<p1, p2, p3, p1>>}

MCBudget == ("create" :> 1) @@ ("balance" :> 1) @@ ("field" :> 1) @@ ("fault" :> 1)
=============================================================================
