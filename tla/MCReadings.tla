----------------------------- MODULE MCReadings -----------------------------
(***************************************************************************)
(* A small instance of Readings: one pond and one sensor; values on both   *)
(* sides of what is rejected and suspect, a warm and a cold reading, out   *)
(* of order and twice for the same second; targets the readings reach.     *)
(***************************************************************************)
EXTENDS Readings, TLC

CONSTANTS p1, s1

MCPond0 == p1 :> [level |-> 1, stage |-> 2, target |-> 5]

Read(at, be, dev, level, src) ==
  [pond |-> p1, at |-> at, be |-> be, dev |-> dev, level |-> level, src |-> src]

\* A batch of two, single readings before and after it, and one value no reading has.
MCBatches ==
  { <<Read(2, 6, 1, 1, "manual"), Read(3, 8, 0, 2, s1)>>,
    <<Read(1, 5, -1, 2, s1)>>, <<Read(3, 9, 1, 4, "manual")>>, <<Read(4, 12, 0, 2, "manual")>>,
    <<Read(4, 0, 0, 2, "manual")>> }

MCBudget == ("post" :> 3) @@ ("register" :> 1) @@ ("calibrate" :> 1)
              @@ ("advance" :> 3) @@ ("fault" :> 1)

\* One warm reading: 4 at 20 C once it is compensated, 5 if it is compensated again.
WarmBatches == { <<Read(1, 3, 1, 1, "manual")>> }

WarmBudget == [k \in BudgetKinds |-> IF k \in {"post", "advance"} THEN 1 ELSE 0]

MCCalibrations == {-2, 3}

Alike == Permutations(Clients)
=============================================================================
