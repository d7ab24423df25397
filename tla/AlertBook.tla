----------------------------- MODULE AlertBook -----------------------------
(***************************************************************************)
(* What the alert table promises: one row per key, an observation of the   *)
(* key is counted once, and an operator's or the evaluator's decision      *)
(* changes the status and nothing else.  A row that has been acknowledged  *)
(* or closed is never open again.                                          *)
(***************************************************************************)
EXTENDS Integers

CONSTANTS Keys, MaxCount

VARIABLE book   \* the rows: status and count by key

\* BOUND: counts are exact up to MaxCount.
Tally(n) == IF n < MaxCount THEN n + 1 ELSE n

Init == book = [k \in {} |-> [status |-> "open", count |-> 1]]

\* The first observation opens the row, each later one is counted.
Observe(k) ==
  \/ /\ k \notin DOMAIN book
     /\ book' = [j \in DOMAIN book \cup {k} |->
                   IF j = k THEN [status |-> "open", count |-> 1] ELSE book[j]]
  \/ /\ k \in DOMAIN book
     /\ book' = [book EXCEPT ![k].count = Tally(@)]

Decide(k, s) ==
  /\ k \in DOMAIN book
  /\ book' = [book EXCEPT ![k].status = s]

Next == \E k \in Keys : Observe(k) \/ \E s \in {"acked", "closed"} : Decide(k, s)

Spec == Init /\ [][Next]_book
=============================================================================
