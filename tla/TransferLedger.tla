--------------------------- MODULE TransferLedger ---------------------------
(***************************************************************************)
(* What the transfer component promises: an order that was accepted moves  *)
(* its whole volume from one pond to the other in one indivisible step, at *)
(* most once and never from below the keep line, or not at all.  The one   *)
(* exception is named: a failure between the two level updates loses the   *)
(* volume, again at most once per order; the end of the process may do so  *)
(* to several orders at a time.  A reading resets the content of its pond. *)
(***************************************************************************)
EXTENDS Integers, Functions

CONSTANTS JobIds, Ponds, Orders, Levels, InitContent, Keep

VARIABLES
  book,   \* accepted orders: a function from job ids to orders
  bal,    \* the content of each pond
  moved,  \* jobs whose volume has arrived
  lost    \* jobs whose volume has left and never arrives

ledger == <<book, bal, moved, lost>>

Init ==
  /\ book \in [{} -> Orders]
  /\ bal = InitContent
  /\ moved = {} /\ lost = {}

Book(j, o) ==
  /\ j \notin DOMAIN book
  /\ book' = [k \in DOMAIN book \cup {j} |-> IF k = j THEN o ELSE book[k]]
  /\ UNCHANGED <<bal, moved, lost>>

Open == DOMAIN book \ (moved \cup lost)

Move(j) ==
  /\ moved' = moved \cup {j}
  /\ bal[book[j].from] >= book[j].vol + Keep[book[j].from]
  /\ bal' = [bal EXCEPT ![book[j].from] = @ - book[j].vol, ![book[j].to] = @ + book[j].vol]
  /\ UNCHANGED <<book, lost>>

\* What the jobs of S take out of p.
Taken(S, p) == SumFunction([j \in {k \in S : book[k].from = p} |-> book[j].vol])

Lose(S) ==
  /\ lost' = lost \cup S
  /\ \A j \in S : bal[book[j].from] >= Taken(S, book[j].from) + Keep[book[j].from]
  /\ bal' = [p \in Ponds |-> bal[p] - Taken(S, p)]
  /\ UNCHANGED <<book, moved>>

Measure(p) ==
  /\ bal'[p] \in Levels
  /\ bal' = [bal EXCEPT ![p] = bal'[p]]
  /\ UNCHANGED <<book, moved, lost>>

Next ==
  \/ \E j \in JobIds, o \in Orders : Book(j, o)
  \/ \E j \in Open : Move(j)
  \/ \E S \in SUBSET Open : S # {} /\ Lose(S)
  \/ \E p \in Ponds : Measure(p)

Spec == Init /\ [][Next]_ledger
=============================================================================
