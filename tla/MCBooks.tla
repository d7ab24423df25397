------------------------------- MODULE MCBooks -------------------------------
(***************************************************************************)
(* A small instance of TransferBooks: the ponds, pumps and orders of       *)
(* MCTransfer, with one worker.                                            *)
(***************************************************************************)
EXTENDS TransferBooks, MCTransfer

\* One order on one pump, which falls due later.
BooksOrders == {Transfers(p1, p2, u1, 2, 1)}

\* A level that covers it, but not without going below the keep line.
BooksLevels == {2}

\* It is made twice; two failed calls, so that a compensation can fail too, a level
\* reading, a restart and a signal.
BooksBudget ==
  [Zero EXCEPT !["order"] = 2, !["fault"] = 2, !["report"] = 1, !["signal"] = 1,
               !["restart"] = 1, !["tick"] = 1]
=============================================================================
