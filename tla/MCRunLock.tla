------------------------------ MODULE MCRunLock ------------------------------
(***************************************************************************)
(* The run lock on a small instance: the operator makes two priority calls *)
(* (a turn of the terminal and a shell escape) and two sessions one call   *)
(* each. A holder can then have a grant and a waiter at once, each class   *)
(* of calls can have two waiters, and three calls can wait behind one.     *)
(***************************************************************************)
EXTENDS RunLock

CONSTANTS t1, t2, a1, b1, cli, sa, sb

MCCalls == {t1, t2, a1, b1}
MCHolders == {cli, sa, sb}
MCHolderOf ==
  [c \in MCCalls |-> CASE c \in {t1, t2} -> cli [] c = a1 -> sa [] c = b1 -> sb]
MCPriority == {t1, t2}
=============================================================================
