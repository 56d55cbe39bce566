----------------------------- MODULE MCJobStore -----------------------------
(***************************************************************************)
(* Two processes on the job store, in two instances. "attempts": one job   *)
(* of three attempts, so that a retry can be retried and a check of the    *)
(* first attempt can end during or after the second. "graph": two jobs of  *)
(* one attempt and no checks, one of which may depend on the other, be its *)
(* child, and be cancelled with it.                                        *)
(***************************************************************************)
EXTENDS JobStore

CONSTANTS p1, p2, j1, j2

VARIABLE instance

Pair == {p1, p2}
Two == {j1, j2}
Limits == [j \in Jobs |-> IF j = j1 THEN 3 ELSE 1]

(* What a step of each instance leaves as it is.                             *)
Within ==
  IF instance = "attempts"
  THEN status'[j2] = "none" /\ mode'[j1] = "accepted"
  ELSE /\ checks' = {}
       /\ \A j \in Jobs : Len(attempts'[j]) <= 1
       /\ \A j \in Jobs : status'[j] = "pending" => attempts'[j] = <<>>

MCInit == Init /\ instance \in {"attempts", "graph"}
MCNext == Next /\ Within /\ UNCHANGED instance
MCSpec == MCInit /\ [][MCNext]_<<vars, instance>> /\ Fairness
=============================================================================
