---------------------------- MODULE PriorityMutex ----------------------------
(***************************************************************************)
(* What src/web/runLock.ts promises its callers, with no queue: at most    *)
(* one owner; a free lock never leaves a call pending; an owner is not     *)
(* preempted by another caller; a session's call is served only when no    *)
(* operator's call is pending; a settled call is never served again.       *)
(***************************************************************************)
CONSTANTS Calls, Priority, NoCall

VARIABLES
  owner,      (* the call that owns the lock                                 *)
  pending,    (* the calls waiting for it                                    *)
  settled     (* the calls whose promise has settled                         *)

vars == <<owner, pending, settled>>

Init ==
  /\ owner = NoCall
  /\ pending = {}
  /\ settled = {}

Fresh(c) == c \in Calls /\ c \notin pending /\ c \notin settled

(* A call arrives and waits behind the owner.                                *)
Wait(c) ==
  /\ Fresh(c)
  /\ owner # NoCall
  /\ pending' = pending \cup {c}
  /\ UNCHANGED <<owner, settled>>

(* A call arrives and finds the lock free.                                   *)
Take(c) ==
  /\ Fresh(c)
  /\ owner = NoCall
  /\ owner' = c
  /\ settled' = settled \cup {c}
  /\ UNCHANGED pending

(* A call is turned away as it arrives.                                      *)
TurnAway(c) ==
  /\ Fresh(c)
  /\ settled' = settled \cup {c}
  /\ UNCHANGED <<owner, pending>>

(* Waiting calls give up, or their holder is torn down.                      *)
GiveUp(gone) ==
  /\ gone \subseteq pending
  /\ owner # NoCall
  /\ pending' = pending \ gone
  /\ settled' = settled \cup gone
  /\ UNCHANGED owner

(* The owner lets go; some waiting calls may give up at the same time. The   *)
(* best of those that stay is served.                                        *)
HandOver(gone) ==
  LET stay == pending \ gone
  IN /\ gone \subseteq pending
     /\ owner # NoCall
     /\ \/ /\ stay = {}
           /\ owner' = NoCall
           /\ pending' = {}
           /\ settled' = settled \cup gone
        \/ /\ owner' \in stay
           /\ owner' \in Priority \/ stay \cap Priority = {}
           /\ pending' = stay \ {owner'}
           /\ settled' = settled \cup gone \cup {owner'}

Next ==
  \/ \E c \in Calls : Wait(c) \/ Take(c) \/ TurnAway(c)
  \/ \E gone \in SUBSET Calls : GiveUp(gone) \/ HandOver(gone)

Spec == Init /\ [][Next]_vars
=============================================================================
