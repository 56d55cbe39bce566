---------------------------- MODULE SteeredTurn ----------------------------
(***************************************************************************)
(* What a running turn promises to whoever steers it (the contract in      *)
(* src/agent/loop.ts): a steer is taken while none is pending, waits for   *)
(* the tool that is running, and is then injected into the turn, which     *)
(* goes on, or is dropped because the turn ends. A bare steer carries no   *)
(* text: it only ends the turn. No tool starts while a steer is pending.   *)
(*                                                                         *)
(* The host keeps its own copy of the text until it hears of the           *)
(* injection, so a steer that a finished turn still holds is not lost.     *)
(***************************************************************************)
VARIABLES
  phase,      (* thinking, acting (a tool is running), over                  *)
  steer       (* none, bare, or text: the steer that is pending              *)

turnVars == <<phase, steer>>

Phases == {"thinking", "acting", "over"}
Steers == {"none", "bare", "text"}

Init ==
  /\ phase = "thinking"
  /\ steer = "none"

(* requestSteer(text?): the host may still hold the loop when it has ended.  *)
Request(kind) ==
  /\ steer = "none"
  /\ kind \in Steers \ {"none"}
  /\ steer' = kind
  /\ UNCHANGED phase

(* The text becomes a user message of this turn, between two of its steps.   *)
Inject ==
  /\ phase = "thinking"
  /\ steer = "text"
  /\ steer' = "none"
  /\ UNCHANGED phase

(* The first tool of a batch starts, and the last one that runs ends.        *)
Act ==
  /\ phase = "thinking"
  /\ steer = "none"
  /\ phase' = "acting"
  /\ UNCHANGED steer

Rest ==
  /\ phase = "acting"
  /\ phase' = "thinking"
  /\ UNCHANGED steer

(* The turn ends. A bare steer that ended it is forgotten; a text may have   *)
(* been injected in the same step, by a turn whose budget is used up.        *)
End ==
  /\ phase = "thinking"
  /\ phase' = "over"
  /\ steer' \in {steer, "none"}

Next ==
  \/ \E kind \in {"bare", "text"} : Request(kind)
  \/ Inject
  \/ Act
  \/ Rest
  \/ End

Spec == Init /\ [][Next]_turnVars
=============================================================================
