---------------------------- MODULE MCAgentLoop ----------------------------
(***************************************************************************)
(* A call that reads (r), one that writes and needs an approval (w), one   *)
(* on the denylist (f) and one that names no tool (u); alone, twice in a   *)
(* response, or a read beside a write.                                     *)
(***************************************************************************)
EXTENDS AgentLoop

CONSTANTS r, w, f, u

SomeTools == {r, w, f, u}
SomeBatches == {<<u>>, <<f>>, <<w>>, <<r, r>>, <<w, w>>, <<r, w>>}
=============================================================================
