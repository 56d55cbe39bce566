----------------------------- MODULE MCRpcPeer -----------------------------
(***************************************************************************)
(* One session, and two requests in flight at most, in two scopes. Ledger: *)
(* three request ids, of which two are remembered, and an approval.        *)
(* Approvals: two request ids, and two approvals.                          *)
(***************************************************************************)
EXTENDS RpcPeer

CONSTANTS i1, i2, i3, p, q, s

VARIABLE scope   (* the ids the editor uses, the approvals it is asked for   *)

SomeIds == {i1, i2, i3}
Scopes == {[ids |-> SomeIds, asks |-> 1], [ids |-> {i1, i2}, asks |-> 2]}

Within ==
  /\ scope' = scope
  /\ wires' <= scope.asks
  /\ \A k \in DOMAIN live' : live'[k].id \in scope.ids

MCInit == Init /\ scope \in Scopes
MCSpec == MCInit /\ [][Next /\ Within]_<<vars, scope>> /\ Fairness
=============================================================================
