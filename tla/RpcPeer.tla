------------------------------ MODULE RpcPeer ------------------------------
(***************************************************************************)
(* `shadow acp`: the editor's requests on stdin, the peer that runs each   *)
(* of them once (src/acp/jsonrpc.ts), the prompts that ask the editor for  *)
(* permission over the same wire (server.ts, gate.ts, approvalBinding.ts), *)
(* and the process that stops reading while too much is in flight (cli.ts).*)
(*                                                                         *)
(* The frames of one chunk are dispatched in one turn of the event loop:   *)
(* promises they settle are seen after the last of them. Refusals that     *)
(* leave no trace (before the handshake, a capability that was not         *)
(* negotiated, an unparsable line, another content under a known id) are   *)
(* answered and change nothing, so they are not actions.                   *)
(***************************************************************************)
EXTENDS Naturals, Sequences, SequencesExt, FiniteSets

CONSTANTS
  Ids,          (* the request ids the editor uses                           *)
  NoId,
  Sessions,     (* a prompt is named by its session                          *)
  Params,       (* what an approval may be asked for                         *)
  NoParams,
  Bound,        (* RPC_PENDING_BOUND                                         *)
  LedgerBound,  (* OUTCOME_LEDGER_BOUND                                      *)
  MaxAsks       (* bound: approvals asked for                                *)

(* A session runs one prompt at a time, and MAX_WEB_SESSIONS is 8, the       *)
(* pending bound 64.                                                         *)
ASSUME PeerAssumption ==
  /\ NoId \notin Ids /\ NoParams \notin Params
  /\ Sessions \cap {"call", "brief"} = {}
  /\ {Bound, LedgerBound} \subseteq Nat \ {0} /\ MaxAsks \in Nat
  /\ IsFiniteSet(Sessions) /\ Cardinality(Sessions) < Bound

(* The content of a request: a prompt, one the editor may force-cancel       *)
(* (tool_call), or any other.                                                *)
Contents == Sessions \cup {"call", "brief"}
Requests == [id : Ids, content : Contents]

(* Who asks for an approval: the turn itself, a sub-agent it runs in the     *)
(* background, or one that an earlier turn left.                             *)
Askers == {"turn", "agent", "left"}
Approvals == [wire : 1..MaxAsks, session : Sessions, params : Params, from : Askers]

VARIABLES
  stdin,        (* open, paused, ended                                       *)
  reading,      (* a chunk is being dispatched                               *)
  peer,         (* greeting (before the handshake), ready, dead              *)
  closing,      (* shutdown() has begun                                      *)
  live,         (* liveOps, in order                                         *)
  inflight,
  latched,      (* backpressured                                             *)
  loose,        (* force-cancelled requests whose handler still runs         *)
  ledger,       (* outcomes, oldest first                                    *)
  owner,        (* the request whose turn runs in a session                  *)
  cancelled,    (* sessions whose turn has been interrupted                  *)
  agents,       (* sessions where a sub-agent may have outlived its turn     *)
  asks,         (* pending: approvals asked for and not settled              *)
  told,         (* the answers read in this chunk                            *)
  seals,        (* approvalBinding.seals, by wire id                         *)
  wires,        (* ids of approval requests used so far                      *)
  granted,      (* history: the approvals that let a tool run                *)
  answered,     (* history: outcomes written for the last run of an id       *)
  since         (* history: outcomes recorded since that of an id            *)

input == <<stdin, reading, latched>>
ops == <<live, inflight, loose, ledger, answered, since>>
turns == <<owner, cancelled, agents>>
approvals == <<asks, told, seals, wires, granted>>
vars == <<input, peer, closing, ops, turns, approvals>>

Init ==
  /\ stdin = "open" /\ reading = FALSE /\ latched = FALSE
  /\ peer = "greeting" /\ closing = FALSE
  /\ live = <<>> /\ inflight = 0 /\ loose = {} /\ ledger = <<>>
  /\ answered = [i \in Ids |-> 0] /\ since = [i \in Ids |-> LedgerBound]
  /\ owner = [s \in Sessions |-> NoId] /\ cancelled = {} /\ agents = {}
  /\ asks = {} /\ told = {} /\ seals = {} /\ wires = 0 /\ granted = {}

-----------------------------------------------------------------------------
Capped(n) == IF n > LedgerBound THEN LedgerBound ELSE n

(* Faulty: the ledger holds one outcome less than its bound.                 *)
RememberShort(s) ==
  ledger' = LET all == ledger \o s IN
            SubSeq(all, IF Len(all) > LedgerBound - 1 THEN Len(all) - LedgerBound + 2 ELSE 1, Len(all))

(* remember(): the oldest outcomes make room.                                *)
Remember(s) ==
  ledger' = LET all == ledger \o s IN
            SubSeq(all, IF Len(all) > LedgerBound THEN Len(all) - LedgerBound + 1 ELSE 1, Len(all))

Recorded(op) ==
  since' = [i \in Ids |-> IF i = op.id THEN 0 ELSE Capped(since[i] + 1)]

(* onDrain(): the process reads on.                                          *)
Drain ==
  IF latched /\ inflight' < Bound
  THEN latched' = FALSE /\ stdin' = IF stdin = "paused" THEN "open" ELSE stdin
  ELSE UNCHANGED <<latched, stdin>>

(* settle(): the outcome is recorded and written, the room given back.       *)
Settle(op) ==
  /\ live' = RemoveFirst(live, op)
  /\ inflight' = inflight - 1
  /\ Remember(<<op>>) /\ Recorded(op)
  /\ answered' = [answered EXCEPT ![op.id] = @ + 1]
  /\ Drain

(* submit(): a prompt takes the turn of its session unless that is busy.     *)
TakesTurn(op) == op.content \in Sessions /\ ~closing /\ owner[op.content] = NoId

(* What handleRequest() does before its first await.                         *)
Execute(op) ==
  /\ live' = Append(live, op) /\ inflight' = inflight + 1
  /\ answered' = [answered EXCEPT ![op.id] = 0]
  /\ owner' = IF TakesTurn(op) THEN [owner EXCEPT ![op.content] = op.id] ELSE owner
  /\ UNCHANGED <<loose, ledger, since, cancelled, agents>>

Frame == stdin = "open" /\ peer # "dead" /\ reading' = TRUE

(* runRequest(): what is in flight or remembered is not run again, and       *)
(* nothing runs beyond the bound.                                            *)
Request(op) ==
  /\ Frame /\ peer = "ready"
  /\ \A k \in DOMAIN live : live[k].id # op.id
  /\ \A k \in DOMAIN ledger : ledger[k].id # op.id
  /\ inflight < Bound
  /\ Execute(op)
  /\ UNCHANGED <<stdin, latched, peer, closing, approvals>>

(* The first request: `initialize`, in a version this endpoint speaks.       *)
Handshake(id) ==
  /\ Frame /\ peer = "greeting"
  /\ peer' = "ready"
  /\ Execute([id |-> id, content |-> "brief"])
  /\ UNCHANGED <<stdin, latched, closing, approvals>>

(* The turn of these sessions is interrupted. Its gate is denied at once and *)
(* its request to the editor withdrawn (settleWithAbort, request's onAbort). *)
Abort(ss) == cancelled' = cancelled \cup {s \in ss : owner[s] # NoId}

(* session/cancel.                                                           *)
Cancel(s) ==
  /\ Frame /\ peer = "ready"
  /\ Abort({s})
  /\ UNCHANGED <<stdin, latched, peer, closing, ops, owner, agents, approvals>>

(* forceCancel(): the editor has its answer, the handler may go on.          *)
ForceCancel(op) ==
  /\ Frame /\ peer = "ready"
  /\ op.content = "call" /\ \E k \in DOMAIN live : live[k] = op
  /\ loose' = loose \cup {op}
  /\ Settle(op)
  /\ UNCHANGED <<peer, closing, turns, approvals>>

(* Nobody waits for the approval: its turn is interrupted and with it the    *)
(* sub-agents of the turn, but none an earlier turn left; or the peer is     *)
(* dead (cancelPending(), and the sessions are closed).                      *)
Interrupted(a) == peer = "dead" \/ (a.from # "left" /\ a.session \in cancelled)

(* The editor answers an approval that is pending: it echoes what it was     *)
(* asked, or something else, and allows or rejects.                          *)
Answer(a, echo, allow) ==
  /\ Frame
  /\ a \in asks /\ ~Interrupted(a)
  /\ \A t \in told : t.wire # a.wire
  /\ told' = told \cup {[wire |-> a.wire, echo |-> echo, allow |-> allow]}
  /\ UNCHANGED <<stdin, latched, peer, closing, ops, turns, asks, seals, wires, granted>>

(* die(): a frame too large or a version nobody speaks. teardown() records   *)
(* every operation as dead; onDead shuts the process down.                   *)
Die ==
  /\ Frame
  /\ peer' = "dead" /\ closing' = TRUE
  /\ live' = <<>> /\ inflight' = 0 /\ Remember(live)
  /\ Abort(Sessions)
  /\ UNCHANGED <<stdin, latched, loose, answered, since, owner, agents, approvals>>

-----------------------------------------------------------------------------
(* Faulty: the echoed digest is not compared.                                *)
AuthorizeAny(a, t) == a.wire \in seals /\ t.allow

(* authorize(), and the editor's choice.                                     *)
Authorize(a, t) == a.wire \in seals /\ t.echo = a.params /\ t.allow

(* Faulty: the gate goes by its answer although its turn is interrupted.     *)
GateUnraced(a) == \E t \in told : t.wire = a.wire /\ Authorize(a, t)

(* The gate's decision: an interrupt before it is a denial.                  *)
Gate(a) ==
  /\ ~Interrupted(a)
  /\ \E t \in told : t.wire = a.wire /\ Authorize(a, t)

(* After the chunk: the promises it settled, answered or withdrawn, are      *)
(* acted on; each burns its seal. feed() reports whether to stop reading.    *)
ChunkEnd ==
  /\ reading
  /\ reading' = FALSE
  /\ LET over == {a \in asks : Interrupted(a) \/ \E t \in told : t.wire = a.wire} IN
     /\ granted' = granted \cup {a \in over : Gate(a)}
     /\ seals' = seals \ {a.wire : a \in over}
     /\ asks' = asks \ over
  /\ told' = {}
  /\ latched' = (peer # "dead" /\ inflight >= Bound)
  /\ stdin' = IF latched' THEN "paused" ELSE stdin
  /\ UNCHANGED <<peer, closing, ops, turns, wires>>

(* An approval is needed: the request is sealed, then written. A turn that   *)
(* asks waits for the answer. Its sub-agents in the background have its gate *)
(* and ask beside it, also when the turn is over.                            *)
Ask(s, p, from) ==
  /\ ~reading /\ peer = "ready" /\ wires < MaxAsks
  /\ IF from = "left" THEN s \in agents ELSE owner[s] # NoId /\ s \notin cancelled
  /\ from = "turn" => \A a \in asks : a.session = s => a.from # "turn"
  /\ wires' = wires + 1
  /\ asks' = asks \cup {[wire |-> wires', session |-> s, params |-> p, from |-> from]}
  /\ seals' = seals \cup {wires'}
  /\ UNCHANGED <<input, peer, closing, ops, turns, told, granted>>

(* A sub-agent in the background is stopped while it waits.                  *)
AgentStops(a) ==
  /\ ~reading /\ a \in asks /\ a.from # "turn"
  /\ asks' = asks \ {a} /\ seals' = seals \ {a.wire}
  /\ UNCHANGED <<input, peer, closing, ops, turns, told, wires, granted>>

LeftBy(s, a) == IF a.session = s THEN [a EXCEPT !.from = "left"] ELSE a

(* The turn ends, and with it the prompt's request if it is still live. What *)
(* interrupts it later does not reach the sub-agents it leaves.              *)
TurnEnds(s) ==
  /\ ~reading /\ owner[s] # NoId
  /\ \A a \in asks : a.session = s => a.from # "turn"
  /\ owner' = [owner EXCEPT ![s] = NoId] /\ cancelled' = cancelled \ {s}
  /\ agents' = IF s \in cancelled THEN agents ELSE agents \cup {s}
  /\ asks' = {LeftBy(s, a) : a \in asks}
  /\ LET op == [id |-> owner[s], content |-> s] IN
     IF \E k \in DOMAIN live : live[k] = op
     THEN Settle(op) /\ UNCHANGED loose
     ELSE UNCHANGED <<ops, stdin, latched>>
  /\ UNCHANGED <<reading, peer, closing, told, seals, wires, granted>>

(* Faulty: a prompt waits while its session is busy, instead of being        *)
(* refused.                                                                  *)
HandlerEndsQueued(op) ==
  /\ ~reading
  /\ \E k \in DOMAIN live : live[k] = op
  /\ op.content \in Sessions => owner[op.content] = NoId
  /\ Settle(op)
  /\ UNCHANGED <<reading, peer, closing, loose, turns, approvals>>

(* Every other handler settles without the editor, that of a prompt whose    *)
(* session is busy too.                                                      *)
HandlerEnds(op) ==
  /\ ~reading
  /\ \E k \in DOMAIN live : live[k] = op
  /\ op.content \in Sessions => owner[op.content] # op.id
  /\ Settle(op)
  /\ UNCHANGED <<reading, peer, closing, loose, turns, approvals>>

(* Faulty: a late result is written as well.                                 *)
LateResultSettles(op) ==
  /\ ~reading
  /\ op \in loose
  /\ loose' = loose \ {op}
  /\ Settle(op)
  /\ UNCHANGED <<reading, peer, closing, turns, approvals>>

(* execute(): the late result of a cancelled operation is discarded.         *)
LateResult(op) ==
  /\ ~reading
  /\ op \in loose
  /\ loose' = loose \ {op}
  /\ UNCHANGED <<input, peer, closing, live, inflight, ledger, answered, since, turns, approvals>>

(* shutdown(): at the end of the input, which a paused stream does not see,  *)
(* or at a signal. Every session is closed, its turn interrupted, its        *)
(* sub-agents are cancelled.                                                 *)
Shutdown ==
  /\ ~reading /\ ~closing
  /\ closing' = TRUE
  /\ Abort(Sessions) /\ agents' = {}
  /\ asks' = {} /\ seals' = seals \ {a.wire : a \in asks}
  /\ UNCHANGED <<input, peer, ops, owner, told, wires, granted>>

(* peer.end(), once the sessions are closed: their turns may still unwind.   *)
End ==
  /\ ~reading /\ closing /\ stdin # "ended"
  /\ peer' = "dead" /\ stdin' = "ended"
  /\ live' = <<>> /\ inflight' = 0 /\ Remember(live)
  /\ asks' = {} /\ seals' = seals \ {a.wire : a \in asks}
  /\ UNCHANGED <<reading, latched, closing, loose, answered, since, turns, told, wires, granted>>

Next ==
  \/ \E id \in Ids : Handshake(id)
  \/ \E op \in Requests : Request(op) \/ ForceCancel(op) \/ HandlerEnds(op) \/ LateResult(op)
  \/ \E s \in Sessions : Cancel(s) \/ TurnEnds(s) \/ \E p \in Params, from \in Askers : Ask(s, p, from)
  \/ \E a \in asks :
       AgentStops(a) \/ \E echo \in Params \cup {NoParams}, allow \in BOOLEAN : Answer(a, echo, allow)
  \/ Die \/ ChunkEnd \/ Shutdown \/ End

(* Handlers other than prompts settle, an interrupted turn ends (AgentLoop), *)
(* and a chunk ends. Nothing makes the editor answer or a turn end.          *)
Fairness ==
  /\ WF_vars(ChunkEnd) /\ WF_vars(End)
  /\ \A op \in Requests : WF_vars(HandlerEnds(op))
  /\ \A s \in Sessions : WF_vars(s \in cancelled /\ TurnEnds(s))

Spec == Init /\ [][Next]_vars /\ Fairness

-----------------------------------------------------------------------------
TypeOK ==
  /\ stdin \in {"open", "paused", "ended"} /\ peer \in {"greeting", "ready", "dead"}
  /\ {reading, latched, closing} \subseteq BOOLEAN
  /\ live \in Seq(Requests) /\ inflight = Len(live) /\ inflight <= Bound
  /\ \A j, k \in DOMAIN live : live[j].id = live[k].id => j = k
  /\ loose \subseteq Requests
  /\ ledger \in Seq(Requests) /\ Len(ledger) <= LedgerBound
  /\ owner \in [Sessions -> Ids \cup {NoId}] /\ cancelled \cup agents \subseteq Sessions
  /\ asks \cup granted \subseteq Approvals
  /\ seals \subseteq 1..MaxAsks /\ wires \in 0..MaxAsks

(* Each run of a request writes one outcome, after it began: a handler that  *)
(* outlives its cancellation does not answer a second time.                  *)
AnsweredOnce ==
  \A i \in Ids :
    /\ answered[i] <= 1
    /\ (\E k \in DOMAIN live : live[k].id = i) => answered[i] = 0

(* A request is executed again only if LedgerBound other outcomes have been  *)
(* recorded since its own: short of that the editor may repeat it at will.   *)
RunsOnce ==
  [][\A op \in Requests :
       (\E k \in DOMAIN live' : live'[k] = op) /\ (\A k \in DOMAIN live : live[k] # op)
         => since[op.id] = LedgerBound]_vars

(* An approval is granted to who asked for it, while the turn or the agent   *)
(* goes on, for an answer that echoes what was asked; and no seal outlives   *)
(* its request.                                                              *)
GrantsMatch ==
  [][/\ \A a \in granted' \ granted :
          /\ a \in asks /\ ~Interrupted(a)
          /\ \E t \in told : t.wire = a.wire /\ t.echo = a.params
     /\ ~reading' => seals' = {a.wire : a \in asks'}]_vars

(* However many prompts wait for answers that can only be read from it,      *)
(* stdin is not paused for good.                                             *)
StdinResumes == stdin = "paused" ~> stdin # "paused"
=============================================================================
