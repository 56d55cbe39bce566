---------------------------- MODULE SessionTurns ----------------------------
(***************************************************************************)
(* Turns of the terminal and of the browser's sessions over the run lock:  *)
(* src/web/registry.ts (submit, drive, interrupt, decide, remove,          *)
(* closeAll), its approval asks (src/web/approvalGate.ts) and the          *)
(* terminal's side of the lock (src/app/app.ts).                           *)
(*                                                                         *)
(* A prompt is one accepted submit(); its drive() makes at most one        *)
(* acquire() call, so the prompt names the call. Timers, socket events,    *)
(* the model's replies and the operator are steps that run to completion;  *)
(* a continuation of an await that has settled (a microtask) runs before   *)
(* any of them, and closeAll() closes its sessions without a break.        *)
(***************************************************************************)
EXTENDS Integers

CONSTANTS
  Sessions,    (* the browser's sessions                                     *)
  Prompts,     (* the prompts submitted to them                              *)
  SessionOf,   (* the session of each prompt                                 *)
  TuiTurns,    (* the turns the operator starts at the terminal              *)
  Cli,         (* CLI_HOLDER                                                 *)
  MaxClients,  (* bound on the browsers attached to a session                *)
  None         (* null                                                       *)

ASSUME TurnsAssumption ==
  /\ SessionOf \in [Prompts -> Sessions]
  /\ Prompts \cap TuiTurns = {}
  /\ Cli \notin Sessions
  /\ None \notin Prompts \cup TuiTurns
  /\ MaxClients \in Nat

Calls == Prompts \cup TuiTurns
Holders == Sessions \cup {Cli}
HolderOf == [c \in Calls |-> IF c \in Prompts THEN SessionOf[c] ELSE Cli]

VARIABLES
  active, waiters, st, aborted,   (* the run lock, and each turn's signal    *)
  pc,        (* where each turn's function is suspended                      *)
  status,    (* WebSession.status                                            *)
  known,     (* the sessions in the registry's map                           *)
  agent,     (* the sessions that own a built agent                          *)
  building,  (* WebSession.building: no memo, in flight, or resolved         *)
  abortOf,   (* WebSession.abort: the prompt whose controller it is          *)
  asking,    (* the sessions with a parked approval ask                      *)
  gone,      (* the sessions whose transport-gone timer is armed             *)
  clients,   (* the browsers attached to each session's stream               *)
  stopping,  (* the web server is shutting down: closeAll() was called       *)
  closing,   (* the sessions a running closeAll() has still to close         *)
  exiting,   (* the terminal has stopped                                     *)
  stops,     (* terminal 'stop' frames emitted for each prompt               *)
  torn,      (* turns whose holder was torn down while they were in flight   *)
  cancelled  (* turns somebody interrupted while they were in flight         *)

lock == <<active, waiters, st>>
vars == <<active, waiters, st, aborted, pc, status, known, agent, building, abortOf,
          asking, gone, clients, stopping, closing, exiting, stops, torn, cancelled>>

Lock == INSTANCE RunLock WITH Priority <- TuiTurns, NoCall <- None

Statuses == {"idle", "initializing", "queued", "running", "error", "closed"}

Init ==
  /\ Lock!Init
  /\ pc = [c \in Calls |-> "unsent"]
  /\ status = [s \in Sessions |-> "idle"]
  /\ known = Sessions
  /\ agent = {}
  /\ building = [s \in Sessions |-> "none"]
  /\ abortOf = [s \in Sessions |-> None]
  /\ asking = {}
  /\ gone = {}
  /\ clients = [s \in Sessions |-> 0]
  /\ stopping = FALSE
  /\ closing = {}
  /\ exiting = FALSE
  /\ stops = [c \in Prompts |-> 0]
  /\ torn = {}
  /\ cancelled = {}

-----------------------------------------------------------------------------
InFlight(c) == pc[c] \notin {"unsent", "done"}
InFlightOf(h) == { c \in Calls : HolderOf[c] = h /\ InFlight(c) }

(* The continuations that are due: a drive whose agent is there, and a turn  *)
(* whose acquire() has settled.                                              *)
BuildOver(c) ==
  /\ c \in Prompts
  /\ pc[c] = "building"
  /\ SessionOf[c] \in agent \/ building[SessionOf[c]] = "resolved"
AcquireOver(c) == pc[c] = "queued" /\ st[c] \in {"granted", "rejected"}
Quiet ==
  /\ closing = {}
  /\ ~ \E c \in Calls : BuildOver(c) \/ AcquireOver(c)

(* The end of drive(): the catch or the early return has emitted a terminal  *)
(* stop, the `finally` forgets the controller.                               *)
Finish(c, s) ==
  /\ pc' = [pc EXCEPT ![c] = "done"]
  /\ stops' = [stops EXCEPT ![c] = @ + 1]
  /\ abortOf' = [abortOf EXCEPT ![s] = None]

(* Faulty: a session that is still queued for the lock admits a prompt.      *)
SubmitWhileQueued(c) ==
  LET s == SessionOf[c]
  IN /\ Quiet
     /\ pc[c] = "unsent"
     /\ s \in known
     /\ status[s] \in {"idle", "error", "queued"}
     /\ abortOf' = [abortOf EXCEPT ![s] = c]
     /\ pc' = [pc EXCEPT ![c] = "building"]
     /\ building' = [building EXCEPT ![s] = IF @ = "none" THEN "pending" ELSE @]
     /\ UNCHANGED <<lock, aborted, status, known, agent, asking, gone, clients, stopping,
                    closing, exiting, stops, torn, cancelled>>

(* submit(): admit the prompt and run drive() up to its first await. With a  *)
(* memo already there drive() awaits it and leaves the status alone.         *)
Submit(c) ==
  LET s == SessionOf[c]
  IN /\ Quiet
     /\ pc[c] = "unsent"
     /\ s \in known
     /\ status[s] \in {"idle", "error"}
     /\ abortOf' = [abortOf EXCEPT ![s] = c]
     /\ pc' = [pc EXCEPT ![c] = "building"]
     /\ \/ /\ s \notin agent
           /\ building[s] = "none"
           /\ building' = [building EXCEPT ![s] = "pending"]
           /\ status' = [status EXCEPT ![s] = "initializing"]
        \/ /\ s \in agent \/ building[s] # "none"
           /\ UNCHANGED <<building, status>>
     /\ UNCHANGED <<lock, aborted, known, agent, asking, gone, clients, stopping, closing,
                    exiting, stops, torn, cancelled>>

(* Faulty: the handoff does not look whether the session was closed.         *)
BuildResolvesUnchecked(s) ==
  /\ Quiet
  /\ building[s] = "pending"
  /\ building' = [building EXCEPT ![s] = "resolved"]
  /\ agent' = agent \cup {s}
  /\ UNCHANGED <<lock, aborted, pc, status, known, abortOf, asking, gone, clients,
                 stopping, closing, exiting, stops, torn, cancelled>>

(* The builder resolves. A session closed meanwhile never owns the result.   *)
BuildResolves(s) ==
  /\ Quiet
  /\ building[s] = "pending"
  /\ building' = [building EXCEPT ![s] = "resolved"]
  /\ agent' = IF status[s] = "closed" THEN agent ELSE agent \cup {s}
  /\ UNCHANGED <<lock, aborted, pc, status, known, abortOf, asking, gone, clients,
                 stopping, closing, exiting, stops, torn, cancelled>>

(* The builder rejects: the memo is discarded and the drive that awaits it   *)
(* ends in its catch.                                                        *)
BuildRejects(c) ==
  LET s == SessionOf[c]
  IN /\ Quiet
     /\ pc[c] = "building"
     /\ building[s] = "pending"
     /\ building' = [building EXCEPT ![s] = "none"]
     /\ status' = [status EXCEPT ![s] = "error"]
     /\ Finish(c, s)
     /\ UNCHANGED <<lock, aborted, known, agent, asking, gone, clients, stopping, closing,
                    exiting, torn, cancelled>>

(* Faulty: a prompt whose session was closed during the build ends silently. *)
AfterBuildSilent(c) ==
  LET s == SessionOf[c]
  IN /\ closing = {}
     /\ BuildOver(c)
     /\ \/ /\ status[s] = "closed"
           /\ pc' = [pc EXCEPT ![c] = "done"]
           /\ UNCHANGED <<lock, status, stops, abortOf>>
        \/ /\ status[s] # "closed"
           /\ status' = [status EXCEPT ![s] = "queued"]
           /\ pc' = [pc EXCEPT ![c] = "queued"]
           /\ Lock!Acquire(c)
           /\ UNCHANGED <<stops, abortOf>>
     /\ UNCHANGED <<aborted, known, agent, building, asking, gone, clients, stopping,
                    closing, exiting, torn, cancelled>>

(* drive() after the build: give up if the session was closed or the prompt  *)
(* interrupted, else queue for the lock.                                     *)
AfterBuild(c) ==
  LET s == SessionOf[c]
  IN /\ closing = {}
     /\ BuildOver(c)
     /\ \/ /\ status[s] = "closed"
           /\ Finish(c, s)
           /\ UNCHANGED <<lock, status>>
        \/ /\ status[s] # "closed"
           /\ aborted[c]
           /\ status' = [status EXCEPT ![s] = "idle"]
           /\ Finish(c, s)
           /\ UNCHANGED lock
        \/ /\ status[s] # "closed"
           /\ ~aborted[c]
           /\ status' = [status EXCEPT ![s] = "queued"]
           /\ pc' = [pc EXCEPT ![c] = "queued"]
           /\ Lock!Acquire(c)
           /\ UNCHANGED <<stops, abortOf>>
     /\ UNCHANGED <<aborted, known, agent, building, asking, gone, clients, stopping, closing,
                    exiting, torn, cancelled>>

(* Faulty: a turn starts without its session's agent.                        *)
AfterAcquireUnchecked(c) ==
  LET s == SessionOf[c]
  IN /\ closing = {}
     /\ c \in Prompts
     /\ AcquireOver(c)
     /\ \/ /\ st[c] = "rejected"
           /\ status' = [status EXCEPT ![s] = "idle"]
           /\ Finish(c, s)
        \/ /\ st[c] = "granted"
           /\ status' = [status EXCEPT ![s] = "running"]
           /\ pc' = [pc EXCEPT ![c] = "turn"]
           /\ UNCHANGED <<stops, abortOf>>
     /\ UNCHANGED <<lock, aborted, known, agent, building, asking, gone, clients, stopping,
                    closing, exiting, torn, cancelled>>

(* drive() after acquire(). runTurn() throws before the loop starts when the *)
(* session lost its agent or the jail no longer resolves.                    *)
AfterAcquire(c) ==
  LET s == SessionOf[c]
  IN /\ closing = {}
     /\ c \in Prompts
     /\ AcquireOver(c)
     /\ \/ /\ st[c] = "rejected"
           /\ status' = [status EXCEPT ![s] = "idle"]
           /\ Finish(c, s)
           /\ UNCHANGED lock
        \/ /\ st[c] = "granted"
           /\ s \in agent
           /\ status' = [status EXCEPT ![s] = "running"]
           /\ pc' = [pc EXCEPT ![c] = "turn"]
           /\ UNCHANGED <<lock, stops, abortOf>>
        \/ /\ st[c] = "granted"
           /\ status' = [status EXCEPT ![s] = "error"]
           /\ Lock!Release(c)
           /\ Finish(c, s)
     /\ UNCHANGED <<aborted, known, agent, building, asking, gone, clients, stopping, closing,
                    exiting, torn, cancelled>>

(* The loop ends, or throws; the `finally` releases the lock. A turn that    *)
(* awaits an approval is suspended until the ask settles.                    *)
EndTurn(c, outcome) ==
  LET s == SessionOf[c]
  IN /\ Quiet
     /\ pc[c] = "turn"
     /\ s \notin asking
     /\ status' = [status EXCEPT ![s] = outcome]
     /\ Lock!Release(c)
     /\ Finish(c, s)
     /\ UNCHANGED <<aborted, known, agent, building, asking, gone, clients, stopping, closing,
                    exiting, torn, cancelled>>

(* Faulty: an interrupt leaves the ask parked.                               *)
InterruptKeepingAsk(s) ==
  LET c == abortOf[s]
  IN /\ Quiet
     /\ s \in known
     /\ c # None
     /\ ~aborted[c]
     /\ aborted' = [aborted EXCEPT ![c] = TRUE]
     /\ Lock!OnAbort(c)
     /\ cancelled' = cancelled \cup {c}
     /\ UNCHANGED <<pc, status, known, agent, building, abortOf, asking, gone, clients,
                    stopping, closing, exiting, stops, torn>>

(* interrupt(): abort the session's controller. Its listeners settle the ask *)
(* and take a waiting call out of the lock's queue.                          *)
Interrupt(s) ==
  LET c == abortOf[s]
  IN /\ Quiet
     /\ s \in known
     /\ c # None
     /\ ~aborted[c]
     /\ aborted' = [aborted EXCEPT ![c] = TRUE]
     /\ Lock!OnAbort(c)
     /\ asking' = asking \ {s}
     /\ cancelled' = cancelled \cup {c}
     /\ UNCHANGED <<pc, status, known, agent, building, abortOf, gone, clients, stopping, closing,
                    exiting, stops, torn>>

-----------------------------------------------------------------------------
(* WebApprovalGate.request() parks an ask. Emitting its frame may drop a     *)
(* browser whose socket is full or broken, before the ask is in the map.     *)
Ask(c) ==
  LET s == SessionOf[c]
  IN /\ Quiet
     /\ pc[c] = "turn"
     /\ ~aborted[c]
     /\ s \notin asking
     /\ asking' = asking \cup {s}
     /\ \E n \in 0..clients[s] : clients' = [clients EXCEPT ![s] = n]
     /\ UNCHANGED <<lock, aborted, pc, status, known, agent, building, abortOf, gone,
                    stopping, closing, exiting, stops, torn, cancelled>>

(* decide(): a browser answers the parked ask.                               *)
Decide(s) ==
  /\ Quiet
  /\ s \in known \cap asking
  /\ asking' = asking \ {s}
  /\ UNCHANGED <<lock, aborted, pc, status, known, agent, building, abortOf, gone, clients,
                 stopping, closing, exiting, stops, torn, cancelled>>

(* onClientsChange() after a browser attached: the timer is stood down.      *)
Attach(s) ==
  /\ Quiet
  /\ s \in known
  /\ clients[s] < MaxClients
  /\ clients' = [clients EXCEPT ![s] = @ + 1]
  /\ gone' = gone \ {s}
  /\ UNCHANGED <<lock, aborted, pc, status, known, agent, building, abortOf, asking,
                 stopping, closing, exiting, stops, torn, cancelled>>

(* Faulty: a second detach of the same browser counts again.                 *)
DetachTwice(s) ==
  /\ Quiet
  /\ clients' = [clients EXCEPT ![s] = @ - 1]
  /\ UNCHANGED <<lock, aborted, pc, status, known, agent, building, abortOf, asking, gone,
                 stopping, closing, exiting, stops, torn, cancelled>>

(* onClientsChange() after one left: the timer is armed if nobody is left to *)
(* answer an ask that is pending now.                                        *)
Detach(s) ==
  /\ Quiet
  /\ clients[s] > 0
  /\ clients' = [clients EXCEPT ![s] = @ - 1]
  /\ gone' = IF clients[s] > 1 THEN gone \ {s}
             ELSE IF s \in asking /\ status[s] # "closed" THEN gone \cup {s}
             ELSE gone
  /\ UNCHANGED <<lock, aborted, pc, status, known, agent, building, abortOf, asking,
                 stopping, closing, exiting, stops, torn, cancelled>>

(* The transport-gone timer fires: the ask is settled as denied.             *)
TransportGone(s) ==
  /\ Quiet
  /\ s \in gone
  /\ gone' = gone \ {s}
  /\ asking' = IF status[s] = "closed" \/ clients[s] > 0 THEN asking ELSE asking \ {s}
  /\ UNCHANGED <<lock, aborted, pc, status, known, agent, building, abortOf, clients,
                 stopping, closing, exiting, stops, torn, cancelled>>

-----------------------------------------------------------------------------
(* Faulty: close() forgets the parked asks.                                  *)
CloseKeepingAsks(s) ==
  /\ status' = [status EXCEPT ![s] = "closed"]
  /\ gone' = gone \ {s}
  /\ Lock!ReleaseFor(s)
  /\ aborted' = [c \in Calls |-> c = abortOf[s] \/ aborted[c]]
  /\ clients' = [clients EXCEPT ![s] = 0]
  /\ agent' = agent \ {s}
  /\ torn' = torn \cup InFlightOf(s)
  /\ UNCHANGED <<pc, building, abortOf, asking, stopping, exiting, stops, cancelled>>

(* close(): the asks settle as denied, the holder's grant is dropped and its *)
(* waiters are rejected, then the controller is aborted (its lock listener   *)
(* finds nothing left to do) and the agent is disposed of.                   *)
Close(s) ==
  /\ status' = [status EXCEPT ![s] = "closed"]
  /\ gone' = gone \ {s}
  /\ asking' = asking \ {s}
  /\ Lock!ReleaseFor(s)
  /\ aborted' = [c \in Calls |-> c = abortOf[s] \/ aborted[c]]
  /\ clients' = [clients EXCEPT ![s] = 0]
  /\ agent' = agent \ {s}
  /\ torn' = torn \cup InFlightOf(s)
  /\ UNCHANGED <<pc, building, abortOf, stopping, exiting, stops, cancelled>>

(* remove(): close the session and forget it.                                *)
Remove(s) ==
  /\ Quiet
  /\ s \in known
  /\ Close(s)
  /\ known' = known \ {s}
  /\ UNCHANGED closing

(* closeAll(), once, as the web server shuts down: close every session; they *)
(* stay in the map, and open connections are still served.                   *)
CloseAll ==
  /\ Quiet
  /\ ~stopping
  /\ stopping' = TRUE
  /\ closing' = known
  /\ UNCHANGED <<lock, aborted, pc, status, known, agent, building, abortOf, asking, gone,
                 clients, exiting, stops, torn, cancelled>>

CloseNext(s) ==
  /\ s \in closing
  /\ Close(s)
  /\ closing' = closing \ {s}
  /\ UNCHANGED known

-----------------------------------------------------------------------------
(* The operator starts a turn: acquire() with priority.                      *)
TuiStart(t) ==
  /\ Quiet
  /\ ~exiting
  /\ pc[t] = "unsent"
  /\ InFlightOf(Cli) = {}
  /\ Lock!Acquire(t)
  /\ pc' = [pc EXCEPT ![t] = "queued"]
  /\ UNCHANGED <<aborted, status, known, agent, building, abortOf, asking, gone, clients,
                 stopping, closing, exiting, stops, torn, cancelled>>

(* The terminal's turn after acquire().                                      *)
TuiAfterAcquire(t) ==
  /\ closing = {}
  /\ t \in TuiTurns
  /\ AcquireOver(t)
  /\ pc' = [pc EXCEPT ![t] = IF st[t] = "granted" THEN "turn" ELSE "done"]
  /\ UNCHANGED <<lock, aborted, status, known, agent, building, abortOf, asking, gone,
                 clients, stopping, closing, exiting, stops, torn, cancelled>>

(* The terminal's turn ends, and its `finally` releases the lock.            *)
TuiEnd(t) ==
  /\ Quiet
  /\ pc[t] = "turn"
  /\ Lock!Release(t)
  /\ pc' = [pc EXCEPT ![t] = "done"]
  /\ UNCHANGED <<aborted, status, known, agent, building, abortOf, asking, gone, clients,
                 stopping, closing, exiting, stops, torn, cancelled>>

(* The operator presses ESC, or a browser interrupts the mirrored terminal.  *)
TuiInterrupt(t) ==
  /\ Quiet
  /\ InFlight(t)
  /\ ~aborted[t]
  /\ aborted' = [aborted EXCEPT ![t] = TRUE]
  /\ Lock!OnAbort(t)
  /\ cancelled' = cancelled \cup {t}
  /\ UNCHANGED <<pc, status, known, agent, building, abortOf, asking, gone, clients,
                 stopping, closing, exiting, stops, torn>>

(* stop(): the controller is aborted, then the terminal's grant is dropped.  *)
(* A waiting call leaves the queue either way.                               *)
TuiStop ==
  /\ Quiet
  /\ ~exiting
  /\ exiting' = TRUE
  /\ aborted' = [c \in Calls |-> c \in InFlightOf(Cli) \/ aborted[c]]
  /\ Lock!ReleaseFor(Cli)
  /\ torn' = torn \cup InFlightOf(Cli)
  /\ UNCHANGED <<pc, status, known, agent, building, abortOf, asking, gone, clients,
                 stopping, closing, stops, cancelled>>

-----------------------------------------------------------------------------
Next ==
  \/ \E c \in Prompts : \/ Submit(c)
                        \/ BuildRejects(c)
                        \/ AfterBuild(c)
                        \/ AfterAcquire(c)
                        \/ \E outcome \in {"idle", "error"} : EndTurn(c, outcome)
                        \/ Ask(c)
  \/ \E s \in Sessions : \/ BuildResolves(s)
                         \/ Interrupt(s)
                         \/ Decide(s)
                         \/ Attach(s)
                         \/ Detach(s)
                         \/ TransportGone(s)
                         \/ Remove(s)
                         \/ CloseNext(s)
  \/ CloseAll
  \/ \E t \in TuiTurns : \/ TuiStart(t)
                         \/ TuiAfterAcquire(t)
                         \/ TuiEnd(t)
                         \/ TuiInterrupt(t)
  \/ TuiStop

(* Continuations run, the builder settles, an armed timer fires, closeAll()  *)
(* goes on, and a turn that awaits nobody ends (the loop's budget). Browsers *)
(* and the operator owe nothing.                                             *)
Fairness ==
  /\ \A c \in Prompts : /\ WF_vars(AfterBuild(c))
                        /\ WF_vars(AfterAcquire(c))
                        /\ WF_vars(EndTurn(c, "idle") \/ EndTurn(c, "error"))
  /\ \A s \in Sessions : /\ WF_vars(BuildResolves(s))
                         /\ WF_vars(TransportGone(s))
                         /\ WF_vars(CloseNext(s))
  /\ \A t \in TuiTurns : /\ WF_vars(TuiAfterAcquire(t))
                         /\ WF_vars(TuiEnd(t))

Spec == Init /\ [][Next]_vars /\ Fairness

-----------------------------------------------------------------------------
TypeOK ==
  /\ Lock!TypeOK
  /\ pc \in [Calls -> {"unsent", "building", "queued", "turn", "done"}]
  /\ status \in [Sessions -> Statuses]
  /\ known \subseteq Sessions
  /\ agent \subseteq Sessions
  /\ building \in [Sessions -> {"none", "pending", "resolved"}]
  /\ abortOf \in [Sessions -> Prompts \cup {None}]
  /\ asking \subseteq Sessions
  /\ gone \subseteq Sessions
  /\ clients \in [Sessions -> 0..MaxClients]
  /\ stopping \in BOOLEAN
  /\ closing \subseteq Sessions
  /\ exiting \in BOOLEAN
  /\ stops \in [Prompts -> Nat]
  /\ torn \subseteq Calls
  /\ cancelled \subseteq Calls

(* The lock is held for a turn that is in flight, and a turn that runs holds *)
(* it unless its session was closed or the terminal stopped under it: no     *)
(* early return, throw or rejected wait leaks the grant.                     *)
GrantFollowsTurn ==
  /\ active # None => pc[active] \in {"queued", "turn"}
  /\ \A c \in Calls : pc[c] = "turn" /\ c \notin torn => active = c

(* A parked ask has a turn that awaits it, not yet interrupted: an ask never *)
(* outlives its turn, so a late answer decides nothing.                      *)
AskHasTurn ==
  \A s \in asking :
    \E c \in Prompts : /\ SessionOf[c] = s
                       /\ pc[c] = "turn"
                       /\ ~aborted[c]
                       /\ c \notin torn

(* A session drives one prompt at a time, and its controller is that         *)
(* prompt's: an interrupt never reaches the wrong turn or none.              *)
OneDrive ==
  \A c \in Prompts : InFlight(c) =>
    /\ abortOf[SessionOf[c]] = c
    /\ InFlightOf(SessionOf[c]) = {c}

(* Every prompt that ended was answered by one terminal stop, and none was   *)
(* answered before it ended.                                                 *)
OneStop == \A c \in Prompts : stops[c] = IF pc[c] = "done" THEN 1 ELSE 0

(* A closed session owns no agent, whatever build was in flight: nothing     *)
(* would ever dispose of it again.                                           *)
ClosedOwnsNothing ==
  \A s \in Sessions : status[s] = "closed" \/ s \notin known => s \notin agent

(* A turn that was interrupted, or whose holder was torn down, before it     *)
(* started never starts.                                                     *)
InterruptedNeverStarts ==
  [][\A c \in cancelled \cup torn : pc'[c] = "turn" => pc[c] = "turn"]_vars

(* Every prompt that is interrupted, or whose session is closed, ends and is *)
(* answered, wherever its drive was.                                         *)
InterruptEnds ==
  \A c \in Prompts : c \in cancelled \cup torn ~> stops[c] = 1

-----------------------------------------------------------------------------
(* runLock.ts: "ONE agent turn executes at a time across the TUI and every   *)
(* web session".                                                             *)
OneTurnAtATime == \A c, d \in Calls : pc[c] = "turn" /\ pc[d] = "turn" => c = d

(* registry.ts: "a closed tab cannot hold the process-wide run lock hostage":*)
(* an ask that nobody is attached to answer settles, or a browser comes.     *)
GhostAskSettles ==
  \A s \in Sessions : s \in asking /\ clients[s] = 0 ~> s \notin asking \/ clients[s] > 0
=============================================================================
