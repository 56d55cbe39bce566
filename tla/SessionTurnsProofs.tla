-------------------------- MODULE SessionTurnsProofs --------------------------
(***************************************************************************)
(* What the turns over the run lock keep for any sessions, prompts and     *)
(* turns of the terminal: the grant follows the turn, an ask has its turn, *)
(* a session drives one prompt at a time, each prompt is answered once, a  *)
(* closed session owns nothing, and what was interrupted never starts. The *)
(* lock keeps its promises as the turns use it; and of what OneTurnAtATime *)
(* and GhostAskSettles get wrong there is one cause each: a turn torn down *)
(* before it has unwound, an ask parked with nobody attached.              *)
(***************************************************************************)
EXTENDS SessionTurns, Sequences, TLAPS

LockFacts == INSTANCE RunLockProofs WITH Priority <- TuiTurns, NoCall <- None

(* The lock's queue and grant are in order (RunLockProofs).                  *)
LockGood == LockFacts!Served(active, waiters, st)

(* A call that has not queued is new to the lock, one in its turn was        *)
(* granted, and holds the lock unless its holder was torn down. What was     *)
(* interrupted or torn down while it queued has been turned away, or has no  *)
(* agent to run on.                                                          *)
CallOK(c) ==
  /\ pc[c] \in {"unsent", "building"} => st[c] = "new"
  /\ pc[c] = "queued" => st[c] \in {"waiting", "granted", "rejected"}
  /\ pc[c] = "turn" => st[c] = "granted"
  /\ pc[c] = "done" => st[c] # "waiting"
  /\ active = c => pc[c] \in {"queued", "turn"}
  /\ pc[c] \in {"queued", "turn"} /\ st[c] = "granted" /\ c \notin torn => active = c
  /\ c \in torn \cup cancelled => pc[c] # "unsent" /\ aborted[c]
  /\ c \in torn \cup cancelled /\ pc[c] = "queued" =>
       st[c] = "rejected" \/ (c \in Prompts /\ SessionOf[c] \notin agent)
  /\ c \in TuiTurns => pc[c] # "building"

CallInv == \A c \in Calls : CallOK(c)

(* A prompt in flight owns its session's controller, and the session's       *)
(* status says where the prompt is, unless the session was closed.           *)
DriveInv ==
  \A c \in Prompts :
    /\ InFlight(c) => abortOf[SessionOf[c]] = c
    /\ pc[c] = "building" => building[SessionOf[c]] # "none"
    /\ pc[c] \in {"queued", "turn"} => building[SessionOf[c]] = "resolved"
    /\ pc[c] = "queued" => status[SessionOf[c]] \in {"queued", "closed"}
    /\ pc[c] = "turn" => status[SessionOf[c]] \in {"running", "closed"}

(* An agent comes of a build that resolved while the session was open; an    *)
(* ask waits for the turn its session's controller is for.                   *)
SessionInv ==
  \A s \in Sessions :
    /\ s \in agent => building[s] = "resolved" /\ status[s] # "closed" /\ s \in known
    /\ building[s] = "pending" => /\ status[s] \in {"initializing", "closed"}
                                  /\ s \in known \/ status[s] = "closed"
    /\ abortOf[s] # None => SessionOf[abortOf[s]] = s /\ InFlight(abortOf[s])
    /\ s \in asking => /\ abortOf[s] # None
                       /\ pc[abortOf[s]] = "turn"
                       /\ ~aborted[abortOf[s]]
                       /\ abortOf[s] \notin torn
    /\ s \in closing => s \in known

TInv == TypeOK /\ LockGood /\ CallInv /\ DriveInv /\ SessionInv /\ OneStop

-----------------------------------------------------------------------------
LEMMA CallFacts ==
  /\ HolderOf \in [Calls -> Holders]
  /\ TuiTurns \subseteq Calls /\ Prompts \subseteq Calls
  /\ None \notin Calls
  /\ \A c \in Prompts : HolderOf[c] = SessionOf[c] /\ SessionOf[c] \in Sessions
  /\ \A t \in TuiTurns : HolderOf[t] = Cli /\ t \notin Prompts
  /\ Cli \notin Sessions /\ Cli \in Holders /\ Sessions \subseteq Holders
  /\ \A c \in Calls : c \in Prompts \/ c \in TuiTurns
  BY TurnsAssumption DEF HolderOf, Holders, Calls

LEMMA SameLock ==
  /\ \A c \in Calls : /\ Lock!Acquire(c) <=> LockFacts!Acquire(c)
                      /\ Lock!Release(c) <=> LockFacts!Release(c)
                      /\ Lock!OnAbort(c) <=> LockFacts!OnAbort(c)
  /\ \A h \in Holders : Lock!ReleaseFor(h) <=> LockFacts!ReleaseFor(h)
<1>1. \A c \in Calls : Lock!Acquire(c) <=> LockFacts!Acquire(c)
  BY DEF Lock!Acquire, LockFacts!Acquire, Lock!EnqueueAt, LockFacts!EnqueueAt, Lock!Pump,
         LockFacts!Pump, Lock!Dispatch, LockFacts!Dispatch, Lock!InsertAt, LockFacts!InsertAt
<1>2. \A c \in Calls : Lock!Release(c) <=> LockFacts!Release(c)
  BY DEF Lock!Release, LockFacts!Release, Lock!Pump, LockFacts!Pump, Lock!Dispatch,
         LockFacts!Dispatch, Lock!lockVars, LockFacts!lockVars
<1>3. \A c \in Calls : Lock!OnAbort(c) <=> LockFacts!OnAbort(c)
  BY DEF Lock!OnAbort, LockFacts!OnAbort, Lock!RemoveAt, LockFacts!RemoveAt, Lock!lockVars,
         LockFacts!lockVars
<1>4. \A h \in Holders : Lock!ReleaseFor(h) <=> LockFacts!ReleaseFor(h)
  BY DEF Lock!ReleaseFor, LockFacts!ReleaseFor, Lock!Pump, LockFacts!Pump, Lock!Dispatch,
         LockFacts!Dispatch, Lock!Enumerations, LockFacts!Enumerations
<1> QED
  BY <1>1, <1>2, <1>3, <1>4

(* What a step does to the lock: waiting calls settle, those of S apart, and *)
(* whoever is newly granted holds it.                                        *)
Moves(S) ==
  /\ LockGood'
  /\ active' \in Calls \cup {None} /\ waiters' \in Seq(Calls)
  /\ st' \in [Calls -> Lock!CallStates]
  /\ \A d \in Calls \ S : st'[d] # st[d] =>
       st[d] = "waiting" /\ st'[d] \in {"granted", "rejected"}
  /\ \A d \in Calls : st'[d] = "granted" /\ st[d] # "granted" => active' = d
  /\ active' # None => st'[active'] = "granted"
  /\ active' \in {None, active} \/ st[active'] # "granted"

LEMMA GoodFacts ==
  LockGood => /\ active \in Calls \cup {None} /\ waiters \in Seq(Calls)
              /\ st \in [Calls -> Lock!CallStates]
              /\ active # None => st[active] = "granted"
  BY DEF LockGood, LockFacts!Served, LockFacts!QueueOK, Lock!CallStates,
         LockFacts!CallStates

LEMMA SettlesMoves ==
  ASSUME NEW S, LockFacts!Settles(S) PROVE Moves(S)
<1>1. LockGood'
  BY DEF LockFacts!Settles, LockGood
<1>2. /\ active' \in Calls \cup {None} /\ waiters' \in Seq(Calls)
      /\ st' \in [Calls -> Lock!CallStates]
      /\ active' # None => st'[active'] = "granted"
  BY DEF LockFacts!Settles, LockFacts!Served, LockFacts!QueueOK, Lock!CallStates,
         LockFacts!CallStates
<1> QED
  BY <1>1, <1>2 DEF LockFacts!Settles, Moves

LEMMA IdleMoves ==
  ASSUME LockGood, UNCHANGED lock PROVE Moves({})
<1>1. LockGood'
  BY DEF LockGood, lock, LockFacts!Served, LockFacts!QueueOK
<1> QED
  BY <1>1, GoodFacts DEF Moves, lock

LEMMA AcquireMoves ==
  ASSUME LockGood, NEW c \in Calls, Lock!Acquire(c)
  PROVE  /\ Moves({c})
         /\ st[c] = "new" /\ st'[c] \in {"waiting", "granted", "rejected"}
         /\ active # None => active' = active
  BY CallFacts, SameLock, LockFacts!AcquireSettles, SettlesMoves DEF LockGood

LEMMA ReleaseMoves ==
  ASSUME LockGood, NEW c \in Calls, Lock!Release(c)
  PROVE  /\ Moves({})
         /\ active' # c
         /\ active # c => UNCHANGED lock
<1>1. LockFacts!Release(c)
  BY SameLock
<1> QED
  BY <1>1, CallFacts, LockFacts!ReleaseSettles, SettlesMoves
  DEF LockGood, lock, LockFacts!lockVars

LEMMA ReleaseForMoves ==
  ASSUME LockGood, NEW h \in Holders, Lock!ReleaseFor(h)
  PROVE  /\ Moves({})
         /\ \A d \in Calls : HolderOf[d] = h /\ st[d] = "waiting" => st'[d] = "rejected"
         /\ active # None /\ HolderOf[active] # h => active' = active
<1>1. LockFacts!ReleaseFor(h)
  BY SameLock
<1> QED
  BY <1>1, CallFacts, LockFacts!ReleaseForSettles, SettlesMoves DEF LockGood

LEMMA OnAbortMoves ==
  ASSUME LockGood, NEW c \in Calls, Lock!OnAbort(c)
  PROVE  /\ Moves({})
         /\ st[c] = "waiting" => st'[c] = "rejected"
         /\ active' = active
<1>1. LockFacts!OnAbort(c)
  BY SameLock
<1> QED
  BY <1>1, CallFacts, LockFacts!OnAbortSettles, SettlesMoves DEF LockGood

-----------------------------------------------------------------------------
LEMMA TypeFacts ==
  TypeOK => /\ pc \in [Calls -> {"unsent", "building", "queued", "turn", "done"}]
            /\ status \in [Sessions -> Statuses]
            /\ known \subseteq Sessions /\ agent \subseteq Sessions
            /\ building \in [Sessions -> {"none", "pending", "resolved"}]
            /\ abortOf \in [Sessions -> Prompts \cup {None}]
            /\ asking \subseteq Sessions /\ gone \subseteq Sessions
            /\ clients \in [Sessions -> 0..MaxClients]
            /\ stopping \in BOOLEAN /\ closing \subseteq Sessions /\ exiting \in BOOLEAN
            /\ stops \in [Prompts -> Nat]
            /\ torn \subseteq Calls /\ cancelled \subseteq Calls
            /\ aborted \in [Calls -> BOOLEAN]
  BY DEF TypeOK, Lock!TypeOK

(* The lock's own part of TypeOK follows from what the step did to it.       *)
LEMMA LockTyped ==
  ASSUME NEW S, Moves(S), aborted' \in [Calls -> BOOLEAN] PROVE Lock!TypeOK'
  BY DEF Moves, Lock!TypeOK

LEMMA InitInvariant == Init => TInv
<1> SUFFICES ASSUME Init PROVE TInv
  OBVIOUS
<1>1. LockGood
  BY DEF Init, Lock!Init, LockGood, LockFacts!Served, LockFacts!QueueOK,
         LockFacts!CallStates
<1>2. TypeOK
  <2>1. Lock!TypeOK
    BY DEF Init, Lock!Init, Lock!TypeOK, Lock!CallStates
  <2>2. 0 \in 0..MaxClients
    BY TurnsAssumption
  <2> QED
    BY <2>1, <2>2 DEF Init, TypeOK, Statuses
<1>3. CallInv
  BY CallFacts DEF Init, Lock!Init, CallInv, CallOK
<1>4. DriveInv /\ SessionInv /\ OneStop
  BY CallFacts DEF Init, Lock!Init, DriveInv, SessionInv, OneStop, InFlight
<1> QED
  BY <1>1, <1>2, <1>3, <1>4 DEF TInv

-----------------------------------------------------------------------------
(* What becomes of the calls that a step is not about.                       *)
LEMMA CallsKeep ==
  ASSUME TInv, NEW C, Moves(C),
         \A d \in Calls \ C : /\ pc'[d] = pc[d]
                              /\ active = d /\ d \notin torn' => active' = d,
         \A d \in torn' \cup cancelled' :
           \/ d \in torn \cup cancelled
           \/ /\ pc[d] # "unsent" /\ aborted'[d]
              /\ pc[d] = "queued" =>
                   st'[d] = "rejected" \/ (d \in Prompts /\ SessionOf[d] \notin agent'),
         torn \subseteq torn',
         \A d \in Calls : aborted[d] => aborted'[d],
         \A d \in Prompts :
           pc[d] = "queued" /\ SessionOf[d] \in agent' => SessionOf[d] \in agent
  PROVE  \A d \in Calls \ C : CallOK(d)'
<1> SUFFICES ASSUME NEW d \in Calls \ C PROVE CallOK(d)'
  OBVIOUS
<1>1. CallOK(d) /\ pc'[d] = pc[d] /\ d # None
  BY CallFacts DEF TInv, CallInv
<1>2. st'[d] # st[d] => st[d] = "waiting" /\ st'[d] \in {"granted", "rejected"}
  BY DEF Moves
<1>3. st[d] = "waiting" => pc[d] = "queued"
  BY <1>1, CallFacts, TypeFacts DEF TInv, CallOK
<1>4. active' = d => pc[d] \in {"queued", "turn"}
  <2>1. active' = d /\ active # d => st'[d] = "granted" /\ st[d] # "granted"
    BY <1>1 DEF Moves
  <2> QED
    BY <1>1, <1>2, <1>3, <2>1 DEF CallOK
<1>5. pc[d] \in {"queued", "turn"} /\ st'[d] = "granted" /\ d \notin torn' => active' = d
  BY <1>1 DEF Moves, CallOK
<1>6. d \in torn' \cup cancelled' => pc[d] # "unsent" /\ aborted'[d]
  BY <1>1 DEF CallOK
<1>7. d \in torn' \cup cancelled' /\ pc[d] = "queued" =>
        st'[d] = "rejected" \/ (d \in Prompts /\ SessionOf[d] \notin agent')
  BY <1>1, <1>2 DEF CallOK
<1> QED
  BY <1>1, <1>2, <1>3, <1>4, <1>5, <1>6, <1>7 DEF CallOK

(* submit() finds no prompt of the session in flight.                        *)
LEMMA SubmitFindsNone ==
  ASSUME TInv, Quiet, NEW c \in Prompts, NEW d \in Prompts, SessionOf[d] = SessionOf[c],
         status[SessionOf[c]] \in {"idle", "error"}
  PROVE  ~InFlight(d)
<1>1. SessionOf[c] \in Sessions
  BY CallFacts
<1>2. pc[d] \in {"unsent", "building", "queued", "turn", "done"} /\ d \in Calls
  BY CallFacts, TypeFacts DEF TInv
<1>3. pc[d] \notin {"queued", "turn"}
  BY DEF TInv, DriveInv
<1>4. pc[d] # "building"
  <2>1. SUFFICES ASSUME pc[d] = "building" PROVE FALSE
    OBVIOUS
  <2>2. building[SessionOf[d]] \in {"pending", "resolved"}
    BY <1>1, <2>1, TypeFacts DEF TInv, DriveInv
  <2>3. building[SessionOf[d]] # "pending"
    BY <1>1 DEF TInv, SessionInv
  <2> QED
    BY <1>2, <2>1, <2>2, <2>3 DEF Quiet, BuildOver
<1> QED
  BY <1>2, <1>3, <1>4 DEF InFlight

LEMMA SubmitStep ==
  ASSUME TInv, NEW c \in Prompts, Submit(c) PROVE TInv'
<1> DEFINE s == SessionOf[c]
<1>1. s \in Sessions /\ c \in Calls /\ c \notin TuiTurns
  BY CallFacts
<1>2. /\ pc[c] = "unsent" /\ s \in known /\ status[s] \in {"idle", "error"}
      /\ abortOf' = [abortOf EXCEPT ![s] = c]
      /\ pc' = [pc EXCEPT ![c] = "building"]
      /\ \/ /\ s \notin agent /\ building[s] = "none"
            /\ building' = [building EXCEPT ![s] = "pending"]
            /\ status' = [status EXCEPT ![s] = "initializing"]
         \/ /\ s \in agent \/ building[s] # "none"
            /\ UNCHANGED <<building, status>>
      /\ UNCHANGED <<lock, aborted, known, agent, asking, gone, clients, stopping, closing,
                     exiting, stops, torn, cancelled>>
  BY DEF Submit
<1>3. \A d \in Prompts : SessionOf[d] = s => ~InFlight(d)
  BY SubmitFindsNone DEF Submit
<1>4. Moves({})
  BY <1>2, IdleMoves DEF TInv
<1> HIDE DEF s
<1>5. TypeOK'
  BY <1>1, <1>2, <1>4, TypeFacts, LockTyped DEF TInv, TypeOK, Statuses
<1>6. CallInv'
  BY <1>1, <1>2, TypeFacts DEF TInv, CallInv, CallOK, lock
<1>7. DriveInv'
  <2>1. \A d \in Prompts \ {c} : pc'[d] = pc[d] /\ d \in Calls
    BY <1>2, TypeFacts, CallFacts DEF TInv
  <2>2. \A d \in Prompts : SessionOf[d] # s =>
        /\ abortOf'[SessionOf[d]] = abortOf[SessionOf[d]]
        /\ building'[SessionOf[d]] = building[SessionOf[d]]
        /\ status'[SessionOf[d]] = status[SessionOf[d]]
    BY <1>1, <1>2, TypeFacts, CallFacts DEF TInv
  <2>3. pc'[c] = "building" /\ abortOf'[s] = c /\ building'[s] # "none"
    BY <1>1, <1>2, TypeFacts DEF TInv, SessionInv
  <2> QED
    BY <1>3, <2>1, <2>2, <2>3 DEF TInv, DriveInv, InFlight, s
<1>8. SessionInv'
  BY <1>1, <1>2, <1>3, TypeFacts, CallFacts DEF TInv, SessionInv, InFlight, s
<1>9. OneStop'
  BY <1>1, <1>2, TypeFacts DEF TInv, OneStop
<1> QED
  BY <1>4, <1>5, <1>6, <1>7, <1>8, <1>9 DEF TInv, Moves

-----------------------------------------------------------------------------
(* The end of a drive: its session's controller is forgotten, its stop sent. *)
LEMMA FinishKeeps ==
  ASSUME TInv, NEW c \in Prompts, InFlight(c), Finish(c, SessionOf[c]),
         SessionOf[c] \notin asking, NEW v \in Statuses,
         status' = [status EXCEPT ![SessionOf[c]] = v],
         SessionOf[c] \in agent => v # "closed",
         \/ building[SessionOf[c]] # "pending" /\ building' = building
         \/ /\ building[SessionOf[c]] = "pending"
            /\ building' = [building EXCEPT ![SessionOf[c]] = "none"],
         UNCHANGED <<known, agent, asking, aborted, torn, closing>>
  PROVE  /\ DriveInv' /\ SessionInv' /\ OneStop'
         /\ pc' \in [Calls -> {"unsent", "building", "queued", "turn", "done"}]
         /\ status' \in [Sessions -> Statuses]
         /\ abortOf' \in [Sessions -> Prompts \cup {None}]
         /\ building' \in [Sessions -> {"none", "pending", "resolved"}]
         /\ stops' \in [Prompts -> Nat]
<1> DEFINE s == SessionOf[c]
<1>1. s \in Sessions /\ c \in Calls /\ abortOf[s] = c
  BY CallFacts DEF TInv, DriveInv
<1>2. /\ pc' = [pc EXCEPT ![c] = "done"]
      /\ stops' = [stops EXCEPT ![c] = @ + 1]
      /\ abortOf' = [abortOf EXCEPT ![s] = None]
  BY DEF Finish
<1>3. /\ pc' \in [Calls -> {"unsent", "building", "queued", "turn", "done"}]
      /\ status' \in [Sessions -> Statuses]
      /\ abortOf' \in [Sessions -> Prompts \cup {None}]
      /\ building' \in [Sessions -> {"none", "pending", "resolved"}]
      /\ stops' \in [Prompts -> Nat]
  BY <1>1, <1>2, TypeFacts DEF TInv
<1>4. OneStop'
  BY <1>1, <1>2, TypeFacts, CallFacts DEF TInv, OneStop, InFlight
<1>5. \A d \in Prompts : InFlight(d)' => SessionOf[d] # s /\ InFlight(d) /\ pc'[d] = pc[d]
  <2>1. SUFFICES ASSUME NEW d \in Prompts, InFlight(d)'
                 PROVE  SessionOf[d] # s /\ InFlight(d) /\ pc'[d] = pc[d]
    OBVIOUS
  <2>2. d # c
    BY <1>1, <1>2, <2>1, TypeFacts DEF TInv, InFlight
  <2>3. pc'[d] = pc[d] /\ InFlight(d)
    BY <1>1, <1>2, <2>1, <2>2, TypeFacts, CallFacts DEF TInv, InFlight
  <2> QED
    BY <1>1, <2>2, <2>3 DEF TInv, DriveInv
<1>6. \A r \in Sessions \ {s} :
        /\ abortOf'[r] = abortOf[r] /\ building'[r] = building[r] /\ status'[r] = status[r]
  BY <1>1, <1>2, TypeFacts DEF TInv
<1>7. DriveInv'
  <2>1. SUFFICES ASSUME NEW d \in Prompts, InFlight(d)'
                 PROVE  /\ abortOf'[SessionOf[d]] = d
                        /\ pc'[d] = "building" => building'[SessionOf[d]] # "none"
                        /\ pc'[d] \in {"queued", "turn"} => building'[SessionOf[d]] = "resolved"
                        /\ pc'[d] = "queued" => status'[SessionOf[d]] \in {"queued", "closed"}
                        /\ pc'[d] = "turn" => status'[SessionOf[d]] \in {"running", "closed"}
    BY DEF DriveInv, InFlight
  <2>2. SessionOf[d] \in Sessions \ {s} /\ InFlight(d) /\ pc'[d] = pc[d]
    BY <1>5, <2>1, CallFacts
  <2> QED
    BY <1>6, <2>2 DEF TInv, DriveInv
<1>8. SessionInv'
  <2>1. abortOf'[s] = None /\ building'[s] # "pending" /\ status'[s] = v
    BY <1>1, <1>2, TypeFacts DEF TInv
  <2>2. s \in agent => building'[s] = "resolved" /\ s \in known
    BY <1>1 DEF TInv, SessionInv
  <2>3. ASSUME NEW r \in Sessions \ {s}, abortOf[r] # None
        PROVE  abortOf[r] # c /\ abortOf[r] \in Calls /\ pc'[abortOf[r]] = pc[abortOf[r]]
    <3>1. abortOf[r] # c /\ abortOf[r] \in Calls
      BY <2>3, TypeFacts, CallFacts DEF TInv, SessionInv
    <3> QED
      BY <1>2, <3>1, TypeFacts DEF TInv
  <2> QED
    BY <1>1, <1>6, <2>1, <2>2, <2>3 DEF TInv, SessionInv, InFlight
<1> QED
  BY <1>3, <1>4, <1>7, <1>8

LEMMA BuildResolvesStep ==
  ASSUME TInv, NEW s \in Sessions, BuildResolves(s) PROVE TInv'
<1>1. /\ building[s] = "pending" /\ building' = [building EXCEPT ![s] = "resolved"]
      /\ agent' = IF status[s] = "closed" THEN agent ELSE agent \cup {s}
      /\ UNCHANGED <<lock, aborted, pc, status, known, abortOf, asking, gone, clients,
                     stopping, closing, exiting, stops, torn, cancelled>>
  BY DEF BuildResolves
<1>2. Moves({})
  BY <1>1, IdleMoves DEF TInv
<1>3. TypeOK'
  BY <1>1, <1>2, TypeFacts, LockTyped DEF TInv, TypeOK
<1>4. \A d \in Prompts : pc[d] = "queued" => SessionOf[d] # s
  BY <1>1 DEF TInv, DriveInv
<1>5. CallInv'
  <2>1. \A d \in Calls \ {} : CallOK(d)'
    BY <1>1, <1>2, <1>4, CallsKeep DEF lock
  <2> QED
    BY <2>1 DEF CallInv
<1>6. DriveInv'
  BY <1>1, TypeFacts, CallFacts DEF TInv, DriveInv, InFlight
<1>7. SessionInv'
  BY <1>1, TypeFacts DEF TInv, SessionInv, InFlight
<1>8. OneStop'
  BY <1>1 DEF TInv, OneStop
<1> QED
  BY <1>2, <1>3, <1>5, <1>6, <1>7, <1>8 DEF TInv, Moves

LEMMA BuildRejectsStep ==
  ASSUME TInv, NEW c \in Prompts, BuildRejects(c) PROVE TInv'
<1>1. /\ pc[c] = "building" /\ building[SessionOf[c]] = "pending"
      /\ building' = [building EXCEPT ![SessionOf[c]] = "none"]
      /\ status' = [status EXCEPT ![SessionOf[c]] = "error"]
      /\ Finish(c, SessionOf[c])
      /\ UNCHANGED <<lock, aborted, known, agent, asking, gone, clients, stopping, closing,
                     exiting, torn, cancelled>>
  BY DEF BuildRejects
<1>2. InFlight(c) /\ c \in Calls /\ SessionOf[c] \in Sessions
  BY <1>1, CallFacts DEF InFlight
<1>3. SessionOf[c] \notin asking
  BY <1>1, <1>2 DEF TInv, DriveInv, SessionInv
<1>4. /\ DriveInv' /\ SessionInv' /\ OneStop'
      /\ pc' \in [Calls -> {"unsent", "building", "queued", "turn", "done"}]
      /\ status' \in [Sessions -> Statuses]
      /\ abortOf' \in [Sessions -> Prompts \cup {None}]
      /\ building' \in [Sessions -> {"none", "pending", "resolved"}]
      /\ stops' \in [Prompts -> Nat]
  BY <1>1, <1>2, <1>3, FinishKeeps DEF Statuses
<1>5. Moves({})
  BY <1>1, IdleMoves DEF TInv
<1>6. TypeOK'
  BY <1>1, <1>4, <1>5, TypeFacts, LockTyped DEF TInv, TypeOK
<1>7. CallInv'
  BY <1>1, <1>2, TypeFacts DEF TInv, CallInv, CallOK, lock, Finish
<1> QED
  BY <1>4, <1>5, <1>6, <1>7 DEF TInv, Moves

(* A drive goes on: to the queue, or to its turn.                            *)
LEMMA DriveMoves ==
  ASSUME TInv, NEW c \in Prompts, InFlight(c), SessionOf[c] \notin asking,
         building[SessionOf[c]] = "resolved", NEW w, NEW v,
         (w = "queued" /\ v = "queued") \/ (w = "turn" /\ v = "running"),
         pc' = [pc EXCEPT ![c] = w], status' = [status EXCEPT ![SessionOf[c]] = v],
         UNCHANGED <<building, known, agent, asking, aborted, abortOf, torn, closing, stops>>
  PROVE  /\ DriveInv' /\ SessionInv' /\ OneStop'
         /\ pc' \in [Calls -> {"unsent", "building", "queued", "turn", "done"}]
         /\ status' \in [Sessions -> Statuses]
<1> DEFINE s == SessionOf[c]
<1>1. s \in Sessions /\ c \in Calls /\ abortOf[s] = c
  BY CallFacts DEF TInv, DriveInv
<1>2. /\ pc' \in [Calls -> {"unsent", "building", "queued", "turn", "done"}]
      /\ status' \in [Sessions -> Statuses]
  BY <1>1, TypeFacts DEF TInv, Statuses
<1>3. pc'[c] = w /\ \A d \in Calls \ {c} : pc'[d] = pc[d]
  BY <1>1, TypeFacts DEF TInv
<1>4. OneStop'
  BY <1>1, <1>3, TypeFacts, CallFacts DEF TInv, OneStop, InFlight
<1>5. \A r \in Sessions : status'[r] = IF r = s THEN v ELSE status[r]
  BY <1>1, TypeFacts DEF TInv
<1>6. ASSUME NEW d \in Prompts \ {c}, InFlight(d)
      PROVE  SessionOf[d] \in Sessions \ {s}
  BY <1>1, <1>6, CallFacts DEF TInv, DriveInv
<1>7. DriveInv'
  <2>1. SUFFICES ASSUME NEW d \in Prompts
                 PROVE  /\ InFlight(d)' => abortOf[SessionOf[d]] = d
                        /\ pc'[d] = "building" => building[SessionOf[d]] # "none"
                        /\ pc'[d] \in {"queued", "turn"} => building[SessionOf[d]] = "resolved"
                        /\ pc'[d] = "queued" => status'[SessionOf[d]] \in {"queued", "closed"}
                        /\ pc'[d] = "turn" => status'[SessionOf[d]] \in {"running", "closed"}
    BY DEF DriveInv, InFlight
  <2>2. CASE d = c
    BY <1>1, <1>3, <1>5, <2>2 DEF InFlight
  <2>3. CASE d # c
    <3>1. pc'[d] = pc[d] /\ (InFlight(d)' <=> InFlight(d))
      BY <1>3, <2>3, CallFacts DEF InFlight
    <3> QED
      BY <1>5, <1>6, <2>3, <3>1 DEF TInv, DriveInv, InFlight
  <2> QED
    BY <2>2, <2>3
<1>8. SessionInv'
  <2>1. \A r \in Sessions : abortOf[r] # None => InFlight(abortOf[r])'
    <3>1. SUFFICES ASSUME NEW r \in Sessions, abortOf[r] # None PROVE InFlight(abortOf[r])'
      OBVIOUS
    <3>2. abortOf[r] \in Calls /\ InFlight(abortOf[r])
      BY <3>1, TypeFacts, CallFacts DEF TInv, SessionInv
    <3> QED
      BY <1>3, <3>2 DEF InFlight
  <2>2. \A r \in asking : abortOf[r] # c
    BY <1>1, TypeFacts, CallFacts DEF TInv, SessionInv
  <2>3. \A r \in asking : pc'[abortOf[r]] = pc[abortOf[r]]
    BY <1>3, <2>2, TypeFacts, CallFacts DEF TInv, SessionInv
  <2> QED
    BY <1>1, <1>5, <2>1, <2>3 DEF TInv, SessionInv
<1> QED
  BY <1>2, <1>4, <1>7, <1>8

LEMMA AfterBuildStep ==
  ASSUME TInv, NEW c \in Prompts, AfterBuild(c) PROVE TInv'
<1> DEFINE s == SessionOf[c]
<1>1. /\ pc[c] = "building" /\ InFlight(c) /\ c \in Calls /\ s \in Sessions
      /\ building[s] = "resolved" /\ s \notin asking /\ st[c] = "new" /\ abortOf[s] = c
  BY CallFacts DEF AfterBuild, BuildOver, TInv, DriveInv, SessionInv, CallInv, CallOK, InFlight
<1>2. UNCHANGED <<aborted, known, agent, building, asking, gone, clients, stopping, closing,
                  exiting, torn, cancelled>>
  BY DEF AfterBuild
<1>3. ASSUME NEW v \in Statuses, status' = [status EXCEPT ![s] = v], s \in agent => v # "closed",
             Finish(c, s), UNCHANGED lock
      PROVE  TInv'
  <2>1. /\ DriveInv' /\ SessionInv' /\ OneStop'
        /\ pc' \in [Calls -> {"unsent", "building", "queued", "turn", "done"}]
        /\ status' \in [Sessions -> Statuses]
        /\ abortOf' \in [Sessions -> Prompts \cup {None}]
        /\ stops' \in [Prompts -> Nat]
    BY <1>1, <1>2, <1>3, FinishKeeps
  <2>2. Moves({})
    BY <1>3, IdleMoves DEF TInv
  <2>3. TypeOK'
    BY <1>2, <2>1, <2>2, TypeFacts, LockTyped DEF TInv, TypeOK
  <2>4. CallInv'
    BY <1>1, <1>2, <1>3, TypeFacts DEF TInv, CallInv, CallOK, lock, Finish
  <2> QED
    BY <2>1, <2>2, <2>3, <2>4 DEF TInv, Moves
<1>4. CASE status[s] = "closed" /\ Finish(c, s) /\ UNCHANGED <<lock, status>>
  <2>1. status' = [status EXCEPT ![s] = "closed"] /\ s \notin agent
    BY <1>1, <1>4, TypeFacts DEF TInv, SessionInv
  <2> QED
    BY <1>3, <1>4, <2>1 DEF Statuses
<1>5. CASE status' = [status EXCEPT ![s] = "idle"] /\ Finish(c, s) /\ UNCHANGED lock
  BY <1>3, <1>5 DEF Statuses
<1>6. CASE /\ ~aborted[c]
           /\ status' = [status EXCEPT ![s] = "queued"] /\ pc' = [pc EXCEPT ![c] = "queued"]
           /\ Lock!Acquire(c) /\ UNCHANGED <<stops, abortOf>>
  <2>1. /\ Moves({c}) /\ st'[c] \in {"waiting", "granted", "rejected"}
        /\ active # None => active' = active
    BY <1>1, <1>6, AcquireMoves DEF TInv
  <2>2. /\ DriveInv' /\ SessionInv' /\ OneStop'
        /\ pc' \in [Calls -> {"unsent", "building", "queued", "turn", "done"}]
        /\ status' \in [Sessions -> Statuses]
    BY <1>1, <1>2, <1>6, DriveMoves
  <2>3. TypeOK'
    BY <1>2, <1>6, <2>1, <2>2, TypeFacts, LockTyped DEF TInv, TypeOK
  <2>4. \A d \in Calls \ {c} : CallOK(d)'
    <3>1. \A d \in Calls \ {c} : pc'[d] = pc[d] /\ (active = d => active' = d)
      BY <1>6, <2>1, TypeFacts, CallFacts DEF TInv
    <3> QED
      BY <1>2, <2>1, <3>1, CallsKeep
  <2>5. CallOK(c)'
    <3>1. c \notin torn \cup cancelled
      BY <1>1, <1>6 DEF TInv, CallInv, CallOK
    <3>2. pc'[c] = "queued" /\ (st'[c] = "granted" => active' = c)
      BY <1>1, <1>6, <2>1, TypeFacts DEF TInv, Moves
    <3> QED
      BY <1>2, <2>1, <3>1, <3>2 DEF CallOK
  <2> QED
    BY <2>1, <2>2, <2>3, <2>4, <2>5 DEF TInv, CallInv, Moves
<1> QED
  BY <1>4, <1>5, <1>6 DEF AfterBuild

(* A drive ends after it had the lock, or was refused it.                    *)
LEMMA DriveEnds ==
  ASSUME TInv, NEW c \in Prompts, pc[c] \in {"queued", "turn"}, SessionOf[c] \notin asking,
         NEW v \in Statuses \ {"closed"}, status' = [status EXCEPT ![SessionOf[c]] = v],
         Finish(c, SessionOf[c]),
         (st[c] = "rejected" /\ UNCHANGED lock) \/ (st[c] = "granted" /\ Lock!Release(c)),
         UNCHANGED <<aborted, known, agent, building, asking, gone, clients, stopping, closing,
                     exiting, torn, cancelled>>
  PROVE  TInv'
<1>1. InFlight(c) /\ c \in Calls /\ c # None /\ building[SessionOf[c]] = "resolved"
  BY CallFacts DEF TInv, DriveInv, InFlight
<1>2. /\ DriveInv' /\ SessionInv' /\ OneStop'
      /\ pc' \in [Calls -> {"unsent", "building", "queued", "turn", "done"}]
      /\ status' \in [Sessions -> Statuses]
      /\ abortOf' \in [Sessions -> Prompts \cup {None}]
      /\ stops' \in [Prompts -> Nat]
  BY <1>1, FinishKeeps
<1>3. Moves({}) /\ active' # c /\ (active # c => active' = active)
  <2>1. CASE st[c] = "rejected" /\ UNCHANGED lock
    <3>1. active # c
      BY <1>1, <2>1, GoodFacts DEF TInv
    <3> QED
      BY <2>1, <3>1, IdleMoves DEF TInv, lock
  <2>2. CASE st[c] = "granted" /\ Lock!Release(c)
    BY <1>1, <2>2, ReleaseMoves DEF TInv, lock
  <2> QED
    BY <2>1, <2>2
<1>4. TypeOK'
  BY <1>2, <1>3, TypeFacts, LockTyped DEF TInv, TypeOK
<1>5. pc'[c] = "done" /\ \A d \in Calls \ {c} : pc'[d] = pc[d]
  BY <1>1, TypeFacts DEF TInv, Finish
<1>6. \A d \in Calls \ {c} : CallOK(d)'
  <2>1. Moves({c})
    BY <1>3 DEF Moves
  <2>2. \A d \in Calls \ {c} : active = d => active' = d
    BY <1>3
  <2> QED
    BY <1>5, <2>1, <2>2, CallsKeep
<1>7. CallOK(c)'
  <2>1. st'[c] # "waiting"
    BY <1>1, <1>3 DEF Moves
  <2> QED
    BY <1>1, <1>3, <1>5, <2>1 DEF CallOK, TInv, CallInv
<1> QED
  BY <1>2, <1>3, <1>4, <1>6, <1>7 DEF TInv, CallInv, Moves

LEMMA AfterAcquireStep ==
  ASSUME TInv, NEW c \in Prompts, AfterAcquire(c) PROVE TInv'
<1> DEFINE s == SessionOf[c]
<1>1. /\ pc[c] = "queued" /\ InFlight(c) /\ c \in Calls /\ s \in Sessions
      /\ building[s] = "resolved" /\ s \notin asking
  BY CallFacts DEF AfterAcquire, AcquireOver, TInv, DriveInv, SessionInv, InFlight
<1>2. UNCHANGED <<aborted, known, agent, building, asking, gone, clients, stopping, closing,
                  exiting, torn, cancelled>>
  BY DEF AfterAcquire
<1>3. CASE /\ st[c] = "rejected" /\ status' = [status EXCEPT ![s] = "idle"]
           /\ Finish(c, s) /\ UNCHANGED lock
  BY <1>1, <1>2, <1>3, DriveEnds DEF Statuses
<1>4. CASE /\ st[c] = "granted" /\ status' = [status EXCEPT ![s] = "error"]
           /\ Lock!Release(c) /\ Finish(c, s)
  BY <1>1, <1>2, <1>4, DriveEnds DEF Statuses
<1>5. CASE /\ st[c] = "granted" /\ status' = [status EXCEPT ![s] = "running"]
           /\ pc' = [pc EXCEPT ![c] = "turn"] /\ UNCHANGED <<lock, stops, abortOf>>
  <2>1. Moves({})
    BY <1>5, IdleMoves DEF TInv
  <2>2. /\ DriveInv' /\ SessionInv' /\ OneStop'
        /\ pc' \in [Calls -> {"unsent", "building", "queued", "turn", "done"}]
        /\ status' \in [Sessions -> Statuses]
    BY <1>1, <1>2, <1>5, DriveMoves
  <2>3. TypeOK'
    BY <1>2, <1>5, <2>1, <2>2, TypeFacts, LockTyped DEF TInv, TypeOK
  <2>4. CallInv'
    BY <1>1, <1>2, <1>5, TypeFacts, CallFacts DEF TInv, CallInv, CallOK, lock
  <2> QED
    BY <2>1, <2>2, <2>3, <2>4 DEF TInv, Moves
<1> QED
  BY <1>3, <1>4, <1>5 DEF AfterAcquire

LEMMA EndTurnStep ==
  ASSUME TInv, NEW c \in Prompts, NEW outcome \in {"idle", "error"}, EndTurn(c, outcome)
  PROVE  TInv'
<1>1. st[c] = "granted"
  BY CallFacts DEF EndTurn, TInv, CallInv, CallOK
<1> QED
  BY <1>1, DriveEnds DEF EndTurn, Statuses

-----------------------------------------------------------------------------
(* A step that leaves the turns alone: a browser comes, goes or answers.     *)
LEMMA AsideStep ==
  ASSUME TInv,
         UNCHANGED <<lock, aborted, pc, status, known, agent, building, abortOf, exiting, stops,
                     torn, cancelled>>,
         asking' \subseteq asking, closing' \subseteq known, gone' \subseteq Sessions,
         clients' \in [Sessions -> 0..MaxClients], stopping' \in BOOLEAN
  PROVE  TInv'
<1>1. Moves({})
  BY IdleMoves DEF TInv
<1>2. TypeOK'
  BY <1>1, TypeFacts, LockTyped DEF TInv, TypeOK
<1>3. CallInv'
  BY DEF TInv, CallInv, CallOK, lock
<1>4. DriveInv' /\ SessionInv' /\ OneStop'
  BY DEF TInv, DriveInv, SessionInv, OneStop, InFlight
<1> QED
  BY <1>1, <1>2, <1>3, <1>4 DEF TInv, Moves

LEMMA AskStep ==
  ASSUME TInv, NEW c \in Prompts, Ask(c) PROVE TInv'
<1> DEFINE s == SessionOf[c]
<1>1. /\ pc[c] = "turn" /\ ~aborted[c] /\ asking' = asking \cup {s}
      /\ UNCHANGED <<lock, aborted, pc, status, known, agent, building, abortOf, gone,
                     stopping, closing, exiting, stops, torn, cancelled>>
  BY DEF Ask
<1>2. s \in Sessions /\ c \in Calls /\ abortOf[s] = c /\ c # None /\ c \notin torn
  BY <1>1, CallFacts DEF TInv, DriveInv, CallInv, CallOK, InFlight
<1>3. clients' \in [Sessions -> 0..MaxClients]
  <2>1. PICK n \in 0..clients[s] : clients' = [clients EXCEPT ![s] = n]
    BY DEF Ask
  <2>2. clients[s] \in 0..MaxClients /\ MaxClients \in Nat
    BY <1>2, TypeFacts, TurnsAssumption DEF TInv
  <2>3. n \in 0..MaxClients
    BY <2>1, <2>2
  <2> QED
    BY <2>1, <2>3, TypeFacts DEF TInv
<1>4. Moves({})
  BY <1>1, IdleMoves DEF TInv
<1>5. TypeOK'
  BY <1>1, <1>2, <1>3, <1>4, TypeFacts, LockTyped DEF TInv, TypeOK
<1>6. CallInv'
  BY <1>1 DEF TInv, CallInv, CallOK, lock
<1>7. DriveInv' /\ OneStop'
  BY <1>1 DEF TInv, DriveInv, OneStop, InFlight
<1>8. SessionInv'
  BY <1>1, <1>2 DEF TInv, SessionInv, InFlight
<1> QED
  BY <1>4, <1>5, <1>6, <1>7, <1>8 DEF TInv, Moves

LEMMA BrowserStep ==
  ASSUME TInv, NEW s \in Sessions,
         Decide(s) \/ Attach(s) \/ Detach(s) \/ TransportGone(s)
  PROVE  TInv'
<1>1. /\ clients[s] \in 0..MaxClients /\ MaxClients \in Nat
      /\ closing \subseteq known /\ gone \subseteq Sessions /\ stopping \in BOOLEAN
      /\ clients \in [Sessions -> 0..MaxClients]
  BY TypeFacts, TurnsAssumption DEF TInv, SessionInv
<1>2. CASE Decide(s)
  BY <1>1, <1>2, AsideStep DEF Decide
<1>3. CASE Attach(s)
  <2>1. clients[s] + 1 \in 0..MaxClients
    BY <1>1, <1>3 DEF Attach
  <2>2. clients' \in [Sessions -> 0..MaxClients] /\ gone' \subseteq Sessions
    BY <1>1, <1>3, <2>1 DEF Attach
  <2> QED
    BY <1>1, <1>3, <2>2, AsideStep DEF Attach
<1>4. CASE Detach(s)
  <2>1. clients[s] - 1 \in 0..MaxClients
    BY <1>1, <1>4 DEF Detach
  <2>2. clients' \in [Sessions -> 0..MaxClients] /\ gone' \subseteq Sessions
    BY <1>1, <1>4, <2>1 DEF Detach
  <2> QED
    BY <1>1, <1>4, <2>2, AsideStep DEF Detach
<1>5. CASE TransportGone(s)
  <2>1. asking' \subseteq asking /\ gone' \subseteq Sessions
    BY <1>1, <1>5 DEF TransportGone
  <2> QED
    BY <1>1, <1>5, <2>1, AsideStep DEF TransportGone
<1> QED
  BY <1>2, <1>3, <1>4, <1>5

LEMMA CloseAllStep ==
  ASSUME TInv, CloseAll PROVE TInv'
  BY AsideStep, TypeFacts DEF CloseAll, TInv

(* A call is interrupted while it is in flight and no continuation is due.   *)
LEMMA AbortedKeeps ==
  ASSUME TInv, Quiet, NEW c \in Calls, InFlight(c), Lock!OnAbort(c),
         aborted' = [aborted EXCEPT ![c] = TRUE], cancelled' = cancelled \cup {c},
         UNCHANGED <<pc, agent, torn>>
  PROVE  /\ Moves({}) /\ CallInv'
         /\ aborted' \in [Calls -> BOOLEAN]
         /\ \A d \in Calls \ {c} : aborted'[d] = aborted[d]
<1>1. Moves({}) /\ (st[c] = "waiting" => st'[c] = "rejected") /\ active' = active
  BY OnAbortMoves DEF TInv
<1>2. /\ aborted' \in [Calls -> BOOLEAN] /\ aborted'[c]
      /\ \A d \in Calls \ {c} : aborted'[d] = aborted[d]
  BY TypeFacts DEF TInv
<1>3. pc[c] = "queued" => st[c] = "waiting"
  BY DEF TInv, CallInv, CallOK, Quiet, AcquireOver
<1>4. \A d \in torn' \cup cancelled' :
        \/ d \in torn \cup cancelled
        \/ /\ pc[d] # "unsent" /\ aborted'[d]
           /\ pc[d] = "queued" =>
                st'[d] = "rejected" \/ (d \in Prompts /\ SessionOf[d] \notin agent')
  BY <1>1, <1>2, <1>3 DEF InFlight
<1>5. \A d \in Calls : aborted[d] => aborted'[d]
  BY <1>2
<1>6. \A d \in Calls \ {} : CallOK(d)'
  BY <1>1, <1>4, <1>5, CallsKeep
<1> QED
  BY <1>1, <1>2, <1>6 DEF CallInv

LEMMA InterruptStep ==
  ASSUME TInv, NEW s \in Sessions, Interrupt(s) PROVE TInv'
<1> DEFINE c == abortOf[s]
<1>1. /\ Quiet /\ Lock!OnAbort(c)
      /\ aborted' = [aborted EXCEPT ![c] = TRUE]
      /\ asking' = asking \ {s} /\ cancelled' = cancelled \cup {c}
      /\ UNCHANGED <<pc, status, known, agent, building, abortOf, gone, clients, stopping,
                     closing, exiting, stops, torn>>
  BY DEF Interrupt
<1>2. c \in Prompts /\ c \in Calls /\ SessionOf[c] = s /\ InFlight(c)
  BY TypeFacts, CallFacts DEF Interrupt, TInv, SessionInv
<1> HIDE DEF c
<1>3. /\ Moves({}) /\ CallInv'
      /\ aborted' \in [Calls -> BOOLEAN]
      /\ \A d \in Calls \ {c} : aborted'[d] = aborted[d]
  BY <1>1, <1>2, AbortedKeeps
<1>4. TypeOK'
  BY <1>1, <1>2, <1>3, TypeFacts, LockTyped DEF TInv, TypeOK
<1>5. DriveInv' /\ OneStop'
  BY <1>1 DEF TInv, DriveInv, OneStop, InFlight
<1>6. SessionInv'
  <2>1. ASSUME NEW r \in asking'
        PROVE  /\ r \in Sessions /\ abortOf[r] # None /\ pc[abortOf[r]] = "turn"
               /\ ~aborted'[abortOf[r]] /\ abortOf[r] \notin torn
    <3>1. /\ r \in Sessions /\ r # s /\ abortOf[r] # None /\ abortOf[r] \in Calls
          /\ pc[abortOf[r]] = "turn" /\ ~aborted[abortOf[r]] /\ abortOf[r] \notin torn
          /\ SessionOf[abortOf[r]] = r
      BY <1>1, TypeFacts, CallFacts DEF TInv, SessionInv
    <3>2. abortOf[r] # c
      BY <1>2, <3>1
    <3> QED
      BY <1>3, <3>1, <3>2
  <2> QED
    BY <1>1, <2>1 DEF TInv, SessionInv, InFlight
<1> QED
  BY <1>3, <1>4, <1>5, <1>6 DEF TInv, Moves

(* close(), of a session that is removed or is one of many.                  *)
LEMMA CloseStep ==
  ASSUME TInv, NEW s \in Sessions, Close(s), known' \in {known, known \ {s}},
         closing' \subseteq known', closing' \subseteq Sessions
  PROVE  TInv'
<1>1. /\ status' = [status EXCEPT ![s] = "closed"]
      /\ gone' = gone \ {s} /\ asking' = asking \ {s}
      /\ Lock!ReleaseFor(s)
      /\ aborted' = [c \in Calls |-> c = abortOf[s] \/ aborted[c]]
      /\ clients' = [clients EXCEPT ![s] = 0]
      /\ agent' = agent \ {s} /\ torn' = torn \cup InFlightOf(s)
      /\ UNCHANGED <<pc, building, abortOf, stopping, exiting, stops, cancelled>>
  BY DEF Close
<1>2. /\ Moves({})
      /\ active # None /\ HolderOf[active] # s => active' = active
  BY <1>1, ReleaseForMoves, CallFacts DEF TInv
<1>3. /\ aborted' \in [Calls -> BOOLEAN]
      /\ \A d \in Calls : aborted'[d] <=> (d = abortOf[s] \/ aborted[d])
  BY <1>1
<1>4. InFlightOf(s) \subseteq Prompts
  BY CallFacts DEF InFlightOf
<1>5. \A d \in InFlightOf(s) : SessionOf[d] = s /\ InFlight(d) /\ abortOf[s] = d
  BY <1>4, CallFacts DEF InFlightOf, TInv, DriveInv
<1>6. TypeOK'
  <2>1. /\ clients' \in [Sessions -> 0..MaxClients] /\ status' \in [Sessions -> Statuses]
        /\ torn' \subseteq Calls
    <3>1. 0 \in 0..MaxClients /\ "closed" \in Statuses
      BY TurnsAssumption DEF Statuses
    <3> QED
      BY <1>1, <1>4, <3>1, TypeFacts, CallFacts DEF TInv
  <2> QED
    BY <1>1, <1>2, <1>3, <2>1, TypeFacts, LockTyped DEF TInv, TypeOK
<1>7. CallInv'
  <2>1. ASSUME NEW d \in Calls, active = d, d \notin torn' PROVE active' = d
    <3>1. InFlight(d) /\ d # None
      BY <2>1, CallFacts DEF TInv, CallInv, CallOK, InFlight
    <3>2. HolderOf[d] # s
      BY <1>1, <2>1, <3>1 DEF InFlightOf
    <3> QED
      BY <1>2, <2>1, <3>1, <3>2
  <2>2. \A d \in torn' \cup cancelled' :
          \/ d \in torn \cup cancelled
          \/ /\ pc[d] # "unsent" /\ aborted'[d]
             /\ pc[d] = "queued" =>
                  st'[d] = "rejected" \/ (d \in Prompts /\ SessionOf[d] \notin agent')
    BY <1>1, <1>3, <1>4, <1>5, CallFacts DEF InFlight
  <2>3. \A d \in Calls : aborted[d] => aborted'[d]
    BY <1>3
  <2>4. \A d \in Calls \ {} : CallOK(d)'
    BY <1>1, <1>2, <2>1, <2>2, <2>3, CallsKeep
  <2> QED
    BY <2>4 DEF CallInv
<1>8. \A r \in Sessions : status'[r] = IF r = s THEN "closed" ELSE status[r]
  BY <1>1, TypeFacts DEF TInv
<1>9. DriveInv' /\ OneStop'
  BY <1>1, <1>8, CallFacts DEF TInv, DriveInv, OneStop, InFlight
<1>10. SessionInv'
  <2>1. ASSUME NEW r \in asking'
        PROVE  /\ r \in Sessions \ {s} /\ abortOf[r] # None /\ pc[abortOf[r]] = "turn"
               /\ ~aborted'[abortOf[r]] /\ abortOf[r] \notin torn'
    <3>1. /\ r \in Sessions \ {s} /\ abortOf[r] # None /\ abortOf[r] \in Calls
          /\ pc[abortOf[r]] = "turn" /\ ~aborted[abortOf[r]] /\ abortOf[r] \notin torn
          /\ SessionOf[abortOf[r]] = r
      BY <1>1, TypeFacts, CallFacts DEF TInv, SessionInv
    <3>2. abortOf[s] # None => SessionOf[abortOf[s]] = s
      BY DEF TInv, SessionInv
    <3>3. ~aborted'[abortOf[r]]
      BY <1>3, <3>1, <3>2
    <3> QED
      BY <1>1, <1>5, <3>1, <3>3
  <2> QED
    BY <1>1, <1>8, <2>1 DEF TInv, SessionInv, InFlight
<1> QED
  BY <1>2, <1>6, <1>7, <1>9, <1>10 DEF TInv, Moves

LEMMA ClosingStep ==
  ASSUME TInv, NEW s \in Sessions, Remove(s) \/ CloseNext(s) PROVE TInv'
<1>1. CASE Remove(s)
  BY <1>1, CloseStep DEF Remove, Quiet
<1>2. CASE CloseNext(s)
  BY <1>2, CloseStep, TypeFacts DEF CloseNext, TInv, SessionInv
<1> QED
  BY <1>1, <1>2

-----------------------------------------------------------------------------
(* The terminal's steps leave the sessions alone.                            *)
LEMMA TerminalKeeps ==
  ASSUME TInv,
         \A d \in Prompts : /\ pc'[d] = pc[d] /\ aborted'[d] = aborted[d]
                            /\ d \in torn' => d \in torn,
         UNCHANGED <<status, known, agent, building, abortOf, asking, closing, stops>>
  PROVE  DriveInv' /\ SessionInv' /\ OneStop'
<1>1. \A s \in Sessions : abortOf[s] # None => abortOf[s] \in Prompts
  BY TypeFacts DEF TInv
<1>2. DriveInv' /\ OneStop'
  BY DEF TInv, DriveInv, OneStop, InFlight
<1>3. SessionInv'
  BY <1>1 DEF TInv, SessionInv, InFlight
<1> QED
  BY <1>2, <1>3

LEMMA TuiStartStep ==
  ASSUME TInv, NEW t \in TuiTurns, TuiStart(t) PROVE TInv'
<1>1. /\ pc[t] = "unsent" /\ Lock!Acquire(t) /\ pc' = [pc EXCEPT ![t] = "queued"]
      /\ UNCHANGED <<aborted, status, known, agent, building, abortOf, asking, gone, clients,
                     stopping, closing, exiting, stops, torn, cancelled>>
  BY DEF TuiStart
<1>2. t \in Calls /\ t \notin Prompts
  BY CallFacts
<1>3. /\ Moves({t}) /\ st[t] = "new" /\ st'[t] \in {"waiting", "granted", "rejected"}
      /\ active # None => active' = active
  BY <1>1, <1>2, AcquireMoves DEF TInv
<1>4. pc'[t] = "queued" /\ \A d \in Calls \ {t} : pc'[d] = pc[d]
  BY <1>1, <1>2, TypeFacts DEF TInv
<1>5. TypeOK'
  BY <1>1, <1>2, <1>3, TypeFacts, LockTyped DEF TInv, TypeOK
<1>6. DriveInv' /\ SessionInv' /\ OneStop'
  BY <1>1, <1>2, <1>4, CallFacts, TerminalKeeps
<1>7. \A d \in Calls \ {t} : CallOK(d)'
  <2>1. \A d \in Calls \ {t} : active = d => active' = d
    BY <1>3, CallFacts
  <2> QED
    BY <1>1, <1>3, <1>4, <2>1, CallsKeep
<1>8. CallOK(t)'
  <2>1. t \notin torn \cup cancelled
    BY <1>1, <1>2 DEF TInv, CallInv, CallOK
  <2>2. st'[t] = "granted" => active' = t
    BY <1>2, <1>3 DEF Moves
  <2> QED
    BY <1>1, <1>3, <1>4, <2>1, <2>2 DEF CallOK
<1> QED
  BY <1>3, <1>5, <1>6, <1>7, <1>8 DEF TInv, CallInv, Moves

LEMMA TuiAfterAcquireStep ==
  ASSUME TInv, NEW t \in TuiTurns, TuiAfterAcquire(t) PROVE TInv'
<1>1. /\ pc[t] = "queued" /\ st[t] \in {"granted", "rejected"}
      /\ pc' = [pc EXCEPT ![t] = IF st[t] = "granted" THEN "turn" ELSE "done"]
      /\ UNCHANGED <<lock, aborted, status, known, agent, building, abortOf, asking, gone,
                     clients, stopping, closing, exiting, stops, torn, cancelled>>
  BY DEF TuiAfterAcquire, AcquireOver
<1>2. t \in Calls /\ t \notin Prompts /\ t # None
  BY CallFacts
<1>3. Moves({})
  BY <1>1, IdleMoves DEF TInv
<1>4. /\ pc'[t] = IF st[t] = "granted" THEN "turn" ELSE "done"
      /\ \A d \in Calls \ {t} : pc'[d] = pc[d]
  BY <1>1, <1>2, TypeFacts DEF TInv
<1>5. TypeOK'
  BY <1>1, <1>2, <1>3, TypeFacts, LockTyped DEF TInv, TypeOK
<1>6. DriveInv' /\ SessionInv' /\ OneStop'
  BY <1>1, <1>2, <1>4, CallFacts, TerminalKeeps
<1>7. active = t => st[t] = "granted"
  BY <1>2, GoodFacts DEF TInv
<1>8. CallInv'
  BY <1>1, <1>2, <1>4, <1>7 DEF TInv, CallInv, CallOK, lock
<1> QED
  BY <1>3, <1>5, <1>6, <1>8 DEF TInv, Moves

LEMMA TuiEndStep ==
  ASSUME TInv, NEW t \in TuiTurns, TuiEnd(t) PROVE TInv'
<1>1. /\ pc[t] = "turn" /\ Lock!Release(t) /\ pc' = [pc EXCEPT ![t] = "done"]
      /\ UNCHANGED <<aborted, status, known, agent, building, abortOf, asking, gone, clients,
                     stopping, closing, exiting, stops, torn, cancelled>>
  BY DEF TuiEnd
<1>2. t \in Calls /\ t \notin Prompts /\ st[t] = "granted"
  BY <1>1, CallFacts DEF TInv, CallInv, CallOK
<1>3. Moves({}) /\ active' # t /\ (active # t => active' = active)
  BY <1>1, <1>2, ReleaseMoves DEF TInv, lock
<1>4. pc'[t] = "done" /\ \A d \in Calls \ {t} : pc'[d] = pc[d]
  BY <1>1, <1>2, TypeFacts DEF TInv
<1>5. TypeOK'
  BY <1>1, <1>2, <1>3, TypeFacts, LockTyped DEF TInv, TypeOK
<1>6. DriveInv' /\ SessionInv' /\ OneStop'
  BY <1>1, <1>2, <1>4, CallFacts, TerminalKeeps
<1>7. \A d \in Calls \ {t} : CallOK(d)'
  <2>1. Moves({t})
    BY <1>3 DEF Moves
  <2>2. \A d \in Calls \ {t} : active = d => active' = d
    BY <1>3
  <2> QED
    BY <1>1, <1>4, <2>1, <2>2, CallsKeep
<1>8. CallOK(t)'
  <2>1. st'[t] # "waiting"
    BY <1>2, <1>3 DEF Moves
  <2> QED
    BY <1>1, <1>2, <1>3, <1>4, <2>1 DEF CallOK, TInv, CallInv
<1> QED
  BY <1>3, <1>5, <1>6, <1>7, <1>8 DEF TInv, CallInv, Moves

LEMMA TuiInterruptStep ==
  ASSUME TInv, NEW t \in TuiTurns, TuiInterrupt(t) PROVE TInv'
<1>1. t \in Calls /\ t \notin Prompts
  BY CallFacts
<1>2. /\ Moves({}) /\ CallInv' /\ aborted' \in [Calls -> BOOLEAN]
      /\ \A d \in Calls \ {t} : aborted'[d] = aborted[d]
  BY <1>1, AbortedKeeps DEF TuiInterrupt
<1>3. TypeOK'
  BY <1>1, <1>2, TypeFacts, LockTyped DEF TInv, TypeOK, TuiInterrupt
<1>4. DriveInv' /\ SessionInv' /\ OneStop'
  BY <1>1, <1>2, CallFacts, TerminalKeeps DEF TuiInterrupt
<1> QED
  BY <1>2, <1>3, <1>4 DEF TInv, Moves

LEMMA TuiStopStep ==
  ASSUME TInv, TuiStop PROVE TInv'
<1>1. /\ Quiet /\ exiting' = TRUE
      /\ aborted' = [c \in Calls |-> c \in InFlightOf(Cli) \/ aborted[c]]
      /\ Lock!ReleaseFor(Cli) /\ torn' = torn \cup InFlightOf(Cli)
      /\ UNCHANGED <<pc, status, known, agent, building, abortOf, asking, gone, clients,
                     stopping, closing, stops, cancelled>>
  BY DEF TuiStop
<1>2. /\ Moves({})
      /\ \A d \in Calls : HolderOf[d] = Cli /\ st[d] = "waiting" => st'[d] = "rejected"
      /\ active # None /\ HolderOf[active] # Cli => active' = active
  BY <1>1, ReleaseForMoves, CallFacts DEF TInv
<1>3. \A d \in InFlightOf(Cli) : d \in Calls /\ d \notin Prompts /\ InFlight(d) /\ HolderOf[d] = Cli
  BY CallFacts DEF InFlightOf
<1>4. /\ aborted' \in [Calls -> BOOLEAN]
      /\ \A d \in InFlightOf(Cli) : aborted'[d]
      /\ \A d \in Calls : aborted[d] => aborted'[d]
  BY <1>1, <1>3
<1>5. \A d \in Prompts : aborted'[d] = aborted[d]
  BY <1>1, <1>3, TypeFacts, CallFacts DEF TInv
<1>6. TypeOK'
  BY <1>1, <1>2, <1>3, <1>4, TypeFacts, LockTyped DEF TInv, TypeOK
<1>7. DriveInv' /\ SessionInv' /\ OneStop'
  BY <1>1, <1>3, <1>5, TerminalKeeps
<1>8. CallInv'
  <2>1. ASSUME NEW d \in Calls, active = d, d \notin torn' PROVE active' = d
    <3>1. InFlight(d) /\ d # None
      BY <2>1, CallFacts DEF TInv, CallInv, CallOK, InFlight
    <3>2. HolderOf[d] # Cli
      BY <1>1, <2>1, <3>1 DEF InFlightOf
    <3> QED
      BY <1>2, <2>1, <3>1, <3>2
  <2>2. ASSUME NEW d \in InFlightOf(Cli), pc[d] = "queued" PROVE st'[d] = "rejected"
    <3>1. st[d] = "waiting"
      BY <1>1, <1>3, <2>2 DEF Quiet, AcquireOver, TInv, CallInv, CallOK
    <3> QED
      BY <1>2, <1>3, <3>1
  <2>3. \A d \in torn' \cup cancelled' :
          \/ d \in torn \cup cancelled
          \/ /\ pc[d] # "unsent" /\ aborted'[d]
             /\ pc[d] = "queued" =>
                  st'[d] = "rejected" \/ (d \in Prompts /\ SessionOf[d] \notin agent')
    BY <1>1, <1>3, <1>4, <2>2 DEF InFlight
  <2>4. \A d \in Calls \ {} : CallOK(d)'
    BY <1>1, <1>2, <1>4, <2>1, <2>3, CallsKeep
  <2> QED
    BY <2>4 DEF CallInv
<1> QED
  BY <1>2, <1>6, <1>7, <1>8 DEF TInv, Moves

LEMMA StepInvariant == ASSUME TInv, [Next]_vars PROVE TInv'
<1>1. CASE UNCHANGED vars
  BY <1>1, AsideStep, TypeFacts DEF vars, lock, TInv, SessionInv
<1>2. CASE Next
  BY <1>2, SubmitStep, BuildRejectsStep, AfterBuildStep, AfterAcquireStep, EndTurnStep, AskStep,
     BuildResolvesStep, InterruptStep, BrowserStep, ClosingStep, CloseAllStep, TuiStartStep,
     TuiAfterAcquireStep, TuiEndStep, TuiInterruptStep, TuiStopStep DEF Next
<1> QED
  BY <1>1, <1>2

(* The inductive invariant: where each turn is, what the lock, its session   *)
(* and its controller have to say about it.                                  *)
THEOREM TurnsInvariant == Spec => []TInv
  BY InitInvariant, StepInvariant, PTL DEF Spec

(* Sessions, turns and the lock keep to their states.                        *)
THEOREM TurnsTyped == Spec => []TypeOK
<1>1. TInv => TypeOK
  BY DEF TInv
<1> QED
  BY <1>1, TurnsInvariant, PTL

(* No early return, throw, interrupt or teardown leaks the grant, and a turn *)
(* that runs holds it until its holder is torn down.                         *)
THEOREM GrantsFollowTurns == Spec => []GrantFollowsTurn
<1>1. TInv => GrantFollowsTurn
  BY GoodFacts DEF TInv, CallInv, CallOK, GrantFollowsTurn
<1> QED
  BY <1>1, TurnsInvariant, PTL

(* An approval ask never outlives the turn that waits for it, whatever       *)
(* interrupts, closes and timers do.                                         *)
THEOREM AsksHaveTurns == Spec => []AskHasTurn
<1>1. TInv => AskHasTurn
  <2>1. SUFFICES ASSUME TInv, NEW s \in asking
                 PROVE  /\ abortOf[s] \in Prompts /\ SessionOf[abortOf[s]] = s
                        /\ pc[abortOf[s]] = "turn" /\ ~aborted[abortOf[s]]
                        /\ abortOf[s] \notin torn
    BY DEF AskHasTurn
  <2> QED
    BY <2>1, TypeFacts DEF TInv, SessionInv
<1> QED
  BY <1>1, TurnsInvariant, PTL

(* A session drives one prompt at a time and an interrupt reaches that one.  *)
THEOREM DrivesAreSingle == Spec => []OneDrive
<1>1. TInv => OneDrive
  <2>1. SUFFICES ASSUME TInv, NEW c \in Prompts, InFlight(c)
                 PROVE  abortOf[SessionOf[c]] = c /\ InFlightOf(SessionOf[c]) = {c}
    BY DEF OneDrive
  <2>2. abortOf[SessionOf[c]] = c /\ c \in InFlightOf(SessionOf[c])
    BY <2>1, CallFacts DEF TInv, DriveInv, InFlightOf
  <2>3. ASSUME NEW d \in InFlightOf(SessionOf[c]) PROVE d = c
    <3>1. d \in Calls /\ InFlight(d) /\ HolderOf[d] = SessionOf[c]
      BY <2>3 DEF InFlightOf
    <3>2. d \in Prompts /\ SessionOf[d] = SessionOf[c]
      BY <3>1, CallFacts
    <3> QED
      BY <2>1, <2>2, <3>1, <3>2 DEF TInv, DriveInv
  <2> QED
    BY <2>2, <2>3
<1> QED
  BY <1>1, TurnsInvariant, PTL

(* A prompt that ended was answered by exactly one stop, by no other route.  *)
THEOREM StopsOnce == Spec => []OneStop
<1>1. TInv => OneStop
  BY DEF TInv
<1> QED
  BY <1>1, TurnsInvariant, PTL

(* A build that resolves after its session was closed leaves no agent.       *)
THEOREM ClosedStaysEmpty == Spec => []ClosedOwnsNothing
<1>1. TInv => ClosedOwnsNothing
  BY DEF TInv, SessionInv, ClosedOwnsNothing
<1> QED
  BY <1>1, TurnsInvariant, PTL

(* Only AfterAcquire and the terminal's turn start a call, neither after an  *)
(* interrupt or a teardown.                                                  *)
LEMMA StartIsWanted ==
  ASSUME TInv, [Next]_vars, NEW c \in cancelled \cup torn, pc'[c] = "turn"
  PROVE  pc[c] = "turn"
<1>1. c \in Calls /\ CallOK(c)
  BY TypeFacts DEF TInv, CallInv
<1>2. SUFFICES ASSUME pc'[c] # pc[c] PROVE FALSE
  OBVIOUS
<1>3. /\ ~ \E d \in Prompts : Submit(d) \/ BuildRejects(d) \/ AfterBuild(d) \/ Ask(d)
      /\ ~ \E d \in Prompts, outcome \in {"idle", "error"} : EndTurn(d, outcome)
  BY <1>1, <1>2, TypeFacts, CallFacts
  DEF TInv, Submit, BuildRejects, AfterBuild, Ask, EndTurn, Finish
<1>4. ~ \E s \in Sessions : \/ BuildResolves(s) \/ Interrupt(s) \/ Decide(s) \/ Attach(s)
                            \/ Detach(s) \/ TransportGone(s) \/ Remove(s) \/ CloseNext(s)
  BY <1>2 DEF BuildResolves, Interrupt, Decide, Attach, Detach, TransportGone, Remove,
              CloseNext, Close
<1>5. ~ CloseAll /\ ~ TuiStop /\ ~ UNCHANGED vars
  BY <1>2 DEF CloseAll, TuiStop, vars
<1>6. ~ \E t \in TuiTurns : TuiStart(t) \/ TuiEnd(t) \/ TuiInterrupt(t)
  BY <1>1, <1>2, TypeFacts, CallFacts DEF TInv, TuiStart, TuiEnd, TuiInterrupt
<1>7. ~ \E t \in TuiTurns : TuiAfterAcquire(t)
  <2>1. SUFFICES ASSUME NEW t \in TuiTurns, TuiAfterAcquire(t) PROVE FALSE
    OBVIOUS
  <2>2. t = c /\ st[c] = "granted" /\ pc[c] = "queued"
    BY <1>1, <1>2, <2>1, TypeFacts, CallFacts DEF TInv, TuiAfterAcquire, AcquireOver
  <2> QED
    BY <1>1, <2>2, CallFacts DEF CallOK
<1>8. ~ \E d \in Prompts : AfterAcquire(d)
  <2>1. SUFFICES ASSUME NEW d \in Prompts, AfterAcquire(d) PROVE FALSE
    OBVIOUS
  <2>2. d = c /\ st[c] = "granted" /\ pc[c] = "queued" /\ SessionOf[c] \in agent
    BY <1>1, <1>2, <2>1, TypeFacts, CallFacts DEF TInv, AfterAcquire, AcquireOver, Finish
  <2> QED
    BY <1>1, <2>2, CallFacts DEF CallOK
<1> QED
  BY <1>3, <1>4, <1>5, <1>6, <1>7, <1>8 DEF Next

(* A turn interrupted or torn down before it started never starts, though    *)
(* the lock may still be granted to it while sessions are closed one by one. *)
THEOREM NothingStartsCancelled == Spec => InterruptedNeverStarts
<1>1. ASSUME TInv, [Next]_vars
      PROVE  [\A c \in cancelled \cup torn : pc'[c] = "turn" => pc[c] = "turn"]_vars
  BY <1>1, StartIsWanted
<1> QED
  BY <1>1, TurnsInvariant, PTL DEF Spec, InterruptedNeverStarts

-----------------------------------------------------------------------------
(* A step of the composition does one thing to the lock, or nothing.         *)
LEMMA OneLockStep ==
  ASSUME TInv, [Next]_vars
  PROVE  \/ UNCHANGED lock
         \/ \E c \in Calls : Lock!Acquire(c) \/ Lock!Release(c) \/ Lock!OnAbort(c)
         \/ \E h \in Holders : Lock!ReleaseFor(h)
<1> DEFINE Moved == \/ UNCHANGED lock
                    \/ \E c \in Calls : Lock!Acquire(c) \/ Lock!Release(c) \/ Lock!OnAbort(c)
                    \/ \E h \in Holders : Lock!ReleaseFor(h)
<1>1. ASSUME NEW c \in Prompts,
             \/ Submit(c) \/ BuildRejects(c) \/ AfterBuild(c) \/ AfterAcquire(c) \/ Ask(c)
             \/ \E outcome \in {"idle", "error"} : EndTurn(c, outcome)
      PROVE  Moved
  BY <1>1, CallFacts DEF Submit, BuildRejects, AfterBuild, AfterAcquire, Ask, EndTurn
<1>2. ASSUME NEW s \in Sessions,
             \/ BuildResolves(s) \/ Interrupt(s) \/ Decide(s) \/ Attach(s)
             \/ Detach(s) \/ TransportGone(s) \/ Remove(s) \/ CloseNext(s)
      PROVE  Moved
  <2>1. CASE Interrupt(s)
    <3>1. abortOf[s] \in Calls
      BY <2>1, CallFacts, TypeFacts DEF TInv, Interrupt
    <3> QED
      BY <2>1, <3>1 DEF Interrupt
  <2>2. CASE Remove(s) \/ CloseNext(s)
    BY <2>2, CallFacts DEF Remove, CloseNext, Close
  <2>3. CASE BuildResolves(s) \/ Decide(s) \/ Attach(s) \/ Detach(s) \/ TransportGone(s)
    BY <2>3 DEF BuildResolves, Decide, Attach, Detach, TransportGone
  <2> QED
    BY <1>2, <2>1, <2>2, <2>3
<1>3. ASSUME NEW t \in TuiTurns,
             TuiStart(t) \/ TuiAfterAcquire(t) \/ TuiEnd(t) \/ TuiInterrupt(t)
      PROVE  Moved
  BY <1>3, CallFacts DEF TuiStart, TuiAfterAcquire, TuiEnd, TuiInterrupt
<1>4. ASSUME TuiStop PROVE Moved
  BY <1>4, CallFacts DEF TuiStop
<1>5. ASSUME CloseAll \/ UNCHANGED vars PROVE Moved
  BY <1>5 DEF CloseAll, vars, lock
<1> HIDE DEF Moved
<1>6. ASSUME Next PROVE Moved
  <2>1. CASE \E c \in Prompts :
               \/ Submit(c) \/ BuildRejects(c) \/ AfterBuild(c) \/ AfterAcquire(c)
               \/ \E outcome \in {"idle", "error"} : EndTurn(c, outcome)
               \/ Ask(c)
    BY <1>1, <2>1
  <2>2. CASE \E s \in Sessions :
               \/ BuildResolves(s) \/ Interrupt(s) \/ Decide(s) \/ Attach(s)
               \/ Detach(s) \/ TransportGone(s) \/ Remove(s) \/ CloseNext(s)
    BY <1>2, <2>2
  <2>3. CASE \E t \in TuiTurns :
               TuiStart(t) \/ TuiAfterAcquire(t) \/ TuiEnd(t) \/ TuiInterrupt(t)
    BY <1>3, <2>3
  <2>4. CASE CloseAll
    BY <1>5, <2>4
  <2> QED
    BY <1>4, <1>6, <2>1, <2>2, <2>3, <2>4 DEF Next
<1>7. Moved
  BY <1>5, <1>6
<1> QED
  BY <1>7 DEF Moved

(* That one thing grants in turn, and is a step of the abstract mutex.       *)
LEMMA StepServes ==
  ASSUME TInv, [Next]_vars PROVE LockFacts!InTurn /\ LockFacts!MutexStep
<1>1. LockFacts!Served(active, waiters, st)
  BY DEF TInv, LockGood
<1>2. CASE UNCHANGED lock
  <2>1. active' = active /\ st' = st
    BY <1>2 DEF lock
  <2> QED
    BY <1>1, <2>1, CallFacts, LockFacts!StillInTurn, LockFacts!NoStep
<1>3. ASSUME NEW c \in Calls, Lock!Acquire(c)
      PROVE  LockFacts!InTurn /\ LockFacts!MutexStep
  BY <1>1, <1>3, SameLock, CallFacts, LockFacts!AcquireInTurn, LockFacts!AcquireRefines
<1>4. ASSUME NEW c \in Calls, Lock!Release(c)
      PROVE  LockFacts!InTurn /\ LockFacts!MutexStep
  BY <1>1, <1>4, SameLock, CallFacts, LockFacts!ReleaseInTurn, LockFacts!ReleaseRefines
<1>5. ASSUME NEW c \in Calls, Lock!OnAbort(c)
      PROVE  LockFacts!InTurn /\ LockFacts!MutexStep
  BY <1>1, <1>5, SameLock, CallFacts, LockFacts!OnAbortInTurn, LockFacts!OnAbortRefines
<1>6. ASSUME NEW h \in Holders, Lock!ReleaseFor(h)
      PROVE  LockFacts!InTurn /\ LockFacts!MutexStep
  BY <1>1, <1>6, SameLock, CallFacts, LockFacts!ReleaseForInTurn,
     LockFacts!ReleaseForRefines
<1> QED
  BY <1>2, <1>3, <1>4, <1>5, <1>6, OneLockStep

(* In the composition too a call is granted only while its signal has not    *)
(* fired, and never past a call that stays in the queue ahead of it.         *)
THEOREM TurnsInOrder == Spec => Lock!GrantedInTurn
<1>1. ASSUME TInv, [Next]_vars
      PROVE  [\A j \in 1..Len(waiters) : st'[waiters[j]] = "granted" =>
                /\ ~aborted[waiters[j]]
                /\ \A i \in 1..j - 1 : st'[waiters[i]] = "rejected"]_(Lock!vars)
  BY <1>1, StepServes DEF LockFacts!InTurn
<1> QED
  BY <1>1, TurnsInvariant, PTL DEF Spec, Lock!GrantedInTurn

LEMMA SameMutex ==
  LockFacts!MutexStep => [Lock!Mutex!Next]_(Lock!Mutex!vars)
<1>1. \A c \in Calls : /\ LockFacts!Mutex!Wait(c) <=> Lock!Mutex!Wait(c)
                       /\ LockFacts!Mutex!Take(c) <=> Lock!Mutex!Take(c)
                       /\ LockFacts!Mutex!TurnAway(c) <=> Lock!Mutex!TurnAway(c)
  BY DEF LockFacts!Mutex!Wait, Lock!Mutex!Wait, LockFacts!Mutex!Take, Lock!Mutex!Take,
         LockFacts!Mutex!TurnAway, Lock!Mutex!TurnAway, LockFacts!Mutex!Fresh,
         Lock!Mutex!Fresh
<1>2. \A g \in SUBSET Calls : /\ LockFacts!Mutex!GiveUp(g) <=> Lock!Mutex!GiveUp(g)
                              /\ LockFacts!Mutex!HandOver(g) <=> Lock!Mutex!HandOver(g)
  BY DEF LockFacts!Mutex!GiveUp, Lock!Mutex!GiveUp, LockFacts!Mutex!HandOver,
         Lock!Mutex!HandOver
<1>3. LockFacts!Mutex!Next => Lock!Mutex!Next
  BY <1>1, <1>2 DEF LockFacts!Mutex!Next, Lock!Mutex!Next
<1> QED
  BY <1>3 DEF LockFacts!MutexStep, LockFacts!Mutex!vars, Lock!Mutex!vars

(* What the lock promises its callers the turns keep as they use it, through *)
(* every interrupt, teardown, early return and stop: one owner, no caller    *)
(* preempted, no wake-up lost, nobody served twice, the operator first.      *)
THEOREM TurnsImplementMutex == Spec => Lock!ImplementsMutex
<1>1. Init => Lock!Mutex!Init
  BY DEF Init, Lock!Init, Lock!Mutex!Init
<1>2. TInv /\ [Next]_vars => [Lock!Mutex!Next]_(Lock!Mutex!vars)
  BY StepServes, SameMutex
<1> QED
  BY <1>1, <1>2, TurnsInvariant, PTL DEF Spec, Lock!ImplementsMutex, Lock!Mutex!Spec

(* Two turns run side by side only when one of them was torn down: its       *)
(* session was closed, or the terminal stopped, under it.                    *)
THEOREM OnlyTornOverlap ==
  Spec => [](\A c, d \in Calls :
               pc[c] = "turn" /\ pc[d] = "turn" /\ c # d => c \in torn \/ d \in torn)
<1>1. GrantFollowsTurn =>
        \A c, d \in Calls :
          pc[c] = "turn" /\ pc[d] = "turn" /\ c # d => c \in torn \/ d \in torn
  BY DEF GrantFollowsTurn
<1> QED
  BY <1>1, GrantsFollowTurns, PTL

(* However turns end, the lock is never free while another waits for it.     *)
THEOREM TurnsNeverWedge == Spec => []Lock!NeverWedged
<1>1. TInv => Lock!NeverWedged
  BY DEF TInv, LockGood, LockFacts!Served, Lock!NeverWedged
<1> QED
  BY <1>1, TurnsInvariant, PTL

-----------------------------------------------------------------------------
(* A turn whose session was closed is torn down.                             *)
OpenInv == \A c \in Prompts : pc[c] = "turn" /\ c \notin torn => status[SessionOf[c]] # "closed"

(* Only close() closes a session, and only a drive puts its prompt in turn.  *)
LEMMA StepCloses ==
  ASSUME TInv, [Next]_vars
  PROVE  /\ \A s \in Sessions : status[s] # "closed" /\ status'[s] = "closed" =>
              Close(s)
         /\ \A c \in Prompts : pc[c] # "turn" /\ pc'[c] = "turn" =>
              status'[SessionOf[c]] = "running"
         /\ torn \subseteq torn'
<1> DEFINE Goal == /\ \A s \in Sessions : status[s] # "closed" /\ status'[s] = "closed" =>
                        Close(s)
                   /\ \A c \in Prompts : pc[c] # "turn" /\ pc'[c] = "turn" =>
                        status'[SessionOf[c]] = "running"
                   /\ torn \subseteq torn'
<1> SUFFICES Goal
  OBVIOUS
<1>1. /\ status \in [Sessions -> Statuses] /\ SessionOf \in [Prompts -> Sessions]
      /\ pc \in [Calls -> {"unsent", "building", "queued", "turn", "done"}]
      /\ Prompts \subseteq Calls /\ TuiTurns \subseteq Calls /\ Prompts \cap TuiTurns = {}
  BY TurnsAssumption DEF TInv, TypeOK, Calls
<1>2. ASSUME NEW s \in Sessions, Close(s), UNCHANGED pc PROVE Goal
  <2>1. status' = [status EXCEPT ![s] = "closed"] /\ torn \subseteq torn'
    BY <1>2 DEF Close
  <2> QED
    BY <1>1, <1>2, <2>1
<1>3. ASSUME NEW c \in Prompts,
             Submit(c) \/ BuildRejects(c) \/ AfterBuild(c) \/ Ask(c)
             \/ \E outcome \in {"idle", "error"} : EndTurn(c, outcome)
      PROVE  Goal
  <2>1. CASE Submit(c)
    BY <1>1, <2>1 DEF Submit
  <2>2. CASE BuildRejects(c)
    BY <1>1, <2>2 DEF BuildRejects, Finish
  <2>3. CASE AfterBuild(c)
    BY <1>1, <2>3 DEF AfterBuild, Finish
  <2>4. CASE Ask(c)
    BY <1>1, <2>4 DEF Ask
  <2>5. CASE \E outcome \in {"idle", "error"} : EndTurn(c, outcome)
    BY <1>1, <2>5 DEF EndTurn, Finish
  <2> QED
    BY <1>3, <2>1, <2>2, <2>3, <2>4, <2>5
<1>4. ASSUME NEW c \in Prompts, AfterAcquire(c) PROVE Goal
  BY <1>1, <1>4 DEF AfterAcquire, Finish
<1>5. ASSUME NEW s \in Sessions,
             BuildResolves(s) \/ Interrupt(s) \/ Decide(s) \/ Attach(s) \/ Detach(s)
             \/ TransportGone(s)
      PROVE  Goal
  BY <1>5 DEF BuildResolves, Interrupt, Decide, Attach, Detach, TransportGone
<1>6. ASSUME NEW s \in Sessions, Remove(s) \/ CloseNext(s) PROVE Goal
  BY <1>2, <1>6 DEF Remove, CloseNext, Close
<1>7. ASSUME NEW t \in TuiTurns,
             TuiStart(t) \/ TuiAfterAcquire(t) \/ TuiEnd(t) \/ TuiInterrupt(t)
      PROVE  Goal
  BY <1>1, <1>7 DEF TuiStart, TuiAfterAcquire, TuiEnd, TuiInterrupt
<1>8. CASE CloseAll \/ TuiStop \/ UNCHANGED vars
  BY <1>8 DEF CloseAll, TuiStop, vars
<1> QED
  BY <1>3, <1>4, <1>5, <1>6, <1>7, <1>8 DEF Next

LEMMA StepOpen == ASSUME TInv, OpenInv, [Next]_vars PROVE OpenInv'
<1> SUFFICES ASSUME NEW c \in Prompts, pc'[c] = "turn", c \notin torn',
                    status'[SessionOf[c]] = "closed"
             PROVE  FALSE
  BY DEF OpenInv
<1>1. pc[c] = "turn" /\ c \notin torn
  BY StepCloses
<1>2. SessionOf[c] \in Sessions /\ c \in Calls
  BY TurnsAssumption DEF Calls
<1>3. Close(SessionOf[c])
  BY <1>1, <1>2, StepCloses DEF OpenInv
<1>4. c \in InFlightOf(SessionOf[c])
  BY <1>1, <1>2 DEF InFlightOf, InFlight, HolderOf
<1> QED
  BY <1>3, <1>4 DEF Close

(* An ask that nobody is attached to answer, with no timer to deny it.       *)
Orphaned(s) == s \in asking /\ clients[s] = 0 /\ s \notin gone

LEMMA StepOrphans ==
  ASSUME TInv, OpenInv, [Next]_vars, NEW s \in Sessions, s \in asking, Orphaned(s)'
  PROVE  Orphaned(s)
<1>1. s \in asking' /\ clients'[s] = 0 /\ s \notin gone'
  BY DEF Orphaned
<1>2. status[s] # "closed"
  BY TypeFacts DEF TInv, OpenInv, SessionInv
<1>3. clients \in [Sessions -> 0..MaxClients] /\ MaxClients \in Nat
  BY TurnsAssumption DEF TInv, TypeOK
<1>4. ASSUME UNCHANGED <<clients, gone>> PROVE Orphaned(s)
  BY <1>1, <1>4 DEF Orphaned
<1>5. ASSUME NEW r \in Sessions, Attach(r) \/ Detach(r) \/ TransportGone(r) PROVE Orphaned(s)
  BY <1>1, <1>2, <1>3, <1>5 DEF Attach, Detach, TransportGone, Orphaned
<1>6. ASSUME NEW r \in Sessions, Remove(r) \/ CloseNext(r) PROVE Orphaned(s)
  BY <1>1, <1>3, <1>6 DEF Remove, CloseNext, Close, Orphaned
<1>7. ASSUME NEW c \in Prompts, Ask(c) PROVE Orphaned(s)
  BY <1>1, <1>3, <1>7 DEF Ask, Orphaned
<1>8. ASSUME NEW c \in Prompts,
             Submit(c) \/ BuildRejects(c) \/ AfterBuild(c) \/ AfterAcquire(c)
             \/ \E outcome \in {"idle", "error"} : EndTurn(c, outcome)
      PROVE  Orphaned(s)
  BY <1>4, <1>8 DEF Submit, BuildRejects, AfterBuild, AfterAcquire, EndTurn
<1>9. ASSUME NEW r \in Sessions, BuildResolves(r) \/ Interrupt(r) \/ Decide(r) PROVE Orphaned(s)
  BY <1>4, <1>9 DEF BuildResolves, Interrupt, Decide
<1>10. ASSUME NEW t \in TuiTurns,
              TuiStart(t) \/ TuiAfterAcquire(t) \/ TuiEnd(t) \/ TuiInterrupt(t)
       PROVE  Orphaned(s)
  BY <1>4, <1>10 DEF TuiStart, TuiAfterAcquire, TuiEnd, TuiInterrupt
<1>11. CASE CloseAll \/ TuiStop \/ UNCHANGED vars
  BY <1>4, <1>11 DEF CloseAll, TuiStop, vars
<1> QED
  BY <1>5, <1>6, <1>7, <1>8, <1>9, <1>10, <1>11 DEF Next

(* No ask becomes an orphan: one that a browser could answer, or that a      *)
(* timer denies, keeps either until it settles. Only an ask that is parked   *)
(* after the last browser left is out of reach from the start.               *)
THEOREM OnlyBornOrphans ==
  Spec => [][\A s \in Sessions : s \in asking /\ Orphaned(s)' => Orphaned(s)]_vars
<1>1. Init => OpenInv
  BY DEF Init, OpenInv, Calls
<1>2. TInv /\ OpenInv /\ [Next]_vars => OpenInv'
  BY StepOpen
<1>3. TInv /\ OpenInv /\ [Next]_vars =>
        [\A s \in Sessions : s \in asking /\ Orphaned(s)' => Orphaned(s)]_vars
  BY StepOrphans
<1> QED
  BY <1>1, <1>2, <1>3, TurnsInvariant, PTL DEF Spec
===============================================================================
