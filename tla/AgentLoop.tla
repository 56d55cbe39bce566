----------------------------- MODULE AgentLoop -----------------------------
(***************************************************************************)
(* One run of the agent loop of src/agent/loop.ts: provider requests with  *)
(* their retries, the calls a response makes, the dialogs those calls      *)
(* open, and the user who steers, interrupts, answers and changes the      *)
(* autonomy level in between.                                              *)
(*                                                                         *)
(* JavaScript runs to its next await, so an action stands for the code     *)
(* from one await to the next. A tool is its signature: two calls of the   *)
(* same tool are two calls with the same arguments.                        *)
(***************************************************************************)
EXTENDS Integers, Sequences, FiniteSets

CONSTANTS
  Tools,            (* the calls a model may make: name and arguments        *)
  NoTool,
  Batches,          (* the calls a response may make, in their order         *)
  Gated,            (* those that need an approval below automatic autonomy  *)
  Forced,           (* those on the denylist: their dialog is no choice      *)
  Judged,           (* those the optional classifier has doubts about        *)
  Unknown,          (* those no registered tool answers                      *)
  Roles,            (* lead turns can be steered, background ones paused     *)
  MaxCalls,         (* bound: calls in one response                          *)
  MaxSteers,        (* bound: steers taken in one run                        *)
  MaxIterations,    (* the budget's iterations                               *)
  GuardLimit,       (* LOOP_GUARD_LIMIT                                      *)
  GuardFatal,       (* LOOP_GUARD_FATAL_LIMIT                                *)
  MaxRepairs,       (* MAX_REPAIR_ATTEMPTS                                   *)
  MaxEmpty,         (* MAX_EMPTY_RESPONSE_ATTEMPTS                           *)
  MaxCorrections    (* the completion guard's maxRetries                     *)

ASSUME LoopAssumption ==
  /\ NoTool \notin Tools
  /\ \A b \in Batches : \E n \in 1..MaxCalls : b \in [1..n -> Tools]
  /\ Gated \subseteq Tools /\ Forced \subseteq Tools
  /\ Judged \subseteq Tools /\ Unknown \subseteq Tools
  /\ Roles \subseteq {"lead", "background"}
  /\ {MaxCalls, MaxIterations, GuardLimit, GuardFatal, MaxEmpty} \subseteq Nat \ {0}
  /\ {MaxSteers, MaxRepairs, MaxCorrections} \subseteq Nat
  /\ GuardLimit <= GuardFatal

(* The loop. *)
VARIABLES
  role,         (* lead or background, for the whole run                     *)
  pc,           (* the await the loop is at                                  *)
  outcome       (* the stop reason                                           *)

(* What the user and the clock have done to it. *)
VARIABLES
  abort,        (* deps.signal has fired                                     *)
  steer,        (* steerRequested and pendingSteers                          *)
  modelCut,     (* modelAbort has fired                                      *)
  steers,       (* steers taken, for the bound                               *)
  spent,        (* a spending ceiling of the budget is crossed               *)
  auto,         (* the autonomy level asks for no approval                   *)
  granted       (* the session's approvals                                   *)

(* The provider turn and the counters that bound its retries. *)
VARIABLES
  iterations,   (* budget.iterations                                         *)
  attempt,      (* requests of this provider turn before the current one     *)
  rung,         (* overflowRung                                              *)
  fellBack,     (* fallbackUsed                                              *)
  empties,      (* emptyResponseAttempts                                     *)
  tries,        (* repairAttempts and toolUseRetries                         *)
  corrections   (* the completion guard's attempts                           *)

(* The batch of calls of the last response. *)
VARIABLES
  batch,        (* its calls, in order                                       *)
  parallel,     (* it is admitted call by call and runs in parallel          *)
  st,           (* how far each call has come                                *)
  fatal,        (* a call failed for good                                    *)
  guard,        (* lastCallSig and consecutiveRepeats                        *)
  before,       (* the guard before the batch                                *)
  asks          (* the dialogs the host's gate holds, the first one shown    *)

(* History. *)
VARIABLES
  unpaired,     (* committed tool_use blocks without a result                *)
  late,         (* requests sent, at most, after a ceiling was crossed       *)
  streak        (* the tool the last batches consisted of, and how many      *)

flags == <<role, spent, auto, granted>>
steering == <<steer, modelCut>>
ladder == <<attempt, rung, fellBack>>
counts == <<iterations, empties, tries, corrections>>
calls == <<batch, parallel, st, fatal, guard, before, asks>>
history == <<unpaired, late, streak>>
vars == <<pc, outcome, flags, abort, steers, steering, ladder, counts, calls, history>>

Slots == 1..MaxCalls
Budgeting == 0                            (* the dialog of the spend guard    *)
Fresh(t) == [sig |-> t, n |-> 1]
Nothing == [sig |-> NoTool, n |-> 0]
Idle == [i \in Slots |-> "none"]

Init ==
  /\ role \in Roles
  /\ pc = "top" /\ outcome = "none"
  /\ abort = FALSE /\ steer = "none" /\ modelCut = FALSE /\ steers = 0
  /\ spent = FALSE /\ auto \in BOOLEAN /\ granted = {}
  /\ iterations = 0 /\ attempt = 0 /\ rung = 0 /\ fellBack = FALSE
  /\ empties = 0 /\ tries = [k \in {"json", "signal"} |-> 0] /\ corrections = 0
  /\ batch = <<>> /\ parallel = FALSE /\ st = Idle /\ fatal = FALSE
  /\ guard = Nothing /\ before = Nothing /\ asks = <<>>
  /\ unpaired = {} /\ late = 0 /\ streak = Nothing

-----------------------------------------------------------------------------
(* Faulty: only the iterations are looked at.                                *)
OverBudgetIterations == iterations >= MaxIterations

OverBudget == iterations >= MaxIterations \/ spent             (* budget.check *)
BudgetStop == IF iterations >= MaxIterations THEN "max_iterations" ELSE "budget"
ModelAborted == abort \/ modelCut                               (* modelSignal  *)

(* Faulty: only a steer cancels what has not started.                        *)
CancelledBySteer == steer # "none"

(* Faulty: only an interrupt does.                                           *)
CancelledByInterrupt == abort

Cancelled == abort \/ steer # "none"                  (* preExecutionCancelled *)

GoTo(next) == pc' = next /\ UNCHANGED outcome
Stop(why) == pc' = "over" /\ outcome' = why

(* Faulty: the aborted controller stays in place.                            *)
AbsorbPoisoned == steer = "text" /\ ~abort /\ steer' = "none" /\ UNCHANGED modelCut

(* absorbSteerAtBoundary() with a text: it is appended and announced, and    *)
(* the next request gets a controller of its own.                            *)
Absorb ==
  /\ steer = "text" /\ ~abort
  /\ steer' = "none" /\ modelCut' = FALSE

(* `if (steerRequested && !absorbSteerAtBoundary()) return stop(interrupted)`*)
(* where the loop goes on by Otherwise. A bare steer is forgotten.           *)
Boundary(Otherwise) ==
  \/ steer = "none" /\ Otherwise /\ UNCHANGED steering
  \/ Absorb /\ Otherwise
  \/ /\ steer = "bare" \/ (steer = "text" /\ abort)
     /\ Stop("interrupted")
     /\ steer' = IF abort THEN steer ELSE "none"
     /\ UNCHANGED <<modelCut, asks>>

(* checkSpendGuard() where the loop otherwise goes on by Otherwise: the      *)
(* window is open, or it is used up and the gate is asked in state `asking`. *)
SpendGuard(asking, Otherwise) ==
  \/ Otherwise /\ UNCHANGED asks
  \/ GoTo(asking) /\ asks' = Append(asks, Budgeting)

(* The checks before a request: the budget, then the spend guard.            *)
Ready ==
  \/ OverBudget /\ Stop(BudgetStop) /\ UNCHANGED asks
  \/ ~OverBudget /\ SpendGuard("spend", GoTo("compact"))

(* The top of the loop. A background run has a pause gate to wait on first.  *)
Top ==
  /\ pc = "top"
  /\ \/ abort /\ Stop("interrupted") /\ UNCHANGED <<steering, asks>>
     \/ ~abort /\ role = "lead" /\ Boundary(Ready)
     \/ ~abort /\ role = "background" /\ GoTo("gate") /\ UNCHANGED <<steering, asks>>
  /\ UNCHANGED <<flags, abort, steers, ladder, counts, history>>
  /\ UNCHANGED <<batch, parallel, st, fatal, guard, before>>

(* The run is resumed, or interrupted.                                       *)
PassGate ==
  /\ pc = "gate"
  /\ \/ abort /\ Stop("interrupted") /\ UNCHANGED asks
     \/ ~abort /\ Ready
  /\ UNCHANGED <<flags, abort, steers, steering, ladder, counts, history>>
  /\ UNCHANGED <<batch, parallel, st, fatal, guard, before>>

(* The dialog of the spend guard is answered: one more window, or the end.   *)
(* After a fatal call the window does not save the turn.                     *)
AnswerSpend ==
  /\ pc \in {"spend", "spendFatal"}
  /\ asks # <<>> /\ Head(asks) = Budgeting
  /\ asks' = Tail(asks)
  /\ \/ pc = "spend" /\ GoTo("compact")
     \/ pc = "spendFatal" /\ Stop("fatal_tool_error")
     \/ Stop("budget")
  /\ UNCHANGED <<flags, abort, steers, steering, ladder, counts, history>>
  /\ UNCHANGED <<batch, parallel, st, fatal, guard, before>>

(* The dialog was dropped by a steer or an interrupt: a denial.              *)
SpendCut ==
  /\ pc \in {"spend", "spendFatal"}
  /\ Budgeting \notin {asks[k] : k \in DOMAIN asks}
  /\ Stop("budget")
  /\ UNCHANGED <<flags, abort, steers, steering, ladder, counts, calls, history>>

(* n requests are sent, and nobody looks at the budget before them.          *)
Unchecked(n) == late' = IF spent THEN late + n ELSE late

(* Automatic compaction, which may have sent a request of its own after      *)
(* counting tokens, ends, fails or is cut short; the request is built and    *)
(* sent, unless the turn was cancelled meanwhile.                            *)
Compacted ==
  /\ pc = "compact"
  /\ \/ abort /\ Stop("interrupted") /\ UNCHANGED steering
     \/ ~abort /\ Boundary(GoTo("model"))
  /\ attempt' = 0 /\ rung' = 0 /\ UNCHANGED fellBack
  /\ Unchecked(IF pc' = "model" THEN 2 ELSE 1)
  /\ UNCHANGED <<flags, abort, steers, counts, calls, unpaired, streak>>

-----------------------------------------------------------------------------
(* The provider turn: at most four requests. An empty turn that failed on    *)
(* the context window climbs the ladder (compact, then strip and shrink);    *)
(* one that failed otherwise may fall back to another model, once.           *)
Resend ==
  /\ attempt' = attempt + 1
  /\ GoTo("model")
  /\ Unchecked(rung' - rung + 1)           (* one to compact on every rung    *)

(* A rung that reclaims something sends the request again; a first rung      *)
(* that reclaims nothing is followed by the second at once.                  *)
OverflowReclaimed ==
  /\ pc = "model" /\ ~ModelAborted /\ attempt < 4
  /\ rung < 2
  /\ rung' \in {rung + 1, 2}
  /\ Resend
  /\ UNCHANGED <<fellBack, flags, abort, steers, steering, counts, calls, unpaired, streak>>

FallBack ==
  /\ pc = "model" /\ ~ModelAborted
  /\ attempt = 0 /\ ~fellBack
  /\ fellBack' = TRUE
  /\ rung' \in {rung, 2}                 (* 2: the ladder was climbed in vain *)
  /\ Resend
  /\ UNCHANGED <<flags, abort, steers, steering, counts, calls, unpaired, streak>>

(* The response was cut short by a steer or an interrupt. What was shown is  *)
(* committed, no call of it is, and a text steer is injected at once.        *)
ModelCutShort ==
  /\ pc = "model" /\ ModelAborted
  /\ iterations' = iterations + 1
  /\ empties' = 0
  /\ \/ abort /\ Stop("interrupted") /\ UNCHANGED steering
     \/ ~abort /\ steer # "none" /\ Boundary(GoTo("top"))
  /\ UNCHANGED <<tries, corrections, flags, abort, steers, ladder, calls, history>>

(* A whole response without a call. *)
Response == pc = "model" /\ ~ModelAborted /\ iterations' = iterations + 1

EmptyResponse ==
  /\ Response
  /\ empties' = empties + 1
  /\ IF empties' < MaxEmpty THEN GoTo("backoff") ELSE Stop("provider_error")
  /\ UNCHANGED <<tries, corrections, flags, abort, steers, steering, ladder, calls, history>>

(* Faulty: the attempts are counted from one.                                *)
BadCallOffByOne(k) ==
  /\ Response
  /\ empties' = 0
  /\ IF tries[k] <= MaxRepairs
     THEN tries' = [tries EXCEPT ![k] = @ + 1] /\ GoTo("top")
     ELSE Stop("fatal_tool_error") /\ UNCHANGED tries
  /\ UNCHANGED <<corrections, flags, abort, steers, steering, ladder, calls, history>>

(* A call that could not be parsed, or was announced and did not come.       *)
BadCall(k) ==
  /\ Response
  /\ empties' = 0
  /\ IF tries[k] < MaxRepairs
     THEN tries' = [tries EXCEPT ![k] = @ + 1] /\ GoTo("top")
     ELSE Stop("fatal_tool_error") /\ UNCHANGED tries
  /\ UNCHANGED <<corrections, flags, abort, steers, steering, ladder, calls, history>>

(* requestCompletionCorrection() sends a finished turn back to work.         *)
Correction ==
  /\ Response
  /\ corrections < MaxCorrections /\ iterations' < MaxIterations /\ ~spent
  /\ corrections' = corrections + 1 /\ empties' = 0
  /\ GoTo("top")
  /\ UNCHANGED <<tries, flags, abort, steers, steering, ladder, calls, history>>

(* The other ends of a turn: an answer, a cap, a refusal, a paused long turn *)
(* that is asked to go on, an error frame, and an error that is thrown.      *)
TurnEnd ==
  /\ Response
  /\ empties' = 0
  /\ \/ GoTo("top")
     \/ \E why \in {"end_turn", "max_tokens", "refusal", "provider_error", "threw"} : Stop(why)
  /\ UNCHANGED <<tries, corrections, flags, abort, steers, steering, ladder, calls, history>>

Backoff ==
  /\ pc = "backoff"
  /\ GoTo("top")
  /\ UNCHANGED <<flags, abort, steers, steering, ladder, counts, calls, history>>

(* mayNeedPermissionPrompt(): such a call makes its batch serial.            *)
MayAsk(t) ==
  /\ t \notin Unknown
  /\ t \in Forced \/ (t \notin granted /\ (t \in Judged \/ (t \in Gated /\ ~auto)))

(* A response with calls is committed, tool_use blocks and all.              *)
Calls(b) ==
  /\ Response
  /\ empties' = 0 /\ tries' = [k \in DOMAIN tries |-> 0]
  /\ GoTo("tools")
  /\ batch' = b
  /\ parallel' = (Len(b) > 1 /\ \A i \in DOMAIN b : ~MayAsk(b[i]))
  /\ st' = [i \in Slots |-> IF i \in DOMAIN b THEN "listed" ELSE "none"]
  /\ before' = guard
  /\ unpaired' = DOMAIN b
  /\ UNCHANGED <<fatal, guard, asks, late, streak>>
  /\ UNCHANGED <<corrections, flags, abort, steers, steering, ladder>>

-----------------------------------------------------------------------------
(* executeCall() on call i. Only the part that waits and branches is here;   *)
(* each operator says what becomes of the call's state, the dialogs, the     *)
(* guard and the user's grants.                                              *)
Ends(i, how, failed) ==
  /\ st' = [st EXCEPT ![i] = how]
  /\ fatal' = (fatal \/ failed)

(* The last look before the tool starts; a hook or the schema may refuse it. *)
Launch(i) ==
  \/ ~Cancelled /\ Ends(i, "running", FALSE)
  \/ Ends(i, "done", FALSE)

NeedsAsk(t) == t \in Forced \/ (t \notin granted /\ t \in Gated /\ ~auto)

(* The permission gate, with the classifier's verdict.                       *)
Gate(i, doubted) ==
  IF NeedsAsk(batch[i]) \/ (doubted /\ batch[i] \notin granted)
  THEN Ends(i, "asking", FALSE) /\ asks' = Append(asks, i)
  ELSE Launch(i) /\ UNCHANGED asks

(* From the start of the call, or from the end of its pause, to its next     *)
(* wait: the loop guard, which counts on from g, plan mode and the rules,    *)
(* the classifier, the gate.                                                 *)
Consider(i, g) ==
  LET n == IF g.sig = batch[i] THEN g.n + 1 ELSE 1 IN
  IF Cancelled
  THEN Ends(i, "done", FALSE) /\ guard' = g /\ UNCHANGED asks
  ELSE /\ guard' = [sig |-> batch[i], n |-> n]
       /\ \/ /\ batch[i] \in Unknown
             /\ Ends(i, "done", n >= GuardLimit) /\ UNCHANGED asks
          \/ /\ batch[i] \notin Unknown /\ n >= GuardLimit
             /\ Ends(i, "done", n >= GuardFatal) /\ UNCHANGED asks
          \/ /\ batch[i] \notin Unknown /\ n < GuardLimit
             /\ \/ Ends(i, "done", FALSE) /\ UNCHANGED asks
                \/ batch[i] \in Judged /\ Ends(i, "judged", FALSE) /\ UNCHANGED asks
                \/ batch[i] \notin Judged /\ Gate(i, FALSE)

(* Only a background run has a pause gate to wait on.                        *)
Enter(i, g) ==
  IF role = "lead" THEN Consider(i, g)
  ELSE Ends(i, "held", FALSE) /\ guard' = g /\ UNCHANGED asks

Settled == {"done", "skipped", "loose"}
Listed == {i \in Slots : st[i] = "listed"}

(* runCalls(): one call after the other, while nothing stops the batch.      *)
AdmitSerial(i) ==
  /\ pc = "tools" /\ ~parallel /\ ~fatal /\ ~Cancelled
  /\ i \in Listed /\ \A j \in 1..i - 1 : st[j] \in Settled
  /\ IF spent
     THEN /\ st' = [j \in Slots |-> IF j \in Listed THEN "skipped" ELSE st[j]]
          /\ UNCHANGED <<fatal, guard, asks>>
     ELSE Enter(i, guard)
  /\ UNCHANGED <<pc, outcome, batch, parallel, before>>
  /\ UNCHANGED <<flags, abort, steers, steering, ladder, counts, history>>

(* decideAdmission(), in the order of the calls, one turn of the event loop  *)
(* apart. Each call counts on from the guard as it was before the batch.     *)
AdmitParallel(i) ==
  /\ pc = "tools" /\ parallel
  /\ i \in Listed /\ \A j \in 1..i - 1 : j \notin Listed
  /\ IF Cancelled \/ spent
     THEN Ends(i, "skipped", FALSE) /\ UNCHANGED <<guard, asks>>
     ELSE Enter(i, before)
  /\ UNCHANGED <<pc, outcome, batch, parallel, before>>
  /\ UNCHANGED <<flags, abort, steers, steering, ladder, counts, history>>

(* A background run is resumed or interrupted: its calls go on, each from    *)
(* the guard as it finds it.                                                 *)
Resume(i) ==
  /\ st[i] = "held"
  /\ Consider(i, guard)
  /\ UNCHANGED <<pc, outcome, batch, parallel, before>>
  /\ UNCHANGED <<flags, abort, steers, steering, ladder, counts, history>>

(* The classifier's verdict: a cancelled call ends here, a refused one too.  *)
Verdict(i) ==
  /\ st[i] = "judged"
  /\ \/ Ends(i, "done", FALSE) /\ UNCHANGED asks
     \/ ~Cancelled /\ \E doubted \in BOOLEAN : Gate(i, doubted)
  /\ UNCHANGED <<pc, outcome, batch, parallel, guard, before>>
  /\ UNCHANGED <<flags, abort, steers, steering, ladder, counts, history>>

(* The user answers the dialog on the screen. The one of a forced call is    *)
(* acknowledged: no answer runs it, and none grants anything.                *)
Answer(i) ==
  /\ asks # <<>> /\ Head(asks) = i
  /\ asks' = Tail(asks)
  /\ \/ Ends(i, "done", FALSE) /\ UNCHANGED <<auto, granted>>
     \/ /\ batch[i] \notin Forced
        /\ Launch(i)
        /\ \/ UNCHANGED <<auto, granted>>
           \/ granted' = granted \cup {batch[i]} /\ UNCHANGED auto
           \/ auto' = TRUE /\ UNCHANGED granted
  /\ UNCHANGED <<pc, outcome, batch, parallel, guard, before, role, spent>>
  /\ UNCHANGED <<abort, steers, steering, ladder, counts, history>>

(* The dialog was dropped by a steer or an interrupt: the call is cancelled. *)
AskCut(i) ==
  /\ st[i] = "asking" /\ i \notin {asks[k] : k \in DOMAIN asks}
  /\ Ends(i, "done", FALSE)
  /\ UNCHANGED <<pc, outcome, batch, parallel, guard, before, asks>>
  /\ UNCHANGED <<flags, abort, steers, steering, ladder, counts, history>>

(* A tool returns or throws; some failures end the turn.                     *)
Finish(i) ==
  /\ st[i] = "running"
  /\ \E failed \in BOOLEAN : Ends(i, "done", failed)
  /\ UNCHANGED <<pc, outcome, batch, parallel, guard, before, asks>>
  /\ UNCHANGED <<flags, abort, steers, steering, ladder, counts, history>>

Ran == {i \in Slots : st[i] \in {"done", "loose"}}

(* Faulty: the guard is left as it was before a parallel batch.              *)
GuardRestored == before

(* A parallel batch counts as one decision: one more repetition if all of it *)
(* was the same call, a new count from its last call otherwise.              *)
GuardAfter ==
  IF ~parallel \/ Ran = {} THEN guard
  ELSE LET last == batch[CHOOSE i \in Ran : \A j \in Ran : j <= i] IN
       IF last = before.sig /\ \A i \in Ran : batch[i] = last
       THEN [before EXCEPT !.n = @ + 1]
       ELSE Fresh(last)

(* Faulty: calls that did not run get no result.                             *)
SynthesizeNone == {}

(* synthesizeMissingResults(): the calls that have no result of their own.   *)
Synthesized == {i \in DOMAIN batch : st[i] \notin Settled}

(* The batch is over: its results, with one made up for every call without,  *)
(* go into the history as one message. Then the loop looks at what happened. *)
BatchEnd ==
  LET broken == fatal \/ (~parallel /\ abort /\ Listed # {}) IN
  /\ pc = "tools"
  /\ \A i \in DOMAIN batch : st[i] \in Settled \cup {"listed"}
  /\ Listed = {} \/ (~parallel /\ (fatal \/ Cancelled))
  /\ guard' = GuardAfter
  /\ unpaired' = unpaired \ (Synthesized \cup {i \in DOMAIN batch : st[i] \in Settled})
  /\ LET kinds == {batch[i] : i \in Ran} IN
     streak' = IF kinds = {} THEN streak
               ELSE IF kinds = {streak.sig} THEN [streak EXCEPT !.n = @ + 1]
               ELSE IF Cardinality(kinds) = 1 THEN Fresh(CHOOSE t \in kinds : TRUE)
               ELSE Nothing
  /\ \/ broken /\ abort /\ Stop("interrupted") /\ UNCHANGED <<steering, asks>>
     \/ broken /\ ~abort /\ OverBudget /\ Stop(BudgetStop) /\ UNCHANGED <<steering, asks>>
     \/ /\ broken /\ ~abort /\ ~OverBudget /\ UNCHANGED steering
        /\ \/ steer = "none" /\ SpendGuard("spendFatal", Stop("fatal_tool_error"))
           \/ steer # "none" /\ UNCHANGED asks /\ \E why \in {"fatal_tool_error", "budget"} : Stop(why)
     \/ /\ ~broken /\ UNCHANGED asks
        /\ Boundary(IF OverBudget THEN Stop(BudgetStop) ELSE GoTo("top"))
  /\ batch' = <<>> /\ parallel' = FALSE /\ st' = Idle /\ fatal' = FALSE /\ before' = Nothing
  /\ UNCHANGED <<flags, abort, steers, ladder, counts, late>>

-----------------------------------------------------------------------------
(* An interrupt. Dialogs are dropped as denied; a running tool's call ends   *)
(* with it, while the tool itself may go on in the background (raceAbort).   *)
Interrupt ==
  /\ ~abort /\ pc # "over"
  /\ abort' = TRUE
  /\ asks' = <<>>
  /\ st' = [i \in Slots |-> IF st[i] = "running" THEN "loose" ELSE st[i]]
  /\ UNCHANGED <<pc, outcome, flags, steers, steering, ladder, counts, history>>
  /\ UNCHANGED <<batch, parallel, fatal, guard, before>>

(* Faulty: the dialog on the screen keeps waiting for its answer.            *)
RequestSteerKeeping(kind) ==
  /\ role = "lead" /\ steers < MaxSteers
  /\ steer = "none"
  /\ steer' = kind /\ modelCut' = TRUE
  /\ steers' = steers + 1
  /\ UNCHANGED <<pc, outcome, flags, abort, ladder, counts, calls, history>>

(* requestSteer(text?) while none is pending. It aborts what the model does  *)
(* and what waits for an answer; a running tool goes on.                     *)
RequestSteer(kind) ==
  /\ role = "lead" /\ steers < MaxSteers
  /\ steer = "none"
  /\ steer' = kind /\ modelCut' = TRUE
  /\ steers' = steers + 1
  /\ asks' = <<>>
  /\ UNCHANGED <<pc, outcome, flags, abort, ladder, counts, history>>
  /\ UNCHANGED <<batch, parallel, st, fatal, guard, before>>

(* setAutonomy() from the keyboard, at any time.                             *)
SetAutonomy ==
  /\ pc # "over"
  /\ auto' = ~auto
  /\ UNCHANGED <<role, spent, granted, pc, outcome, abort, steers, steering>>
  /\ UNCHANGED <<ladder, counts, calls, history>>

(* Time, tokens or a sub-agent's cost cross a ceiling of the budget.         *)
Overspend ==
  /\ ~spent /\ pc # "over"
  /\ spent' = TRUE
  /\ UNCHANGED <<role, auto, granted, pc, outcome, abort, steers, steering>>
  /\ UNCHANGED <<ladder, counts, calls, history>>

Request ==
  \/ OverflowReclaimed \/ FallBack \/ EmptyResponse
  \/ \E k \in DOMAIN tries : BadCall(k)
  \/ Correction \/ TurnEnd
  \/ \E b \in Batches : Calls(b)

Call(i) ==
  \/ AdmitSerial(i) \/ AdmitParallel(i) \/ Resume(i) \/ Verdict(i)
  \/ Answer(i) \/ AskCut(i) \/ Finish(i)

User ==
  \/ Interrupt
  \/ \E kind \in {"bare", "text"} : RequestSteer(kind)
  \/ SetAutonomy
  \/ Overspend

Next ==
  \/ Top \/ PassGate \/ AnswerSpend \/ SpendCut \/ Compacted
  \/ Request \/ ModelCutShort \/ Backoff
  \/ \E i \in Slots : Call(i)
  \/ BatchEnd
  \/ User

(* What needs nobody: neither the provider nor a tool nor the user. A wait   *)
(* on one of them counts as soon as it has been cut short.                   *)
Unaided ==
  \/ Top \/ Backoff \/ SpendCut \/ ModelCutShort \/ BatchEnd
  \/ abort /\ PassGate
  \/ ModelAborted /\ Compacted
  \/ \E i \in Slots :
       \/ AdmitSerial(i) \/ AdmitParallel(i) \/ AskCut(i)
       \/ abort /\ Resume(i)
       \/ ModelAborted /\ Verdict(i)

Spec == Init /\ [][Next]_vars /\ WF_vars(Unaided)

-----------------------------------------------------------------------------
PCs == {"top", "gate", "spend", "spendFatal", "compact", "model", "backoff", "tools", "over"}
Outcomes == {"none", "interrupted", "budget", "max_iterations", "fatal_tool_error",
             "provider_error", "end_turn", "max_tokens", "refusal", "threw"}
CallStates == {"none", "listed", "held", "judged", "asking", "running"} \cup Settled
Counts == [sig : Tools \cup {NoTool}, n : Nat]

(* Among the types: a provider turn sends at most four requests, so the code *)
(* behind that loop (loop.ts:1445) is never reached.                         *)
TypeOK ==
  /\ role \in Roles /\ pc \in PCs /\ outcome \in Outcomes
  /\ (pc = "over") <=> (outcome # "none")
  /\ abort \in BOOLEAN /\ modelCut \in BOOLEAN /\ spent \in BOOLEAN /\ auto \in BOOLEAN
  /\ fellBack \in BOOLEAN /\ parallel \in BOOLEAN /\ fatal \in BOOLEAN
  /\ attempt \in 0..3
  /\ steer \in {"none", "bare", "text"} /\ granted \subseteq Tools
  /\ steers \in Nat /\ iterations \in Nat /\ rung \in Nat
  /\ empties \in Nat /\ corrections \in Nat /\ late \in Nat
  /\ tries \in [{"json", "signal"} -> 0..MaxRepairs]
  /\ batch \in Batches \cup {<<>>}
  /\ (batch # <<>>) <=> (pc = "tools")
  /\ st \in [Slots -> CallStates] /\ \A i \in Slots : (st[i] = "none") <=> (i \notin DOMAIN batch)
  /\ guard \in Counts /\ before \in Counts /\ streak \in Counts
  /\ asks \in Seq(Slots \cup {Budgeting})
  /\ unpaired \subseteq Slots

(* Outside a batch no tool_use block is without its result: however calls    *)
(* are refused, cancelled, skipped or interrupted, the history stays one     *)
(* that a provider accepts.                                                  *)
Paired == pc # "tools" => unpaired = {}

(* A tool that was all the last batches consisted of is not started for the  *)
(* GuardLimit-th time, whether those batches ran in parallel or serially.    *)
RepeatsBounded ==
  \A i \in Slots :
    (st[i] = "running" /\ streak.sig = batch[i] /\ \A j \in DOMAIN batch : batch[j] = batch[i])
      => streak.n + 1 < GuardLimit

(* A ceiling crossed at any moment is overrun by the provider turn that was  *)
(* past its check and by no other: its four requests, and those that compact *)
(* before it and on its two rungs. No retry or correction buys another turn. *)
OverrunBounded == late <= 4 + 3

(* The dialogs the host holds are those of the calls, and of the spend       *)
(* guard, that wait for one, each once; after a steer or an interrupt none   *)
(* is left to be answered.                                                   *)
Shown == {asks[k] : k \in DOMAIN asks}
Awaited == {i \in Slots : st[i] = "asking"}
             \cup (IF pc \in {"spend", "spendFatal"} THEN {Budgeting} ELSE {})
DialogsMatchCalls ==
  IF abort \/ steer # "none" THEN Shown = {}
  ELSE Shown = Awaited /\ \A j, k \in DOMAIN asks : asks[j] = asks[k] => j = k

(* While the turn goes on, the model's signal stays fired only as long as    *)
(* the steer that fired it is pending: a turn that took the text of a steer  *)
(* hears the model again.                                                    *)
NotPoisoned == modelCut => steer # "none" \/ pc = "over"

(* No tool starts once the user has interrupted, wherever its call then was. *)
NoLateStart ==
  [][\A i \in Slots : abort /\ st'[i] = "running" => st[i] = "running"]_vars

(* The loop keeps the steering contract: a steer waits for what runs, goes   *)
(* into the turn or ends it, and nothing starts before it has.               *)
Phase == IF pc = "over" THEN "over"
         ELSE IF \E i \in Slots : st[i] = "running" THEN "acting" ELSE "thinking"
Turn == INSTANCE SteeredTurn WITH phase <- Phase
ImplementsSteer == Turn!Spec

(* An interrupt ends the run, and a steer is taken in, ends the run or waits *)
(* for a running tool, with no help from the provider or the user.           *)
Running == \E i \in Slots : st[i] = "running"
CancelTakesEffect ==
  /\ abort ~> pc = "over"
  /\ steer # "none" ~> (steer = "none" \/ pc = "over" \/ Running)
=============================================================================
