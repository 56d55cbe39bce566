# Verification of Shadow CLI in TLA+

Shadow CLI (`src/`) is a coding agent for the terminal. One process may serve a terminal, several
browser sessions and an editor at once; several processes may share one workspace; and all of them
may die in the middle of changing files. This directory holds TLA+ models of the parts whose
correctness rests on the order of steps, the TLC runs that check them on small instances, and
TLAPS proofs of what matters most for every instance.

| module | models | role |
|---|---|---|
| `RunLock` | `src/src/web/runLock.ts` | the process-wide lock: one agent turn at a time |
| `PriorityMutex` | what `runLock.ts` promises | abstract specification, implemented by `RunLock` |
| `RunLockProofs` | | invariant, service order and refinement, proved |
| `SessionTurns` | `src/src/web/registry.ts`, `src/src/web/approvalGate.ts`, the lock's use in `src/src/app/app.ts` | composes `RunLock` (`Lock == INSTANCE RunLock`) with its callers |
| `SessionTurnsProofs` | | types, seven properties, the lock's own three, the causes of two disagreements, proved on the lemmas of `RunLockProofs` |
| `AgentLoop` | `src/src/agent/loop.ts` with `approval.ts`, `budget.ts`, `completion.ts` | one run of the agent loop: requests and retries, batches of calls, dialogs, steering |
| `SteeredTurn` | the steering contract of `loop.ts` | abstract specification, implemented by `AgentLoop`, used by `PromptQueue` |
| `AgentLoopProofs` | | types, seven properties and the refinement, proved |
| `PromptQueue` | the prompt FIFO of `src/src/app/app.ts` and `src/src/tui.tsx`, `composerOwner.ts`, `steerQueue.ts` | composes `SteeredTurn` (`Turn == INSTANCE SteeredTurn`) with the terminal that steers it |
| `PromptQueueProofs` | | the two records of a steer agree, nothing is lost or overtaken until a turn is ended twice, and never in the Ink terminal, proved |
| `RpcPeer` | `src/src/acp/jsonrpc.ts`, `server.ts`, `gate.ts`, `approvalBinding.ts`, `cli.ts` | the editor's connection: requests, approvals, backpressure, shutdown |
| `RpcPeerProofs` | | bounds, one answer, one run, matched grants, no final pause, proved |
| `MutationJournal` | `src/src/tools/mutation.ts` | prepared changes to files, and what a crash leaves |
| `MutationJournalProofs` | | exclusion, crash visibility, no replay, closed failure, proved |
| `CrashRecovery` | `src/src/tools/crashRecovery.ts` | extends `MutationJournal` with the operator's decisions |
| `CrashRecoveryProofs` | | superseded operations have landed, and it implements the journal, proved |
| `JobStore` | `src/src/state/jobStore.ts` and its users `agentTool.ts`, `projectJobs.ts` | jobs, attempts, dependencies, verdicts of many processes |
| `JobStoreProofs` | | one worker, no circles, no restart, the one cause of stale evidence and that of retries beside a worker, proved |
| `MC*` and `*.cfg` | | the instances TLC checks |

To check a run: `tlc -config RunLock.cfg MCRunLock.tla`; to check proofs: `tlapm RunLockProofs.tla`.
`PROJECT.json` lists the components, runs, seeded faults (`mutants`), the map from definitions to
source lines, the findings, the hazards and the theorems. A definition whose comment begins
`Faulty:` is a seeded fault: no specification uses it; it replaces the definition it stands before
to show that a property can fail.

## 1. Inventory

The components, with the state each keeps, its operations, what it interacts with, what is hard
about it, and what makes it correct. Those modelled come first.

**Run lock** (`web/runLock.ts`). State: the current grant, its holder, a queue of waiters.
Operations: `acquire` (with a signal and a priority), `tryAcquire`, the release closure,
`releaseFor(holder)`, the abort listener, and `pump()` at the end of each. Called by the session
registry (a session's id as holder) and the terminal (`'cli'`, with priority). Hard: a waiter's
signal may fire while another listener of the same abort frees the lock; a release may come late,
after its grant was dropped. Correct when: one grant at most; never free while somebody waits; no
call overtaken by one behind it; the operator first; every waiter eventually settles.

**Web session registry and turns** (`web/registry.ts`, `web/approvalGate.ts`, `web/sessionAgent.ts`).
State per session: status, the lazily built agent and the build in flight, the controller of the
current prompt, the pending ask, the count of attached browsers and their transport-gone timer.
Operations: `submit`/`drive`, `interrupt`, `decide`, attach/detach, `close`, `remove`, `closeAll`.
Hard: `drive` awaits three times (build, lock, turn), and between any two the session may be
interrupted, closed or abandoned by its browser. Correct when: no path leaks the grant, an agent, or
an ask; each prompt is answered exactly once; what was stopped before it began never begins.

**Agent loop** (`agent/loop.ts`, `agent/completion.ts`, `agent/steerQueue.ts`, `agent/loopDeps.ts`).
State of a run: the message history, the budget, the loop guard, the retry counters, the pending
steer and the controller of the model's signal. Operations: one iteration after the other (checks,
compaction, the provider request with its retries and its fallback, the calls of the response,
serially or in parallel), and from outside `requestSteer`, the abort signal, the answers of the
host's gate, `setAutonomy`, the pause gate of a background run. Hard: each of those may arrive at
any await, also between two calls of one batch; a steer aborts the model but not a tool. Correct
when: every committed `tool_use` block has one result; nothing starts after an interrupt or under a
pending steer; a steer is taken in or ends the turn; no dialog outlives the call that opened it; a
crossed ceiling is not overrun; a model that repeats itself is stopped.

**Budgets, approvals** (`agent/budget.ts`, `agent/approval.ts`, `safety/*.ts`). The ceilings the loop
checks, the dialogs it opens and what a grant changes for later calls are part of `AgentLoop`; which
command text needs an approval is a classification of strings, given to the model as constants.

**Terminal front-ends** (`app/app.ts`, `tui.tsx`, `tui/keys/composerOwner.ts`). State: the FIFO of
prompts, the running turn or command, the text a pending steer carries. Operations: `submit`,
`queue`, `flushQueue`, `runSlash`, `runTurn`, `endTurn`, the report that a steer was injected,
Ctrl-C. A turn takes the run lock with priority, can be interrupted, releases in a `finally`;
`stop()` drops the terminal's grant. Hard: a message that steers must not overtake what waits before
it, the injection is reported by text only, and every end of a turn or command must drain the queue
as far as the next barrier. Correct when: each prompt is heard once, in its order. Rendering and key
handling are layout.

**ACP peer and server** (`acp/jsonrpc.ts`, `policy.ts`, `approvalBinding.ts`, `server.ts`, `gate.ts`,
`cli.ts`). State: requests in flight, a ledger of settled ids, sealed approvals, the paused input.
Hard: a cancel racing the reply, a replayed id, teardown with requests in flight, a paused input
that also holds back the answers others wait for. Correct when: each request settles once and runs
once as far as the ledger remembers, an approval counts for what was asked and while its turn goes
on, and the peer never deadlocks on its own backpressure.

**Mutation journal** (`tools/mutation.ts`). State on disk: a record per operation (state, the bytes
before and after each target), a lock file per operation, and the target files. Operations:
`prepare`, `approve`, `apply`, `rollBack`, `reconcile`. Hard: a crash between any two writes, a
failed write or a failed record, two processes on one operation, somebody else editing a target.
Correct when: two processes are never inside one operation; nothing is applied twice; what
`reconcile` does not report is what the files hold.

**Crash recovery** (`tools/crashRecovery.ts`). State on disk: a marker beside a record. Operations:
keep, retry, and the journal's own rollback. Hard: a retry is a new operation whose preparation,
approval and application may themselves be interrupted, and the files moved on since the crash.
Correct when: an operation counts as superseded only by one that has landed.

**Job store and workers** (`state/jobStore.ts`, `tools/agentTool.ts`, `tools/projectJobs.ts`).
State: an SQLite file with each job's status, dependencies, parent, attempts, verdict and cancel
flag; in each process, workers with an owner token and a heartbeat. Operations: the store's
transactions, the worker's finish and verdict, the shell checks. Hard: several processes create,
rewire, claim, cancel, retry and recover the same jobs while any of them may die, and a check
outlives the state it read; a steer reports a worker's job failed while the worker goes on. Correct
when: one worker at a time; nothing restarts unasked; dependencies close no circle; a cancel is seen;
a verdict belongs to the attempt it is recorded on.

**Web console server, streams and relay** (`web/server.ts`, `sessionStream.ts`, `browserRelay.ts`,
`router.ts`, `security.ts`). A replay ring per session and its subscribers; the relay's pairing.
Correct when: a subscriber that reconnects misses no event that is still in the ring and sees none
twice.

**MCP client and manager** (`mcp/client.ts`, `manager.ts`). A pending table, a child process or an
HTTP session, reconnects. Hard: a close against late replies, a reconnect with calls in flight.
Correct when: each call settles once and none survives its transport.

**Accounts** (`auth/chatgpt.ts`, `refresh.ts`, `vault.ts`). Tokens on disk, refreshed under a lock
between processes. Correct when: a one-time refresh token is spent once, and a process never
overwrites a newer token with an older one.

**Skill candidates** (`skills/candidateStore.ts`). A candidate is proposed, validated, approved,
promoted by moving files. Correct when: what is promoted is byte for byte what was approved.

**Work center, sessions on disk, endpoint switching, review actions** (`app/workCenter.ts`,
`state/*.ts`, `endpoints/*.ts`, `tools/gitCommitProposal.ts`). State shared between processes or
across a crash; candidates listed in section 5.

**The rest** - context and compaction, file and shell tools, sandbox and egress policy, language
server and debug clients, providers and streaming, hooks and plugins, onboarding, doctor, update -
is sequential, parsing, or plain I/O. `PROJECT.json` gives each its reason.

How the parts interact: the terminal, the browsers and the editor all reach the agent loop through
the run lock (`SessionTurns` models that meeting point; its turn, and the waiting turn of
`PromptQueue`, stand for a run of `AgentLoop`). The terminal steers the loop through `requestSteer`
and hears of it through `steer_applied` (`PromptQueue` over `SteeredTurn`, which `AgentLoop`
implements). The editor's prompts, approvals and cancellations arrive over one stream (`RpcPeer`).
The agent's tools change files through the mutation journal, start sub-agents through `agentTool`,
and those record themselves in the job store. Crash recovery reads the journal at start-up.
Processes meet only on disk: lock files, journal records, SQLite transactions.

## 2. The models

### RunLock

A *call* is one invocation of `acquire` or `tryAcquire`; it settles once, so it also names the grant
it receives. `active` is `activeGrant`, `waiters` the queue, `st` the promise of each call,
`aborted` its signal. JavaScript runs each function to completion, so each is one step, including
the `pump()` it ends with (`Pump`, `Dispatch`). The abort listener is a step apart from the abort,
because other listeners of the same signal run first and may release the lock. A release closure
may be invoked any number of times, as late as one likes.

`PriorityMutex` states the promise with no queue: an owner, a set of waiting calls, and the rules
that a free lock has nobody waiting, that the owner is not preempted, and that the operator's calls
go first. `ImplementsMutex` is the refinement `owner <- active`, `pending <- {c : st[c] = "waiting"}`.

### SessionTurns

`pc[c]` follows one prompt through `drive()`: building, queued, turn, done. The three awaits are
the three gaps; their continuations (`AfterBuild`, `AfterAcquire`, `TuiAfterAcquire`) are microtasks
and run before any other step (`Quiet`). `Close` is the body of `close()`, used by `Remove` and by
the loop of `closeAll()`; `closing` is what that loop has left. `asking`, `gone` and `clients` are
the parked ask, the armed transport-gone timer and the attached browsers. `stops` counts terminal
stops per prompt; `torn` and `cancelled` remember which prompts lost their session or were
interrupted. The lock is the module `RunLock`, instance and all.

The model starts with no browser attached, lets the terminal run one turn at a time
(`this.running`), and lets `closeAll()` happen once (the server's shutdown and the editor's
disconnect each call it once).

### AgentLoop and SteeredTurn

`pc` is the await the loop is at: the top of an iteration, the pause gate of a background run, the
spend dialog, compaction, the provider request, the back-off after an empty response, the batch. An
action is the code from one await to the next; `st[i]` is how far call `i` of the batch has come
(listed, held by a pause, judged by the classifier, asking, running, and its ends: done, skipped for
the budget, loose when it was interrupted and the tool goes on alone). `asks` is the host's FIFO of
dialogs. A tool stands for a tool and its arguments, so a repeated call is the same value; gates,
the denylist, the classifier's doubts and unknown names are sets of tools. `Absorb` and `Boundary`
are the checkpoint every boundary of the loop goes through, `Consider`, `Gate` and `Launch` the
path of one call, `AdmitSerial` and `AdmitParallel` its two callers, `BatchEnd` the commit of the
results and what is decided on them. `unpaired`, `late` and `streak` are history: `late` counts every
request sent once a ceiling is crossed, the rungs of the overflow ladder, the fallback and the
summarizer's requests included (`Unchecked`), since no budget is looked at between them.

Hooks run synchronously, so `Launch` is one step. What is left out: the contents of requests, what
makes text need an approval, and the plan and question dialogs, whose calls are gated calls to the
model. Of the ways a provider request may fail, only what decides the next step is kept: cut short,
reclaimed by a rung of the overflow ladder, fallen back, empty, a call that cannot be parsed.

`SteeredTurn` states what the loop owes to whoever steers it: a steer is taken while none is
pending, waits for the tool that is running, and is then injected into the turn or ends it; no tool
starts meanwhile. `ImplementsSteer` maps its phase to "over", "acting" while a call runs and
"thinking" otherwise.

Seen while modelling, and true of the model as of the code: a comment in `loop.ts` (1098-1105) says
that the calls of a parallel batch cannot trip the loop guard on each other, and calls of a
background run that are resumed in the middle of their admission can, since each then counts on from
the guard as it finds it (`Resume`); a grant or an autonomy change in the middle of a batch may open
a second dialog beside the first, which the host's gate queues; a steer absorbed at the results of a
batch whose budget is used up is announced and never answered (1209-1216); an interrupt at the spend
dialog is reported as `budget`. Two overlapping pauses credit the budget's clock twice
(`budget.ts:79`, `loop.ts:1635`); time is one bit here (`spent`) and does not show it.

### PromptQueue

`queue` is the FIFO. What the terminal takes itself to be doing and what goes on are kept apart:
`running` and `current` are `this.running` and `this.controller`; `waiting` and `owner` the prompts
whose `runTurn()` waits for the run lock or holds it, whoever the terminal takes for running; `work`
a compaction, a model check or a switch; `drains` how many calls of `flushQueue()` the current step
still owes; `pending` the message whose text the turn's pending steer carries. The turn itself is
`SteeredTurn`. `Submit`, `Flush`, `StartTurn`, `RunSlash`, `Enqueue`, `SteeringAction`,
`DropOneByText` are the functions of the same meaning in both terminals; where the terminals differ,
`frontend` decides: what runs at once beside a turn or a compaction (`Live`), a switch that takes no
input, and how often a turn ends. `RunSlash` covers commands that are done at once, that leave work
behind, that begin a turn themselves, and `/clear`.

When the wait for the run lock is aborted, the full-screen terminal calls `endTurn()` in the inner
`catch` and again in the `finally` around it (`app.ts:1581-1583`, `1656-1662`), so `LockAborted` owes
two drains there and one in the Ink terminal. Between the two the first has begun what was queued;
the second takes that for ended (`DrainOver`), which `doubled` remembers. `InOrder` is stated up to
then; that the order fails afterwards is the disagreement `prompt_order`.

A hook may refuse a prompt when its turn would start. In the
full-screen terminal `runTurn()` then returns without draining (`app.ts:1543-1551`), so what waits
behind it is `stranded` until something else ends; the Ink terminal drains on and says why
(`tui.tsx:2739`). The properties make an exception for the former, and hold for the Ink terminal without any.
`/clear` taken from the queue empties it, prompts typed after it included (`app.ts:2376`); Ctrl-C in
the Ink terminal throws away what waits: both are in `dropped`, not lost in the sense of `InOrder`.

### RpcPeer

`live` and `ledger` are the tables of `jsonrpc.ts`, `owner` and `cancelled` the sessions' turns,
`asks`, `told` and `seals` the approvals on their way through the wire. The frames of one chunk are
dispatched in one turn of the event loop: between the first of them and `ChunkEnd` only frames are
handled, and the promises they settle are acted on at its end. Reading stops at the bound
(`stdin = "paused"`) and resumes at a settlement. A frame that is refused without a trace is no
action. The assumption `Cardinality(Sessions) < Bound` is the source's: at most 8 sessions
(`MAX_WEB_SESSIONS`) against a bound of 64. A repeated request whose first copy is in flight gets no
reply of its own. The server in `src/` does not itself serve the one cancellable method
(`tool_call`), the peer handles it.

A turn asks for one approval at a time; the sub-agents it runs in the background inherit its gate
(`agentTool.ts:589`), so they ask beside it and, if it ends by itself, after it (`from`, `agents`). An
interrupt reaches the sub-agents of its own turn and none that an earlier turn left; closing the
session stops them all. `End` follows the synchronous `close()` of each session, while its turn may
still unwind. That a job of a sub-agent is cancelled in the chunk that also answers its approval is
left out: `AgentStops` happens between chunks.

### MutationJournal

`state` and `plan` are the journal's records, `lock` the lock files (`Empty` between `openSync('wx')`
and the write of the pid), `disk` the targets as a process reads them and `durable` what a power
loss would leave of them. A process makes one call at a time; every access to a shared file inside
`approve`, `apply` and `rollBack` is a step, so other processes, an editor and a crash come in
between. `WriteFails` and `PersistFails` are a full disk, before and after the first byte of an
operation. `Crash` stops a process for good: a restarted program is a new one, and a pid is never
reused. `raced` remembers the operations whose dead holder two processes had found at once
(`mutation.ts:278-279`): the second then unlinks the lock the first has just taken. `overwritten`
remembers the targets somebody else wrote since `prepare()`: for those the journal can promise
nothing.

Simplifications: `prepare()` is one step (it writes nothing but its own new record); targets are
visited in any order (the code's is the record's); a digest that does not match is a refusal in
`Read`. `reconcile()` only reads, and is the predicate `Reported`.

### CrashRecovery

Extends the journal, so a retry's preparation, approval and application are the journal's own steps,
with every crash and failure they have; one instance checks both modules. `marker` is the resolution file, `old` and `new` the
operation a process retries and the one it does it by, `stage` which of its calls is next. Keeping
looks at nothing but the record, so it may hit an operation whose process still lives; two processes
may retry one operation at once and both may land, writing the same bytes. Ids of retries are fresh:
nobody but its process calls one before it has landed. `Landed` accepts what the code accepts: a retry
that was applied, or whose record says `unknown`.

### JobStore

Each method is one IMMEDIATE transaction, so one step. A worker is a record of its process, job and
attempt; the attempt's number stands for the owner token, which is fresh for each claim. `settling`
is the gap between `finishAttempt` and `recordAcceptance` in the worker's `finishJob`: two
transactions, and the second may fail. A steer that frees the turn waiting for a synchronous worker
promotes it (`Promote`): its job is reported failed there and then (`agentTool.ts:846`), its heartbeat
ends, and it works on until `FinishAttempt`, whose outcome is dropped. `Attached` are the workers no
steer promoted. `checks` are the shells `acceptance_check` awaits; `evidence`
remembers which attempt a passing verdict was formed on, and `asked` which jobs may start because
somebody created or retried them and nobody cancelled them since.

Statuses that no step tells apart (partial, failed, cancelled, interrupted) are one, `incomplete`;
so are the verdicts failed and unverified. Room messages, artifact references, profile measurements
and usage figures decide nothing and are left out. A dead owner's pid that the system has given to
another process keeps its job running until that process ends; pid reuse is outside the model.

## 3. The runs

| run | instance | checks | states |
|---|---|---|---|
| `run_lock` | 2 operator calls, 2 sessions with 1 call | `TypeOK`, `NeverWedged`, `GrantedInTurn`, `ImplementsMutex`, `NoStarvation` | 10,929 |
| `session_turns` | 2 sessions with 1 prompt, or 1 session with 2; 1 terminal turn | `TypeOK`, `GrantFollowsTurn`, `AskHasTurn`, `OneStop`, `ClosedOwnsNothing`, `OneDrive`, `InterruptedNeverStarts`, `InterruptEnds` | 194,862 |
| `agent_loop` | 4 tools, 6 responses of up to 2 calls, 1 steer, 2 iterations, both roles | `TypeOK`, `Paired`, `RepeatsBounded`, `OverrunBounded`, `DialogsMatchCalls`, `NotPoisoned`, `NoLateStart`, `ImplementsSteer`, `CancelTakesEffect` | 582,682 |
| `prompt_queue` | 3 messages, two of the same text, 2 commands; both terminals | `TypeOK`, `InOrder`, `EveryPromptLeaves` | 1,270,654 |
| `rpc_peer` | 1 session, 2 in flight, 2 remembered; 3 ids and 1 approval, or 2 ids and 2 approvals (of 2 kinds) | `TypeOK`, `AnsweredOnce`, `RunsOnce`, `GrantsMatch`, `StdinResumes` | 266,422 |
| `mutation_journal` | 2 processes, 1 operation, 2 files, 1 edit, 1 power loss; or 2 processes, 1 operation and 1 retry, 1 file; or 3 processes, 1 operation, 1 file | `TypeOK`, `LockExcludes`, `CrashIsSeen`, `NoReplay`, `SupersededLanded` | 522,008 |
| `job_store` | 2 processes; 1 job of 3 attempts and 1 check, or 2 jobs of 1 attempt | `TypeOK`, `OneWorker`, `NoCircularWait`, `StartsAreAsked`, `CancelStops` | 151,020 |
| `one_turn` | 2 sessions with 1 prompt, 1 terminal turn | violates `OneTurnAtATime` | |
| `ghost_ask` | 1 session with 2 prompts, 1 terminal turn | violates `GhostAskSettles` | |
| `lock_race` | as `mutation_journal` | violates `OneHolder` | |
| `promoted_worker` | as `job_store`, no checks | violates `RetryFindsNoWork` | |
| `prompt_order` | as `prompt_queue` | violates `OrderKept` | |

**Why these bounds are enough to be interesting.** In `run_lock` a holder can have a grant and a
waiter at once, each class can have two waiters, and three calls can wait behind one: every branch of
`enqueue`, `releaseFor` and `pump`, with an aborted waiter in front, behind and in between. In
`session_turns` a grant can pass along waiters of both classes, `closeAll()` can close a session it
granted by closing the previous one, and a second prompt of one session can meet a late continuation
of the first; `MCSpec` starts with one of three prompts already spent, which is one or the other of
the two instances. `MaxClients = 1` lets the last browser leave and come back. In `agent_loop` there
is a response of each kind (refused, gated, denylisted, parallel, repeated, mixed), the guard's limit
is within one batch's reach and its fatal limit within two, the budget ends in the second iteration,
and one steer can meet each await of either. In `prompt_queue` both terminals are in one run, the two
messages of the same text can be steered and queued in either order, and a command can stand before,
between and behind them. In `rpc_peer` the third id meets a full table and makes the ledger forget
the first; two approvals of one session let a late answer to the first meet the second, and a
sub-agent's request outlive its turn beside the next turn's. In `mutation_journal` an operation on two
files can be left half done and the lock can be found dead or alive; one foreign edit is enough to
disturb either target at either moment; two processes can decide on one operation at once, and the
retry can itself be interrupted and rolled back; and of three processes two can find the third's lock
after its death, which is the race that `lock_race` shows and that `LockExcludes` sets apart. In
`job_store` a retry can itself be retried, a check of the first attempt can end in the second or
third, a promoted worker can meet a retry of its job; two jobs can depend on each other, be parent and
child, and be cancelled together; circles of more jobs, and any number of jobs, are covered by the
proof. The instances of `job_store`, of `rpc_peer` and of `mutation_journal` are one run each: what a
step of an instance leaves as it is stands in `Within` of the `MC` module. In the journal's, nobody
decides about the operation of a retry, which no further id could supersede.

**Deadlock** is not checked (`CHECK_DEADLOCK FALSE`) in any run: calls, prompts, operations and
attempts are each used once, a run of the loop ends and the editor's process exits, so every
behaviour runs out of things to do; in the journal and the job store all processes may also have
died. What would be a deadlock inside the program is stated as liveness (`NoStarvation`,
`InterruptEnds`, `CancelTakesEffect`, `EveryPromptLeaves`, `StdinResumes`, `CancelStops`) or as an
invariant (`NeverWedged`, `NoCircularWait`).

**Symmetry** is used in `mutation_journal` and `lock_race`, over the two processes all instances
have, files and contents; those runs check no liveness, and no definition chooses among them.

**Fairness**, and why the code justifies it:

- `RunLock`: the listener of a fired signal runs (the event loop); a granted call releases (each
  caller releases in a `finally`).
- `SessionTurns`: continuations of settled promises run; the builder settles (it only reads files
  and starts children under timeouts); an armed timer fires; `closeAll()` goes on to its next
  session; a turn that awaits nobody ends (the loop's budget of turns and tool timeouts). A browser,
  an editor and the operator owe nothing: none of `Submit`, `Decide`, `Attach`, `Detach`,
  `Interrupt`, `Remove`, `TuiStop` is fair.
- `AgentLoop`: only what needs nobody (`Unaided`): the code between two awaits, a back-off timer,
  and a wait on the provider, the classifier, a dialog or the pause gate once its signal has fired,
  since each of them is raced against that signal. Neither the provider, nor a tool, nor the user
  ever has to do anything.
- `PromptQueue`: the queue is drained by the function that drains it, compactions, model checks and
  switches settle, tools that run end, and a turn that a steer without text is to end does
  (`CancelTakesEffect` of `AgentLoop`). Nothing is asked of the run lock, which `ghost_ask` shows may
  be withheld for good, nor of a turn left alone, which may wait for an answer: `EveryPromptLeaves`
  names both as the other ways a behaviour may go.
- `RpcPeer`: a chunk ends, handlers other than prompts settle, an interrupted turn ends (which is
  `CancelTakesEffect`), and shutdown goes on once the sessions are closed. The editor owes nothing
  and a turn need not end.
- `MutationJournal`, `CrashRecovery`: none; a process may stop anywhere.
- `JobStore` (`FairSpec`): a process that finished a job judges it in the same call; the heartbeat's
  one-second interval fires; a worker whose signal was aborted comes to its end. A promoted worker
  has no heartbeat any more, and owes nothing. Claims, retries,
  cancels, checks and recovery owe nothing, and a process may die instead.

**What the properties say** is written above each in its module. Those least obvious in the code:

- `GrantFollowsTurn`: no early return, throw or rejected wait of `drive()` leaks the grant, and a
  running turn holds it unless its session was closed under it.
- `OneStop`: every prompt is answered once, on all of the paths out of `drive()`.
- `ClosedOwnsNothing`: a build that resolves after its session was closed is disposed of.
- `Paired`: wherever a batch is abandoned, the history stays one that a provider accepts.
- `RepeatsBounded`: the loop guard counts a serial batch by its calls and a parallel one by itself,
  and still a model that repeats one call does not have it run `GuardLimit` times.
- `OverrunBounded`: a ceiling crossed by anybody at any moment costs at most the requests of the one
  provider turn that was past its check: its four, since no budget is looked at between the rungs of
  its ladder, and the three summaries that compact before it and on two of those rungs.
- `DialogsMatchCalls`: the host's dialogs are those of the calls (and of the spend guard) that wait
  for one; a steer or an interrupt leaves none on the screen.
- `NotPoisoned`: absorbing a steer replaces the controller that the steer aborted.
- `CancelTakesEffect`: an interrupt ends the run, and a steer is taken in or ends it as soon as no
  tool runs, with nobody's help.
- `InOrder`: every prompt that was neither answered aside nor thrown away is heard or still waits,
  once, in the order of submission, whatever steered, although a report of a steer names a text and
  not an entry of the queue; up to the first turn that is ended twice.
- `EveryPromptLeaves`: no end of a turn, a command or a piece of work forgets the queue, whatever
  barred it.
- `RunsOnce`: only a request older than the ledger's bound can run again.
- `GrantsMatch`: an approval counts for the turn or the sub-agent that asked, while it goes on, for
  what it asked, and leaves no seal behind.
- `StdinResumes`: a paused input is never what the operations in flight wait for.
- `LockExcludes`: two processes inside one operation always means that its lock was raced for, and no
  race for one operation's lock reaches another's.
- `CrashIsSeen`: the target files of an operation that `reconcile()` does not report hold exactly
  what the record says, wherever processes died and whichever writes failed.
- `NoReplay`: an operation's record only moves forward, whatever the processes do with it.
- `SupersededLanded`: an operation is marked superseded only once another has landed with its bytes.
- `StartsAreAsked`: every start of an attempt uses up one creation or retry; recovery never starts.
- `OneWorker`: of the workers whose results the store still waits for no two are on one job.
- `CancelStops`: the flag that `requestCancel` leaves for another process's worker ends that worker,
  unless a steer takes it out of the heartbeat's reach first.

### Disagreements of the code with its own text

Each is the counterexample of a run, quoted with its lines in `PROJECT.json` (`findings`).

1. `one_turn`. `close()` and the terminal's `stop()` drop the grant before the turn they abort has
   unwound, so the next waiter's turn runs beside it; `runLock.ts` promises one turn at a time.
   `OnlyTornOverlap` proves that no other two turns ever overlap.
2. `ghost_ask`. The transport-gone timer is armed by a detach that finds an ask parked. An ask
   parked after the last browser left gets none, and holds the run lock until somebody interrupts
   it; `registry.ts` promises a closed tab cannot do that. `OnlyBornOrphans` proves that no ask
   becomes unreachable later: the parking is the one place to mend.
3. `lock_race`. Two processes read the same dead holder's pid and both unlink "the" lock
   (`mutation.ts:278-279`); the second unlinks the one the first has just taken, and both are inside
   the operation, where the comment above promises that a live holder's lock fails closed. It takes
   three processes. `ExclusionUnlessRaced` proves that nothing else breaks a lock.
4. `promoted_worker`. A steer that frees the turn waiting for a synchronous sub-agent reports its job
   failed while it works on (`agentTool.ts:846`); the job can be retried and claimed beside it, no
   cancel request reaches it through the store, and its real outcome is dropped. `prepareRetry`
   refuses a job that "already has active or pending work". `RetryFindsOnlyPromoted` proves that no
   other worker is ever in the way of a retry.
5. `prompt_order`. The full-screen terminal ends a turn whose wait for the run lock is aborted twice
   (`app.ts:1582` and the `finally` at `1656`). The second end takes the prompt that the first one's
   drain has just begun for ended and drains again, so the next submission runs beside or before it,
   against the comment on fairness at `app.ts:1472`. `InkKeepsOrder` proves that the Ink terminal
   never does.

Two more are stated and proved about, without a run of their own. A check that was started before a
retry and ends after it becomes the verdict on the retry (`projectJobs.ts:94`, `jobStore.ts:240`),
where `prepareRetry` says a new attempt needs new evidence: `AcceptedOnItsOwnEvidence` of `JobStore`
fails (added to `JobStore.cfg` as an invariant, it has a short counterexample), and
`EvidenceUnlessRetried` proves that a retry while the job is being judged is the only cause. And the
record `applied` is fsynced while the target's rename is not (`mutation.ts:377`), so after a power
loss the journal may be clean over a file with its old bytes: `CrashIsSeen` is stated up to the first
power loss (`RecordsAreTrue`).

## 4. The proofs

All theorems hold for every value of the constants under the named assumptions of their modules
(`CallsAssumption`, `LoopAssumption`, `JournalAssumption`, `JobAssumption`,
`TurnsAssumption`, `PeerAssumption`, `RecoveryAssumption`, `PromptAssumption`: sets do not
contain the null value, bounds are natural numbers, responses are sequences of calls), which TLC
evaluates in the runs. No theorem assumes how large an instance is, save `TwoProcessesExclude` and the
bound on sessions in `PeerAssumption`, which is the source's; none assumes fairness.

**`RunLockProofs`.** The inductive invariant is `IInv` of `RunLock`: types; the queue and the
promises agree (`QueueIsWaiting`); the lock is never free with a queue behind it; the operator's
calls stand first; the current grant was given. `NeverWedged` alone is not inductive: that `pump()`
serves *somebody* needs every queued call to be waiting, and that `OnAbort` removes the right one
needs each to stand in the queue once. The lemmas describe what inserting into, thinning and
shortening the queue does (`InsertFacts` and its neighbours), then what `Dispatch` does to a queue
that agrees with its promises; each action is then a few lines. From the invariant follow
`LockTyped`, `LockNeverWedged`, `GrantsInTurn` (an action property) and `LockImplementsMutex`: the
initial states map to the mutex's, and each step maps to `Wait`, `Take`, `TurnAway`, `GiveUp`,
`HandOver` or a stutter. What an operation does to the invariant, to the order of service and to the
mutex is a lemma on that operation alone (`AcquireSettles`, `AcquireInTurn`, `AcquireRefines` and their
neighbours), which the proofs about the lock's callers cite.

**`AgentLoopProofs`.** The invariant `IInv` has ten parts, each with a lemma saying that a step preserves
it. Most actions are one of two shapes: a *thinking* step outside a batch, which leaves the batch
alone (`ThinkingFrame`), or a step of one call, which leaves the loop alone (`CallFrame`) and does
one of five things to the call's state and the dialogs (`CallShapes`): goes on without a dialog,
opens one, has it answered, loses it, or is skipped with the rest of its batch. `DialogsMatchCalls`
needs that only a batch has calls (`BatchInv`) and that only lead runs are steered (`RoleInv`, or a
steer could arrive between a background run's gate and its spend dialog); `BatchInv` in turn needs
that the dialog being answered belongs to a call of the batch. `OverrunBounded` becomes inductive
with *where* a run that has overrun can be: past every check. Sixteen lines (`LastOf`) prove that a
nonempty set of slots has a last one, from the library's well-foundedness of the naturals: the loop
guard counts on from the last call of a parallel batch. The theorems are `LoopTyped` (with it, that
a provider turn sends at most four requests, so the code behind that loop is dead; `OneTurnOver`
counts on it),
`HistoryPaired`, `NeverPoisoned`, `OneTurnOver`, `DialogsAreAwaited`, `NothingStartsLate` (an
action property) and `LoopImplementsSteer`: thinking steps map to `Inject`, `End` or a stutter,
steps of calls and interrupts to `Act`, `Rest` or a stutter, the user's steer to `Request`.

`RepeatsStop` (`RepeatsBounded`) has an invariant of its own, `RepeatInv`, on top of `IInv`. The
property counts whole batches (`streak`), the loop guard counts calls and is set back to `before` after
a parallel batch: the two disagree after nearly every batch. What holds is that the guard, and what it
will be set back to, is never behind the streak (`BeforeCounts`, `GuardCounts`) as long as everything
the batch has considered is the repeated tool, and that in a serial batch one considered call puts the
guard ahead by one (`SerialCounts`). A call that passed the guard therefore stands under the limit
(`UnderLimit`); a background call waits outside the count, but only in runs that are not leads
(`HeldApart`). None of this holds after an interrupt, which is why the invariant then says that no
tool runs instead.

**`MutationJournalProofs`.** `JInv` is `TypeOK` with four parts. `CallInv`: a process in a call is on
an operation that has a record, and what it has still to visit are targets of it. `LockInv`: a
process past `acquireLock()` finds its own name in the lock file. `RecordInv`: what it read of its
record still stands. `DiskInv`: until a power loss, the records are true, and a process half way
through its targets has written the visited ones and found the others as expected. Exclusion is what
makes the last two inductive. `LockInv`, and with it the other two, is stated of the operations whose
lock was not raced for (`raced`), and is inductive as it stands: a race for one lock reaches no other
operation. So `JournalInvariant`, `JournalTyped`, `ExclusionUnlessRaced`, `CrashesAreSeen`,
`NothingIsReplayed` and `AbandonedStaysLocked` assume nothing of the processes. A race takes a dead
holder and two who find it dead; with two processes there is none, and `TwoProcessesExclude` gives the
promise as it is written (`OneHolder`).
`AbandonedStaysLocked` is about the lock file whose creator died, or ran out of disk, before its pid
was in it: nobody takes it for a dead holder's, and the record it bars stays as it is.

**`CrashRecoveryProofs`.** `RInv` follows a retry: while a process is at work on the new operation,
it is the process whose retry it is, and the new operation holds the bytes of the old one; that
process sets the mark only when its last call has landed; and what has landed stays landed.
`MarksAreTrue` follows, for any number of processes and whatever lock is raced for: two processes may
then be inside the old operation, but only one of them made the new one.

`RecoveryIsJournal` proves `RecoverySpec => Spec`: whatever is kept, retried or superseded, the
journal's variables take steps of the journal only. The retry prepares a copy of the old
operation's plan. `prepare()` itself could have made that plan at this moment (`RetryPrepares`): plans
are well made (`MadeInv`), and a retry demands that the targets hold what they held when the old one
was prepared.
`RecoveryKeepsPromises` then has exclusion, visible crashes and freedom from replay for the recovery too.

**`JobStoreProofs`.** `JobInv`: each worker owns the running attempt of its job and lives in the
process recorded as its owner (`WorkersOwn`), from which `OneWorker` follows: recovery touches only
jobs whose owner is dead, hence without workers. Both are about workers that no steer promoted: a
promoted one owns nothing any more and may work beside the next attempt. What is pending was asked
for (`PendingIsAsked`). Dependencies exist (`DepsKnown`) and close no circle: the code looks for
circles from the rewired job only, which is enough because a new circle must pass through it. The
theorems are `JobInvariant`, `JobsTyped`, `NoTwoWorkers`, `NothingWaitsForItself`, `NothingRestarts`
and `RetryFindsOnlyPromoted` (an action property: what may be at work on a job that is retried).
`EvidenceUnlessRetried` proves `AcceptedOnItsOwnEvidence`, which the code does not keep, of every
behaviour in which no job is retried while a check of it runs or its worker has still to judge it.
That condition is an action formula, `[][NoRetryWhileJudged]_vars`; under it whoever judges a job
judges its last attempt (`EvidenceInv`), through crashes, cancellations and verdicts that cannot be
stored.

**`RpcPeerProofs`.** Two invariants. `SealInv`: the seals are those of the approval requests that
wait, of turns and of sub-agents that outlived theirs, and no two of these have one wire id; from it
follows `GrantsAreMatched`. `OpsInv`: what is
live is counted, within the bound, under distinct ids, and not answered yet (`LiveInv`); an id with
`since[i]` outcomes recorded after its own stands `since[i]` places from the end of the ledger
(`LedgerInv`), which is what eviction preserves; nothing was recorded before the handshake
(`PeerInv`). `RemoveFacts` and `RememberFacts` say what settling an operation and recording outcomes
do to these sequences. The theorems are `PeerTyped`, `AnswersAreSingle` and `RequestsRunOnce` (an
action property).

A third, `PausedInv`, says that stdin is paused only at the bound. `PauseIsNeverFinal`: each operation
whose handler may wait for the editor is the running prompt of its session, a session runs one prompt,
and there are fewer sessions than the bound, so of the operations that fill it one needs nothing that
only stdin brings (`SomeHandlerIsFree`, the library's pigeonhole). `SettlingResumes`: the first to
settle lifts the pause.

**`PromptQueueProofs`.** `TypeOK` of the queue is inductive: with the types goes the agreement of
two records of one fact, the message the terminal remembers (`pending`) and the text the loop has
still to inject (`steer`), which is `SteersAgree`. `IdleInv` says that nothing waits in a terminal at
rest; it does not ask how often a turn was ended, since each end drains, so `IdleHasDrained` is
without exception but for a refusal that strands the queue. `OrderInv` carries the order, up to the
first turn that is ended twice. The conversation, the prompts that wait for the lock and the queue
behind them, `Line`, hold what was submitted, each submission once, less what was answered aside or
dropped (`Holds`), in the order of submission until a refusal strands the queue (`Ordered`). The hard
step is the report of a steer, which removes the *first* entry with its text (`FirstWithText`): that
this is the steered entry, and not another with the same text, holds because a message steers only
when nothing waits in front of it, so while it is pending it is the head of the queue
(`PendingIsHead`); and what it steers is the last that was begun, since only one turn is under way
(`OneTurn`), which is what a turn ended twice breaks. The theorems are `NonePassesAnother`
(`InOrder`), `SteerIsTheHead` and, from `InkInv`, which says that no turn of the Ink terminal is ended
twice and no refusal strands it, `InkKeepsOrder`; they are about sequences by their elements and
positions, so no recursive operator comes into them.

**`SessionTurnsProofs`.** The invariant `TInv` says of each call where it is and what the lock has
for it (`CallInv`): new until it queues, granted during its turn, never waiting once it is done; a
granted call owns the lock unless its holder was torn down; and what was interrupted or torn down
while it queued has been turned away or has no agent to run on. Of each prompt in flight it says what
its session has for it (`DriveInv`): the controller, the state of the build, the status. Of each
session it says what may be there at all (`SessionInv`): an agent only of an open session, an ask only
during the turn that the controller is for. `GrantFollowsTurn` alone is not inductive: that
`releaseFor()` takes no other turn's grant needs the lock's own invariant, and that an interrupt
reaches the prompt in flight needs `DriveInv`. The lock is used by what `RunLockProofs` proves of its
operations (`LockFacts == INSTANCE RunLockProofs`: `AcquireSettles`, `ReleaseSettles`,
`ReleaseForSettles`, `OnAbortSettles`), each of which is turned once into what it means for the
promises of the calls (`AcquireMoves` and its neighbours); the queue is not looked into again. The
theorems are `TurnsTyped`, `GrantsFollowTurns`, `AsksHaveTurns`, `DrivesAreSingle`, `StopsOnce`,
`ClosedStaysEmpty` and `NothingStartsCancelled` (an action property). They are about `Spec`, whose
sessions all start open; the run starts with one prompt spent, which keeps its state space small.

What `RunLock` proves of calls that come and go as they like is then proved of the calls as the
sessions and the terminal make them: each step of the composition does one thing to the lock or
nothing (`OneLockStep`), so `TurnsImplementMutex`, `TurnsInOrder` and `TurnsNeverWedge` follow from the
per-operation lemmas. Two theorems say where the disagreements of section 3 come from and that they
come from nowhere else. `OnlyTornOverlap`: of two turns that run at once one was torn down.
`OnlyBornOrphans` (an action property): an ask that somebody attached could answer, or that the timer
would deny, never loses both. It needs that a turn whose session was closed was torn down with it
(`OpenInv`).

**Only model-checked.** Liveness (`NoStarvation`, `InterruptEnds`, `CancelTakesEffect`,
`EveryPromptLeaves`, `StdinResumes`, `CancelStops`), which the prover does not handle. Of three of
these a theorem has the safety half, for every instance: `TurnsNeverWedge` for the first,
`IdleHasDrained` for `EveryPromptLeaves`, `PauseIsNeverFinal` and `SettlingResumes` for
`StdinResumes`; that the step which is always possible is also taken is left to the runs. Every
invariant and every action property of a passing run, and every refinement, is stated by a theorem.

Induction over data is avoided rather than done: where a proof needs the first or the last of
something (`FirstWithText`, `LastOf`), it takes a minimal element of an explicit set of naturals by the
library's well-foundedness; where a counter matters (the ledger, the loop guard), the induction is
over the steps of the behaviour.

## 5. What is left

Not modelled of the parts above: session creation and its limit, the editor's permission gate in a
browser session and `session/load`, the mirrored terminal session, a model or autonomy change during
a browser's turn; collaboration (which records a verdict before it finishes its jobs, with one
attempt each), room messages and read cursors, retained worktree artifacts; a wakeup of the Ink
terminal, which looks at the running turn only and may start one beside a compaction
(`tui.tsx:2223-2238`), where the full-screen terminal asks for both (`app.ts:1530`). The lock file's
empty state after a crash is modelled, and fails closed as intended (`AbandonedStaysLocked`); a target changed between the
comparison and the write is modelled too, and is lost as the code's non-atomic check implies.

Candidates, most important first: `McpClient` (pending calls against reconnect and close),
`RefreshLock` (one-time tokens between processes), `CandidateStore` (promotion across a crash); the
sub-agents' concurrency cap and budget reservations, the replay ring of the session stream, the
endpoint switch queued behind a turn, background shells, the session log across a crash.

Bounds for new runs follow the same rule as above: the smallest instance in which each guard can be
both true and false and each pair of actors can interfere.
