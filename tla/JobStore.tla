------------------------------ MODULE JobStore ------------------------------
(***************************************************************************)
(* The project's jobs (src/state/jobStore.ts) and those who work on them:  *)
(* workers started by the `agent` tool (src/tools/agentTool.ts) and the    *)
(* checks of their results (src/tools/projectJobs.ts), in processes that   *)
(* share one database and may die.                                         *)
(*                                                                         *)
(* A method of the store is one IMMEDIATE transaction, hence one step. An  *)
(* owner token is fresh for each claim, so the number of the attempt stands*)
(* for it, and an attempt's status repeats its job's. Inputs, profiles,    *)
(* artifact references, usage and room messages are data no step decides   *)
(* on. Partial, failed, cancelled and interrupted are one outcome to every *)
(* step (incomplete), failed and unverified one verdict (unverified).      *)
(***************************************************************************)
EXTENDS Naturals, Sequences, FiniteSets

CONSTANTS
  Jobs,          (* the ids of jobs                                          *)
  Procs,         (* the processes that open the store                        *)
  Null,          (* no job                                                   *)
  Limit,         (* each job's maxAttempts                                   *)
  MaxChecks      (* bound on the checks that run at a time                   *)

ASSUME JobAssumption ==
  /\ Null \notin Jobs
  /\ Limit \in [Jobs -> Nat \ {0}]
  /\ MaxChecks \in Nat

VARIABLES
  status,        (* each job's status, "none" before it is created           *)
  deps, mode,    (* the jobs it depends on, and how they must have ended     *)
  parent,        (* the job whose worker created it, or Null                 *)
  attempts,      (* its attempts: the process that owns each                 *)
  acceptance,    (* the recorded verdict                                     *)
  cancel,        (* the jobs whose cancellation is requested                 *)
  alive,         (* the processes that live                                  *)
  workers,       (* the workers: process, job, attempt, and how they stand   *)
  settling,      (* per process, the attempt whose result it judges          *)
  checks,        (* the shell checks that run: process, job, attempt         *)
  evidence,      (* the attempt a passing verdict was formed on              *)
  asked          (* the jobs that may start: created, retried, not cancelled *)

store == <<status, deps, mode, parent, attempts, acceptance, cancel>>
processes == <<alive, workers, settling, checks>>
history == <<evidence, asked>>
vars == <<status, deps, mode, parent, attempts, acceptance, cancel, alive, workers, settling,
          checks, evidence, asked>>

Ended == {"completed", "incomplete"}
Statuses == {"none", "pending", "running"} \cup Ended
Modes == {"accepted", "finished"}
Verdicts == {"passed", "unverified"}

Judged == [job : Jobs, attempt : Nat]
(* A worker works, was told to stop, or works on after its turn was steered. *)
Workers == [by : Procs, job : Jobs, attempt : Nat, phase : {"works", "aborted", "promoted"}]
Checks == [by : Procs, job : Jobs, attempt : Nat]

Init ==
  /\ status = [j \in Jobs |-> "none"]
  /\ deps = [j \in Jobs |-> {}]
  /\ mode = [j \in Jobs |-> "accepted"]
  /\ parent = [j \in Jobs |-> Null]
  /\ attempts = [j \in Jobs |-> <<>>]
  /\ acceptance = [j \in Jobs |-> "unverified"]
  /\ cancel = {}
  /\ alive = Procs
  /\ workers = {}
  /\ settling = [p \in Procs |-> Null]
  /\ checks = {}
  /\ evidence = [j \in Jobs |-> 0]
  /\ asked = {}

-----------------------------------------------------------------------------
Known == {j \in Jobs : status[j] # "none"}
Last(j) == Len(attempts[j])

(* A process whose event loop is free to run the next call.                  *)
Runs(p) == p \in alive /\ settling[p] = Null

(* assertAcyclic(): following dependencies from j never ends.                *)
CycleFrom(j, d) == \E S \in SUBSET Jobs : j \in S /\ \A k \in S : d[k] \cap S # {}

Blockers(j) ==
  {k \in deps[j] :
     IF mode[j] = "finished" THEN status[k] \in {"pending", "running"}
                             ELSE status[k] # "completed" \/ acceptance[k] # "passed"}

(* The job, its children, and theirs.                                        *)
Family(j) ==
  {k \in Jobs : \A S \in SUBSET Jobs :
     j \in S /\ (\A c \in Jobs : parent[c] \in S => c \in S) => k \in S}

(* The workers whose heartbeat runs and whose result will be reported.       *)
Attached == {w \in workers : w.phase # "promoted"}

(* The token in the worker's hands is that of the job's running attempt.     *)
Owns(w) == status[w.job] = "running" /\ Last(w.job) = w.attempt

Judge(j, verdict, n) ==
  /\ acceptance' = [acceptance EXCEPT ![j] = verdict]
  /\ evidence' = [evidence EXCEPT ![j] = IF verdict = "passed" THEN n ELSE 0]

-----------------------------------------------------------------------------
(* createJob(): by the operator, or by a worker for a child of its job.      *)
CreateJob(p, j, creator) ==
  /\ Runs(p)
  /\ status[j] = "none"
  /\ creator = Null \/ \E w \in workers : w.by = p /\ w.job = creator
  /\ \E D \in SUBSET Known, m \in Modes :
       /\ deps' = [deps EXCEPT ![j] = D]
       /\ mode' = [mode EXCEPT ![j] = m]
  /\ parent' = [parent EXCEPT ![j] = creator]
  /\ status' = [status EXCEPT ![j] = "pending"]
  /\ asked' = asked \cup {j}
  /\ UNCHANGED <<attempts, acceptance, cancel, processes, evidence>>

(* Faulty: only a dependency of a job on itself is refused.                  *)
SetDependenciesDirect(p, j, D, m) ==
  /\ Runs(p)
  /\ status[j] = "pending"
  /\ D \subseteq Known \ {j}
  /\ deps' = [deps EXCEPT ![j] = D]
  /\ mode' = [mode EXCEPT ![j] = m]
  /\ UNCHANGED <<status, parent, attempts, acceptance, cancel, processes, history>>

SetDependencies(p, j, D, m) ==
  /\ Runs(p)
  /\ status[j] = "pending"
  /\ D \subseteq Known
  /\ deps' = [deps EXCEPT ![j] = D]
  /\ mode' = [mode EXCEPT ![j] = m]
  /\ ~CycleFrom(j, deps')
  /\ UNCHANGED <<status, parent, attempts, acceptance, cancel, processes, history>>

(* claimAttempt(): a worker starts on a pending job that nothing blocks.     *)
ClaimAttempt(p, j) ==
  /\ Runs(p)
  /\ status[j] = "pending"
  /\ Blockers(j) = {}
  /\ Last(j) < Limit[j]
  /\ attempts' = [attempts EXCEPT ![j] = Append(@, p)]
  /\ status' = [status EXCEPT ![j] = "running"]
  /\ workers' = workers \cup {[by |-> p, job |-> j, attempt |-> Last(j) + 1, phase |-> "works"]}
  /\ asked' = asked \ {j}
  /\ UNCHANGED <<deps, mode, parent, acceptance, cancel, alive, settling, checks, evidence>>

(* Faulty: the refusal is recorded as the verdict.                           *)
RejectPendingAsVerdict(p, j) ==
  /\ Runs(p)
  /\ status[j] = "pending"
  /\ status' = [status EXCEPT ![j] = "incomplete"]
  /\ Judge(j, "rejected", 0)
  /\ asked' = asked \ {j}
  /\ UNCHANGED <<deps, mode, parent, attempts, cancel, processes>>

(* rejectPending(): the worker could not even start.                         *)
RejectPending(p, j) ==
  /\ Runs(p)
  /\ status[j] = "pending"
  /\ status' = [status EXCEPT ![j] = "incomplete"]
  /\ Judge(j, "unverified", 0)
  /\ asked' = asked \ {j}
  /\ UNCHANGED <<deps, mode, parent, attempts, cancel, processes>>

-----------------------------------------------------------------------------
(* Faulty: the answer to the heartbeat is dropped.                           *)
HeartbeatIgnored(w) ==
  /\ Runs(w.by)
  /\ Owns(w)
  /\ UNCHANGED vars

(* The worker's heartbeat finds its job cancelled and aborts the worker.     *)
Heartbeat(w) ==
  /\ Runs(w.by)
  /\ w.phase = "works"
  /\ Owns(w) /\ w.job \in cancel
  /\ workers' = (workers \ {w}) \cup {[w EXCEPT !.phase = "aborted"]}
  /\ UNCHANGED <<store, alive, settling, checks, history>>

(* finishAttempt() takes the result of the owner, which then judges it. A    *)
(* stale worker's result is refused.                                         *)
Report(w, s) ==
  IF Owns(w)
  THEN /\ status' = [status EXCEPT ![w.job] = s]
       /\ settling' = [settling EXCEPT ![w.by] = [job |-> w.job, attempt |-> w.attempt]]
  ELSE UNCHANGED <<status, settling>>

(* A steer reached the turn that waits for the worker: its job is reported   *)
(* failed (unless the disk is full) and its heartbeat ends, and it works on. *)
Promote(w) ==
  /\ Runs(w.by)
  /\ w.phase = "works"
  /\ workers' = (workers \ {w}) \cup {[w EXCEPT !.phase = "promoted"]}
  /\ Report(w, "incomplete") \/ UNCHANGED <<status, settling>>
  /\ UNCHANGED <<deps, mode, parent, attempts, acceptance, cancel, alive, checks, history>>

(* The worker's loop is over. What a promoted worker brings is dropped: its  *)
(* job is taken for finished (jobFinished).                                  *)
FinishAttempt(w, s) ==
  /\ Runs(w.by)
  /\ workers' = workers \ {w}
  /\ IF w \in Attached THEN Report(w, s) ELSE UNCHANGED <<status, settling>>
  /\ UNCHANGED <<deps, mode, parent, attempts, acceptance, cancel, alive, checks, history>>

(* The result cannot be stored (the disk is full): the worker is gone.       *)
FinishFails(w) ==
  /\ Runs(w.by)
  /\ workers' = workers \ {w}
  /\ UNCHANGED <<store, alive, settling, checks, history>>

(* recordAcceptance() by the worker: a transaction of its own, which fails   *)
(* on a full disk.                                                           *)
Settle(p, verdict) ==
  /\ p \in alive /\ settling[p] # Null
  /\ \/ Judge(settling[p].job, verdict, settling[p].attempt)
     \/ UNCHANGED <<acceptance, evidence>>
  /\ settling' = [settling EXCEPT ![p] = Null]
  /\ UNCHANGED <<status, deps, mode, parent, attempts, cancel, alive, workers, checks, asked>>

(* acceptance_check reads a job that has ended and starts the shell.         *)
StartCheck(p, j) ==
  /\ Runs(p)
  /\ status[j] \in Ended
  /\ Cardinality(checks) < MaxChecks
  /\ checks' = checks \cup {[by |-> p, job |-> j, attempt |-> Last(j)]}
  /\ UNCHANGED <<store, alive, workers, settling, history>>

(* The shell returned: the verdict is recorded, whatever the job is now,     *)
(* unless the checkout is gone.                                              *)
EndCheck(c, verdict) ==
  /\ Runs(c.by)
  /\ checks' = checks \ {c}
  /\ \/ Judge(c.job, verdict, c.attempt)
     \/ UNCHANGED <<acceptance, evidence>>
  /\ UNCHANGED <<status, deps, mode, parent, attempts, cancel, alive, workers, settling, asked>>

-----------------------------------------------------------------------------
(* prepareRetry(): the operator wants another attempt.                       *)
PrepareRetry(p, j) ==
  /\ Runs(p)
  /\ status[j] \in Ended
  /\ Last(j) < Limit[j]
  /\ status' = [status EXCEPT ![j] = "pending"]
  /\ Judge(j, "unverified", 0)
  /\ cancel' = cancel \ {j}
  /\ asked' = asked \cup {j}
  /\ UNCHANGED <<deps, mode, parent, attempts, processes>>

(* Faulty: the flag is set on what runs, and the pending keep their status.  *)
RequestCancelRunning(p, j) ==
  /\ Runs(p)
  /\ j \in Known
  /\ LET hit == {k \in Family(j) : status[k] \in {"pending", "running"}} IN
       /\ cancel' = cancel \cup hit
       /\ asked' = asked \ hit
  /\ UNCHANGED <<status, deps, mode, parent, attempts, acceptance, processes, evidence>>

(* requestCancel(): whatever of the family waits is cancelled, whatever runs *)
(* will be told.                                                             *)
RequestCancel(p, j) ==
  /\ Runs(p)
  /\ j \in Known
  /\ LET hit == {k \in Family(j) : status[k] \in {"pending", "running"}} IN
       /\ cancel' = cancel \cup hit
       /\ status' = [k \in Jobs |-> IF k \in hit /\ status[k] = "pending"
                                    THEN "incomplete" ELSE status[k]]
       /\ asked' = asked \ hit
  /\ UNCHANGED <<deps, mode, parent, attempts, acceptance, processes, evidence>>

(* Faulty: any running job is taken for an orphan.                           *)
RecoverAll(p) ==
  /\ Runs(p)
  /\ LET lost == {j \in Jobs : status[j] = "running"} IN
       /\ status' = [j \in Jobs |-> IF j \in lost THEN "incomplete" ELSE status[j]]
       /\ acceptance' = [j \in Jobs |-> IF j \in lost THEN "unverified" ELSE acceptance[j]]
       /\ evidence' = [j \in Jobs |-> IF j \in lost THEN 0 ELSE evidence[j]]
  /\ UNCHANGED <<deps, mode, parent, attempts, cancel, processes, asked>>

(* recoverOrphans(): the running jobs of dead owners are interrupted.        *)
RecoverOrphans(p) ==
  /\ Runs(p)
  /\ LET lost == {j \in Jobs : status[j] = "running" /\ attempts[j][Last(j)] \notin alive} IN
       /\ status' = [j \in Jobs |-> IF j \in lost THEN "incomplete" ELSE status[j]]
       /\ acceptance' = [j \in Jobs |-> IF j \in lost THEN "unverified" ELSE acceptance[j]]
       /\ evidence' = [j \in Jobs |-> IF j \in lost THEN 0 ELSE evidence[j]]
  /\ UNCHANGED <<deps, mode, parent, attempts, cancel, processes, asked>>

(* A process dies, and with it its workers and checks.                       *)
Crash(p) ==
  /\ p \in alive
  /\ alive' = alive \ {p}
  /\ workers' = {w \in workers : w.by # p}
  /\ checks' = {c \in checks : c.by # p}
  /\ settling' = [settling EXCEPT ![p] = Null]
  /\ UNCHANGED <<store, history>>

-----------------------------------------------------------------------------
Next ==
  \/ \E p \in Procs :
       \/ \E j \in Jobs :
            \/ \E creator \in Jobs \cup {Null} : CreateJob(p, j, creator)
            \/ \E D \in SUBSET Jobs, m \in Modes : SetDependencies(p, j, D, m)
            \/ ClaimAttempt(p, j)
            \/ RejectPending(p, j) \/ StartCheck(p, j)
            \/ PrepareRetry(p, j) \/ RequestCancel(p, j)
       \/ \E verdict \in Verdicts : Settle(p, verdict)
       \/ RecoverOrphans(p)
       \/ Crash(p)
  \/ \E w \in workers : \/ Heartbeat(w) \/ Promote(w) \/ FinishFails(w)
                        \/ \E s \in Ended : FinishAttempt(w, s)
  \/ \E c \in checks, verdict \in Verdicts : EndCheck(c, verdict)

(* A process settles what it finished, the heartbeat's interval fires, and a *)
(* worker that was aborted comes to its end.                                 *)
Fairness ==
  /\ \A p \in Procs : WF_vars(\E verdict \in Verdicts : Settle(p, verdict))
  /\ \A p \in Procs, j \in Jobs : \A n \in 1..Limit[j] :
       LET worker(phase) == [by |-> p, job |-> j, attempt |-> n, phase |-> phase]
           works == worker("works")
           aborted == worker("aborted")
       IN  /\ WF_vars(works \in workers /\ Heartbeat(works))
           /\ WF_vars(aborted \in workers /\ \E s \in Ended : FinishAttempt(aborted, s))

Spec == Init /\ [][Next]_vars
FairSpec == Spec /\ Fairness

-----------------------------------------------------------------------------
TypeOK ==
  /\ status \in [Jobs -> Statuses]
  /\ deps \in [Jobs -> SUBSET Jobs]
  /\ mode \in [Jobs -> Modes]
  /\ parent \in [Jobs -> Jobs \cup {Null}]
  /\ attempts \in [Jobs -> Seq(Procs)]
  /\ \A j \in Jobs : Len(attempts[j]) <= Limit[j]
  /\ acceptance \in [Jobs -> Verdicts]
  /\ cancel \in SUBSET Jobs
  /\ alive \in SUBSET Procs
  /\ workers \in SUBSET Workers
  /\ settling \in [Procs -> Judged \cup {Null}]
  /\ checks \in SUBSET Checks
  /\ evidence \in [Jobs -> Nat]
  /\ asked \in SUBSET Jobs

(* jobStore.ts: "A heartbeat timeout alone never steals a live process's     *)
(* work": never two workers on one job, whichever process dies, recovers and *)
(* retries when. Workers a steer promoted are left out: see RetryFindsNoWork.*)
OneWorker == \A v, w \in Attached : v.job = w.job => v = w

(* prepareRetry(): "Job already has active or pending work": a job that is   *)
(* retried has no worker left at work on it.                                 *)
RetryFindsNoWork ==
  [][\A j \in Jobs : status[j] \in Ended /\ status'[j] = "pending" =>
       \A w \in workers : w.job # j]_vars

(* "dead owners become interrupted, never auto-restarted", and what was      *)
(* cancelled stays so: a job starts once per creation or explicit retry.     *)
StartsAreAsked ==
  [][\A j \in Jobs : Len(attempts'[j]) > Len(attempts[j]) => j \in asked]_vars

(* No jobs wait for each other in a circle, whatever is created and rewired. *)
NoCircularWait == \A j \in Jobs : ~CycleFrom(j, deps)

(* A worker whose job is cancelled comes to its end, or a steer takes it out *)
(* of the reach of its heartbeat.                                            *)
CancelStops ==
  \A p \in Procs, j \in Jobs : \A n \in 1..Limit[j] :
    LET works == \E w \in Attached : w.by = p /\ w.job = j /\ w.attempt = n IN
      works /\ j \in cancel ~> ~works

(* prepareRetry(): "A new attempt needs new acceptance evidence.": once the  *)
(* workers' results are judged, a job that passed did so on its last attempt.*)
AcceptedOnItsOwnEvidence ==
  (\A p \in Procs : settling[p] = Null) =>
    \A j \in Jobs : status[j] = "completed" /\ acceptance[j] = "passed" =>
                      evidence[j] = Len(attempts[j])
=============================================================================
