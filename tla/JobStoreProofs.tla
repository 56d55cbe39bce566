--------------------------- MODULE JobStoreProofs ---------------------------
(***************************************************************************)
(* What the job store keeps for any jobs, processes and limits: a worker   *)
(* that no steer promoted owns the running attempt of its job, so there is *)
(* one such worker at most; a job that may start was asked for; nothing    *)
(* waits for itself; a retry finds no worker but promoted ones; and a      *)
(* verdict is on the last attempt unless the job was retried while judged. *)
(***************************************************************************)
EXTENDS JobStore, TLAPS

(* A worker lives in the process that owns its job's running attempt, unless *)
(* a steer promoted it.                                                      *)
WorkersOwn ==
  \A w \in Attached : /\ Owns(w)
                      /\ w.by \in alive
                      /\ attempts[w.job][w.attempt] = w.by
RunningHasAttempt == \A j \in Jobs : status[j] = "running" => Len(attempts[j]) > 0
PendingIsAsked == \A j \in Jobs : status[j] = "pending" => j \in asked
DepsKnown == \A j \in Jobs : deps[j] \subseteq Known

JobInv ==
  /\ TypeOK
  /\ WorkersOwn /\ RunningHasAttempt
  /\ OneWorker
  /\ PendingIsAsked
  /\ DepsKnown /\ NoCircularWait

LEMMA InitInvariant == Init => JobInv
BY JobAssumption
DEF Init, JobInv, TypeOK, WorkersOwn, RunningHasAttempt, OneWorker, PendingIsAsked, DepsKnown,
    NoCircularWait, CycleFrom, Known, Statuses, Modes, Verdicts, Attached

(* A verdict on a known job is well typed, recorded or not.                  *)
LEMMA VerdictTyped ==
  ASSUME TypeOK, NEW j \in Jobs, NEW verdict \in Verdicts, NEW n \in Nat,
         Judge(j, verdict, n) \/ UNCHANGED <<acceptance, evidence>>
  PROVE  acceptance' \in [Jobs -> Verdicts] /\ evidence' \in [Jobs -> Nat]
<1>1. CASE Judge(j, verdict, n)
  BY <1>1 DEF Judge, TypeOK
<1>2. CASE UNCHANGED <<acceptance, evidence>>
  BY <1>2 DEF TypeOK
<1> QED
  BY <1>1, <1>2

(* A report leaves statuses and settlements well typed.                      *)
LEMMA ReportTyped ==
  ASSUME TypeOK, NEW w \in workers, NEW s \in Ended,
         Report(w, s) \/ UNCHANGED <<status, settling>>
  PROVE  status' \in [Jobs -> Statuses] /\ settling' \in [Procs -> Judged \cup {Null}]
<1>1. w.job \in Jobs /\ w.attempt \in Nat /\ w.by \in Procs
  BY DEF TypeOK, Workers
<1>2. [job |-> w.job, attempt |-> w.attempt] \in Judged
  BY <1>1 DEF Judged
<1>3. CASE UNCHANGED <<status, settling>>
  BY <1>3 DEF TypeOK
<1>4. CASE /\ status' = [status EXCEPT ![w.job] = s]
           /\ settling' = [settling EXCEPT ![w.by] = [job |-> w.job, attempt |-> w.attempt]]
  BY <1>2, <1>4 DEF TypeOK, Statuses
<1> QED
  BY <1>3, <1>4 DEF Report

LEMMA TypeStep == ASSUME TypeOK, WorkersOwn, RunningHasAttempt, [Next]_vars PROVE TypeOK'
<1> USE JobAssumption DEF TypeOK, store, processes, history, Statuses, Modes, Verdicts, Ended, Judge
<1>1. ASSUME NEW p \in Procs, NEW j \in Jobs, NEW c \in Jobs \cup {Null}, CreateJob(p, j, c)
      PROVE  TypeOK'
  BY <1>1 DEF CreateJob, Known
<1>2. ASSUME NEW p \in Procs, NEW j \in Jobs, NEW D \in SUBSET Jobs, NEW m \in Modes,
             SetDependencies(p, j, D, m)
      PROVE  TypeOK'
  BY <1>2 DEF SetDependencies
<1>3. ASSUME NEW p \in Procs, NEW j \in Jobs, ClaimAttempt(p, j) PROVE TypeOK'
  <2>1. attempts'[j] \in Seq(Procs) /\ Len(attempts'[j]) = Len(attempts[j]) + 1
    BY <1>3 DEF ClaimAttempt
  <2>2. attempts' \in [Jobs -> Seq(Procs)] /\ \A k \in Jobs : Len(attempts'[k]) <= Limit[k]
    BY <1>3, <2>1 DEF ClaimAttempt, Last
  <2>3. workers' \in SUBSET Workers
    BY <1>3 DEF ClaimAttempt, Workers, Last
  <2> QED
    BY <1>3, <2>2, <2>3 DEF ClaimAttempt
<1>4. ASSUME NEW p \in Procs, NEW j \in Jobs,
             RejectPending(p, j) \/ StartCheck(p, j) \/ PrepareRetry(p, j) \/ RequestCancel(p, j)
      PROVE  TypeOK'
  <2>1. CASE RejectPending(p, j)
    BY <2>1 DEF RejectPending
  <2>2. CASE StartCheck(p, j)
    BY <2>2 DEF StartCheck, Checks, Last
  <2>3. CASE PrepareRetry(p, j)
    BY <2>3 DEF PrepareRetry
  <2>4. CASE RequestCancel(p, j)
    BY <2>4 DEF RequestCancel, Family
  <2> QED
    BY <1>4, <2>1, <2>2, <2>3, <2>4
<1>5. ASSUME NEW p \in Procs, NEW verdict \in Verdicts, Settle(p, verdict) PROVE TypeOK'
  <2>1. settling[p].job \in Jobs /\ settling[p].attempt \in Nat
    BY <1>5 DEF Settle, Judged
  <2>2. \/ Judge(settling[p].job, verdict, settling[p].attempt)
        \/ UNCHANGED <<acceptance, evidence>>
    BY <1>5 DEF Settle
  <2>3. acceptance' \in [Jobs -> Verdicts] /\ evidence' \in [Jobs -> Nat]
    BY <2>1, <2>2, VerdictTyped
  <2> QED
    BY <1>5, <2>3 DEF Settle
<1>6. ASSUME NEW p \in Procs, RecoverOrphans(p) PROVE TypeOK'
  BY <1>6 DEF RecoverOrphans
<1>7. ASSUME NEW p \in Procs, Crash(p) PROVE TypeOK'
  BY <1>7 DEF Crash
<1>8. ASSUME NEW w \in workers, Heartbeat(w) PROVE TypeOK'
  BY <1>8 DEF Heartbeat, Workers
<1>9. ASSUME NEW w \in workers, FinishFails(w) PROVE TypeOK'
  BY <1>9 DEF FinishFails
<1>10. ASSUME NEW w \in workers, NEW s \in Ended, FinishAttempt(w, s) PROVE TypeOK'
  <2>1. Report(w, s) \/ UNCHANGED <<status, settling>>
    BY <1>10 DEF FinishAttempt
  <2>2. status' \in [Jobs -> Statuses] /\ settling' \in [Procs -> Judged \cup {Null}]
    BY <2>1, ReportTyped
  <2> QED
    BY <1>10, <2>2 DEF FinishAttempt
<1>13. ASSUME NEW w \in workers, Promote(w) PROVE TypeOK'
  <2>1. Report(w, "incomplete") \/ UNCHANGED <<status, settling>>
    BY <1>13 DEF Promote
  <2>2. status' \in [Jobs -> Statuses] /\ settling' \in [Procs -> Judged \cup {Null}]
    BY <2>1, ReportTyped
  <2>3. workers' \in SUBSET Workers
    BY <1>13 DEF Promote, Workers
  <2> QED
    BY <1>13, <2>2, <2>3 DEF Promote
<1>11. ASSUME NEW c \in checks, NEW verdict \in Verdicts, EndCheck(c, verdict) PROVE TypeOK'
  <2>1. c.job \in Jobs /\ c.attempt \in Nat
    BY DEF Checks
  <2>2. Judge(c.job, verdict, c.attempt) \/ UNCHANGED <<acceptance, evidence>>
    BY <1>11 DEF EndCheck
  <2>3. acceptance' \in [Jobs -> Verdicts] /\ evidence' \in [Jobs -> Nat]
    BY <2>1, <2>2, VerdictTyped
  <2> QED
    BY <1>11, <2>3 DEF EndCheck
<1>12. CASE UNCHANGED vars
  BY <1>12 DEF vars
<1> HIDE DEF TypeOK
<1> QED
  BY <1>1, <1>2, <1>3, <1>4, <1>5, <1>6, <1>7, <1>8, <1>9, <1>10, <1>11, <1>12, <1>13 DEF Next

(* Steps that move no worker: a running job stays so, or its owner is dead.  *)
LEMMA SameWorkers ==
  ASSUME JobInv, Attached' \subseteq Attached, UNCHANGED attempts,
         \A w \in Attached' : w.by \in alive',
         \A j \in Jobs : (\E w \in Attached' : w.job = j) => status'[j] = status[j],
         \A j \in Jobs : status'[j] = "running" => status[j] = "running"
  PROVE  WorkersOwn' /\ RunningHasAttempt' /\ OneWorker'
BY DEF JobInv, TypeOK, WorkersOwn, RunningHasAttempt, OneWorker, Owns, Last, Workers, Attached

LEMMA WorkerStep ==
  ASSUME JobInv, [Next]_vars
  PROVE  WorkersOwn' /\ RunningHasAttempt' /\ OneWorker'
<1> USE DEF store, processes, history, Judge
<1>1. \A w \in Attached : /\ status[w.job] = "running" /\ w.attempt = Len(attempts[w.job])
                          /\ w.by \in alive /\ attempts[w.job][w.attempt] = w.by
                          /\ w.job \in Jobs /\ w.by \in Procs
  BY DEF JobInv, TypeOK, WorkersOwn, Owns, Last, Workers, Attached
<1>2. status \in [Jobs -> Statuses] /\ attempts \in [Jobs -> Seq(Procs)]
  BY DEF JobInv, TypeOK
<1>3. ASSUME NEW p \in Procs, NEW j \in Jobs, NEW c \in Jobs \cup {Null}, CreateJob(p, j, c)
      PROVE  WorkersOwn' /\ RunningHasAttempt' /\ OneWorker'
  BY <1>1, <1>2, <1>3, SameWorkers DEF CreateJob, Attached
<1>4. ASSUME NEW p \in Procs, NEW j \in Jobs, NEW D \in SUBSET Jobs, NEW m \in Modes,
             SetDependencies(p, j, D, m)
      PROVE  WorkersOwn' /\ RunningHasAttempt' /\ OneWorker'
  BY <1>1, <1>2, <1>4, SameWorkers DEF SetDependencies, Attached
<1>5. ASSUME NEW p \in Procs, NEW j \in Jobs, ClaimAttempt(p, j)
      PROVE  WorkersOwn' /\ RunningHasAttempt' /\ OneWorker'
  <2> DEFINE new == [by |-> p, job |-> j, attempt |-> Len(attempts[j]) + 1, phase |-> "works"]
  <2>1. /\ workers' = workers \cup {new} /\ status[j] = "pending" /\ status'[j] = "running"
        /\ \A k \in Jobs \ {j} : status'[k] = status[k] /\ attempts'[k] = attempts[k]
        /\ p \in alive /\ UNCHANGED alive
    BY <1>2, <1>5 DEF ClaimAttempt, Runs, Last
  <2>2. /\ Len(attempts'[j]) = Len(attempts[j]) + 1
        /\ attempts'[j][Len(attempts[j]) + 1] = p
    BY <1>2, <1>5 DEF ClaimAttempt
  <2>3. \A w \in Attached : w.job # j
    BY <1>1, <2>1
  <2>4. /\ new.by = p /\ new.job = j /\ new.attempt = Len(attempts[j]) + 1
        /\ Attached' = Attached \cup {new}
    BY <2>1 DEF Attached
  <2> HIDE DEF new
  <2>5. WorkersOwn'
    BY <1>1, <2>1, <2>2, <2>3, <2>4 DEF WorkersOwn, Owns, Last
  <2>6. RunningHasAttempt'
    BY <1>2, <2>1, <2>2 DEF RunningHasAttempt, JobInv
  <2>7. OneWorker'
    BY <2>1, <2>3, <2>4 DEF OneWorker, JobInv
  <2> QED
    BY <2>5, <2>6, <2>7
<1>6. ASSUME NEW p \in Procs, NEW j \in Jobs,
             RejectPending(p, j) \/ StartCheck(p, j) \/ PrepareRetry(p, j)
      PROVE  WorkersOwn' /\ RunningHasAttempt' /\ OneWorker'
  BY <1>1, <1>2, <1>6, SameWorkers DEF RejectPending, StartCheck, PrepareRetry, Ended, Attached
<1>7. ASSUME NEW p \in Procs, NEW j \in Jobs, RequestCancel(p, j)
      PROVE  WorkersOwn' /\ RunningHasAttempt' /\ OneWorker'
  BY <1>1, <1>2, <1>7, SameWorkers DEF RequestCancel, Attached
<1>8. ASSUME NEW p \in Procs, NEW verdict \in Verdicts, Settle(p, verdict)
      PROVE  WorkersOwn' /\ RunningHasAttempt' /\ OneWorker'
  BY <1>1, <1>2, <1>8, SameWorkers DEF Settle, Attached
<1>9. ASSUME NEW p \in Procs, RecoverOrphans(p)
      PROVE  WorkersOwn' /\ RunningHasAttempt' /\ OneWorker'
  BY <1>1, <1>2, <1>9, SameWorkers DEF RecoverOrphans, Last, Attached
<1>10. ASSUME NEW p \in Procs, Crash(p)
       PROVE  WorkersOwn' /\ RunningHasAttempt' /\ OneWorker'
  BY <1>1, <1>2, <1>10, SameWorkers DEF Crash, Attached
<1>11. ASSUME NEW w \in workers, Heartbeat(w)
       PROVE  WorkersOwn' /\ RunningHasAttempt' /\ OneWorker'
  <2> DEFINE told == [w EXCEPT !.phase = "aborted"]
  <2>1. told.by = w.by /\ told.job = w.job /\ told.attempt = w.attempt
    BY DEF JobInv, TypeOK, Workers
  <2>2. workers' = (workers \ {w}) \cup {told} /\ UNCHANGED <<status, attempts, alive>>
    BY <1>11 DEF Heartbeat
  <2>3. told \in Attached' => w \in Attached /\ Attached' = (Attached \ {w}) \cup {told}
    BY <1>11, <2>2 DEF Heartbeat, Attached
  <2>4. told \in Attached'
    BY <2>2 DEF Attached, JobInv, TypeOK, Workers
  <2> HIDE DEF told
  <2> QED
    BY <1>1, <2>1, <2>2, <2>3, <2>4 DEF WorkersOwn, Owns, Last, RunningHasAttempt, OneWorker, JobInv
<1>12. ASSUME NEW w \in workers, FinishFails(w)
       PROVE  WorkersOwn' /\ RunningHasAttempt' /\ OneWorker'
  BY <1>1, <1>2, <1>12, SameWorkers DEF FinishFails, Attached
<1>13. ASSUME NEW w \in workers, (\E s \in Ended : FinishAttempt(w, s)) \/ Promote(w)
       PROVE  WorkersOwn' /\ RunningHasAttempt' /\ OneWorker'
  <2>1. Attached' = Attached \ {w} /\ UNCHANGED <<attempts, alive>>
    BY <1>13 DEF FinishAttempt, Promote, Attached, JobInv, TypeOK, Workers
  <2>2. PICK s \in Ended : (w \in Attached /\ Report(w, s)) \/ UNCHANGED status
    BY <1>13 DEF FinishAttempt, Promote, Report, Attached, Ended
  <2>3. CASE UNCHANGED status
    BY <1>1, <2>1, <2>3, SameWorkers
  <2>4. CASE w \in Attached /\ Report(w, s)
    <3>1. status' = [status EXCEPT ![w.job] = s]
      BY <2>4 DEF JobInv, WorkersOwn, Report
    <3>2. \A v \in Attached \ {w} : v.job # w.job
      BY <2>4 DEF JobInv, OneWorker
    <3> QED
      BY <1>1, <1>2, <2>1, <2>4, <3>1, <3>2, SameWorkers DEF Ended
  <2> QED
    BY <2>2, <2>3, <2>4
<1>14. ASSUME NEW c \in checks, NEW verdict \in Verdicts, EndCheck(c, verdict)
       PROVE  WorkersOwn' /\ RunningHasAttempt' /\ OneWorker'
  BY <1>1, <1>2, <1>14, SameWorkers DEF EndCheck, Attached
<1>15. CASE UNCHANGED vars
  BY <1>1, <1>2, <1>15, SameWorkers DEF vars, Attached
<1> QED
  BY <1>3, <1>4, <1>5, <1>6, <1>7, <1>8, <1>9, <1>10, <1>11, <1>12, <1>13, <1>14, <1>15 DEF Next

(* A job starts only from pending, and whatever makes a job pending asks for *)
(* it. No job is ever forgotten.                                             *)
Settled == PendingIsAsked' /\ Known \subseteq Known'
Claimed == \E p \in Procs, j \in Jobs : ClaimAttempt(p, j)

LEMMA AskedStep ==
  ASSUME JobInv, [Next]_vars
  PROVE  Settled /\ (UNCHANGED attempts \/ Claimed)
<1> USE DEF store, processes, history, Judge, Settled, PendingIsAsked, Known, Ended
<1>1. PendingIsAsked /\ status \in [Jobs -> Statuses] /\ Known \subseteq Jobs
  BY DEF JobInv, TypeOK
<1>2. ASSUME NEW p \in Procs, NEW j \in Jobs, NEW c \in Jobs \cup {Null}, CreateJob(p, j, c)
      PROVE  Settled /\ UNCHANGED attempts
  BY <1>1, <1>2 DEF CreateJob
<1>3. ASSUME NEW p \in Procs, NEW j \in Jobs, NEW D \in SUBSET Jobs, NEW m \in Modes,
             SetDependencies(p, j, D, m)
      PROVE  Settled /\ UNCHANGED attempts
  BY <1>1, <1>3 DEF SetDependencies
<1>4. ASSUME NEW p \in Procs, NEW j \in Jobs, ClaimAttempt(p, j) PROVE Settled /\ Claimed
  BY <1>1, <1>4 DEF ClaimAttempt, Claimed
<1>5. ASSUME NEW p \in Procs, NEW j \in Jobs, RejectPending(p, j) \/ PrepareRetry(p, j)
      PROVE  Settled /\ UNCHANGED attempts
  BY <1>1, <1>5 DEF RejectPending, PrepareRetry
<1>6. ASSUME NEW p \in Procs, NEW j \in Jobs, StartCheck(p, j)
      PROVE  Settled /\ UNCHANGED attempts
  BY <1>1, <1>6 DEF StartCheck
<1>7. ASSUME NEW p \in Procs, NEW j \in Jobs, RequestCancel(p, j)
      PROVE  Settled /\ UNCHANGED attempts
  BY <1>1, <1>7 DEF RequestCancel
<1>8. ASSUME NEW p \in Procs, NEW verdict \in Verdicts, Settle(p, verdict)
      PROVE  Settled /\ UNCHANGED attempts
  BY <1>1, <1>8 DEF Settle
<1>9. ASSUME NEW p \in Procs, RecoverOrphans(p) \/ Crash(p) PROVE Settled /\ UNCHANGED attempts
  BY <1>1, <1>9 DEF RecoverOrphans, Crash
<1>10. ASSUME NEW w \in workers, Heartbeat(w) \/ FinishFails(w)
       PROVE  Settled /\ UNCHANGED attempts
  BY <1>1, <1>10 DEF Heartbeat, FinishFails
<1>11. ASSUME NEW w \in workers, (\E s \in Ended : FinishAttempt(w, s)) \/ Promote(w)
       PROVE  Settled /\ UNCHANGED attempts
  <2>1. /\ UNCHANGED <<attempts, asked>>
        /\ \E s \in Ended : status' = [status EXCEPT ![w.job] = s] \/ UNCHANGED status
    BY <1>11 DEF FinishAttempt, Promote, Report
  <2> QED
    BY <1>1, <2>1
<1>12. ASSUME NEW c \in checks, NEW verdict \in Verdicts, EndCheck(c, verdict)
       PROVE  Settled /\ UNCHANGED attempts
  BY <1>1, <1>12 DEF EndCheck
<1>13. CASE UNCHANGED vars
  BY <1>1, <1>13 DEF vars
<1> HIDE DEF Settled
<1> QED
  BY <1>2, <1>3, <1>4, <1>5, <1>6, <1>7, <1>8, <1>9, <1>10, <1>11, <1>12, <1>13 DEF Next

LEMMA StartStep ==
  ASSUME JobInv, [Next]_vars
  PROVE  \A j \in Jobs : Len(attempts'[j]) > Len(attempts[j]) => j \in asked
<1>1. CASE UNCHANGED attempts
  BY <1>1 DEF JobInv, TypeOK
<1>2. CASE Claimed
  BY <1>2 DEF Claimed, ClaimAttempt, JobInv, TypeOK, PendingIsAsked
<1> QED
  BY <1>1, <1>2, AskedStep

-----------------------------------------------------------------------------
(* A new job closes no circle, since nothing depends on it yet.              *)
LEMMA GraphStep == ASSUME JobInv, [Next]_vars PROVE DepsKnown' /\ NoCircularWait'
<1> USE DEF store, processes, history, Judge
<1>1. deps \in [Jobs -> SUBSET Jobs] /\ DepsKnown /\ NoCircularWait
  BY DEF JobInv, TypeOK
<1>2. Known \subseteq Known'
  BY AskedStep DEF Settled
<1>3. CASE UNCHANGED deps
  BY <1>1, <1>2, <1>3 DEF DepsKnown, NoCircularWait, CycleFrom
<1>4. ASSUME NEW p \in Procs, NEW j \in Jobs, NEW c \in Jobs \cup {Null}, CreateJob(p, j, c)
      PROVE  DepsKnown' /\ NoCircularWait'
  <2>1. PICK D \in SUBSET Known : deps' = [deps EXCEPT ![j] = D]
    BY <1>4 DEF CreateJob
  <2>2. DepsKnown'
    BY <1>1, <1>2, <2>1 DEF DepsKnown
  <2>3. j \notin D /\ \A k \in Jobs : j \notin deps[k]
    BY <1>1, <1>4 DEF CreateJob, Known, DepsKnown
  <2>4. ASSUME NEW k \in Jobs, NEW S \in SUBSET Jobs, k \in S, \A i \in S : deps'[i] \cap S # {}
        PROVE  FALSE
    <3>1. ASSUME NEW i \in S \ {j} PROVE deps[i] \cap (S \ {j}) # {}
      <4>1. deps'[i] = deps[i] /\ j \notin deps[i] /\ deps[i] \cap S # {}
        BY <1>1, <2>1, <2>3, <2>4
      <4> QED
        BY <4>1
    <3>2. PICK i \in S \ {j} : TRUE
      BY <1>1, <2>1, <2>3, <2>4
    <3>3. S \ {j} \in SUBSET Jobs /\ i \in Jobs
      BY <3>2
    <3>4. CycleFrom(i, deps)
      BY <3>1, <3>3 DEF CycleFrom
    <3> QED
      BY <1>1, <3>3, <3>4 DEF NoCircularWait
  <2> QED
    BY <2>2, <2>4 DEF NoCircularWait, CycleFrom
<1>5. ASSUME NEW p \in Procs, NEW j \in Jobs, NEW D \in SUBSET Jobs, NEW m \in Modes,
             SetDependencies(p, j, D, m)
      PROVE  DepsKnown' /\ NoCircularWait'
  <2>1. deps' = [deps EXCEPT ![j] = D] /\ D \subseteq Known /\ ~CycleFrom(j, deps')
    BY <1>5 DEF SetDependencies
  <2>2. DepsKnown'
    BY <1>1, <1>2, <2>1 DEF DepsKnown
  <2>3. ASSUME NEW k \in Jobs, NEW S \in SUBSET Jobs, k \in S, \A i \in S : deps'[i] \cap S # {}
        PROVE  FALSE
    <3>1. j \notin S
      BY <2>1, <2>3 DEF CycleFrom
    <3> QED
      BY <1>1, <2>1, <2>3, <3>1 DEF NoCircularWait, CycleFrom
  <2> QED
    BY <2>2, <2>3 DEF NoCircularWait, CycleFrom
<1>6. ASSUME NEW p \in Procs, NEW j \in Jobs,
             \/ ClaimAttempt(p, j) \/ RejectPending(p, j) \/ StartCheck(p, j)
             \/ PrepareRetry(p, j) \/ RequestCancel(p, j)
      PROVE  UNCHANGED deps
  BY <1>6 DEF ClaimAttempt, RejectPending, StartCheck, PrepareRetry, RequestCancel
<1>7. ASSUME NEW p \in Procs, RecoverOrphans(p) \/ Crash(p) \/ \E v \in Verdicts : Settle(p, v)
      PROVE  UNCHANGED deps
  BY <1>7 DEF RecoverOrphans, Crash, Settle
<1>8. ASSUME NEW w \in workers,
             \/ Heartbeat(w) \/ Promote(w) \/ FinishFails(w)
             \/ \E s \in Ended : FinishAttempt(w, s)
      PROVE  UNCHANGED deps
  BY <1>8 DEF Heartbeat, Promote, FinishFails, FinishAttempt
<1>9. ASSUME NEW c \in checks, NEW verdict \in Verdicts, EndCheck(c, verdict)
      PROVE  UNCHANGED deps
  BY <1>9 DEF EndCheck
<1>10. CASE UNCHANGED vars
  BY <1>3, <1>10 DEF vars
<1> QED
  BY <1>3, <1>4, <1>5, <1>6, <1>7, <1>8, <1>9, <1>10 DEF Next

-----------------------------------------------------------------------------
(* The inductive invariant: types, who owns which attempt, who asked for     *)
(* what, and the shape of the dependencies.                                  *)
THEOREM JobInvariant == Spec => []JobInv
<1>1. JobInv /\ [Next]_vars => JobInv'
  BY TypeStep, WorkerStep, AskedStep, GraphStep DEF JobInv, Settled
<1> QED
  BY <1>1, InitInvariant, PTL DEF Spec

(* Attempts are numbered within their limits, and every owner, dependency    *)
(* and settlement is a process, a job and an outcome the store knows.        *)
THEOREM JobsTyped == Spec => []TypeOK
BY JobInvariant, PTL DEF JobInv

(* Two workers never share a job, whoever crashes, recovers and retries,     *)
(* unless a steer promoted one of them.                                      *)
THEOREM NoTwoWorkers == Spec => []OneWorker
BY JobInvariant, PTL DEF JobInv

OnlyPromotedWork(j) == \A w \in workers : w.job = j => w.phase = "promoted"

(* A job is retried beside no worker but those that steers promoted: nothing *)
(* else lets a job end before its worker does.                               *)
THEOREM RetryFindsOnlyPromoted ==
  Spec => [][\A j \in Jobs : status[j] \in Ended /\ status'[j] = "pending" =>
                              OnlyPromotedWork(j)]_vars
<1>1. JobInv => [\A j \in Jobs : status[j] \in Ended /\ status'[j] = "pending" =>
                                  OnlyPromotedWork(j)]_vars
  BY DEF JobInv, WorkersOwn, Owns, Attached, Ended, OnlyPromotedWork
<1> QED
  BY <1>1, JobInvariant, PTL DEF Spec

(* Jobs never wait for each other in a circle.                               *)
THEOREM NothingWaitsForItself == Spec => []NoCircularWait
BY JobInvariant, PTL DEF JobInv

(* A job starts once per creation or explicit retry, never after a cancel.   *)
THEOREM NothingRestarts == Spec => StartsAreAsked
<1>1. JobInv /\ [Next]_vars =>
        [\A j \in Jobs : Len(attempts'[j]) > Len(attempts[j]) => j \in asked]_vars
  BY StartStep
<1> QED
  BY <1>1, JobInvariant, PTL DEF Spec, StartsAreAsked

-----------------------------------------------------------------------------
(* A verdict on the job is being formed: a check of it runs, or the process  *)
(* that finished it has still to judge it.                                   *)
BeingJudged(j) ==
  \/ \E c \in checks : c.job = j
  \/ \E p \in Procs : settling[p] # Null /\ settling[p].job = j

(* The race behind stale evidence: a job is retried while it is judged.      *)
RetriedWhileJudged(j) == status[j] \in Ended /\ status'[j] = "pending" /\ BeingJudged(j)
NoRetryWhileJudged == \A j \in Jobs : ~RetriedWhileJudged(j)

(* Without it, whatever judges a job judges its last attempt.                *)
OnLast(c) == status[c.job] \in Ended /\ c.attempt = Last(c.job)
EvidenceInv ==
  /\ \A c \in checks : OnLast(c)
  /\ \A p \in Procs : settling[p] # Null => OnLast(settling[p])
  /\ \A j \in Jobs : acceptance[j] = "passed" => status[j] \in Ended /\ evidence[j] = Last(j)

LEMMA InitEvidence == Init => EvidenceInv
  BY DEF Init, EvidenceInv

(* Steps that start no attempt, take no job back and record no verdict.      *)
LEMMA SameEvidence ==
  ASSUME EvidenceInv, TypeOK, checks' \subseteq checks, UNCHANGED attempts,
         \A p \in Procs : settling'[p] # Null => settling'[p] = settling[p],
         \A j \in Jobs : status[j] \in Ended => status'[j] \in Ended,
         \A j \in Jobs : acceptance'[j] = "passed" =>
                           acceptance[j] = "passed" /\ evidence'[j] = evidence[j]
  PROVE  EvidenceInv'
BY DEF EvidenceInv, OnLast, TypeOK, Last, Checks, Judged

(* A verdict on the last attempt of a job that has ended.                    *)
LEMMA JudgeKeeps ==
  ASSUME EvidenceInv, TypeOK, NEW c, OnLast(c), c.job \in Jobs, NEW verdict,
         Judge(c.job, verdict, c.attempt) \/ UNCHANGED <<acceptance, evidence>>,
         checks' \subseteq checks, UNCHANGED <<attempts, status>>,
         \A p \in Procs : settling'[p] # Null => settling'[p] = settling[p]
  PROVE  EvidenceInv'
<1>1. CASE UNCHANGED <<acceptance, evidence>>
  BY <1>1, SameEvidence
<1>2. CASE Judge(c.job, verdict, c.attempt)
  BY <1>2 DEF Judge, EvidenceInv, OnLast, TypeOK, Last, Checks, Judged
<1> QED
  BY <1>1, <1>2

LEMMA EvidenceStep ==
  ASSUME JobInv, EvidenceInv, [Next]_vars, NoRetryWhileJudged \/ UNCHANGED vars
  PROVE  EvidenceInv'
<1> USE DEF store, processes, history
<1>1. TypeOK
  BY DEF JobInv
<1>2. /\ status \in [Jobs -> Statuses] /\ attempts \in [Jobs -> Seq(Procs)]
      /\ checks \in SUBSET Checks /\ workers \in SUBSET Workers
      /\ settling \in [Procs -> Judged \cup {Null}]
      /\ acceptance \in [Jobs -> Verdicts] /\ evidence \in [Jobs -> Nat]
  BY <1>1 DEF TypeOK
<1>3. ASSUME NEW p \in Procs, NEW j \in Jobs, NEW c \in Jobs \cup {Null}, CreateJob(p, j, c)
      PROVE  EvidenceInv'
  <2>1. /\ status[j] = "none" /\ status' = [status EXCEPT ![j] = "pending"]
        /\ UNCHANGED <<attempts, acceptance, evidence, checks, settling>>
    BY <1>3 DEF CreateJob
  <2> QED
    BY <1>1, <1>2, <2>1, SameEvidence DEF Ended
<1>4. ASSUME NEW p \in Procs, NEW j \in Jobs, NEW D \in SUBSET Jobs, NEW m \in Modes,
             SetDependencies(p, j, D, m)
      PROVE  EvidenceInv'
  BY <1>1, <1>4, SameEvidence DEF SetDependencies
<1>5. ASSUME NEW p \in Procs, NEW j \in Jobs, ClaimAttempt(p, j) PROVE EvidenceInv'
  <2>1. /\ status[j] = "pending"
        /\ \A k \in Jobs \ {j} : status'[k] = status[k] /\ attempts'[k] = attempts[k]
        /\ UNCHANGED <<acceptance, settling, checks, evidence>>
    BY <1>2, <1>5 DEF ClaimAttempt
  <2>2. \A k \in Jobs : status[k] \in Ended =>
          status'[k] = status[k] /\ Last(k)' = Last(k)
    BY <2>1 DEF Ended, Last
  <2>3. /\ \A c \in checks : c.job \in Jobs
        /\ \A q \in Procs : settling[q] # Null => settling[q].job \in Jobs
    BY <1>2 DEF Checks, Judged
  <2> QED
    BY <2>1, <2>2, <2>3 DEF EvidenceInv, OnLast
<1>6. ASSUME NEW p \in Procs, NEW j \in Jobs, RejectPending(p, j) PROVE EvidenceInv'
  BY <1>1, <1>2, <1>6, SameEvidence DEF RejectPending, Judge, Ended
<1>7. ASSUME NEW p \in Procs, NEW j \in Jobs, StartCheck(p, j) PROVE EvidenceInv'
  <2> DEFINE new == [by |-> p, job |-> j, attempt |-> Last(j)]
  <2>1. status[j] \in Ended /\ checks' = checks \cup {new}
        /\ UNCHANGED <<status, attempts, acceptance, evidence, settling>>
    BY <1>7 DEF StartCheck
  <2>2. new.job = j /\ new.attempt = Last(j)
    OBVIOUS
  <2> HIDE DEF new
  <2> QED
    BY <2>1, <2>2 DEF EvidenceInv, OnLast, Last
<1>8. ASSUME NEW p \in Procs, NEW j \in Jobs, PrepareRetry(p, j) PROVE EvidenceInv'
  <2>1. /\ status[j] \in Ended /\ status' = [status EXCEPT ![j] = "pending"]
        /\ acceptance' = [acceptance EXCEPT ![j] = "unverified"]
        /\ evidence' = [evidence EXCEPT ![j] = 0]
        /\ UNCHANGED <<attempts, checks, settling>>
    BY <1>8 DEF PrepareRetry, Judge
  <2>2. ~BeingJudged(j)
    BY <1>2, <2>1 DEF NoRetryWhileJudged, RetriedWhileJudged, vars, Ended
  <2>3. /\ \A c \in checks : c.job # j
        /\ \A q \in Procs : settling[q] # Null => settling[q].job # j
    BY <2>2 DEF BeingJudged
  <2> QED
    BY <1>2, <2>1, <2>3 DEF EvidenceInv, OnLast, Last, Checks, Judged
<1>9. ASSUME NEW p \in Procs, NEW j \in Jobs, RequestCancel(p, j) PROVE EvidenceInv'
  BY <1>1, <1>2, <1>9, SameEvidence DEF RequestCancel, Ended
<1>10. ASSUME NEW p \in Procs, NEW verdict \in Verdicts, Settle(p, verdict) PROVE EvidenceInv'
  <2>1. OnLast(settling[p]) /\ settling[p].job \in Jobs
    BY <1>2, <1>10 DEF Settle, EvidenceInv, Judged
  <2>2. \/ Judge(settling[p].job, verdict, settling[p].attempt)
        \/ UNCHANGED <<acceptance, evidence>>
    BY <1>10 DEF Settle
  <2>3. \A q \in Procs : settling'[q] # Null => settling'[q] = settling[q]
    BY <1>2, <1>10 DEF Settle
  <2>4. UNCHANGED <<attempts, status, checks>>
    BY <1>10 DEF Settle
  <2> QED
    BY <1>1, <2>1, <2>2, <2>3, <2>4, JudgeKeeps
<1>11. ASSUME NEW p \in Procs, RecoverOrphans(p) PROVE EvidenceInv'
  BY <1>1, <1>2, <1>11, SameEvidence DEF RecoverOrphans, Ended
<1>12. ASSUME NEW p \in Procs, Crash(p) PROVE EvidenceInv'
  BY <1>1, <1>2, <1>12, SameEvidence DEF Crash
<1>13. ASSUME NEW w \in workers, Heartbeat(w) \/ FinishFails(w) PROVE EvidenceInv'
  BY <1>1, <1>13, SameEvidence DEF Heartbeat, FinishFails
<1>14. ASSUME NEW w \in workers, (\E s \in Ended : FinishAttempt(w, s)) \/ Promote(w)
       PROVE  EvidenceInv'
  <2> DEFINE judged == [job |-> w.job, attempt |-> w.attempt]
  <2>1. w.job \in Jobs /\ w.by \in Procs /\ UNCHANGED <<attempts, acceptance, evidence, checks>>
    BY <1>2, <1>14 DEF FinishAttempt, Promote, Workers
  <2>2. PICK s \in Ended : Report(w, s) \/ UNCHANGED <<status, settling>>
    BY <1>14 DEF FinishAttempt, Promote, Ended
  <2>3. CASE UNCHANGED <<status, settling>>
    BY <1>1, <2>1, <2>3, SameEvidence
  <2>4. CASE /\ Owns(w)
             /\ status' = [status EXCEPT ![w.job] = s]
             /\ settling' = [settling EXCEPT ![w.by] = judged]
    <3>1. judged.job = w.job /\ judged.attempt = w.attempt
      OBVIOUS
    <3>2. status[w.job] = "running" /\ w.attempt = Last(w.job)
      BY <2>4 DEF Owns
    <3> HIDE DEF judged
    <3> QED
      BY <1>2, <2>1, <2>4, <3>1, <3>2 DEF EvidenceInv, OnLast, Last, Ended, Checks, Judged
  <2> QED
    BY <2>2, <2>3, <2>4 DEF Report
<1>15. ASSUME NEW c \in checks, NEW verdict \in Verdicts, EndCheck(c, verdict) PROVE EvidenceInv'
  <2>1. OnLast(c) /\ c.job \in Jobs
    BY <1>2 DEF EvidenceInv, Checks
  <2> QED
    BY <1>1, <1>15, <2>1, JudgeKeeps DEF EndCheck
<1>16. CASE UNCHANGED vars
  BY <1>1, <1>16, SameEvidence DEF vars
<1> QED
  BY <1>3, <1>4, <1>5, <1>6, <1>7, <1>8, <1>9, <1>10, <1>11, <1>12, <1>13, <1>14, <1>15, <1>16 DEF Next

(* Stale evidence has no other cause: while no job is retried with a verdict *)
(* on it outstanding, a job that passed did so on its last attempt, whatever *)
(* crashes, fails to be stored or is cancelled.                              *)
THEOREM EvidenceUnlessRetried ==
  Spec /\ [][NoRetryWhileJudged]_vars => []AcceptedOnItsOwnEvidence
<1>1. JobInv /\ EvidenceInv /\ [Next]_vars /\ [NoRetryWhileJudged]_vars => EvidenceInv'
  BY EvidenceStep
<1>2. EvidenceInv => AcceptedOnItsOwnEvidence
  BY DEF EvidenceInv, AcceptedOnItsOwnEvidence, Last
<1> QED
  BY <1>1, <1>2, InitEvidence, JobInvariant, PTL DEF Spec
=============================================================================
