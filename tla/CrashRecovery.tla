---------------------------- MODULE CrashRecovery ----------------------------
(***************************************************************************)
(* What the operator may decide about an interrupted operation             *)
(* (src/tools/crashRecovery.ts): keep it, or retry it as a new operation   *)
(* of the journal, which supersedes it once it has landed. A rollback is   *)
(* the journal's own call. The decision is a marker file beside the        *)
(* record, which the journal does not read.                                *)
(*                                                                         *)
(* resolveRetry() runs to completion inside its process, but it is several *)
(* calls, and the process may die, or a call throw, after any of them.     *)
(***************************************************************************)
EXTENDS MutationJournal

CONSTANT Retries    (* ids for the operations of retries                     *)

ASSUME RecoveryAssumption == Retries \subseteq Ops

VARIABLES
  marker,     (* the resolution marker of each operation                     *)
  old, new,   (* the operation a process retries, and the one it does it by  *)
  stage       (* approve, apply, mark: what it does next; calling: is doing  *)

retries == <<old, new, stage>>
allVars == <<vars, marker, old, new, stage>>

RecoveryInit ==
  /\ Init
  /\ marker = [o \in Ops |-> "none"]
  /\ old = [p \in Procs |-> Null] /\ new = [p \in Procs |-> Null]
  /\ stage = [p \in Procs |-> Null]

Ready(p) == pc[p] = "idle" /\ old[p] = Null

(* The retry is over, or its process.                                        *)
Forget(p) ==
  /\ old' = [old EXCEPT ![p] = Null] /\ new' = [new EXCEPT ![p] = Null]
  /\ stage' = [stage EXCEPT ![p] = Null]

(* resolveKeep(): whatever the record says, if there is one, and whoever is  *)
(* at work on it; the journal's directory has to be there.                   *)
ResolveKeep(p, o) ==
  /\ Ready(p)
  /\ \E b \in Ops : state[b] # "none"
  /\ marker' = [marker EXCEPT ![o] = "keep"]
  /\ UNCHANGED <<vars, retries>>

(* resolveRetry() begins, with the fresh approval: the recorded bytes are    *)
(* prepared once more, if every target still holds what it held before.      *)
ResolveRetry(p, o, r) ==
  /\ Ready(p)
  /\ Reported(o) /\ state[r] = "none"
  /\ \A f \in Targets(o) : disk[f] = plan[o][f].before
  /\ plan' = [plan EXCEPT ![r] = plan[o]]
  /\ state' = [state EXCEPT ![r] = "prepared"]
  /\ overwritten' = [overwritten EXCEPT ![r] = {}]
  /\ old' = [old EXCEPT ![p] = o] /\ new' = [new EXCEPT ![p] = r]
  /\ stage' = [stage EXCEPT ![p] = "approve"]
  /\ UNCHANGED <<disk, durable, lock, calls, raced, edits, losses, marker>>

(* Its two calls, one after the other: it goes on when the record says so.   *)
RetryCall(p) ==
  /\ old[p] # Null /\ stage[p] \in {"approve", "apply"}
  /\ Call(p, stage[p], new[p])
  /\ stage' = [stage EXCEPT ![p] = "calling"]
  /\ UNCHANGED <<marker, old, new>>

Proceed(p) ==
  \/ Mark(p) /\ stage' = IF old[p] # Null /\ kind[p] = "approve"
                         THEN [stage EXCEPT ![p] = "apply"] ELSE stage
  \/ Finish(p) /\ stage' = IF old[p] # Null THEN [stage EXCEPT ![p] = "mark"] ELSE stage

(* Faulty: the old operation is marked once the new one is approved.         *)
SupersedeEarly(p) ==
  /\ pc[p] = "idle" /\ old[p] # Null /\ stage[p] \in {"apply", "mark"}
  /\ marker' = [marker EXCEPT ![old[p]] = "superseded"]
  /\ Forget(p)
  /\ UNCHANGED vars

(* The new operation has landed: the old one is marked.                      *)
Supersede(p) ==
  /\ pc[p] = "idle" /\ old[p] # Null /\ stage[p] = "mark"
  /\ marker' = [marker EXCEPT ![old[p]] = "superseded"]
  /\ Forget(p)
  /\ UNCHANGED vars

(* A call has thrown, or the marker cannot be written.                       *)
RetryThrows(p) ==
  /\ pc[p] = "idle" /\ old[p] # Null /\ stage[p] \in {"calling", "mark"}
  /\ Forget(p)
  /\ UNCHANGED <<vars, marker>>

Landed(r) == state[r] \in {"applied", "rolling-back", "rolled-back", "unknown"}

(* The id of a retry's operation is new: others learn of it once it is there *)
(* to be rolled back.                                                        *)
JournalStep ==
  \/ \E p \in Procs :
       \/ \E o \in Ops \ Retries : Ready(p) /\ Prepare(p, o)
       \/ \E o \in Ops \ Retries, k \in Kinds : Ready(p) /\ Call(p, k, o)
       \/ \E r \in Retries : Ready(p) /\ Landed(r) /\ Call(p, "rollBack", r)
       \/ Name(p) \/ NameFails(p) \/ Peek(p) \/ Unlink(p) \/ Retake(p) \/ Release(p)
       \/ Read(p)
       \/ \E f \in Files : Check(p, f) \/ Write(p, f)
       \/ WriteFails(p) \/ RecordUnknown(p) \/ PersistFails(p)
  \/ \E f \in Files, bytes \in Bytes : Edit(f, bytes)

RecoveryNext ==
  \/ JournalStep /\ UNCHANGED <<marker, retries>>
  \/ \E p \in Procs :
       \/ Crash(p) /\ Forget(p) /\ UNCHANGED marker
       \/ Proceed(p) /\ UNCHANGED <<marker, old, new>>
       \/ RetryCall(p) \/ Supersede(p) \/ RetryThrows(p)
       \/ \E o \in Ops : ResolveKeep(p, o) \/ \E r \in Retries : ResolveRetry(p, o, r)
  \/ /\ PowerLoss
     /\ old' = [p \in Procs |-> Null] /\ new' = [p \in Procs |-> Null]
     /\ stage' = [p \in Procs |-> Null] /\ UNCHANGED marker

RecoverySpec == RecoveryInit /\ [][RecoveryNext]_allVars

-----------------------------------------------------------------------------
(* "the old operation is marked superseded only after the new one lands":    *)
(* whoever crashes, and whoever else is at work, an operation is superseded  *)
(* by one that wrote the same bytes and was applied.                         *)
SupersededLanded ==
  \A o \in Ops : marker[o] = "superseded" =>
    \E r \in Retries : Landed(r) /\ plan[r] = plan[o]
=============================================================================
