--------------------------- MODULE MutationJournal ---------------------------
(***************************************************************************)
(* The durable mutation journal of src/tools/mutation.ts: an operation is  *)
(* prepared against the files as they are, approved, applied and perhaps   *)
(* rolled back, by processes that share a workspace and may die anywhere.  *)
(*                                                                         *)
(* approve(), apply() and rollBack() run to completion inside a process,   *)
(* so a process makes one call at a time; between processes every access   *)
(* to a shared file is a step of its own. A record is replaced atomically  *)
(* (temporary file, fsync, rename), and so is a target. A pid is never     *)
(* reused: a restarted program is another process.                         *)
(***************************************************************************)
EXTENDS Naturals, FiniteSets

CONSTANTS
  Procs,      (* the processes                                               *)
  Ops,        (* the ids of operations                                       *)
  Files,      (* the workspace's files                                       *)
  Contents,   (* what a file can hold                                        *)
  Null,       (* no such file, no operation, no call                         *)
  MaxEdits,   (* bound on writes to targets by anybody else                  *)
  MaxLosses   (* bound on power losses                                       *)

ASSUME JournalAssumption ==
  /\ Null \notin Contents \cup Procs
  /\ MaxEdits \in Nat
  /\ MaxLosses \in Nat

VARIABLES
  disk,        (* what each file holds, as a process reads it                *)
  durable,     (* what each file would hold after a power loss               *)
  state,       (* the state in each operation's record, "none" without one   *)
  plan,        (* the recorded files: bytes before and bytes after           *)
  lock,        (* each operation's lock file: its creator, the pid in it     *)
  pc,          (* how far each process is in its call                        *)
  kind, op,    (* the call it is in and the operation the call is about      *)
  todo,        (* the targets its current loop has still to visit            *)
  overwritten, (* each operation's targets that others wrote since prepare() *)
  raced,       (* operations whose dead holder two processes found at once   *)
  edits, losses

journal == <<state, plan>>
calls == <<pc, kind, op, todo>>
world == <<durable, overwritten, raced, edits, losses>>
vars == <<disk, durable, state, plan, lock, pc, kind, op, todo, overwritten, raced, edits, losses>>

States == {"prepared", "approved", "applying", "applied", "rolling-back", "rolled-back",
           "unknown"}
Kinds == {"approve", "apply", "rollBack"}
Bytes == Contents \cup {Null}
Bindings == [before : Bytes, after : Contents]
Plans == UNION { [files -> Bindings] : files \in SUBSET Files }

(* A lock file as openSync('wx') leaves it is empty; the pid comes after.    *)
Free == [by |-> Null, pid |-> Null]
Empty(p) == [by |-> p, pid |-> Null]
Named(p) == [by |-> p, pid |-> p]

Locks == [by : Procs \cup {Null}, pid : Procs \cup {Null}]

Init ==
  /\ disk \in [Files -> Bytes]
  /\ durable = disk
  /\ state = [o \in Ops |-> "none"]
  /\ plan = [o \in Ops |-> [f \in {} |-> Null]]
  /\ lock = [o \in Ops |-> Free]
  /\ pc = [p \in Procs |-> "idle"]
  /\ kind = [p \in Procs |-> Null]
  /\ op = [p \in Procs |-> Null]
  /\ todo = [p \in Procs |-> {}]
  /\ overwritten = [o \in Ops |-> {}]
  /\ raced = {}
  /\ edits = 0
  /\ losses = 0

-----------------------------------------------------------------------------
Targets(o) == DOMAIN plan[o]

(* reconcile() lists the operations whose effect is not settled.             *)
Reported(o) == state[o] \in {"applying", "rolling-back", "unknown"}

Dead(p) == pc[p] = "dead"
HolderDead(o) == \E q \in Procs : Dead(q) /\ lock[o] = Named(q)

(* Between the return of acquireLock() and releaseLock().                    *)
Holding(p) == pc[p] \in {"read", "check", "mark", "write", "fail", "finish", "release"}

Goto(p, where) == pc' = [pc EXCEPT ![p] = where] /\ UNCHANGED <<kind, op>>
(* The call is over, or its process: what it held in memory is gone.         *)
Leave(p, where) ==
  /\ pc' = [pc EXCEPT ![p] = where]
  /\ kind' = [kind EXCEPT ![p] = Null]
  /\ op' = [op EXCEPT ![p] = Null]
  /\ todo' = [todo EXCEPT ![p] = {}]
Create(p, o) == lock' = [lock EXCEPT ![o] = Empty(p)]

(* prepare(): bind the present bytes of the targets to the new ones.         *)
Prepare(p, o) ==
  /\ pc[p] = "idle"
  /\ state[o] = "none"
  /\ \E files \in (SUBSET Files) \ {{}} :
       \E after \in [files -> Contents] :
         plan' = [plan EXCEPT ![o] =
                    [f \in files |-> [before |-> disk[f], after |-> after[f]]]]
  /\ state' = [state EXCEPT ![o] = "prepared"]
  /\ overwritten' = [overwritten EXCEPT ![o] = {}]
  /\ UNCHANGED <<disk, durable, lock, calls, raced, edits, losses>>

-----------------------------------------------------------------------------
(* A call begins: acquireLock() creates the lock file, or finds it there.    *)
Call(p, k, o) ==
  /\ pc[p] = "idle"
  /\ state[o] # "none"
  /\ kind' = [kind EXCEPT ![p] = k]
  /\ op' = [op EXCEPT ![p] = o]
  /\ \/ /\ lock[o] = Free
        /\ Create(p, o)
        /\ pc' = [pc EXCEPT ![p] = "name"]
     \/ /\ lock[o] # Free
        /\ pc' = [pc EXCEPT ![p] = "peek"]
        /\ UNCHANGED lock
  /\ UNCHANGED <<disk, journal, todo, world>>

(* The creator writes its pid, into the file it opened: if that file was     *)
(* unlinked meanwhile, into nothing.                                         *)
Name(p) ==
  /\ pc[p] = "name"
  /\ lock' = IF lock[op[p]] = Empty(p)
             THEN [lock EXCEPT ![op[p]] = Named(p)]
             ELSE lock
  /\ Goto(p, "read")
  /\ UNCHANGED <<disk, journal, todo, world>>

(* Writing the pid fails: the empty lock file stays.                         *)
NameFails(p) ==
  /\ pc[p] = "name"
  /\ Leave(p, "idle")
  /\ UNCHANGED <<disk, journal, lock, world>>

(* Some process has found the holder dead and not unlinked the lock yet.     *)
Reclaiming(o) == \E q \in Procs : pc[q] = "reclaim" /\ op[q] = o

(* Faulty: a holder is not asked whether it lives.                           *)
PeekUnchecked(p) ==
  /\ pc[p] = "peek"
  /\ \/ /\ lock[op[p]].pid # Null /\ Goto(p, "reclaim")
        /\ raced' = IF Reclaiming(op[p]) THEN raced \cup {op[p]} ELSE raced
        /\ UNCHANGED todo
     \/ lock[op[p]].pid = Null /\ Leave(p, "idle") /\ UNCHANGED raced
  /\ UNCHANGED <<disk, journal, lock, durable, overwritten, edits, losses>>

(* The lock was there: its holder is provably dead, or the call throws.      *)
Peek(p) ==
  /\ pc[p] = "peek"
  /\ \/ /\ HolderDead(op[p]) /\ Goto(p, "reclaim")
        /\ raced' = IF Reclaiming(op[p]) THEN raced \cup {op[p]} ELSE raced
        /\ UNCHANGED todo
     \/ ~HolderDead(op[p]) /\ Leave(p, "idle") /\ UNCHANGED raced
  /\ UNCHANGED <<disk, journal, lock, durable, overwritten, edits, losses>>

(* A reclaim unlinks whatever file is there by now, and throws if none is.   *)
Unlink(p) ==
  /\ pc[p] = "reclaim"
  /\ \/ lock[op[p]] # Free /\ Goto(p, "retake") /\ UNCHANGED todo
     \/ lock[op[p]] = Free /\ Leave(p, "idle")
  /\ lock' = [lock EXCEPT ![op[p]] = Free]
  /\ UNCHANGED <<disk, journal, world>>

(* It then creates the file anew, and throws if another process did first.   *)
Retake(p) ==
  /\ pc[p] = "retake"
  /\ \/ /\ lock[op[p]] = Free
        /\ Create(p, op[p])
        /\ Goto(p, "name")
        /\ UNCHANGED todo
     \/ /\ lock[op[p]] # Free
        /\ Leave(p, "idle")
        /\ UNCHANGED lock
  /\ UNCHANGED <<disk, journal, world>>

(* releaseLock() unlinks the lock file, whoever holds it.                    *)
Release(p) ==
  /\ pc[p] = "release"
  /\ lock' = [lock EXCEPT ![op[p]] = Free]
  /\ Leave(p, "idle")
  /\ UNCHANGED <<disk, journal, world>>

-----------------------------------------------------------------------------
(* The state a call requires, the one it marks and the one it ends in.       *)
Required == [approve |-> "prepared", apply |-> "approved", rollBack |-> "applied"]
Marker == [approve |-> "approved", apply |-> "applying", rollBack |-> "rolling-back"]
Done == [apply |-> "applied", rollBack |-> "rolled-back"]

(* What the call expects a target to hold, and what it writes there.         *)
Expected(p, f) == IF kind[p] = "apply" THEN plan[op[p]][f].before ELSE plan[op[p]][f].after
Written(p, f) == IF kind[p] = "apply" THEN plan[op[p]][f].after ELSE plan[op[p]][f].before

(* Faulty: the call does not look at the record's state.                     *)
ReadUnchecked(p) ==
  /\ pc[p] = "read"
  /\ Goto(p, IF kind[p] = "approve" THEN "mark" ELSE "check")
  /\ todo' = [todo EXCEPT ![p] = Targets(op[p])]
  /\ UNCHANGED <<disk, journal, lock, world>>

(* The record is read; a wrong state or a digest of other bytes throws.      *)
Read(p) ==
  /\ pc[p] = "read"
  /\ \/ /\ state[op[p]] = Required[kind[p]]
        /\ Goto(p, IF kind[p] = "approve" THEN "mark" ELSE "check")
        /\ todo' = [todo EXCEPT ![p] = Targets(op[p])]
     \/ /\ Goto(p, "release")
        /\ UNCHANGED todo
  /\ UNCHANGED <<disk, journal, lock, world>>

(* One target is compared with the bytes the call expects there.             *)
Check(p, f) ==
  /\ pc[p] = "check"
  /\ f \in todo[p]
  /\ \/ /\ disk[f] # Expected(p, f)
        /\ Goto(p, "release")
        /\ UNCHANGED todo
     \/ /\ disk[f] = Expected(p, f)
        /\ todo' = [todo EXCEPT ![p] = @ \ {f}]
        /\ Goto(p, IF todo[p] = {f} THEN "mark" ELSE "check")
  /\ UNCHANGED <<disk, journal, lock, world>>

(* Faulty: apply() and rollBack() write no marker.                           *)
MarkLate(p) ==
  /\ pc[p] = "mark"
  /\ state' = IF kind[p] = "approve" THEN [state EXCEPT ![op[p]] = "approved"] ELSE state
  /\ Goto(p, IF kind[p] = "approve" THEN "release" ELSE "write")
  /\ todo' = [todo EXCEPT ![p] = Targets(op[p])]
  /\ UNCHANGED <<disk, plan, lock, world>>

(* The approval, or the marker before the first write, is made durable.      *)
Mark(p) ==
  /\ pc[p] = "mark"
  /\ state' = [state EXCEPT ![op[p]] = Marker[kind[p]]]
  /\ Goto(p, IF kind[p] = "approve" THEN "release" ELSE "write")
  /\ todo' = [todo EXCEPT ![p] = Targets(op[p])]
  /\ UNCHANGED <<disk, plan, lock, world>>

(* One target is written, or unlinked if it did not exist before; the file   *)
(* is in the kernel's hands until it writes it back.                         *)
Write(p, f) ==
  /\ pc[p] = "write"
  /\ f \in todo[p]
  /\ Written(p, f) = Null => disk[f] # Null
  /\ disk' = [disk EXCEPT ![f] = Written(p, f)]
  /\ todo' = [todo EXCEPT ![p] = @ \ {f}]
  /\ Goto(p, IF todo[p] = {f} THEN "finish" ELSE "write")
  /\ overwritten' = [o \in Ops |-> IF o # op[p] THEN overwritten[o] \cup {f}
                                                ELSE overwritten[o]]
  /\ UNCHANGED <<durable, journal, lock, raced, edits, losses>>

(* A write fails: the disk is full, the path no longer resolves, the file to *)
(* unlink is gone.                                                           *)
WriteFails(p) ==
  /\ pc[p] = "write"
  /\ Goto(p, "fail")
  /\ UNCHANGED <<disk, journal, lock, todo, world>>

(* The catch block records that the effect is unclear.                       *)
RecordUnknown(p) ==
  /\ pc[p] = "fail"
  /\ state' = [state EXCEPT ![op[p]] = "unknown"]
  /\ Goto(p, "release")
  /\ UNCHANGED <<disk, plan, lock, todo, world>>

(* Faulty: the record is left with the name of the call.                     *)
FinishNamed(p) ==
  /\ pc[p] = "finish"
  /\ state' = [state EXCEPT ![op[p]] = kind[p]]
  /\ Goto(p, "release")
  /\ UNCHANGED <<disk, plan, lock, todo, world>>

(* Every target was written: the record says so.                             *)
Finish(p) ==
  /\ pc[p] = "finish"
  /\ state' = [state EXCEPT ![op[p]] = Done[kind[p]]]
  /\ Goto(p, "release")
  /\ UNCHANGED <<disk, plan, lock, todo, world>>

(* A record cannot be replaced: the call throws past its `finally`.          *)
PersistFails(p) ==
  /\ pc[p] \in {"mark", "fail", "finish"}
  /\ Goto(p, "release")
  /\ UNCHANGED <<disk, journal, lock, todo, world>>

-----------------------------------------------------------------------------
(* A process dies where it stands.                                           *)
Crash(p) ==
  /\ ~Dead(p)
  /\ Leave(p, "dead")
  /\ UNCHANGED <<disk, journal, lock, world>>

(* The operator, an editor or another tool changes a file.                   *)
Edit(f, bytes) ==
  /\ edits < MaxEdits
  /\ bytes # disk[f]
  /\ edits' = edits + 1
  /\ disk' = [disk EXCEPT ![f] = bytes]
  /\ overwritten' = [o \in Ops |-> overwritten[o] \cup {f}]
  /\ UNCHANGED <<durable, journal, lock, calls, raced, losses>>

(* The machine loses power: records are on the disk (fsync), a target is     *)
(* there only if the kernel had written it back.                             *)
PowerLoss ==
  /\ losses < MaxLosses
  /\ losses' = losses + 1
  /\ \E lost \in SUBSET Files :
       disk' = [f \in Files |-> IF f \in lost THEN durable[f] ELSE disk[f]]
  /\ durable' = disk'
  /\ pc' = [p \in Procs |-> "dead"]
  /\ kind' = [p \in Procs |-> Null]
  /\ op' = [p \in Procs |-> Null]
  /\ todo' = [p \in Procs |-> {}]
  /\ UNCHANGED <<journal, lock, overwritten, raced, edits>>

-----------------------------------------------------------------------------
Next ==
  \/ \E p \in Procs :
       \/ \E o \in Ops : \/ Prepare(p, o)
                        \/ \E k \in Kinds : Call(p, k, o)
       \/ Name(p) \/ NameFails(p) \/ Peek(p) \/ Unlink(p) \/ Retake(p) \/ Release(p)
       \/ Read(p)
       \/ \E f \in Files : Check(p, f) \/ Write(p, f)
       \/ Mark(p) \/ WriteFails(p) \/ RecordUnknown(p) \/ Finish(p) \/ PersistFails(p)
       \/ Crash(p)
  \/ \E f \in Files, bytes \in Bytes : Edit(f, bytes)
  \/ PowerLoss

Spec == Init /\ [][Next]_vars

-----------------------------------------------------------------------------
Phases == {"idle", "name", "peek", "reclaim", "retake", "read", "check", "mark", "write",
           "fail", "finish", "release", "dead"}

TypeOK ==
  /\ disk \in [Files -> Bytes]
  /\ durable \in [Files -> Bytes]
  /\ state \in [Ops -> States \cup {"none"}]
  /\ plan \in [Ops -> Plans]
  /\ lock \in [Ops -> Locks]
  /\ pc \in [Procs -> Phases]
  /\ kind \in [Procs -> Kinds \cup {Null}]
  /\ op \in [Procs -> Ops \cup {Null}]
  /\ todo \in [Procs -> SUBSET Files]
  /\ overwritten \in [Ops -> SUBSET Files]
  /\ raced \subseteq Ops
  /\ edits \in 0..MaxEdits
  /\ losses \in 0..MaxLosses

(* mutation.ts, acquireLock(): "Fails closed when any live process holds it; *)
(* reclaims a lock only when its holder is provably dead": no two processes  *)
(* are inside the same operation, whoever dies and is reclaimed from, unless *)
(* two found its holder dead at once (see OneHolder).                        *)
LockExcludes ==
  \A p, q \in Procs :
    Holding(p) /\ Holding(q) /\ op[p] = op[q] /\ op[p] \notin raced => p = q

(* The promise as it is written, which two reclaimers of one lock break: the *)
(* second unlinks the lock the first has just taken.                         *)
OneHolder ==
  \A p, q \in Procs : Holding(p) /\ Holding(q) /\ op[p] = op[q] => p = q

(* An operation that reconcile() does not report left its targets as its     *)
(* record says, save those somebody else wrote since.                        *)
RecordsAreTrue ==
  \A o \in Ops \ raced : ~Reported(o) =>
    \A f \in Targets(o) \ overwritten[o] :
      disk[f] = IF state[o] = "applied" THEN plan[o][f].after ELSE plan[o][f].before

(* mutation.ts: "a crash can never be mistaken for a clean state", wherever  *)
(* a process dies and whichever write fails, as long as the machine runs,    *)
(* for every operation whose lock was not raced for.                         *)
CrashIsSeen == losses = 0 => RecordsAreTrue

(* No replay: an operation only ever moves forward, so it is approved,       *)
(* applied and rolled back at most once each, and an interrupted one stays;  *)
(* one whose lock was raced for has two processes in it and may be replayed. *)
Forward == {<<"none", "prepared">>, <<"prepared", "approved">>, <<"approved", "applying">>,
            <<"applying", "applied">>, <<"applying", "unknown">>,
            <<"applied", "rolling-back">>, <<"rolling-back", "rolled-back">>,
            <<"rolling-back", "unknown">>}
NoReplay ==
  [][\A o \in Ops \ raced : state'[o] # state[o] => <<state[o], state'[o]>> \in Forward]_vars
=============================================================================
