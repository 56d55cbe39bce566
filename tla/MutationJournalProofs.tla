------------------------ MODULE MutationJournalProofs ------------------------
(***************************************************************************)
(* What the journal keeps for any processes, operations, files and bounds. *)
(* An operation is locked as long as no two processes have found the same  *)
(* holder of its lock dead at once (raced: the second unlinks whatever     *)
(* file is there by then, which may be the lock the first has just taken). *)
(* Every other operation has one process in it at most, never moves back   *)
(* and, until a power loss, is reported by reconcile() or has left its     *)
(* targets as its record says, however many others are raced for.          *)
(***************************************************************************)
EXTENDS MutationJournal, TLAPS

(* Where no race was seen, no two processes are between finding a holder     *)
(* dead and unlinking its lock.                                              *)
RaceSeen ==
  \A p, q \in Procs :
    pc[p] = "reclaim" /\ pc[q] = "reclaim" /\ op[p] = op[q] /\ op[p] \notin raced => p = q

(* A process is in a call on an operation that has a record, and what it has *)
(* still to visit are targets of it; approve() visits none.                  *)
CallInv ==
  \A p \in Procs :
    /\ pc[p] \notin {"idle", "dead"} =>
         op[p] \in Ops /\ kind[p] \in Kinds /\ state[op[p]] # "none"
    /\ pc[p] \in {"check", "write"} => todo[p] \subseteq Targets(op[p])
    /\ pc[p] \in {"check", "write", "fail", "finish"} => kind[p] # "approve"

(* The operation a process is inside of is locked under its name, and a      *)
(* process that reclaims a lock still finds the dead holder's.               *)
LockInv ==
  \A p \in Procs : op[p] \notin raced =>
    /\ pc[p] = "name" => lock[op[p]] = Empty(p)
    /\ Holding(p) => lock[op[p]] = Named(p)
    /\ pc[p] = "reclaim" => HolderDead(op[p])

(* What a process has read of its record is still in it.                     *)
RecordInv ==
  \A p \in Procs : op[p] \notin raced =>
    /\ pc[p] \in {"check", "mark"} => state[op[p]] = Required[kind[p]]
    /\ pc[p] \in {"write", "fail", "finish"} => state[op[p]] = Marker[kind[p]]

(* The targets a process has visited hold what it wrote, the others what it  *)
(* found there.                                                              *)
HalfDone(p) ==
  op[p] \notin raced =>
    /\ pc[p] \in {"write", "finish"} =>
         \A f \in Targets(op[p]) \ overwritten[op[p]] :
           disk[f] = IF f \in todo[p] THEN Expected(p, f) ELSE Written(p, f)
    /\ pc[p] = "finish" => todo[p] = {}
DiskInv == losses = 0 => RecordsAreTrue /\ \A p \in Procs : HalfDone(p)

JInv == TypeOK /\ CallInv /\ RaceSeen /\ LockInv /\ RecordInv /\ DiskInv

LEMMA Tables ==
  /\ Required["approve"] = "prepared" /\ Required["apply"] = "approved"
  /\ Required["rollBack"] = "applied"
  /\ Marker["approve"] = "approved" /\ Marker["apply"] = "applying"
  /\ Marker["rollBack"] = "rolling-back"
  /\ Done["apply"] = "applied" /\ Done["rollBack"] = "rolled-back"
BY DEF Required, Marker, Done

LEMMA LockFacts ==
  /\ \A p \in Procs : Named(p) # Free /\ Empty(p) # Free
  /\ \A p, q \in Procs : Named(p) # Empty(q)
  /\ \A p, q \in Procs : Named(p) = Named(q) => p = q
  /\ \A p, q \in Procs : Empty(p) = Empty(q) => p = q
  /\ \A p \in Procs : Named(p) \in Locks /\ Empty(p) \in Locks
  /\ Free \in Locks
<1>1. \A p \in Procs : /\ Named(p).by = p /\ Named(p).pid = p
                       /\ Empty(p).by = p /\ Empty(p).pid = Null
  BY DEF Named, Empty
<1>2. Free.by = Null
  BY DEF Free
<1>3. /\ \A p \in Procs : Named(p) \in Locks /\ Empty(p) \in Locks
      /\ Free \in Locks
  BY DEF Named, Empty, Free, Locks
<1> QED
  BY <1>1, <1>2, <1>3, JournalAssumption

LEMMA PlanFacts ==
  ASSUME TypeOK, NEW o \in Ops
  PROVE  /\ Targets(o) \subseteq Files
         /\ \A f \in Targets(o) : plan[o][f] \in Bindings
BY DEF TypeOK, Plans, Targets

LEMMA InitInvariant == Init => JInv
<1> SUFFICES ASSUME Init PROVE JInv
  OBVIOUS
<1>1. TypeOK
  <2>1. [f \in {} |-> Null] \in Plans
    BY DEF Plans
  <2> QED
    BY <2>1, JournalAssumption, LockFacts DEF Init, TypeOK, Phases, Bytes
<1>2. CallInv /\ RaceSeen /\ LockInv /\ RecordInv
  BY DEF Init, CallInv, RaceSeen, LockInv, RecordInv, Holding
<1>3. DiskInv
  BY DEF Init, DiskInv, RecordsAreTrue, HalfDone, Targets
<1> QED
  BY <1>1, <1>2, <1>3 DEF JInv

LEMMA TypeStep == ASSUME TypeOK, CallInv, [Next]_vars PROVE TypeOK'
<1> USE JournalAssumption, LockFacts DEF TypeOK, world, journal, calls, Phases
<1>1. ASSUME NEW p \in Procs, NEW o \in Ops, Prepare(p, o) PROVE TypeOK'
  <2>1. PICK files \in (SUBSET Files) \ {{}} : \E after \in [files -> Contents] :
          plan' = [plan EXCEPT ![o] = [f \in files |-> [before |-> disk[f], after |-> after[f]]]]
    BY <1>1 DEF Prepare
  <2>2. PICK after \in [files -> Contents] :
          plan' = [plan EXCEPT ![o] = [f \in files |-> [before |-> disk[f], after |-> after[f]]]]
    BY <2>1
  <2>3. [f \in files |-> [before |-> disk[f], after |-> after[f]]] \in [files -> Bindings]
    BY DEF Bindings
  <2>4. [f \in files |-> [before |-> disk[f], after |-> after[f]]] \in Plans
    BY <2>3 DEF Plans
  <2>5. plan' \in [Ops -> Plans]
    BY <2>2, <2>4
  <2> QED
    BY <1>1, <2>5 DEF Prepare, States
<1>2. ASSUME NEW p \in Procs, NEW o \in Ops, NEW k \in Kinds, Call(p, k, o) PROVE TypeOK'
  BY <1>2 DEF Call, Create
<1>3. ASSUME NEW p \in Procs, Name(p) \/ NameFails(p) PROVE TypeOK'
  <2>1. CASE Name(p)
    <3>1. lock' \in [Ops -> Locks]
      BY <2>1 DEF Name
    <3> QED
      BY <2>1, <3>1 DEF Name, Goto
  <2>2. CASE NameFails(p)
    BY <2>2 DEF NameFails, Leave
  <2> QED
    BY <1>3, <2>1, <2>2
<1>4. ASSUME NEW p \in Procs, Peek(p) PROVE TypeOK'
  <2>1. op[p] \in Ops
    BY <1>4 DEF Peek, CallInv
  <2> QED
    BY <1>4, <2>1 DEF Peek, Goto, Leave
<1>5. ASSUME NEW p \in Procs, Unlink(p) PROVE TypeOK'
  BY <1>5 DEF Unlink, Goto, Leave
<1>6. ASSUME NEW p \in Procs, Retake(p) PROVE TypeOK'
  <2>1. lock' \in [Ops -> Locks]
    BY <1>6 DEF Retake, Create
  <2>2. /\ pc' \in [Procs -> Phases] /\ kind' \in [Procs -> Kinds \cup {Null}]
        /\ op' \in [Procs -> Ops \cup {Null}] /\ todo' \in [Procs -> SUBSET Files]
    BY <1>6 DEF Retake, Goto, Leave
  <2> QED
    BY <1>6, <2>1, <2>2 DEF Retake
<1>7. ASSUME NEW p \in Procs, Release(p) PROVE TypeOK'
  BY <1>7 DEF Release, Leave
<1>8. ASSUME NEW p \in Procs, Read(p) PROVE TypeOK'
  <2>1. Targets(op[p]) \subseteq Files
    BY <1>8, PlanFacts DEF Read, CallInv
  <2> QED
    BY <1>8, <2>1 DEF Read, Goto
<1>9. ASSUME NEW p \in Procs, NEW f \in Files, Check(p, f) PROVE TypeOK'
  BY <1>9 DEF Check, Goto
<1>10. ASSUME NEW p \in Procs, Mark(p) PROVE TypeOK'
  <2>1. Targets(op[p]) \subseteq Files /\ op[p] \in Ops /\ kind[p] \in Kinds
    BY <1>10, PlanFacts DEF Mark, CallInv
  <2>2. Marker[kind[p]] \in States
    BY <2>1, Tables DEF Kinds, States
  <2> QED
    BY <1>10, <2>1, <2>2 DEF Mark, Goto
<1>11. ASSUME NEW p \in Procs, NEW f \in Files, Write(p, f) PROVE TypeOK'
  <2>1. op[p] \in Ops /\ f \in Targets(op[p])
    BY <1>11 DEF Write, CallInv
  <2>2. Written(p, f) \in Bytes
    BY <2>1, PlanFacts DEF Written, Bindings, Bytes
  <2> QED
    BY <1>11, <2>2 DEF Write, Goto
<1>12. ASSUME NEW p \in Procs, WriteFails(p) \/ PersistFails(p) PROVE TypeOK'
  BY <1>12 DEF WriteFails, PersistFails, Goto
<1>13. ASSUME NEW p \in Procs, RecordUnknown(p) PROVE TypeOK'
  BY <1>13 DEF RecordUnknown, Goto, States
<1>14. ASSUME NEW p \in Procs, Finish(p) PROVE TypeOK'
  <2>1. op[p] \in Ops /\ kind[p] \in {"apply", "rollBack"}
    BY <1>14 DEF Finish, CallInv, Kinds
  <2>2. Done[kind[p]] \in States
    BY <2>1, Tables DEF States
  <2> QED
    BY <1>14, <2>2 DEF Finish, Goto
<1>15. ASSUME NEW p \in Procs, Crash(p) PROVE TypeOK'
  BY <1>15 DEF Crash, Leave
<1>16. ASSUME NEW f \in Files, NEW bytes \in Bytes, Edit(f, bytes) PROVE TypeOK'
  BY <1>16 DEF Edit
<1>17. CASE PowerLoss
  BY <1>17 DEF PowerLoss
<1>18. CASE UNCHANGED vars
  BY <1>18 DEF vars
<1> QED
  BY <1>1, <1>2, <1>3, <1>4, <1>5, <1>6, <1>7, <1>8, <1>9, <1>10, <1>11, <1>12, <1>13,
     <1>14, <1>15, <1>16, <1>17, <1>18 DEF Next

(* A call keeps its operation and its loop, whoever races it for the lock.   *)
LEMMA CallStep == ASSUME TypeOK, CallInv, [Next]_vars PROVE CallInv'
<1> USE DEF TypeOK, CallInv, world, journal, calls, Targets, Goto, Leave
<1>1. ASSUME NEW p \in Procs, NEW o \in Ops, Prepare(p, o) PROVE CallInv'
  <2>1. \A q \in Procs : pc[q] \notin {"idle", "dead"} => op[q] # o
    BY <1>1 DEF Prepare
  <2> QED
    BY <1>1, <2>1 DEF Prepare
<1>2. ASSUME NEW p \in Procs, NEW o \in Ops, NEW k \in Kinds, Call(p, k, o) PROVE CallInv'
  BY <1>2 DEF Call
<1>3. ASSUME NEW p \in Procs,
             Name(p) \/ NameFails(p) \/ Peek(p) \/ Unlink(p) \/ Retake(p) \/ Release(p)
      PROVE  CallInv'
  BY <1>3 DEF Name, NameFails, Peek, Unlink, Retake, Release
<1>4. ASSUME NEW p \in Procs, Read(p) PROVE CallInv'
  BY <1>4 DEF Read
<1>5. ASSUME NEW p \in Procs, NEW f \in Files, Check(p, f) PROVE CallInv'
  BY <1>5 DEF Check
<1>6. ASSUME NEW p \in Procs, NEW f \in Files, Write(p, f) PROVE CallInv'
  BY <1>6 DEF Write
<1>7. ASSUME NEW p \in Procs, Mark(p) \/ RecordUnknown(p) \/ Finish(p) PROVE CallInv'
  <2>1. /\ op[p] \in Ops /\ kind[p] \in Kinds
        /\ pc[p] # "mark" => kind[p] # "approve"
    BY <1>7 DEF Mark, RecordUnknown, Finish
  <2>2. \E v \in States : state' = [state EXCEPT ![op[p]] = v]
    <3>1. Marker[kind[p]] \in States /\ "unknown" \in States
      BY <2>1, Tables DEF Kinds, States
    <3>2. kind[p] # "approve" => Done[kind[p]] \in States
      BY <2>1, Tables DEF Kinds, States
    <3> QED
      BY <1>7, <2>1, <3>1, <3>2 DEF Mark, RecordUnknown, Finish
  <2>3. \A o \in Ops : state[o] # "none" => state'[o] # "none"
    BY <2>2 DEF States
  <2>4. CASE Mark(p)
    BY <2>1, <2>3, <2>4 DEF Mark
  <2>5. CASE RecordUnknown(p)
    BY <2>1, <2>3, <2>5 DEF RecordUnknown
  <2>6. CASE Finish(p)
    BY <2>1, <2>3, <2>6 DEF Finish
  <2> QED
    BY <1>7, <2>4, <2>5, <2>6
<1>8. ASSUME NEW p \in Procs, WriteFails(p) \/ PersistFails(p) PROVE CallInv'
  BY <1>8 DEF WriteFails, PersistFails
<1>9. ASSUME NEW p \in Procs, Crash(p) PROVE CallInv'
  BY <1>9 DEF Crash
<1>10. ASSUME NEW f \in Files, NEW bytes \in Bytes, Edit(f, bytes) PROVE CallInv'
  BY <1>10 DEF Edit
<1>11. CASE PowerLoss
  BY <1>11 DEF PowerLoss
<1>12. CASE UNCHANGED vars
  BY <1>12 DEF vars
<1> QED
  BY <1>1, <1>2, <1>3, <1>4, <1>5, <1>6, <1>7, <1>8, <1>9, <1>10, <1>11, <1>12 DEF Next

LEMMA LockGivesExclusion == LockInv => LockExcludes
BY LockFacts DEF CallInv, LockInv, LockExcludes

LEMMA RaceStep == ASSUME TypeOK, RaceSeen, [Next]_vars PROVE RaceSeen' /\ raced \subseteq raced'
<1> USE DEF TypeOK, RaceSeen, world, journal, calls, Goto, Leave
<1>1. ASSUME NEW p \in Procs, Peek(p) PROVE RaceSeen' /\ raced \subseteq raced'
  BY <1>1 DEF Peek, Reclaiming
<1>2. ASSUME NEW p \in Procs,
             \/ \E o \in Ops : Prepare(p, o) \/ \E k \in Kinds : Call(p, k, o)
             \/ Name(p) \/ NameFails(p) \/ Unlink(p) \/ Retake(p) \/ Release(p)
      PROVE  RaceSeen' /\ raced \subseteq raced'
  BY <1>2 DEF Prepare, Call, Name, NameFails, Unlink, Retake, Release
<1>3. ASSUME NEW p \in Procs, Read(p) \/ \E f \in Files : Check(p, f) \/ Write(p, f)
      PROVE  RaceSeen' /\ raced \subseteq raced'
  BY <1>3 DEF Read, Check, Write
<1>4. ASSUME NEW p \in Procs, \/ Mark(p) \/ WriteFails(p) \/ RecordUnknown(p) \/ Finish(p)
                              \/ PersistFails(p) \/ Crash(p)
      PROVE  RaceSeen' /\ raced \subseteq raced'
  BY <1>4 DEF Mark, WriteFails, RecordUnknown, Finish, PersistFails, Crash
<1>5. ASSUME NEW f \in Files, NEW bytes \in Bytes, Edit(f, bytes)
      PROVE  RaceSeen' /\ raced \subseteq raced'
  BY <1>5 DEF Edit
<1>6. CASE PowerLoss \/ UNCHANGED vars
  BY <1>6 DEF PowerLoss, vars
<1> QED
  BY <1>1, <1>2, <1>3, <1>4, <1>5, <1>6 DEF Next

LEMMA LockStep == ASSUME JInv, [Next]_vars PROVE LockInv'
<1> USE LockFacts DEF JInv, TypeOK, CallInv, LockInv, world, journal, calls, Holding, Dead, HolderDead,
                      Goto, Leave
<1>1. ASSUME NEW p \in Procs, NEW o \in Ops, Prepare(p, o) PROVE LockInv'
  BY <1>1 DEF Prepare
<1>2. ASSUME NEW p \in Procs, NEW o \in Ops, NEW k \in Kinds, Call(p, k, o) PROVE LockInv'
  BY <1>2 DEF Call, Create
<1>3. ASSUME NEW p \in Procs, Name(p) PROVE LockInv'
  BY <1>3 DEF Name
<1>4. ASSUME NEW p \in Procs, NameFails(p) \/ Peek(p) PROVE LockInv'
  BY <1>4 DEF NameFails, Peek
<1>5. ASSUME NEW p \in Procs, Unlink(p) PROVE LockInv'
  BY <1>5 DEF Unlink, RaceSeen
<1>6. ASSUME NEW p \in Procs, Retake(p) PROVE LockInv'
  BY <1>6 DEF Retake, Create
<1>7. ASSUME NEW p \in Procs, Release(p) PROVE LockInv'
  BY <1>7 DEF Release
<1>8. ASSUME NEW p \in Procs, NEW f \in Files,
             Read(p) \/ Check(p, f) \/ Mark(p) \/ Write(p, f)
      PROVE  LockInv'
  BY <1>8 DEF Read, Check, Mark, Write
<1>9. ASSUME NEW p \in Procs,
             Read(p) \/ Mark(p) \/ WriteFails(p) \/ RecordUnknown(p) \/ Finish(p) \/ PersistFails(p)
      PROVE  LockInv'
  BY <1>9 DEF Read, Mark, WriteFails, RecordUnknown, Finish, PersistFails
<1>10. ASSUME NEW p \in Procs, Crash(p) PROVE LockInv'
  BY <1>10 DEF Crash
<1>11. CASE PowerLoss
  BY <1>11 DEF PowerLoss
<1>12. ASSUME NEW f \in Files, NEW bytes \in Bytes, Edit(f, bytes) PROVE LockInv'
  BY <1>12 DEF Edit
<1>13. CASE UNCHANGED vars
  BY <1>13 DEF vars
<1> QED
  BY <1>1, <1>2, <1>3, <1>4, <1>5, <1>6, <1>7, <1>8, <1>9, <1>10, <1>11, <1>12, <1>13
  DEF Next

-----------------------------------------------------------------------------
LEMMA RecordStep == ASSUME JInv, [Next]_vars PROVE RecordInv'
<1> USE DEF JInv, TypeOK, CallInv, RecordInv, world, journal, calls, Targets, Goto, Leave
<1>1. LockExcludes
  BY LockGivesExclusion
<1>2. ASSUME NEW p \in Procs, NEW o \in Ops, Prepare(p, o) PROVE RecordInv'
  <2>1. \A q \in Procs : pc[q] \in {"check", "mark", "write", "fail", "finish"} => op[q] # o
    BY <1>2, Tables DEF Prepare, CallInv, LockInv, Kinds
  <2> QED
    BY <1>2, <2>1 DEF Prepare, CallInv, LockInv
<1>3. ASSUME NEW p \in Procs, NEW o \in Ops, NEW k \in Kinds, Call(p, k, o) PROVE RecordInv'
  BY <1>3 DEF Call
<1>4. ASSUME NEW p \in Procs,
             Name(p) \/ NameFails(p) \/ Peek(p) \/ Unlink(p) \/ Retake(p) \/ Release(p)
      PROVE  RecordInv'
  BY <1>4 DEF Name, NameFails, Peek, Unlink, Retake, Release
<1>5. ASSUME NEW p \in Procs, Read(p) PROVE RecordInv'
  BY <1>5 DEF Read
<1>6. ASSUME NEW p \in Procs, NEW f \in Files, Check(p, f) \/ Write(p, f) PROVE RecordInv'
  <2>1. CASE Check(p, f)
    BY <2>1 DEF Check
  <2>2. CASE Write(p, f)
    BY <2>2 DEF Write
  <2> QED
    BY <1>6, <2>1, <2>2
<1>7. ASSUME NEW p \in Procs, Mark(p) PROVE RecordInv'
  <2>1. \A q \in Procs : Holding(q) /\ q # p => op[q] # op[p] \/ op[q] \in raced
    BY <1>1, <1>7 DEF Mark, Holding, LockExcludes
  <2> QED
    BY <1>7, <2>1, Tables DEF Mark, Holding, CallInv, LockInv, Kinds
<1>8. ASSUME NEW p \in Procs, WriteFails(p) \/ PersistFails(p) PROVE RecordInv'
  BY <1>8 DEF WriteFails, PersistFails
<1>9. ASSUME NEW p \in Procs, RecordUnknown(p) \/ Finish(p) PROVE RecordInv'
  <2>1. \A q \in Procs : Holding(q) /\ q # p => op[q] # op[p] \/ op[q] \in raced
    BY <1>1, <1>9 DEF RecordUnknown, Finish, Holding, LockExcludes
  <2> QED
    BY <1>9, <2>1, Tables DEF RecordUnknown, Finish, Holding, CallInv, LockInv, Kinds
<1>10. ASSUME NEW p \in Procs, Crash(p) PROVE RecordInv'
  BY <1>10 DEF Crash
<1>11. ASSUME NEW f \in Files, NEW bytes \in Bytes, Edit(f, bytes) PROVE RecordInv'
  BY <1>11 DEF Edit
<1>12. CASE PowerLoss
  BY <1>12 DEF PowerLoss
<1>13. CASE UNCHANGED vars
  BY <1>13 DEF vars
<1> QED
  BY <1>2, <1>3, <1>4, <1>5, <1>6, <1>7, <1>8, <1>9, <1>10, <1>11, <1>12, <1>13 DEF Next

(* An operation that a process has marked is reported, so its record claims  *)
(* nothing about its targets.                                                *)
LEMMA MarkedIsReported ==
  ASSUME JInv, NEW p \in Procs, pc[p] \in {"write", "fail", "finish"}
  PROVE  /\ op[p] \in Ops /\ state[op[p]] # "none" /\ kind[p] \in {"apply", "rollBack"}
         /\ op[p] \in raced \/ Reported(op[p])
BY Tables DEF JInv, CallInv, LockInv, RecordInv, Kinds, Reported

LEMMA DiskStep == ASSUME JInv, [Next]_vars PROVE DiskInv'
<1> USE DEF world, journal, calls
<1>1. LockExcludes
  BY LockGivesExclusion DEF JInv
<1>2. losses' = 0 => losses = 0
  <2>1. CASE PowerLoss
    BY <2>1, JournalAssumption DEF JInv, TypeOK, PowerLoss
  <2>2. ASSUME NEW p \in Procs, NEW o \in Ops,
               Prepare(p, o) \/ \E k \in Kinds : Call(p, k, o)
        PROVE  UNCHANGED losses
    BY <2>2 DEF Prepare, Call
  <2>3. ASSUME NEW p \in Procs,
               \/ Name(p) \/ NameFails(p) \/ Peek(p) \/ Unlink(p) \/ Retake(p) \/ Release(p)
               \/ Read(p) \/ (\E f \in Files : Check(p, f) \/ Write(p, f))
               \/ Mark(p) \/ WriteFails(p) \/ RecordUnknown(p) \/ Finish(p) \/ PersistFails(p)
               \/ Crash(p)
        PROVE  UNCHANGED losses
    BY <2>3 DEF Name, NameFails, Peek, Unlink, Retake, Release, Read, Check, Mark, Write,
                WriteFails, RecordUnknown, Finish, PersistFails, Crash
  <2>4. ASSUME NEW f \in Files, NEW bytes \in Bytes, Edit(f, bytes) PROVE UNCHANGED losses
    BY <2>4 DEF Edit
  <2> QED
    BY <2>1, <2>2, <2>3, <2>4 DEF Next, vars
<1> SUFFICES ASSUME losses' = 0
             PROVE  RecordsAreTrue' /\ \A q \in Procs : HalfDone(q)'
  BY DEF DiskInv
<1>3. RecordsAreTrue /\ \A q \in Procs : HalfDone(q)
  BY <1>2 DEF JInv, DiskInv
<1> raced \subseteq raced'
  BY RaceStep DEF JInv
<1>4. ASSUME UNCHANGED <<disk, state, plan, overwritten>>,
             \A q \in Procs : \/ pc'[q] \notin {"write", "finish"}
                             \/ /\ pc'[q] = pc[q]
                                /\ todo'[q] = todo[q] /\ op'[q] = op[q] /\ kind'[q] = kind[q]
      PROVE  RecordsAreTrue' /\ \A q \in Procs : HalfDone(q)'
  BY <1>3, <1>4 DEF RecordsAreTrue, HalfDone, Reported, Targets, Expected, Written
<1>5. ASSUME NEW p \in Procs, NEW o \in Ops, Prepare(p, o)
      PROVE  RecordsAreTrue' /\ \A q \in Procs : HalfDone(q)'
  <2>1. PICK files \in SUBSET Files : \E after \in [files -> Contents] :
          plan' = [plan EXCEPT ![o] = [f \in files |-> [before |-> disk[f], after |-> after[f]]]]
    BY <1>5 DEF Prepare
  <2>2. PICK after \in [files -> Contents] :
          plan' = [plan EXCEPT ![o] = [f \in files |-> [before |-> disk[f], after |-> after[f]]]]
    BY <2>1
  <2>3. \A f \in Targets(o)' : plan'[o][f].before = disk'[f]
    BY <1>5, <2>2 DEF Prepare, Targets, JInv, TypeOK
  <2>4. \A b \in Ops : b # o => plan'[b] = plan[b] /\ state'[b] = state[b]
                              /\ overwritten'[b] = overwritten[b]
    BY <1>5, <2>2 DEF Prepare, JInv, TypeOK
  <2>5. RecordsAreTrue'
    BY <1>3, <1>5, <2>3, <2>4 DEF Prepare, RecordsAreTrue, Reported, Targets, JInv, TypeOK
  <2>6. ASSUME NEW q \in Procs, pc[q] \in {"write", "finish"} PROVE op[q] # o /\ op[q] \in Ops
    BY <1>5, <2>6, MarkedIsReported DEF Prepare, Reported
  <2>7. \A q \in Procs : HalfDone(q)'
    BY <1>3, <1>5, <2>4, <2>6 DEF Prepare, HalfDone, Targets, Expected, Written
  <2> QED
    BY <2>5, <2>7
<1>6. ASSUME NEW p \in Procs, NEW o \in Ops, NEW k \in Kinds, Call(p, k, o)
      PROVE  RecordsAreTrue' /\ \A q \in Procs : HalfDone(q)'
  BY <1>4, <1>6 DEF Call, JInv, TypeOK
<1>7. ASSUME NEW p \in Procs, \/ Name(p) \/ NameFails(p) \/ Peek(p) \/ Unlink(p) \/ Retake(p)
                              \/ Release(p) \/ Read(p) \/ WriteFails(p) \/ PersistFails(p)
                              \/ Crash(p) \/ \E f \in Files : Check(p, f)
      PROVE  RecordsAreTrue' /\ \A q \in Procs : HalfDone(q)'
  BY <1>4, <1>7 DEF Name, NameFails, Peek, Unlink, Retake, Release, Read, WriteFails, PersistFails,
     Crash, Check, Goto, Leave, JInv, TypeOK
<1>8. ASSUME NEW p \in Procs, Mark(p) PROVE RecordsAreTrue' /\ \A q \in Procs : HalfDone(q)'
  <2>1. /\ op[p] \in Ops /\ kind[p] \in Kinds /\ raced' = raced
        /\ op[p] \notin raced => state[op[p]] = Required[kind[p]]
    BY <1>8 DEF Mark, JInv, CallInv, LockInv, RecordInv
  <2>2. op[p] \notin raced => ~Reported(op[p])
    BY <2>1, Tables DEF Kinds, Reported
  <2>3. op[p] \notin raced =>
          \A f \in Targets(op[p]) \ overwritten[op[p]] :
            kind[p] # "approve" => disk[f] = Expected(p, f)
    BY <1>3, <2>1, <2>2, Tables DEF RecordsAreTrue, Expected, Kinds
  <2>4. \A q \in Procs \ {p} : pc'[q] = pc[q] /\ todo'[q] = todo[q]
    BY <1>8 DEF Mark, Goto, JInv, TypeOK
  <2>5. /\ todo'[p] = Targets(op[p])
        /\ pc'[p] = IF kind[p] = "approve" THEN "release" ELSE "write"
    BY <1>8 DEF Mark, Goto, JInv, TypeOK
  <2>6. \A q \in Procs : HalfDone(q)'
    BY <1>3, <1>8, <2>1, <2>3, <2>4, <2>5 DEF Mark, Goto, HalfDone, Targets, Expected, Written
  <2>7. \A b \in Ops \ {op[p]} : state'[b] = state[b]
    BY <1>8 DEF Mark, JInv, TypeOK
  <2>8. state'[op[p]] = Marker[kind[p]]
    BY <1>8, <2>1 DEF Mark, JInv, TypeOK
  <2>9. RecordsAreTrue'
    BY <1>3, <1>8, <2>1, <2>2, <2>7, <2>8, Tables DEF Mark, RecordsAreTrue, Reported, Targets, Kinds
  <2> QED
    BY <2>6, <2>9
<1>9. ASSUME NEW p \in Procs, NEW f \in Files, Write(p, f)
      PROVE  RecordsAreTrue' /\ \A q \in Procs : HalfDone(q)'
  <2>1. /\ op[p] \in Ops /\ f \in todo[p] /\ raced' = raced
        /\ op[p] \in raced \/ Reported(op[p])
    BY <1>9, MarkedIsReported DEF Write
  <2>2. /\ \A h \in Files \ {f} : disk'[h] = disk[h]
        /\ disk'[f] = Written(p, f)
    BY <1>9 DEF Write, JInv, TypeOK
  <2>3. /\ \A b \in Ops \ {op[p]} : overwritten'[b] = overwritten[b] \cup {f}
        /\ overwritten'[op[p]] = overwritten[op[p]]
    BY <1>9, <2>1 DEF Write, JInv, TypeOK
  <2>4. RecordsAreTrue'
    BY <1>3, <1>9, <2>1, <2>2, <2>3, PlanFacts DEF Write, RecordsAreTrue, Reported, Targets, JInv
  <2>5. ASSUME NEW q \in Procs \ {p} PROVE HalfDone(q)'
    <3>1. /\ pc'[q] = pc[q] /\ todo'[q] = todo[q] /\ UNCHANGED <<kind, op, plan>>
      BY <1>9 DEF Write, Goto, JInv, TypeOK
    <3>2. pc[q] \in {"write", "finish"} =>
            op[q] \in raced \/ (op[q] # op[p] /\ op[q] \in Ops)
      BY <1>1, <1>9, MarkedIsReported DEF Write, LockExcludes, Holding
    <3> QED
      BY <1>3, <2>1, <2>2, <2>3, <3>1, <3>2, PlanFacts DEF HalfDone, Targets, Expected, Written, JInv
  <2>6. HalfDone(p)'
    <3>1. /\ todo'[p] = todo[p] \ {f} /\ UNCHANGED <<kind, op, plan>> /\ pc[p] = "write"
          /\ pc'[p] = IF todo[p] = {f} THEN "finish" ELSE "write"
      BY <1>9 DEF Write, Goto, JInv, TypeOK
    <3> QED
      BY <1>3, <2>1, <2>2, <2>3, <3>1, PlanFacts DEF HalfDone, Targets, Expected, Written, JInv
  <2> QED
    BY <2>4, <2>5, <2>6
<1>10. ASSUME NEW p \in Procs, RecordUnknown(p) \/ Finish(p)
       PROVE  RecordsAreTrue' /\ \A q \in Procs : HalfDone(q)'
  <2>1. op[p] \in Ops /\ kind[p] \in {"apply", "rollBack"}
    BY <1>10, MarkedIsReported DEF RecordUnknown, Finish
  <2>2. /\ UNCHANGED <<disk, plan, overwritten, raced, op, kind, todo>>
        /\ \A b \in Ops \ {op[p]} : state'[b] = state[b]
        /\ pc'[p] = "release"
        /\ \A q \in Procs \ {p} : pc'[q] = pc[q]
    BY <1>10 DEF RecordUnknown, Finish, Goto, JInv, TypeOK
  <2>3. \A q \in Procs : HalfDone(q)'
    BY <1>3, <2>2 DEF HalfDone, Targets, Expected, Written
  <2>4. CASE RecordUnknown(p)
    <3>1. state'[op[p]] = "unknown"
      BY <2>1, <2>4 DEF RecordUnknown, JInv, TypeOK
    <3> QED
      BY <1>3, <2>2, <2>3, <3>1 DEF RecordsAreTrue, Reported, Targets
  <2>5. CASE Finish(p)
    <3>1. state'[op[p]] = Done[kind[p]]
      BY <2>1, <2>5 DEF Finish, JInv, TypeOK
    <3>2. op[p] \notin raced =>
            \A f \in Targets(op[p]) \ overwritten[op[p]] : disk[f] = Written(p, f)
      BY <1>3, <2>5 DEF Finish, HalfDone
    <3> QED
      BY <1>3, <2>1, <2>2, <2>3, <3>1, <3>2, Tables DEF RecordsAreTrue, Reported, Targets, Written
  <2> QED
    BY <1>10, <2>4, <2>5
<1>11. ASSUME NEW f \in Files, NEW bytes \in Bytes, Edit(f, bytes)
       PROVE  RecordsAreTrue' /\ \A q \in Procs : HalfDone(q)'
  <2>1. /\ \A h \in Files \ {f} : disk'[h] = disk[h]
        /\ \A b \in Ops : overwritten'[b] = overwritten[b] \cup {f}
        /\ UNCHANGED <<state, plan, raced, pc, kind, op, todo>>
    BY <1>11 DEF Edit, JInv, TypeOK
  <2>2. RecordsAreTrue'
    BY <1>3, <2>1, PlanFacts DEF RecordsAreTrue, Reported, Targets, JInv
  <2>3. ASSUME NEW q \in Procs PROVE HalfDone(q)'
    <3>1. pc[q] \in {"write", "finish"} => op[q] \in Ops
      BY MarkedIsReported
    <3> QED
      BY <1>3, <2>1, <3>1, PlanFacts DEF HalfDone, Targets, Expected, Written, JInv
  <2> QED
    BY <2>2, <2>3
<1>12. ~PowerLoss
  BY <1>2 DEF PowerLoss
<1>13. CASE UNCHANGED vars
  BY <1>4, <1>13 DEF vars
<1> QED
  BY <1>5, <1>6, <1>7, <1>8, <1>9, <1>10, <1>11, <1>12, <1>13 DEF Next

-----------------------------------------------------------------------------
LEMMA StepInvariant == ASSUME JInv, [Next]_vars PROVE JInv'
BY TypeStep, CallStep, RaceStep, LockStep, RecordStep, DiskStep DEF JInv

LEMMA StepForward ==
  ASSUME JInv, [Next]_vars
  PROVE  \A o \in Ops \ raced : state'[o] # state[o] => <<state[o], state'[o]>> \in Forward
<1> SUFFICES ASSUME NEW o \in Ops \ raced, state'[o] # state[o]
             PROVE  <<state[o], state'[o]>> \in Forward
  OBVIOUS
<1> USE DEF world, journal, calls
<1>1. PICK p \in Procs : \/ \E b \in Ops : Prepare(p, b)
                         \/ Mark(p) \/ RecordUnknown(p) \/ Finish(p)
  BY DEF Next, vars, Call, Name, NameFails, Peek, Unlink, Retake, Release, Read, Check, Write,
     WriteFails, PersistFails, Crash, Edit, PowerLoss
<1>2. CASE \E b \in Ops : Prepare(p, b)
  BY <1>2 DEF Prepare, Forward, JInv, TypeOK
<1>3. CASE Mark(p)
  <2>1. /\ kind[p] \in Kinds /\ o = op[p] /\ state[o] = Required[kind[p]]
        /\ state'[o] = Marker[kind[p]]
    BY <1>3 DEF Mark, JInv, CallInv, LockInv, RecordInv, TypeOK
  <2> QED
    BY <2>1, Tables DEF Kinds, Forward
<1>4. CASE RecordUnknown(p) \/ Finish(p)
  <2>1. /\ kind[p] \in {"apply", "rollBack"} /\ o = op[p] /\ state[o] = Marker[kind[p]]
        /\ state'[o] \in {"unknown", Done[kind[p]]}
    BY <1>4, MarkedIsReported DEF RecordUnknown, Finish, JInv, CallInv, RecordInv, TypeOK
  <2> QED
    BY <2>1, Tables DEF Forward
<1> QED
  BY <1>1, <1>2, <1>3, <1>4

(* The inductive invariant: types, what a process relies on about its lock,  *)
(* its record and its targets, and that every race for a lock was seen.      *)
THEOREM JournalInvariant == Spec => []JInv
BY InitInvariant, StepInvariant, PTL DEF Spec

(* Locks, records and targets hold what their writers may put there, and a   *)
(* call stays with the operation it was made for, even where the race lets   *)
(* two processes into it.                                                    *)
THEOREM JournalTyped == Spec => []TypeOK
<1>1. JInv => TypeOK
  BY DEF JInv
<1> QED
  BY <1>1, JournalInvariant, PTL

(* No two processes are ever inside the same operation, unless two have      *)
(* found a holder of its lock dead at once, whatever happens to the locks of *)
(* other operations.                                                         *)
THEOREM ExclusionUnlessRaced == Spec => []LockExcludes
<1>1. JInv => LockExcludes
  BY LockGivesExclusion DEF JInv
<1> QED
  BY <1>1, JournalInvariant, PTL

(* Wherever processes die and whichever writes fail, until a power loss an   *)
(* operation that reconcile() does not report, and whose lock was not raced  *)
(* for, has left its targets as its record says.                             *)
THEOREM CrashesAreSeen == Spec => []CrashIsSeen
<1>1. JInv => CrashIsSeen
  BY DEF JInv, DiskInv, CrashIsSeen
<1> QED
  BY <1>1, JournalInvariant, PTL

(* No operation is approved, applied or rolled back twice, and none leaves   *)
(* an interrupted state, unless its lock was raced for.                      *)
THEOREM NothingIsReplayed == Spec => NoReplay
<1>1. JInv /\ [Next]_vars =>
        [\A o \in Ops \ raced : state'[o] # state[o] => <<state[o], state'[o]>> \in Forward]_vars
  BY StepForward
<1> QED
  BY <1>1, JournalInvariant, PTL DEF Spec, NoReplay

(* With two processes the race cannot come up: a process that reclaims has   *)
(* found the other one dead.                                                 *)
LEMMA TwoNeverRace ==
  ASSUME NEW a, NEW b, Procs = {a, b}, JInv, raced = {}, [Next]_vars
  PROVE  raced' = {}
<1>1. ASSUME NEW p \in Procs, Peek(p), raced' # raced PROVE FALSE
  <2>1. /\ pc[p] = "peek" /\ HolderDead(op[p])
        /\ \E q \in Procs : pc[q] = "reclaim" /\ op[q] = op[p]
    BY <1>1 DEF Peek, Reclaiming
  <2>2. PICK q \in Procs : pc[q] = "reclaim"
    BY <2>1
  <2>3. PICK d \in Procs : pc[d] = "dead"
    BY <2>1 DEF HolderDead, Dead
  <2> QED
    BY <2>1, <2>2, <2>3
<1>2. (\E p \in Procs : Peek(p)) \/ UNCHANGED raced
  BY DEF Next, vars, world, Prepare, Call, Name, NameFails, Unlink, Retake, Release, Read, Check,
         Mark, Write, WriteFails, RecordUnknown, Finish, PersistFails, Crash, Edit, PowerLoss
<1> QED
  BY <1>1, <1>2

(* So for two processes, any operations, any files and any bounds, the lock  *)
(* keeps its promise as it is written: never two processes inside the same   *)
(* operation, and no operation is raced for.                                 *)
THEOREM TwoProcessesExclude ==
  ASSUME NEW a, NEW b, Procs = {a, b}
  PROVE  Spec => [](OneHolder /\ raced = {})
<1>1. Init => raced = {}
  BY DEF Init
<1>2. JInv /\ raced = {} /\ [Next]_vars => (raced = {})'
  BY TwoNeverRace
<1>3. JInv /\ raced = {} => OneHolder
  BY LockGivesExclusion DEF JInv, LockExcludes, OneHolder
<1> QED
  BY <1>1, <1>2, <1>3, JournalInvariant, PTL DEF Spec

-----------------------------------------------------------------------------
(* A lock file whose creator died, or whose disk was full, before the pid    *)
(* was in it.                                                                *)
Abandoned(o) == \E d \in Procs : lock[o] = Empty(d) /\ ~(pc[d] = "name" /\ op[d] = o)

(* Only operations with a record are locked.                                 *)
LockedIsKnown == \A o \in Ops : lock[o] # Free => state[o] # "none"

LEMMA KnownStep == ASSUME TypeOK, CallInv, LockedIsKnown, [Next]_vars PROVE LockedIsKnown'
<1> USE DEF LockedIsKnown, world, journal, calls
<1>1. \A o \in Ops : state[o] # "none" => state'[o] # "none"
  <2>1. CASE UNCHANGED state
    BY <2>1
  <2>2. ASSUME NEW p \in Procs, Mark(p) \/ RecordUnknown(p) \/ Finish(p)
        PROVE  \A o \in Ops : state[o] # "none" => state'[o] # "none"
    <3>1. op[p] \in Ops /\ kind[p] \in Kinds /\ (pc[p] = "finish" => kind[p] # "approve")
      BY <2>2 DEF Mark, RecordUnknown, Finish, CallInv
    <3>2. Marker[kind[p]] # "none" /\ (kind[p] # "approve" => Done[kind[p]] # "none")
      BY <3>1, Tables DEF Kinds
    <3> QED
      BY <2>2, <3>1, <3>2 DEF Mark, RecordUnknown, Finish, TypeOK
  <2>3. ASSUME NEW p \in Procs, NEW o \in Ops, Prepare(p, o)
        PROVE  \A b \in Ops : state[b] # "none" => state'[b] # "none"
    BY <2>3 DEF Prepare, TypeOK
  <2> QED
    BY <2>1, <2>2, <2>3
    DEF Next, vars, Call, Name, NameFails, Peek, Unlink, Retake, Release, Read, Check, Write,
        WriteFails, PersistFails, Crash, Edit, PowerLoss
<1>2. CASE UNCHANGED lock
  BY <1>1, <1>2
<1>3. ASSUME NEW p \in Procs, NEW o \in Ops, NEW k \in Kinds, Call(p, k, o) PROVE LockedIsKnown'
  BY <1>1, <1>3 DEF Call, Create, TypeOK
<1>4. ASSUME NEW p \in Procs, Name(p) \/ Unlink(p) \/ Retake(p) \/ Release(p)
      PROVE  LockedIsKnown'
  <2>1. op[p] \in Ops /\ state[op[p]] # "none"
    BY <1>4 DEF Name, Unlink, Retake, Release, CallInv
  <2> QED
    BY <1>1, <1>4, <2>1 DEF Name, Unlink, Retake, Release, Create, TypeOK
<1> QED
  BY <1>2, <1>3, <1>4
  DEF Next, vars, Prepare, NameFails, Peek, Read, Check, Mark, Write, WriteFails, RecordUnknown,
      Finish, PersistFails, Crash, Edit, PowerLoss

(* Nobody is inside an abandoned operation, nobody gets in, and its lock     *)
(* stays where it is.                                                        *)
LEMMA AbandonedStep ==
  ASSUME JInv, LockedIsKnown, [Next]_vars, NEW o \in Ops \ raced, Abandoned(o)
  PROVE  lock'[o] = lock[o] /\ state'[o] = state[o]
<1> USE DEF world, journal, calls
<1>1. PICK d \in Procs : lock[o] = Empty(d) /\ ~(pc[d] = "name" /\ op[d] = o)
  BY DEF Abandoned
<1>2. lock[o] # Free /\ state[o] # "none" /\ \A p \in Procs : lock[o] # Named(p)
  BY <1>1, LockFacts DEF LockedIsKnown
<1>3. \A p \in Procs : pc[p] = "name" \/ pc[p] = "reclaim" \/ Holding(p) => op[p] # o
  <2>1. \A p \in Procs : lock[o] = Empty(p) => p = d
    BY <1>1, LockFacts
  <2> QED
    BY <1>1, <1>2, <2>1 DEF JInv, LockInv, HolderDead
<1>4. lock \in [Ops -> Locks] /\ state \in [Ops -> States \cup {"none"}]
  BY DEF JInv, TypeOK
<1>5. CASE UNCHANGED <<lock, state>>
  BY <1>5
<1>6. ASSUME NEW p \in Procs, NEW b \in Ops, Prepare(p, b)
      PROVE  lock'[o] = lock[o] /\ state'[o] = state[o]
  BY <1>2, <1>4, <1>6 DEF Prepare
<1>7. ASSUME NEW p \in Procs, NEW b \in Ops, NEW k \in Kinds, Call(p, k, b)
      PROVE  lock'[o] = lock[o] /\ state'[o] = state[o]
  BY <1>2, <1>4, <1>7 DEF Call, Create
<1>8. ASSUME NEW p \in Procs, Name(p) \/ Unlink(p) \/ Release(p)
      PROVE  lock'[o] = lock[o] /\ state'[o] = state[o]
  BY <1>3, <1>4, <1>8 DEF Name, Unlink, Release, Holding
<1>9. ASSUME NEW p \in Procs, Retake(p)
      PROVE  lock'[o] = lock[o] /\ state'[o] = state[o]
  BY <1>2, <1>4, <1>9 DEF Retake, Create
<1>10. ASSUME NEW p \in Procs, Mark(p) \/ RecordUnknown(p) \/ Finish(p)
       PROVE  lock'[o] = lock[o] /\ state'[o] = state[o]
  BY <1>3, <1>4, <1>10 DEF Mark, RecordUnknown, Finish, Holding
<1> QED
  BY <1>5, <1>6, <1>7, <1>8, <1>9, <1>10
  DEF Next, vars, NameFails, Peek, Read, Check, Write, WriteFails, PersistFails, Crash, Edit,
      PowerLoss

(* A lock file that was left without a pid is never taken for a dead         *)
(* holder's: unless the lock is raced for, the operation stays as it is, for *)
(* an operator to look at.                                                   *)
THEOREM AbandonedStaysLocked ==
  Spec =>
    [][\A o \in Ops \ raced :
         Abandoned(o) => lock'[o] = lock[o] /\ state'[o] = state[o]]_vars
<1>1. Init => LockedIsKnown
  BY DEF Init, LockedIsKnown
<1>2. JInv /\ LockedIsKnown /\ [Next]_vars => LockedIsKnown'
  BY KnownStep DEF JInv
<1>3. JInv /\ LockedIsKnown /\ [Next]_vars =>
        [\A o \in Ops \ raced :
           Abandoned(o) => lock'[o] = lock[o] /\ state'[o] = state[o]]_vars
  BY AbandonedStep
<1> QED
  BY <1>1, <1>2, <1>3, JournalInvariant, PTL DEF Spec
=============================================================================
