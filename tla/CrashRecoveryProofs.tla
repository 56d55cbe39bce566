------------------------- MODULE CrashRecoveryProofs -------------------------
(***************************************************************************)
(* An operation marked superseded was superseded by one that landed, for   *)
(* any processes, operations and files, whoever crashes and whoever races  *)
(* whom for the journal's locks: the mark rests on the record of the new   *)
(* operation, which only its own process approves and applies. And         *)
(* recovery is a user of the journal like any other: whatever holds of     *)
(* MutationJournal holds of it.                                            *)
(***************************************************************************)
EXTENDS CrashRecovery, MutationJournalProofs, TLAPS

Shapes ==
  /\ pc \in [Procs -> Phases]
  /\ kind \in [Procs -> Kinds \cup {Null}] /\ op \in [Procs -> Ops \cup {Null}]
  /\ state \in [Ops -> States \cup {"none"}] /\ plan = [o \in Ops |-> plan[o]]
  /\ marker \in [Ops -> {"none", "keep", "superseded"}]
  /\ old \in [Procs -> Ops \cup {Null}] /\ new \in [Procs -> Ops \cup {Null}]
  /\ stage \in [Procs -> {"approve", "apply", "calling", "mark", Null}]

InCall(p) == pc[p] \notin {"idle", "dead"}

(* A process is at work on an operation that is there. Before it releases    *)
(* the lock, that of a retry has landed if it rolls it back; else it has     *)
(* not, and the process is the one whose retry it is.                        *)
CallSound(p) ==
  /\ InCall(p) => op[p] \in Ops /\ kind[p] \in Kinds /\ state[op[p]] # "none"
  /\ pc[p] \in {"write", "fail", "finish"} => kind[p] # "approve"
  /\ InCall(p) /\ pc[p] # "release" /\ op[p] \in Retries =>
       IF kind[p] = "rollBack" THEN Landed(op[p])
                               ELSE ~Landed(op[p]) /\ old[p] # Null /\ new[p] = op[p]

(* The operation of a retry holds the bytes of the one it is to supersede;   *)
(* it has landed when it is time for the mark, and not before its last call. *)
RetrySound(p) ==
  old[p] # Null =>
    /\ old[p] \in Ops /\ new[p] \in Retries
    /\ state[old[p]] # "none" /\ state[new[p]] # "none" /\ plan[new[p]] = plan[old[p]]
    /\ InCall(p) => op[p] = new[p] /\ kind[p] \in {"approve", "apply"}
    /\ stage[p] \in {"approve", "apply"} => ~Landed(new[p])
    /\ stage[p] = "mark" => Landed(new[p])
    /\ stage[p] \in {"approve", "apply", "mark"} => pc[p] \in {"idle", "release"}

OneEach ==
  \A p, q \in Procs : old[p] # Null /\ old[q] # Null /\ new[p] = new[q] => p = q

MarkSound ==
  SupersededLanded /\ \A o \in Ops : marker[o] = "superseded" => state[o] # "none"

RInv ==
  /\ Shapes /\ OneEach /\ MarkSound
  /\ \A p \in Procs : CallSound(p) /\ RetrySound(p)

LEMMA InitRecovery == RecoveryInit => RInv
  BY DEF RecoveryInit, Init, RInv, Shapes, OneEach, MarkSound, SupersededLanded, CallSound,
         RetrySound, InCall, Phases

-----------------------------------------------------------------------------
LEMMA SameKeeps ==
  ASSUME RInv, UNCHANGED <<state, plan, marker, pc, kind, op, old, new, stage>> PROVE RInv'
<1>1. Shapes' /\ OneEach' /\ MarkSound'
  BY DEF RInv, Shapes, OneEach, MarkSound, SupersededLanded, Landed
<1>2. \A p \in Procs : (CallSound(p) /\ RetrySound(p))'
  BY DEF RInv, CallSound, RetrySound, InCall, Landed
<1> QED
  BY <1>1, <1>2 DEF RInv

(* A process goes on in its call, or leaves it, or dies; records and retries *)
(* are as they were, but for the retry it forgets.                           *)
LEMMA MoveKeeps ==
  ASSUME RInv, NEW p \in Procs, NEW w \in Phases,
         UNCHANGED <<state, plan, marker>>,
         \/ /\ pc[p] \notin {"idle", "dead", "release"} /\ w \notin {"idle", "dead"}
            /\ w \in {"write", "fail", "finish"} => kind[p] # "approve"
            /\ Goto(p, w) /\ UNCHANGED retries
         \/ w = "idle" /\ Leave(p, w) /\ UNCHANGED retries
         \/ w = "dead" /\ Leave(p, w) /\ Forget(p)
  PROVE  RInv'
<1>1. Shapes'
  BY DEF RInv, Shapes, Goto, Leave, Forget, retries
<1>2. /\ pc'[p] = w
      /\ \A q \in Procs \ {p} : /\ pc'[q] = pc[q] /\ kind'[q] = kind[q] /\ op'[q] = op[q]
                                /\ old'[q] = old[q] /\ new'[q] = new[q]
                                /\ stage'[q] = stage[q]
  BY DEF RInv, Shapes, Goto, Leave, Forget, retries
<1>3. \A q \in Procs : old'[q] # Null => old'[q] = old[q] /\ new'[q] = new[q]
                                         /\ stage'[q] = stage[q]
  BY DEF RInv, Shapes, Goto, Leave, Forget, retries
<1>4. OneEach' /\ MarkSound'
  BY <1>3 DEF RInv, OneEach, MarkSound, SupersededLanded, Landed
<1>5. \A q \in Procs \ {p} : (CallSound(q) /\ RetrySound(q))'
  BY <1>2 DEF RInv, CallSound, RetrySound, InCall, Landed
<1>6. (CallSound(p) /\ RetrySound(p))'
  <2>1. CallSound(p) /\ RetrySound(p)
    BY DEF RInv
  <2>2. CASE /\ pc[p] \notin {"idle", "dead", "release"} /\ w \notin {"idle", "dead"}
             /\ w \in {"write", "fail", "finish"} => kind[p] # "approve"
             /\ Goto(p, w) /\ UNCHANGED retries
    <3>1. pc'[p] = w /\ UNCHANGED <<kind, op, old, new, stage, state, plan>>
      BY <1>2, <2>2 DEF Goto, retries
    <3>2. CallSound(p)'
      BY <2>1, <2>2, <3>1 DEF CallSound, InCall, Landed
    <3>3. RetrySound(p)'
      BY <2>1, <2>2, <3>1 DEF RetrySound, InCall, Landed
    <3> QED
      BY <3>2, <3>3
  <2>3. CASE w = "idle" /\ UNCHANGED retries
    BY <1>2, <2>1, <2>3 DEF CallSound, RetrySound, InCall, Landed, retries
  <2>4. CASE w = "dead" /\ Forget(p)
    <3>1. old'[p] = Null
      BY <2>4 DEF RInv, Shapes, Forget
    <3> QED
      BY <1>2, <2>4, <3>1 DEF CallSound, RetrySound, InCall
  <2> QED
    BY <2>2, <2>3, <2>4
<1> QED
  BY <1>1, <1>4, <1>5, <1>6 DEF RInv

(* A call begins: of a retry, or of the operator on what is there.           *)
LEMMA CallKeeps ==
  ASSUME RInv, NEW p \in Procs, NEW k \in Kinds, NEW o \in Ops, Call(p, k, o),
         UNCHANGED <<marker, old, new>>,
         \/ /\ old[p] = Null /\ UNCHANGED stage
            /\ o \in Retries => k = "rollBack" /\ Landed(o)
         \/ /\ old[p] # Null /\ o = new[p] /\ k = stage[p] /\ k \in {"approve", "apply"}
            /\ stage' = [stage EXCEPT ![p] = "calling"]
  PROVE  RInv'
<1>1. /\ pc[p] = "idle" /\ state[o] # "none"
      /\ kind' = [kind EXCEPT ![p] = k] /\ op' = [op EXCEPT ![p] = o]
      /\ \E w \in {"name", "peek"} : pc' = [pc EXCEPT ![p] = w]
      /\ UNCHANGED <<state, plan>>
  BY DEF Call, journal
<1>2. Shapes'
  BY <1>1 DEF RInv, Shapes, Phases
<1>3. /\ pc'[p] \in {"name", "peek"} /\ kind'[p] = k /\ op'[p] = o
      /\ \A q \in Procs \ {p} : /\ pc'[q] = pc[q] /\ kind'[q] = kind[q] /\ op'[q] = op[q]
                                /\ stage'[q] = stage[q]
  BY <1>1 DEF RInv, Shapes
<1>4. OneEach' /\ MarkSound'
  BY <1>1 DEF RInv, OneEach, MarkSound, SupersededLanded, Landed
<1>5. \A q \in Procs \ {p} : (CallSound(q) /\ RetrySound(q))'
  BY <1>1, <1>3 DEF RInv, CallSound, RetrySound, InCall, Landed
<1>6. old[p] # Null => stage'[p] = "calling"
  BY DEF RInv, Shapes
<1>7. (CallSound(p) /\ RetrySound(p))'
  BY <1>1, <1>3, <1>6 DEF RInv, CallSound, RetrySound, InCall, Landed
<1> QED
  BY <1>2, <1>4, <1>5, <1>7 DEF RInv

(* A record is replaced by the process whose call it is.                     *)
LEMMA RecordKeeps ==
  ASSUME RInv, NEW p \in Procs, NEW w \in Phases \ {"idle", "dead"}, NEW v \in States,
         pc[p] \notin {"idle", "dead", "release"}, Goto(p, w),
         state' = [state EXCEPT ![op[p]] = v],
         w \in {"write", "fail", "finish"} => kind[p] # "approve",
         kind[p] = "rollBack" => v \in {"rolling-back", "rolled-back", "unknown"},
         kind[p] # "rollBack" /\ w # "release" => v \in {"prepared", "approved", "applying"},
         UNCHANGED <<plan, marker, old, new>>,
         \/ UNCHANGED stage
         \/ /\ old[p] # Null /\ w = "release" /\ v = "approved"
            /\ stage' = [stage EXCEPT ![p] = "apply"]
         \/ /\ old[p] # Null /\ w = "release" /\ v = "applied"
            /\ stage' = [stage EXCEPT ![p] = "mark"]
  PROVE  RInv'
<1>1. /\ op[p] \in Ops /\ kind[p] \in Kinds /\ CallSound(p) /\ RetrySound(p)
      /\ pc' = [pc EXCEPT ![p] = w] /\ UNCHANGED <<kind, op>>
  BY DEF RInv, CallSound, InCall, Goto
<1>2. Shapes'
  BY <1>1 DEF RInv, Shapes
<1>3. /\ pc'[p] = w
      /\ \A q \in Procs \ {p} : pc'[q] = pc[q] /\ stage'[q] = stage[q]
  BY <1>1 DEF RInv, Shapes
<1>4. \A o \in Ops : state'[o] = IF o = op[p] THEN v ELSE state[o]
  BY <1>1 DEF RInv, Shapes
<1>5. \A o \in Ops : state[o] # "none" => state'[o] # "none"
  BY <1>4 DEF States
<1>6. \A r \in Retries : Landed(r) => Landed(r)'
  <2>1. SUFFICES ASSUME NEW r \in Retries, Landed(r), r = op[p] PROVE Landed(r)'
    BY <1>4, RecoveryAssumption DEF Landed
  <2>2. kind[p] = "rollBack"
    BY <1>1, <2>1 DEF CallSound, InCall
  <2> QED
    BY <1>1, <1>4, <2>1, <2>2 DEF Landed
<1>7. ASSUME NEW q \in Procs \ {p}, old[q] # Null
      PROVE  state'[new[q]] = state[new[q]] \/ (Landed(new[q]) /\ Landed(new[q])')
  <2>1. new[q] \in Retries
    BY <1>7 DEF RInv, RetrySound
  <2>2. CASE op[p] # new[q]
    BY <1>4, <2>1, <2>2, RecoveryAssumption
  <2>3. CASE op[p] = new[q]
    <3>1. kind[p] = "rollBack"
      BY <1>1, <1>7, <2>1, <2>3 DEF RInv, OneEach, CallSound, InCall
    <3>2. Landed(new[q])
      BY <1>1, <2>1, <2>3, <3>1 DEF CallSound, InCall
    <3> QED
      BY <1>6, <2>1, <3>2
  <2> QED
    BY <2>2, <2>3
<1>8. OneEach' /\ MarkSound'
  BY <1>5, <1>6 DEF RInv, OneEach, MarkSound, SupersededLanded
<1>9. ASSUME NEW q \in Procs \ {p} PROVE RetrySound(q)'
  BY <1>1, <1>3, <1>5, <1>7 DEF RInv, RetrySound, InCall, Landed
<1>10. ASSUME NEW q \in Procs \ {p} PROVE CallSound(q)'
  <2>1. CallSound(q)
    BY DEF RInv
  <2>2. ASSUME InCall(q), pc[q] # "release", op[q] \in Retries, kind[q] # "rollBack"
        PROVE  ~Landed(op[q])'
    <3>1. old[q] # Null /\ new[q] = op[q] /\ ~Landed(op[q])
      BY <2>1, <2>2 DEF CallSound
    <3> QED
      BY <1>1, <1>7, <3>1 DEF Landed
  <2> QED
    BY <1>1, <1>3, <1>5, <1>6, <2>1, <2>2 DEF CallSound, InCall
<1>11. CallSound(p)'
  BY <1>1, <1>3, <1>4 DEF CallSound, InCall, Landed, States
<1>12. RetrySound(p)'
  <2>1. SUFFICES ASSUME old[p] # Null PROVE RetrySound(p)'
    BY <1>1 DEF RetrySound
  <2>2. /\ op[p] = new[p] /\ kind[p] \in {"approve", "apply"}
        /\ old[p] \in Ops /\ new[p] \in Retries /\ plan[new[p]] = plan[old[p]]
    BY <1>1, <2>1 DEF RetrySound, InCall
  <2>3. /\ stage[p] \notin {"approve", "apply", "mark"}
        /\ state'[old[p]] # "none" /\ state'[new[p]] = v /\ v # "none"
    BY <1>1, <1>4, <1>5, <2>1, <2>2 DEF RetrySound, States
  <2>4. CASE UNCHANGED stage
    BY <1>1, <2>2, <2>3, <2>4 DEF RetrySound, InCall
  <2>5. CASE w = "release" /\ v = "approved" /\ stage' = [stage EXCEPT ![p] = "apply"]
    <3>1. stage'[p] = "apply" /\ ~Landed(new[p])'
      BY <1>1, <2>3, <2>5 DEF RInv, Shapes, Landed
    <3> QED
      BY <1>1, <1>3, <2>2, <2>3, <2>5, <3>1 DEF RetrySound, InCall
  <2>6. CASE w = "release" /\ v = "applied" /\ stage' = [stage EXCEPT ![p] = "mark"]
    <3>1. stage'[p] = "mark" /\ Landed(new[p])'
      BY <1>1, <2>3, <2>6 DEF RInv, Shapes, Landed
    <3> QED
      BY <1>1, <1>3, <2>2, <2>3, <2>6, <3>1 DEF RetrySound, InCall
  <2> QED
    BY <2>4, <2>5, <2>6
<1> QED
  BY <1>2, <1>8, <1>9, <1>10, <1>11, <1>12 DEF RInv

-----------------------------------------------------------------------------
(* Journal steps that leave the records alone.                               *)
LEMMA LockAndReadKeep ==
  ASSUME RInv, NEW p \in Procs, UNCHANGED <<marker, retries>>,
         \/ Name(p) \/ NameFails(p) \/ Peek(p) \/ Unlink(p) \/ Retake(p) \/ Release(p) \/ Read(p)
         \/ (\E f \in Files : Check(p, f) \/ Write(p, f))
         \/ WriteFails(p) \/ PersistFails(p)
  PROVE  RInv'
<1>1. CallSound(p) /\ kind[p] = kind[p]
  BY DEF RInv
<1>2. CASE Name(p)
  BY <1>2, MoveKeeps DEF Name, journal, Phases
<1>3. CASE NameFails(p)
  BY <1>3, MoveKeeps DEF NameFails, journal, Phases
<1>4. CASE Peek(p)
  BY <1>4, MoveKeeps DEF Peek, journal, Phases
<1>5. CASE Unlink(p)
  BY <1>5, MoveKeeps DEF Unlink, journal, Phases
<1>6. CASE Retake(p)
  BY <1>6, MoveKeeps DEF Retake, journal, Phases
<1>7. CASE Release(p)
  BY <1>7, MoveKeeps DEF Release, journal, Phases
<1>8. CASE Read(p)
  <2>1. \E w \in {"mark", "check", "release"} : Goto(p, w)
    BY <1>8 DEF Read
  <2> QED
    BY <1>8, <2>1, MoveKeeps DEF Read, journal, Phases
<1>9. ASSUME NEW f \in Files, Check(p, f) PROVE RInv'
  <2>1. \E w \in {"mark", "check", "release"} : Goto(p, w)
    BY <1>9 DEF Check
  <2> QED
    BY <1>9, <2>1, MoveKeeps DEF Check, journal, Phases
<1>10. ASSUME NEW f \in Files, Write(p, f) PROVE RInv'
  <2>1. \E w \in {"finish", "write"} : Goto(p, w)
    BY <1>10 DEF Write
  <2> QED
    BY <1>1, <1>10, <2>1, MoveKeeps DEF Write, journal, Phases, CallSound
<1>11. CASE WriteFails(p)
  BY <1>1, <1>11, MoveKeeps DEF WriteFails, journal, Phases, CallSound
<1>12. CASE PersistFails(p)
  BY <1>12, MoveKeeps DEF PersistFails, journal, Phases
<1> QED
  BY <1>2, <1>3, <1>4, <1>5, <1>6, <1>7, <1>8, <1>9, <1>10, <1>11, <1>12

(* An approval or a marker is written; a retry's approval brings its last    *)
(* call.                                                                     *)
LEMMA MarkKeeps ==
  ASSUME RInv, NEW p \in Procs, Mark(p), UNCHANGED <<marker, old, new>>,
         stage' = IF old[p] # Null /\ kind[p] = "approve"
                  THEN [stage EXCEPT ![p] = "apply"] ELSE stage
  PROVE  RInv'
<1>1. /\ pc[p] = "mark" /\ kind[p] \in Kinds /\ CallSound(p) /\ RetrySound(p)
      /\ Goto(p, IF kind[p] = "approve" THEN "release" ELSE "write")
      /\ state' = [state EXCEPT ![op[p]] = Marker[kind[p]]] /\ UNCHANGED plan
  BY DEF Mark, RInv, CallSound, InCall
<1>2. /\ {"approved", "applying", "rolling-back"} \subseteq States
      /\ {"release", "write"} \subseteq Phases \ {"idle", "dead"}
  BY DEF States, Phases
<1>3. CASE kind[p] = "approve"
  <2>1. state' = [state EXCEPT ![op[p]] = "approved"] /\ Goto(p, "release")
    BY <1>1, <1>3 DEF Marker
  <2>2. UNCHANGED stage \/ (old[p] # Null /\ stage' = [stage EXCEPT ![p] = "apply"])
    OBVIOUS
  <2> QED
    BY <1>1, <1>2, <1>3, <2>1, <2>2, RecordKeeps
<1>4. CASE kind[p] = "apply"
  <2>1. state' = [state EXCEPT ![op[p]] = "applying"] /\ Goto(p, "write") /\ UNCHANGED stage
    BY <1>1, <1>4 DEF Marker
  <2> QED
    BY <1>1, <1>2, <1>4, <2>1, RecordKeeps
<1>5. CASE kind[p] = "rollBack"
  <2>1. /\ state' = [state EXCEPT ![op[p]] = "rolling-back"] /\ Goto(p, "write")
        /\ UNCHANGED stage
    BY <1>1, <1>5 DEF Marker
  <2> QED
    BY <1>1, <1>2, <1>5, <2>1, RecordKeeps
<1> QED
  BY <1>1, <1>3, <1>4, <1>5 DEF Kinds

(* A call ends well; a retry's last one brings the mark.                     *)
LEMMA FinishKeeps ==
  ASSUME RInv, NEW p \in Procs, Finish(p), UNCHANGED <<marker, old, new>>,
         stage' = IF old[p] # Null THEN [stage EXCEPT ![p] = "mark"] ELSE stage
  PROVE  RInv'
<1>1. /\ pc[p] = "finish" /\ kind[p] \in {"apply", "rollBack"} /\ Goto(p, "release")
      /\ state' = [state EXCEPT ![op[p]] = Done[kind[p]]] /\ UNCHANGED plan
      /\ old[p] # Null => kind[p] = "apply"
  BY DEF Finish, RInv, CallSound, RetrySound, InCall, Kinds
<1>2. /\ {"applied", "rolled-back"} \subseteq States
      /\ "release" \in Phases \ {"idle", "dead"}
  BY DEF States, Phases
<1>3. CASE kind[p] = "apply"
  <2>1. state' = [state EXCEPT ![op[p]] = "applied"]
    BY <1>1, <1>3 DEF Done
  <2>2. UNCHANGED stage \/ (old[p] # Null /\ stage' = [stage EXCEPT ![p] = "mark"])
    OBVIOUS
  <2> QED
    BY <1>1, <1>2, <1>3, <2>1, <2>2, RecordKeeps
<1>4. CASE kind[p] = "rollBack"
  <2>1. state' = [state EXCEPT ![op[p]] = "rolled-back"] /\ UNCHANGED stage
    BY <1>1, <1>4 DEF Done
  <2> QED
    BY <1>1, <1>2, <1>4, <2>1, RecordKeeps
<1> QED
  BY <1>1, <1>3, <1>4

LEMMA UnknownKeeps ==
  ASSUME RInv, NEW p \in Procs, RecordUnknown(p), UNCHANGED <<marker, retries>>
  PROVE  RInv'
  BY RecordKeeps DEF RecordUnknown, retries, States, Phases

(* A record is made for an operation there was none for.                     *)
LEMMA NewRecordKeeps ==
  ASSUME RInv, NEW p \in Procs, NEW o \in Ops, NEW b, state[o] = "none",
         state' = [state EXCEPT ![o] = "prepared"], plan' = [plan EXCEPT ![o] = b],
         UNCHANGED <<pc, kind, op, marker>>,
         \/ UNCHANGED retries
         \/ /\ o \in Retries /\ Ready(p) /\ stage' = [stage EXCEPT ![p] = "approve"]
            /\ new' = [new EXCEPT ![p] = o]
            /\ \E d \in Ops : /\ state[d] # "none" /\ b = plan[d]
                              /\ old' = [old EXCEPT ![p] = d]
  PROVE  RInv'
<1>1. Shapes'
  <2>1. plan' = [d \in Ops |-> plan'[d]] /\ state' \in [Ops -> States \cup {"none"}]
    BY DEF RInv, Shapes, States
  <2>2. /\ old' \in [Procs -> Ops \cup {Null}] /\ new' \in [Procs -> Ops \cup {Null}]
        /\ stage' \in [Procs -> {"approve", "apply", "calling", "mark", Null}]
    BY DEF RInv, Shapes, retries
  <2> QED
    BY <2>1, <2>2 DEF RInv, Shapes
<1>2. /\ state'[o] = "prepared" /\ plan'[o] = b
      /\ \A d \in Ops \ {o} : state'[d] = state[d] /\ plan'[d] = plan[d]
  BY DEF RInv, Shapes
<1>3. /\ \A d \in Ops : state[d] # "none" => d # o /\ state'[d] # "none" /\ plan'[d] = plan[d]
      /\ \A r \in Retries : Landed(r) <=> Landed(r)'
  BY <1>2, RecoveryAssumption DEF Landed
<1>4. MarkSound'
  <2>1. \A d \in Ops : marker[d] = "superseded" => state'[d] # "none"
    BY <1>3 DEF RInv, MarkSound
  <2>2. ASSUME NEW d \in Ops, marker[d] = "superseded"
        PROVE  \E r \in Retries : Landed(r)' /\ plan'[r] = plan'[d]
    <3>1. PICK r \in Retries : Landed(r) /\ plan[r] = plan[d]
      BY <2>2 DEF RInv, MarkSound, SupersededLanded
    <3>2. state[r] # "none" /\ state[d] # "none" /\ r \in Ops
      BY <2>2, <3>1, RecoveryAssumption DEF RInv, MarkSound, Landed
    <3> QED
      BY <1>3, <2>2, <3>1, <3>2
  <2> QED
    BY <2>1, <2>2 DEF MarkSound, SupersededLanded
<1>5. \A q \in Procs : CallSound(q)'
  <2>1. SUFFICES ASSUME NEW q \in Procs PROVE CallSound(q)'
    OBVIOUS
  <2>2. InCall(q) => old'[q] = old[q] /\ new'[q] = new[q]
    BY DEF RInv, Shapes, Ready, InCall, retries
  <2> QED
    BY <1>3, <2>2 DEF RInv, CallSound, InCall
<1>6. ASSUME NEW q \in Procs, old'[q] = old[q], new'[q] = new[q], stage'[q] = stage[q]
      PROVE  RetrySound(q)'
  BY <1>3, <1>6, RecoveryAssumption DEF RInv, RetrySound, InCall
<1>7. CASE UNCHANGED retries
  BY <1>1, <1>4, <1>5, <1>6, <1>7 DEF RInv, OneEach, retries
<1>8. CASE /\ o \in Retries /\ Ready(p) /\ stage' = [stage EXCEPT ![p] = "approve"]
           /\ new' = [new EXCEPT ![p] = o]
           /\ \E d \in Ops : /\ state[d] # "none" /\ b = plan[d]
                             /\ old' = [old EXCEPT ![p] = d]
  <2>1. PICK d \in Ops : state[d] # "none" /\ b = plan[d] /\ old' = [old EXCEPT ![p] = d]
    BY <1>8
  <2>2. /\ old'[p] = d /\ new'[p] = o /\ stage'[p] = "approve" /\ pc[p] = "idle"
        /\ \A q \in Procs \ {p} : /\ old'[q] = old[q] /\ new'[q] = new[q]
                                  /\ stage'[q] = stage[q]
    BY <1>8, <2>1 DEF RInv, Shapes, Ready
  <2>3. RetrySound(p)'
    BY <1>2, <1>3, <1>8, <2>1, <2>2 DEF RetrySound, InCall, Landed
  <2>4. OneEach'
    <3>1. \A q \in Procs \ {p} : old[q] # Null => new[q] # o
      BY DEF RInv, RetrySound
    <3> QED
      BY <2>2, <3>1 DEF RInv, OneEach
  <2> QED
    BY <1>1, <1>4, <1>5, <1>6, <2>2, <2>3, <2>4 DEF RInv
<1> QED
  BY <1>7, <1>8

(* The operator decides, or a retry is given up; the records stay.           *)
LEMMA DecisionKeeps ==
  ASSUME RInv, NEW p \in Procs, NEW o \in Ops,
         UNCHANGED <<state, plan, pc, kind, op>>,
         \/ marker' = [marker EXCEPT ![o] = "keep"] /\ UNCHANGED retries
         \/ pc[p] = "idle" /\ Forget(p) /\ UNCHANGED marker
         \/ /\ marker' = [marker EXCEPT ![o] = "superseded"] /\ pc[p] = "idle" /\ Forget(p)
            /\ state[o] # "none"
            /\ \E r \in Retries : Landed(r) /\ plan[r] = plan[o]
  PROVE  RInv'
<1>1. Shapes'
  BY DEF RInv, Shapes, Forget, retries
<1>2. \A d \in Ops : \/ marker'[d] = marker[d]
                     \/ marker'[d] = "keep" /\ d = o
                     \/ /\ d = o /\ state[o] # "none"
                        /\ \E r \in Retries : Landed(r) /\ plan[r] = plan[o]
  BY DEF RInv, Shapes
<1>3. MarkSound'
  BY <1>2 DEF RInv, MarkSound, SupersededLanded, Landed
<1>4. \A q \in Procs : /\ old'[q] # Null => /\ old'[q] = old[q] /\ new'[q] = new[q]
                                            /\ stage'[q] = stage[q]
                       /\ InCall(q) => old'[q] = old[q] /\ new'[q] = new[q]
  BY DEF RInv, Shapes, Forget, retries, InCall
<1>5. OneEach'
  BY <1>4 DEF RInv, OneEach
<1>6. \A q \in Procs : (CallSound(q) /\ RetrySound(q))'
  BY <1>4 DEF RInv, CallSound, RetrySound, InCall, Landed
<1> QED
  BY <1>1, <1>3, <1>5, <1>6 DEF RInv

LEMMA StepRecovery == ASSUME RInv, [RecoveryNext]_allVars PROVE RInv'
<1>1. CASE UNCHANGED allVars
  BY <1>1, SameKeeps DEF allVars, vars
<1>2. ASSUME NEW p \in Procs, NEW o \in Ops \ Retries, Prepare(p, o), UNCHANGED <<marker, retries>>
      PROVE  RInv'
  <2>1. PICK b : plan' = [plan EXCEPT ![o] = b]
    BY <1>2 DEF Prepare
  <2> QED
    BY <1>2, <2>1, NewRecordKeeps DEF Prepare, calls
<1>3. ASSUME NEW p \in Procs, NEW k \in Kinds, NEW o \in Ops, Ready(p), Call(p, k, o),
             o \in Retries => k = "rollBack" /\ Landed(o), UNCHANGED <<marker, retries>>
      PROVE  RInv'
  BY <1>3, CallKeeps DEF Ready, retries
<1>4. CASE JournalStep /\ UNCHANGED <<marker, retries>>
  <2>1. ASSUME NEW f \in Files, NEW bytes \in Bytes, Edit(f, bytes) PROVE RInv'
    BY <1>4, <2>1, SameKeeps DEF Edit, journal, calls, retries
  <2>2. "rollBack" \in Kinds /\ Retries \subseteq Ops
    BY RecoveryAssumption DEF Kinds
  <2> QED
    BY <1>2, <1>3, <1>4, <2>1, <2>2, LockAndReadKeep, UnknownKeeps DEF JournalStep
<1>5. ASSUME NEW p \in Procs, Crash(p), Forget(p), UNCHANGED marker PROVE RInv'
  BY <1>5, MoveKeeps DEF Crash, journal, Phases
<1>6. ASSUME NEW p \in Procs, Proceed(p), UNCHANGED <<marker, old, new>> PROVE RInv'
  BY <1>6, MarkKeeps, FinishKeeps DEF Proceed
<1>7. ASSUME NEW p \in Procs, RetryCall(p) PROVE RInv'
  <2>1. stage[p] \in Kinds /\ new[p] \in Ops
    BY <1>7, RecoveryAssumption DEF RetryCall, RInv, RetrySound, Kinds
  <2> QED
    BY <1>7, <2>1, CallKeeps DEF RetryCall
<1>8. ASSUME NEW p \in Procs, Supersede(p) \/ RetryThrows(p) PROVE RInv'
  <2>1. /\ old[p] \in Ops /\ state[old[p]] # "none" /\ new[p] \in Retries
        /\ plan[new[p]] = plan[old[p]] /\ (stage[p] = "mark" => Landed(new[p]))
    BY <1>8 DEF Supersede, RetryThrows, RInv, RetrySound
  <2>2. CASE Supersede(p)
    BY <2>1, <2>2, DecisionKeeps DEF Supersede, vars
  <2>3. CASE RetryThrows(p)
    BY <2>1, <2>3, DecisionKeeps DEF RetryThrows, vars
  <2> QED
    BY <1>8, <2>2, <2>3
<1>9. ASSUME NEW p \in Procs, NEW o \in Ops, ResolveKeep(p, o) PROVE RInv'
  BY <1>9, DecisionKeeps DEF ResolveKeep, vars
<1>10. ASSUME NEW p \in Procs, NEW o \in Ops, NEW r \in Retries, ResolveRetry(p, o, r)
       PROVE  RInv'
  <2>1. r \in Ops /\ state[o] # "none"
    BY <1>10, RecoveryAssumption DEF ResolveRetry, Reported
  <2> QED
    BY <1>10, <2>1, NewRecordKeeps DEF ResolveRetry, calls
<1>11. CASE /\ PowerLoss
            /\ old' = [p \in Procs |-> Null] /\ new' = [p \in Procs |-> Null]
            /\ stage' = [p \in Procs |-> Null] /\ UNCHANGED marker
  BY <1>11 DEF PowerLoss, journal, RInv, Shapes, OneEach, MarkSound, SupersededLanded,
               CallSound, RetrySound, InCall, Landed, Phases
<1> QED
  BY <1>1, <1>4, <1>5, <1>6, <1>7, <1>8, <1>9, <1>10, <1>11 DEF RecoveryNext

(* Records, retries and calls agree at every step of every process.          *)
THEOREM RecoveryInvariant == RecoverySpec => []RInv
  BY InitRecovery, StepRecovery, PTL DEF RecoverySpec

(* Whatever is marked superseded was superseded by an operation that wrote   *)
(* the same bytes and was applied; no assumption on races for a lock.        *)
THEOREM MarksAreTrue == RecoverySpec => []SupersededLanded
<1>1. RInv => SupersededLanded
  BY DEF RInv, MarkSound
<1> QED
  BY <1>1, RecoveryInvariant, PTL

-----------------------------------------------------------------------------
(* The recovery uses the journal as the journal allows. A retry's operation  *)
(* is one that prepare() could have made, because the targets hold what they *)
(* held when the old one was prepared.                                       *)
WellMade(b) ==
  /\ DOMAIN b \in (SUBSET Files) \ {{}}
  /\ \A f \in DOMAIN b : b[f].after \in Contents
  /\ b = [f \in DOMAIN b |-> [before |-> b[f].before, after |-> b[f].after]]
MadeInv == \A o \in Ops : state[o] # "none" => WellMade(plan[o])

LEMMA SamePlans ==
  ASSUME MadeInv, UNCHANGED plan, \A o \in Ops : state'[o] # "none" => state[o] # "none"
  PROVE  MadeInv'
<1> SUFFICES ASSUME NEW o \in Ops, state'[o] # "none"
             PROVE  WellMade(plan'[o])
  BY DEF MadeInv
<1>1. WellMade(plan[o]) /\ plan'[o] = plan[o]
  BY DEF MadeInv
<1> QED
  BY <1>1

LEMMA PreparedIsMade ==
  ASSUME RInv, MadeInv, NEW o \in Ops, NEW b, WellMade(b), plan' = [plan EXCEPT ![o] = b],
         state' = [state EXCEPT ![o] = "prepared"]
  PROVE  MadeInv'
<1>1. /\ plan'[o] = b
      /\ \A d \in Ops \ {o} : state'[d] = state[d] /\ plan'[d] = plan[d]
  BY DEF RInv, Shapes
<1>2. ASSUME NEW d \in Ops, state'[d] # "none" PROVE WellMade(plan[d])'
  <2>1. CASE d = o
    <3>1. plan'[d] = b
      BY <1>1, <2>1
    <3> QED
      BY <3>1
  <2>2. CASE d # o
    <3>1. plan'[d] = plan[d] /\ WellMade(plan[d])
      BY <1>1, <1>2, <2>2 DEF MadeInv
    <3> QED
      BY <3>1
  <2> QED
    BY <2>1, <2>2
<1> QED
  BY <1>2 DEF MadeInv

LEMMA PrepareMakes ==
  ASSUME RInv, MadeInv, NEW p \in Procs, NEW o \in Ops, Prepare(p, o) PROVE MadeInv'
<1>1. PICK files \in (SUBSET Files) \ {{}} : \E after \in [files -> Contents] :
        plan' = [plan EXCEPT ![o] = [f \in files |-> [before |-> disk[f], after |-> after[f]]]]
  BY DEF Prepare
<1>2. PICK after \in [files -> Contents] :
        plan' = [plan EXCEPT ![o] = [f \in files |-> [before |-> disk[f], after |-> after[f]]]]
  BY <1>1
<1> DEFINE b == [f \in files |-> [before |-> disk[f], after |-> after[f]]]
<1>3. WellMade(b)
  BY DEF WellMade
<1> HIDE DEF b
<1> QED
  BY <1>2, <1>3, PreparedIsMade DEF Prepare, b

(* A retry is an ordinary prepare() of the same bytes.                       *)
LEMMA RetryPrepares ==
  ASSUME RInv, MadeInv, NEW p \in Procs, NEW o \in Ops, NEW r \in Retries, ResolveRetry(p, o, r)
  PROVE  Prepare(p, r)
<1>1. WellMade(plan[o])
  BY DEF ResolveRetry, Reported, MadeInv
<1> DEFINE files == Targets(o)
           after == [f \in files |-> plan[o][f].after]
<1>2. files \in (SUBSET Files) \ {{}} /\ after \in [files -> Contents]
  BY <1>1 DEF WellMade, Targets
<1>3. plan[o] = [f \in files |-> [before |-> disk[f], after |-> after[f]]]
  <2>1. plan[o] = [f \in files |-> [before |-> plan[o][f].before, after |-> plan[o][f].after]]
    BY <1>1 DEF WellMade, Targets
  <2>2. \A f \in files : [before |-> plan[o][f].before, after |-> plan[o][f].after]
                           = [before |-> disk[f], after |-> after[f]]
    BY DEF ResolveRetry
  <2> QED
    BY <2>1, <2>2
<1> HIDE DEF files, after
<1>4. plan' = [plan EXCEPT ![r] = [f \in files |-> [before |-> disk[f], after |-> after[f]]]]
  BY <1>3 DEF ResolveRetry
<1> QED
  BY <1>2, <1>4 DEF ResolveRetry, Ready, Prepare

LEMMA StepIsJournal ==
  ASSUME RInv, MadeInv, [RecoveryNext]_allVars PROVE [Next]_vars
<1>1. ASSUME NEW p \in Procs, NEW o \in Ops, NEW r \in Retries, ResolveRetry(p, o, r)
      PROVE  Next
  BY <1>1, RetryPrepares, RecoveryAssumption DEF Next
<1>2. ASSUME NEW p \in Procs, RetryCall(p) PROVE Next
  <2>1. stage[p] \in Kinds /\ new[p] \in Ops /\ Call(p, stage[p], new[p])
    BY <1>2, RecoveryAssumption DEF RetryCall, RInv, RetrySound, Kinds
  <2> QED
    BY <2>1 DEF Next
<1>3. ASSUME JournalStep PROVE Next
  <2>1. "rollBack" \in Kinds /\ Retries \subseteq Ops
    BY RecoveryAssumption DEF Kinds
  <2> QED
    BY <1>3, <2>1 DEF JournalStep, Next
<1>4. ASSUME NEW p \in Procs, Crash(p) \/ Proceed(p) PROVE Next
  BY <1>4 DEF Proceed, Next
<1>5. ASSUME NEW p \in Procs, Supersede(p) \/ RetryThrows(p) PROVE UNCHANGED vars
  BY <1>5 DEF Supersede, RetryThrows
<1>6. ASSUME NEW p \in Procs, NEW o \in Ops, ResolveKeep(p, o) PROVE UNCHANGED vars
  BY <1>6 DEF ResolveKeep
<1>7. ASSUME PowerLoss PROVE Next
  BY <1>7 DEF Next
<1>8. ASSUME UNCHANGED allVars PROVE UNCHANGED vars
  BY <1>8 DEF allVars
<1>9. CASE RecoveryNext
  BY <1>1, <1>2, <1>3, <1>4, <1>5, <1>6, <1>7, <1>9 DEF RecoveryNext
<1> QED
  BY <1>8, <1>9

LEMMA StepMakes == ASSUME RInv, MadeInv, [RecoveryNext]_allVars PROVE MadeInv'
<1>1. CASE \E p \in Procs, o \in Ops : Prepare(p, o)
  BY <1>1, PrepareMakes
<1>2. CASE ~ \E p \in Procs, o \in Ops : Prepare(p, o)
  <2>1. [Next]_vars
    BY StepIsJournal
  <2>2. \A p \in Procs : InCall(p) => state[op[p]] # "none" /\ op[p] \in Ops
    BY DEF RInv, CallSound
  <2>3. ASSUME NEW p \in Procs, NEW o \in Ops, NEW k \in Kinds, Call(p, k, o) PROVE MadeInv'
    BY <2>3, SamePlans DEF Call, journal
  <2>4. ASSUME NEW p \in Procs,
               \/ Name(p) \/ NameFails(p) \/ Peek(p) \/ Unlink(p) \/ Retake(p)
               \/ Release(p) \/ Read(p) \/ WriteFails(p) \/ PersistFails(p) \/ Crash(p)
               \/ \E f \in Files : Check(p, f) \/ Write(p, f)
        PROVE  MadeInv'
    <3>1. UNCHANGED journal
      BY <2>4 DEF Name, NameFails, Peek, Unlink, Retake, Release, Read, WriteFails,
                  PersistFails, Crash, Check, Write
    <3> QED
      BY <3>1, SamePlans DEF journal
  <2>5. ASSUME NEW p \in Procs, Mark(p) \/ RecordUnknown(p) \/ Finish(p) PROVE MadeInv'
    <3>1. /\ InCall(p) /\ UNCHANGED plan
          /\ \E v : state' = [state EXCEPT ![op[p]] = v]
      BY <2>5 DEF Mark, RecordUnknown, Finish, InCall
    <3> QED
      BY <2>2, <3>1, SamePlans DEF RInv, Shapes
  <2>6. ASSUME NEW f \in Files, NEW bytes \in Bytes, Edit(f, bytes) PROVE MadeInv'
    BY <2>6, SamePlans DEF Edit, journal
  <2>7. ASSUME PowerLoss \/ UNCHANGED vars PROVE MadeInv'
    BY <2>7, SamePlans DEF PowerLoss, journal, vars
  <2> QED
    BY <1>2, <2>1, <2>3, <2>4, <2>5, <2>6, <2>7 DEF Next
<1> QED
  BY <1>1, <1>2

(* Whatever is kept, retried or superseded, and whoever dies meanwhile, the  *)
(* journal goes through steps of its own: the recovery implements it.        *)
THEOREM RecoveryIsJournal == RecoverySpec => Spec
<1>1. RecoveryInit => Init /\ MadeInv
  BY DEF RecoveryInit, Init, MadeInv
<1> QED
  BY <1>1, InitRecovery, StepRecovery, StepMakes, StepIsJournal, PTL DEF RecoverySpec, Spec

(* So what the journal promises it promises while operations are retried and *)
(* superseded: exclusion, no replay, and no crash taken for a clean state,   *)
(* for every operation whose lock is not raced for.                          *)
THEOREM RecoveryKeepsPromises ==
  RecoverySpec => []LockExcludes /\ []CrashIsSeen /\ NoReplay
  BY RecoveryIsJournal, ExclusionUnlessRaced, CrashesAreSeen, NothingIsReplayed, PTL
==============================================================================
