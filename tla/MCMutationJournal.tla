------------------------- MODULE MCMutationJournal -------------------------
(***************************************************************************)
(* The journal and its recovery in three scopes. Files: two processes and  *)
(* an operation that may target two files, so that it can be left half     *)
(* done. Retry: two processes, an operation and one more as which it may   *)
(* be retried, on a file. Race: three processes, so that two of them can   *)
(* find the third's lock after its death, and an operation on a file.      *)
(***************************************************************************)
EXTENDS CrashRecovery, TLC

CONSTANTS p1, p2, p3, o1, o2, f, g, x, y

VARIABLE scope   (* the processes, operations, files and bytes there are     *)

Three == {p1, p2, p3}
TwoOps == {o1, o2}
TwoFiles == {f, g}
TwoContents == {x, y}

Files2 == [procs |-> {p1, p2}, ops |-> {o1}, files |-> TwoFiles, bytes |-> TwoContents]
Retry(h, b) == [procs |-> {p1, p2}, ops |-> TwoOps, files |-> {h}, bytes |-> {b}]
Race(h, b) == [procs |-> Three, ops |-> {o1}, files |-> {h}, bytes |-> {b}]
Scopes == {Files2} \cup { Retry(h, b) : h \in TwoFiles, b \in TwoContents }
                  \cup { Race(h, b) : h \in TwoFiles, b \in TwoContents }

(* What is not in scope is left as it is; nobody decides about the retry     *)
(* itself, which no other id is left to supersede.                           *)
Within ==
  /\ \A p \in Three \ scope.procs : pc'[p] = IF losses' = 0 THEN "idle" ELSE "dead"
  /\ \A o \in TwoOps \ scope.ops : state'[o] = "none" /\ marker'[o] = "none"
  /\ \A h \in TwoFiles : disk'[h] \in IF h \in scope.files THEN scope.bytes \cup {Null} ELSE {Null}
  /\ \A o \in TwoOps : \A h \in DOMAIN plan'[o] :
       h \in scope.files /\ plan'[o][h].after \in scope.bytes
  /\ scope.ops # TwoOps => marker' = marker
  /\ marker'[o2] = marker[o2]
  /\ scope # Files2 => edits' = 0 /\ losses' = 0

MCInit ==
  /\ RecoveryInit
  /\ scope \in Scopes
  /\ \A h \in TwoFiles : disk[h] \in IF h \in scope.files THEN scope.bytes \cup {Null} ELSE {Null}
MCSpec == MCInit /\ [][RecoveryNext /\ Within /\ UNCHANGED scope]_<<allVars, scope>>

(* p1 and p2, the files and the contents are told apart by name only.        *)
Symmetry == Permutations({p1, p2}) \cup Permutations(TwoFiles) \cup Permutations(TwoContents)
=============================================================================
