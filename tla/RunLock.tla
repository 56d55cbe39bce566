------------------------------- MODULE RunLock -------------------------------
(***************************************************************************)
(* The process-wide run lock of src/web/runLock.ts: one agent turn at a    *)
(* time across the terminal and every browser or editor session.          *)
(*                                                                         *)
(* A call is one invocation of acquire() or tryAcquire(): it is made at    *)
(* most once and its promise settles at most once, so the call doubles as  *)
(* the identity of the grant it receives (the code's `grant` object).      *)
(* The release closure of a granted call may be invoked any number of      *)
(* times, before or after the grant was dropped by releaseFor().           *)
(*                                                                         *)
(* JavaScript runs each of the lock's functions to completion, so each is  *)
(* one atomic step.                                                        *)
(***************************************************************************)
EXTENDS Integers, Sequences, SequencesExt

CONSTANTS
  Calls,      (* the invocations of acquire/tryAcquire                       *)
  Holders,    (* the holder names: 'cli' and the session ids                 *)
  HolderOf,   (* the holder name each call passes                            *)
  Priority,   (* the calls made with {priority: true}                        *)
  NoCall      (* activeGrant === null                                        *)

ASSUME CallsAssumption ==
  /\ HolderOf \in [Calls -> Holders]
  /\ Priority \subseteq Calls
  /\ NoCall \notin Calls

VARIABLES
  active,     (* the call whose grant is current (activeGrant, holder)       *)
  waiters,    (* the queue of waiting calls                                  *)
  st,         (* how far each call's promise has come                        *)
  aborted     (* the calls' AbortSignals                                     *)

lockVars == <<active, waiters, st>>
vars == <<active, waiters, st, aborted>>

(* "granted" outlives the grant: the promise was resolved with a release.    *)
CallStates == {"new", "waiting", "granted", "rejected", "refused"}

Init ==
  /\ active = NoCall
  /\ waiters = <<>>
  /\ st = [c \in Calls |-> "new"]
  /\ aborted = [c \in Calls |-> FALSE]

-----------------------------------------------------------------------------
(* Faulty: an aborted front waiter is rejected and its grant dropped.        *)
DispatchDropping(ws, s0) ==
  \/ /\ ws = <<>>
     /\ active' = NoCall /\ waiters' = ws /\ st' = s0
  \/ /\ ws # <<>>
     /\ active' = IF aborted[ws[1]] THEN NoCall ELSE ws[1]
     /\ waiters' = Tail(ws)
     /\ st' = [s0 EXCEPT ![ws[1]] = IF aborted[ws[1]] THEN "rejected" ELSE "granted"]

(* Faulty: the front waiter is granted whether or not its signal has fired.  *)
DispatchUnchecked(ws, s0) ==
  \/ /\ ws = <<>>
     /\ active' = NoCall /\ waiters' = ws /\ st' = s0
  \/ /\ ws # <<>>
     /\ active' = ws[1]
     /\ waiters' = Tail(ws)
     /\ st' = [s0 EXCEPT ![ws[1]] = "granted"]

(* pump() with the lock free: waiters whose signal has fired are granted,    *)
(* released and rejected in turn until one is left that can hold the lock.   *)
(* k is the position of that one, past the end if there is none.             *)
Dispatch(ws, s0) ==
  \E k \in 1..Len(ws) + 1 :
    /\ \A j \in 1..k - 1 : aborted[ws[j]]
    /\ k <= Len(ws) => ~aborted[ws[k]]
    /\ active' = IF k <= Len(ws) THEN ws[k] ELSE NoCall
    /\ waiters' = SubSeq(ws, k + 1, Len(ws))
    /\ st' = [c \in Calls |->
                IF k <= Len(ws) /\ c = ws[k] THEN "granted"
                ELSE IF \E j \in 1..k - 1 : c = ws[j] THEN "rejected"
                ELSE s0[c]]

(* pump() after an operation that leaves the grant `held` and the queue ws.  *)
Pump(held, ws, s0) ==
  \/ /\ held # NoCall
     /\ active' = held
     /\ waiters' = ws
     /\ st' = s0
  \/ /\ held = NoCall
     /\ Dispatch(ws, s0)

(* Where enqueue() puts a call: after the leading run of priority waiters if *)
(* the call has priority, at the end otherwise.                              *)
EnqueueAt(c, i) ==
  IF c \in Priority
  THEN /\ \A j \in 1..i - 1 : waiters[j] \in Priority
       /\ i <= Len(waiters) => waiters[i] \notin Priority
  ELSE i = Len(waiters) + 1

(* acquire(holder, {signal, priority}).                                      *)
Acquire(c) ==
  /\ st[c] = "new"
  /\ \/ /\ aborted[c]
        /\ st' = [st EXCEPT ![c] = "rejected"]
        /\ UNCHANGED <<active, waiters>>
     \/ /\ ~aborted[c]
        /\ \E i \in 1..Len(waiters) + 1 :
             /\ EnqueueAt(c, i)
             /\ Pump(active, InsertAt(waiters, i, c), [st EXCEPT ![c] = "waiting"])

(* Faulty: a held lock is granted again.                                     *)
TryAcquireHeld(c) ==
  /\ st[c] = "new"
  /\ st' = [st EXCEPT ![c] = "granted"]
  /\ active' = c
  /\ UNCHANGED waiters

(* Faulty: the holder's name stands for the grant.                           *)
TryAcquireByName(c) ==
  /\ st[c] = "new"
  /\ active = NoCall
  /\ st' = [st EXCEPT ![c] = "granted"]
  /\ active' = HolderOf[c]
  /\ UNCHANGED waiters

(* tryAcquire(holder): never waits, never looks at the queue.                *)
TryAcquire(c) ==
  /\ st[c] = "new"
  /\ \/ /\ active # NoCall
        /\ st' = [st EXCEPT ![c] = "refused"]
        /\ UNCHANGED active
     \/ /\ active = NoCall
        /\ st' = [st EXCEPT ![c] = "granted"]
        /\ active' = c
  /\ UNCHANGED waiters

(* Faulty: a stale release frees whatever grant is current.                  *)
ReleaseAnyGrant(c) == st[c] = "granted" /\ Pump(NoCall, waiters, st)

(* Faulty: the lock is freed and nobody is served.                           *)
ReleaseOnly(c) ==
  /\ st[c] = "granted"
  /\ active' = IF active = c THEN NoCall ELSE active
  /\ UNCHANGED <<waiters, st>>

(* The release closure of call c: a no-op unless c's grant is the current one.*)
Release(c) ==
  /\ st[c] = "granted"
  /\ \/ active = c /\ Pump(NoCall, waiters, st)
     \/ active # c /\ UNCHANGED lockVars

(* The strictly increasing enumerations of a set of queue positions.         *)
Enumerations(S) ==
  { f \in UNION { [1..n -> S] : n \in 0..Len(waiters) } :
      /\ \A i, j \in DOMAIN f : i < j => f[i] < f[j]
      /\ \A k \in S : \E i \in DOMAIN f : f[i] = k }

(* releaseFor(holder): drop the holder's grant, reject its waiters, pump.    *)
ReleaseFor(h) ==
  LET kept == { i \in 1..Len(waiters) : HolderOf[waiters[i]] # h }
      held == IF active \in Calls /\ HolderOf[active] = h THEN NoCall ELSE active
      s0   == [c \in Calls |->
                 IF HolderOf[c] = h /\ \E i \in 1..Len(waiters) : waiters[i] = c
                 THEN "rejected" ELSE st[c]]
  IN \E f \in Enumerations(kept) :
       Pump(held, [i \in DOMAIN f |-> waiters[f[i]]], s0)

(* The abort listener of call c (onWaiterAbort): de-queue and reject, unless *)
(* the call has already settled.                                             *)
OnAbort(c) ==
  \/ /\ st[c] = "waiting"
     /\ \E i \in 1..Len(waiters) :
          /\ waiters[i] = c
          /\ waiters' = RemoveAt(waiters, i)
     /\ st' = [st EXCEPT ![c] = "rejected"]
     /\ UNCHANGED active
  \/ /\ st[c] # "waiting"
     /\ UNCHANGED lockVars

-----------------------------------------------------------------------------
(* A caller aborts the signal it passed. The signal's other listeners run    *)
(* before the lock's own, and may release the lock meanwhile: the listener   *)
(* is a step of its own.                                                     *)
Abort(c) ==
  /\ ~aborted[c]
  /\ aborted' = [aborted EXCEPT ![c] = TRUE]
  /\ UNCHANGED lockVars

CallAcquire(c)     == Acquire(c) /\ UNCHANGED aborted
CallTryAcquire(c)  == TryAcquire(c) /\ UNCHANGED aborted
CallRelease(c)     == Release(c) /\ UNCHANGED aborted
CallReleaseFor(h)  == ReleaseFor(h) /\ UNCHANGED aborted
AbortListener(c)   == aborted[c] /\ OnAbort(c) /\ UNCHANGED aborted

Next ==
  \/ \E c \in Calls : \/ CallAcquire(c)
                      \/ CallTryAcquire(c)
                      \/ CallRelease(c)
                      \/ Abort(c)
                      \/ AbortListener(c)
  \/ \E h \in Holders : CallReleaseFor(h)

(* A fired signal's listener runs; a caller that was granted the lock        *)
(* releases it (every caller releases in a `finally`).                       *)
Fairness ==
  \A c \in Calls : /\ WF_vars(AbortListener(c))
                   /\ WF_vars(CallRelease(c) /\ active = c)

Spec == Init /\ [][Next]_vars /\ Fairness

-----------------------------------------------------------------------------
TypeOK ==
  /\ active \in Calls \cup {NoCall}
  /\ waiters \in Seq(Calls)
  /\ st \in [Calls -> CallStates]
  /\ aborted \in [Calls -> BOOLEAN]

(* Each waiting call is in the queue once, and nothing else is: a promise    *)
(* that settled left the queue, and none is forgotten outside it.            *)
QueueIsWaiting ==
  /\ \A i \in 1..Len(waiters) : st[waiters[i]] = "waiting"
  /\ \A i, j \in 1..Len(waiters) : i # j => waiters[i] # waiters[j]
  /\ \A c \in Calls : st[c] = "waiting" => \E i \in 1..Len(waiters) : waiters[i] = c

(* The lock is never free while somebody waits: no abort, release or         *)
(* teardown loses the wake-up and wedges the queue.                          *)
NeverWedged == active = NoCall => waiters = <<>>

(* The operator's calls stand ahead of every session's call.                 *)
PriorityFirst ==
  \A i, j \in 1..Len(waiters) :
    i < j /\ waiters[j] \in Priority => waiters[i] \in Priority

(* The current grant belongs to a call whose promise was resolved with it.   *)
GrantWasGiven == active # NoCall => st[active] = "granted"

(* The inductive invariant.                                                  *)
IInv ==
  /\ TypeOK
  /\ QueueIsWaiting
  /\ NeverWedged
  /\ PriorityFirst
  /\ GrantWasGiven

(* A waiting call is granted only while its signal has not fired, and only   *)
(* when every call that stood ahead of it was turned away in the same step:  *)
(* no call is overtaken by one behind it.                                    *)
GrantedInTurn ==
  [][\A j \in 1..Len(waiters) : st'[waiters[j]] = "granted" =>
       /\ ~aborted[waiters[j]]
       /\ \A i \in 1..j - 1 : st'[waiters[i]] = "rejected"]_vars

(* The lock implements the queueless mutex of PriorityMutex: at most one     *)
(* owner, no preemption, no lost wake-up, no settled call served again, and  *)
(* the operator's calls before every session's.                              *)
Mutex == INSTANCE PriorityMutex WITH
  owner   <- active,
  pending <- { c \in Calls : st[c] = "waiting" },
  settled <- { c \in Calls : st[c] \in {"granted", "rejected", "refused"} }
ImplementsMutex == Mutex!Spec

(* Every waiting call is eventually granted or rejected.                     *)
NoStarvation ==
  \A c \in Calls : st[c] = "waiting" ~> st[c] # "waiting"
=============================================================================
