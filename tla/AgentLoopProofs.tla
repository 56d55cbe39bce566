--------------------------- MODULE AgentLoopProofs ---------------------------
(***************************************************************************)
(* Proofs about one run of the agent loop (AgentLoop), for any tools,      *)
(* responses and budgets: what it commits is paired with results, a        *)
(* crossed ceiling costs one provider turn at most, a steered turn hears   *)
(* the model again, the dialogs are those of the calls that wait for one,  *)
(* no call repeats up to the guard's limit, and the loop keeps the         *)
(* steering contract of SteeredTurn.                                       *)
(***************************************************************************)
EXTENDS AgentLoop, SequenceTheorems, FiniteSetTheorems, WellFoundedInduction, TLAPS

batching == <<batch, parallel, st, fatal, guard, before>>

(* The steps of the loop outside a batch, where the model is asked.          *)
Thinking ==
  \/ Top \/ PassGate \/ AnswerSpend \/ SpendCut \/ Compacted
  \/ OverflowReclaimed \/ FallBack \/ EmptyResponse
  \/ \E k \in DOMAIN tries : BadCall(k)
  \/ Correction \/ TurnEnd \/ ModelCutShort \/ Backoff

LEMMA NextCases ==
  Next <=> \/ Thinking
           \/ \E b \in Batches : Calls(b)
           \/ \E i \in Slots : Call(i)
           \/ BatchEnd
           \/ User
BY DEF Next, Request, Thinking

(* A thinking step leaves the batch alone and ends outside of one.           *)
LEMMA ThinkingFrame ==
  ASSUME Thinking
  PROVE  /\ pc \notin {"tools", "over"} /\ pc' # "tools"
         /\ UNCHANGED <<batching, unpaired, streak, role, spent, auto, granted, abort, steers>>
BY DEF Thinking, Top, PassGate, AnswerSpend, SpendCut, Compacted, OverflowReclaimed, FallBack,
       EmptyResponse, BadCall, Correction, TurnEnd, ModelCutShort, Backoff, Response, Resend,
       Boundary, Ready, SpendGuard, Absorb, GoTo, Stop, Unchecked,
       flags, steering, ladder, counts, calls, history, batching

(* A step of a call leaves the loop where it is, and the user's requests.    *)
LEMMA CallFrame ==
  ASSUME NEW i \in Slots, Call(i)
  PROVE  UNCHANGED <<pc, outcome, batch, parallel, before, role, spent,
                     abort, steers, steering, ladder, counts, history>>
BY DEF Call, AdmitSerial, AdmitParallel, Resume, Verdict, Answer, AskCut, Finish,
       flags, history

-----------------------------------------------------------------------------
(* Every tool_use block that has no result yet is a call of this batch.      *)
PairedInv == Paired /\ unpaired \subseteq DOMAIN batch

LEMMA PairedStep == PairedInv /\ [Next]_vars => PairedInv'
<1> SUFFICES ASSUME PairedInv, [Next]_vars PROVE PairedInv'
  OBVIOUS
<1> USE DEF PairedInv, Paired
<1>1. CASE Thinking
  BY <1>1, ThinkingFrame DEF batching
<1>2. CASE \E b \in Batches : Calls(b)
  BY <1>2 DEF Calls, GoTo
<1>3. CASE \E i \in Slots : Call(i)
  BY <1>3, CallFrame DEF history
<1>4. CASE BatchEnd
  <2>1. unpaired' = {}
    BY <1>4 DEF BatchEnd, Synthesized
  <2> QED
    BY <2>1
<1>5. CASE User
  BY <1>5 DEF User, Interrupt, RequestSteer, SetAutonomy, Overspend, calls, history
<1>6. CASE UNCHANGED vars
  BY <1>6 DEF vars, calls, history
<1> QED
  BY <1>1, <1>2, <1>3, <1>4, <1>5, <1>6, NextCases

-----------------------------------------------------------------------------
LEMMA PoisonStep == NotPoisoned /\ [Next]_vars => NotPoisoned'
<1> SUFFICES ASSUME NotPoisoned, [Next]_vars PROVE NotPoisoned'
  OBVIOUS
<1> USE DEF NotPoisoned
<1>1. CASE Thinking
  BY <1>1 DEF Thinking, Top, PassGate, AnswerSpend, SpendCut, Compacted, OverflowReclaimed, FallBack,
       EmptyResponse, BadCall, Correction, TurnEnd, ModelCutShort, Backoff, Response, Resend,
       Boundary, Ready, SpendGuard, Absorb, GoTo, Stop, steering
<1>2. CASE \E b \in Batches : Calls(b)
  BY <1>2 DEF Calls, Response, steering
<1>3. CASE \E i \in Slots : Call(i)
  BY <1>3, CallFrame DEF steering
<1>4. CASE BatchEnd
  BY <1>4 DEF BatchEnd, Boundary, SpendGuard, Absorb, GoTo, Stop, steering
<1>5. CASE User
  BY <1>5 DEF User, Interrupt, RequestSteer, SetAutonomy, Overspend, steering
<1>6. CASE UNCHANGED vars
  BY <1>6 DEF vars, steering
<1> QED
  BY <1>1, <1>2, <1>3, <1>4, <1>5, <1>6, NextCases

-----------------------------------------------------------------------------
(* What a step of call i does to the calls and the dialogs: it goes on       *)
(* without a dialog, opens one, has its dialog answered, loses it, or the    *)
(* rest of its batch is skipped with it. Only an uncancelled call starts.    *)
Awake == {"listed", "held", "judged", "running"}

GoesOn(i, how) ==
  /\ how \in {"done", "skipped", "held", "judged", "running"}
  /\ how = "running" => ~Cancelled
  /\ st[i] \in Awake /\ st' = [st EXCEPT ![i] = how] /\ asks' = asks
AsksFor(i) ==
  /\ ~Cancelled
  /\ st[i] \in Awake /\ st' = [st EXCEPT ![i] = "asking"] /\ asks' = Append(asks, i)
Answered(i, how) ==
  /\ how \in {"done", "running"}
  /\ how = "running" => ~Cancelled
  /\ asks # <<>> /\ Head(asks) = i
  /\ st' = [st EXCEPT ![i] = how] /\ asks' = Tail(asks)
LosesAsk(i) ==
  /\ st[i] = "asking" /\ i \notin Shown
  /\ st' = [st EXCEPT ![i] = "done"] /\ asks' = asks
RestSkipped ==
  /\ st' = [j \in Slots |-> IF st[j] = "listed" THEN "skipped" ELSE st[j]]
  /\ asks' = asks

CallShape(i) ==
  \/ \E how \in CallStates : GoesOn(i, how) \/ Answered(i, how)
  \/ AsksFor(i) \/ LosesAsk(i) \/ RestSkipped

LEMMA LaunchShape ==
  ASSUME NEW i \in Slots, Launch(i), asks' = asks, st[i] \in Awake
  PROVE  \E how \in CallStates : GoesOn(i, how)
<1>1. CASE ~Cancelled /\ Ends(i, "running", FALSE)
  BY <1>1 DEF Ends, GoesOn, CallStates, Settled
<1>2. CASE Ends(i, "done", FALSE)
  BY <1>2 DEF Ends, GoesOn, CallStates, Settled
<1> QED
  BY <1>1, <1>2 DEF Launch

LEMMA GateShape ==
  ASSUME NEW i \in Slots, NEW doubted, Gate(i, doubted), ~Cancelled, st[i] \in Awake
  PROVE  CallShape(i)
<1>1. CASE Ends(i, "asking", FALSE) /\ asks' = Append(asks, i)
  BY <1>1 DEF Ends, AsksFor, CallShape
<1>2. CASE Launch(i) /\ UNCHANGED asks
  BY <1>2, LaunchShape DEF CallShape
<1> QED
  BY <1>1, <1>2 DEF Gate

LEMMA QuietShape ==
  ASSUME NEW i \in Slots, NEW how \in {"done", "skipped", "held", "judged"},
         st' = [st EXCEPT ![i] = how], asks' = asks, st[i] \in Awake
  PROVE  CallShape(i)
BY DEF GoesOn, CallShape, CallStates, Settled

LEMMA ConsiderShape ==
  ASSUME NEW i \in Slots, NEW g, Consider(i, g), st[i] \in Awake
  PROVE  CallShape(i)
<1>1. CASE Cancelled
  BY <1>1, QuietShape DEF Consider, Ends
<1>2. CASE ~Cancelled
  <2>1. \/ st' = [st EXCEPT ![i] = "done"] /\ asks' = asks
        \/ st' = [st EXCEPT ![i] = "judged"] /\ asks' = asks
        \/ Gate(i, FALSE)
    BY <1>2 DEF Consider, Ends
  <2> QED
    BY <1>2, <2>1, QuietShape, GateShape
<1> QED
  BY <1>1, <1>2

LEMMA EnterShape ==
  ASSUME NEW i \in Slots, NEW g, Enter(i, g), st[i] \in Awake
  PROVE  CallShape(i)
<1>1. CASE role = "lead"
  BY <1>1, ConsiderShape DEF Enter
<1>2. CASE role # "lead"
  BY <1>2, QuietShape DEF Enter, Ends
<1> QED
  BY <1>1, <1>2

LEMMA CallShapes ==
  ASSUME NEW i \in Slots, Call(i)
  PROVE  CallShape(i)
<1>1. CASE AdmitSerial(i)
  <2>1. st[i] \in Awake
    BY <1>1 DEF AdmitSerial, Listed, Awake
  <2>2. CASE spent
    BY <1>1, <2>2 DEF AdmitSerial, RestSkipped, CallShape, Listed
  <2>3. CASE ~spent
    BY <1>1, <2>1, <2>3, EnterShape DEF AdmitSerial
  <2> QED
    BY <2>2, <2>3
<1>2. CASE AdmitParallel(i)
  <2>1. st[i] \in Awake
    BY <1>2 DEF AdmitParallel, Listed, Awake
  <2>2. CASE Cancelled \/ spent
    BY <1>2, <2>1, <2>2, QuietShape DEF AdmitParallel, Ends
  <2>3. CASE ~(Cancelled \/ spent)
    BY <1>2, <2>1, <2>3, EnterShape DEF AdmitParallel
  <2> QED
    BY <2>2, <2>3
<1>3. CASE Resume(i)
  BY <1>3, ConsiderShape DEF Resume, Awake
<1>4. CASE Verdict(i)
  <2>1. st[i] \in Awake
    BY <1>4 DEF Verdict, Awake
  <2>2. CASE Ends(i, "done", FALSE) /\ UNCHANGED asks
    BY <2>1, <2>2, QuietShape DEF Ends
  <2>3. CASE ~Cancelled /\ \E doubted \in BOOLEAN : Gate(i, doubted)
    BY <2>1, <2>3, GateShape
  <2> QED
    BY <1>4, <2>2, <2>3 DEF Verdict
<1>5. CASE Answer(i)
  <2>1. \/ Ends(i, "done", FALSE)
        \/ ~Cancelled /\ Ends(i, "running", FALSE)
    BY <1>5 DEF Answer, Launch
  <2> QED
    BY <1>5, <2>1 DEF Answer, Ends, Answered, CallShape, CallStates, Settled
<1>6. CASE AskCut(i)
  BY <1>6 DEF AskCut, Ends, LosesAsk, Shown, CallShape
<1>7. CASE Finish(i)
  BY <1>7, QuietShape DEF Finish, Ends, Awake
<1> QED
  BY <1>1, <1>2, <1>3, <1>4, <1>5, <1>6, <1>7 DEF Call

-----------------------------------------------------------------------------
(* Dialogs as sequences without repetitions.                                 *)
Elems(q) == {q[k] : k \in DOMAIN q}
Distinct(q) == \A j, k \in DOMAIN q : q[j] = q[k] => j = k

LEMMA AppendElems ==
  ASSUME NEW S, NEW q \in Seq(S), NEW x \in S
  PROVE  /\ Append(q, x) \in Seq(S)
         /\ Elems(Append(q, x)) = Elems(q) \cup {x}
         /\ Distinct(q) /\ x \notin Elems(q) => Distinct(Append(q, x))
<1>1. /\ Len(q) \in Nat /\ DOMAIN q = 1..Len(q)
      /\ Append(q, x) \in Seq(S) /\ DOMAIN Append(q, x) = 1..Len(q) + 1
      /\ \A k \in 1..Len(q) : Append(q, x)[k] = q[k]
      /\ Append(q, x)[Len(q) + 1] = x
  OBVIOUS
<1>2. Elems(Append(q, x)) = Elems(q) \cup {x}
  <2>1. \A k \in 1..Len(q) + 1 : k \in 1..Len(q) \/ k = Len(q) + 1
    BY <1>1
  <2>2. 1..Len(q) \subseteq 1..Len(q) + 1 /\ Len(q) + 1 \in 1..Len(q) + 1
    BY <1>1
  <2> QED
    BY <1>1, <2>1, <2>2 DEF Elems
<1>3. ASSUME Distinct(q), x \notin Elems(q)
      PROVE  Distinct(Append(q, x))
  <2> SUFFICES ASSUME NEW j \in 1..Len(q) + 1, NEW k \in 1..Len(q) + 1,
                      Append(q, x)[j] = Append(q, x)[k]
               PROVE  j = k
    BY <1>1 DEF Distinct
  <2>1. \A m \in 1..Len(q) : q[m] # x
    BY <1>1, <1>3 DEF Elems
  <2>2. /\ j \in 1..Len(q) \/ j = Len(q) + 1
        /\ k \in 1..Len(q) \/ k = Len(q) + 1
    BY <1>1
  <2> QED
    BY <1>1, <1>3, <2>1, <2>2 DEF Distinct
<1> QED
  BY <1>1, <1>2, <1>3

LEMMA TailElems ==
  ASSUME NEW S, NEW q \in Seq(S), q # <<>>, Distinct(q)
  PROVE  /\ Tail(q) \in Seq(S)
         /\ Elems(Tail(q)) = Elems(q) \ {Head(q)}
         /\ Distinct(Tail(q))
         /\ Head(q) \in Elems(q)
<1>1. /\ Len(q) \in Nat \ {0} /\ DOMAIN q = 1..Len(q) /\ Head(q) = q[1]
      /\ Tail(q) \in Seq(S) /\ DOMAIN Tail(q) = 1..Len(q) - 1
      /\ \A k \in 1..Len(q) - 1 : Tail(q)[k] = q[k + 1]
  OBVIOUS
<1>2. Elems(Tail(q)) = Elems(q) \ {Head(q)}
  <2>1. ASSUME NEW x \in Elems(q), x # Head(q)
        PROVE  x \in Elems(Tail(q))
    <3>1. PICK k \in 1..Len(q) : x = q[k]
      BY <1>1, <2>1 DEF Elems
    <3>2. k - 1 \in 1..Len(q) - 1 /\ Tail(q)[k - 1] = x
      BY <1>1, <2>1, <3>1
    <3> QED
      BY <1>1, <3>2 DEF Elems
  <2>2. ASSUME NEW k \in 1..Len(q) - 1
        PROVE  Tail(q)[k] \in Elems(q) /\ Tail(q)[k] # Head(q)
    <3>1. k + 1 \in 1..Len(q) /\ 1 \in 1..Len(q) /\ k + 1 # 1
      BY <1>1
    <3> QED
      BY <1>1, <3>1 DEF Elems, Distinct
  <2> QED
    BY <1>1, <2>1, <2>2 DEF Elems
<1>3. Distinct(Tail(q))
  <2> SUFFICES ASSUME NEW j \in 1..Len(q) - 1, NEW k \in 1..Len(q) - 1, Tail(q)[j] = Tail(q)[k]
               PROVE  j = k
    BY <1>1 DEF Distinct
  <2>1. j + 1 \in 1..Len(q) /\ k + 1 \in 1..Len(q) /\ q[j + 1] = q[k + 1]
    BY <1>1
  <2>2. j + 1 = k + 1
    BY <1>1, <2>1 DEF Distinct
  <2> QED
    BY <2>2
<1>4. Head(q) \in Elems(q)
  BY <1>1 DEF Elems
<1> QED
  BY <1>1, <1>2, <1>3, <1>4

-----------------------------------------------------------------------------
(* Only a batch has calls, the calls of a batch have states, and the dialogs *)
(* are those of the calls that wait for one.                                 *)
BatchInv ==
  /\ batch \in Batches \cup {<<>>}
  /\ (batch # <<>>) <=> (pc = "tools")
  /\ st \in [Slots -> CallStates] /\ \A i \in Slots : (st[i] = "none") <=> (i \notin DOMAIN batch)

AsksInv ==
  /\ asks \in Seq(Slots \cup {Budgeting})
  /\ DialogsMatchCalls

(* Only a lead run is steered, only a background one paused.                 *)
RoleInv ==
  /\ role # "lead" => steer = "none"
  /\ pc = "gate" => role # "lead"

Cut == abort \/ steer # "none"
Spending == {"spend", "spendFatal"}

LEMMA AsksMeaning ==
  AsksInv <=> /\ asks \in Seq(Slots \cup {Budgeting})
              /\ Cut => Elems(asks) = {}
              /\ ~Cut => Elems(asks) = Awaited /\ Distinct(asks)
BY DEF AsksInv, DialogsMatchCalls, Shown, Elems, Distinct, Cut

LEMMA AsksMeaningNext ==
  AsksInv' <=> /\ asks' \in Seq(Slots \cup {Budgeting})
               /\ Cut' => Elems(asks') = {}
               /\ ~Cut' => Elems(asks') = Awaited' /\ Distinct(asks')
BY DEF AsksInv, DialogsMatchCalls, Shown, Elems, Distinct, Cut

LEMMA NoDialog == Elems(<<>>) = {} /\ Distinct(<<>>)
BY DEF Elems, Distinct

LEMMA NoElems ==
  ASSUME NEW S, NEW q \in Seq(S), Elems(q) = {}
  PROVE  q = <<>>
<1>1. Len(q) \in Nat /\ DOMAIN q = 1..Len(q)
  OBVIOUS
<1>2. CASE Len(q) = 0
  BY <1>2
<1>3. CASE Len(q) # 0
  <2>1. 1 \in DOMAIN q
    BY <1>1, <1>3
  <2> QED
    BY <2>1 DEF Elems
<1> QED
  BY <1>2, <1>3

LEMMA BatchSlots ==
  ASSUME NEW b \in Batches
  PROVE  DOMAIN b \subseteq Slots /\ DOMAIN b # {} /\ b # <<>>
<1>1. PICK n \in 1..MaxCalls : b \in [1..n -> Tools]
  BY LoopAssumption
<1>2. MaxCalls \in Nat /\ n \in Nat /\ DOMAIN b = 1..n /\ 1 \in 1..n
  BY <1>1, LoopAssumption
<1>3. 1..n \subseteq 1..MaxCalls
  BY <1>1, <1>2
<1> QED
  BY <1>2, <1>3 DEF Slots

LEMMA OutsideBatch ==
  ASSUME BatchInv, pc # "tools"
  PROVE  \A i \in Slots : st[i] = "none"
<1>1. batch = <<>>
  BY DEF BatchInv
<1>2. DOMAIN batch = {}
  BY <1>1
<1> QED
  BY <1>2 DEF BatchInv

LEMMA RoleStep == RoleInv /\ [Next]_vars => RoleInv'
<1> SUFFICES ASSUME RoleInv, [Next]_vars PROVE RoleInv'
  OBVIOUS
<1> USE DEF RoleInv
<1>1. CASE Thinking
  BY <1>1 DEF Thinking, Top, PassGate, AnswerSpend, SpendCut, Compacted, OverflowReclaimed, FallBack,
       EmptyResponse, BadCall, Correction, TurnEnd, ModelCutShort, Backoff, Response, Resend,
       Boundary, Ready, SpendGuard, Absorb, GoTo, Stop, steering, flags
<1>2. CASE \E b \in Batches : Calls(b)
  BY <1>2 DEF Calls, GoTo, steering, flags
<1>3. CASE \E i \in Slots : Call(i)
  BY <1>3, CallFrame DEF steering
<1>4. CASE BatchEnd
  BY <1>4 DEF BatchEnd, Boundary, SpendGuard, Absorb, GoTo, Stop, steering, flags
<1>5. CASE User
  BY <1>5 DEF User, Interrupt, RequestSteer, SetAutonomy, Overspend, steering, flags
<1>6. CASE UNCHANGED vars
  BY <1>6 DEF vars, steering, flags
<1> QED
  BY <1>1, <1>2, <1>3, <1>4, <1>5, <1>6, NextCases

LEMMA BatchStep == BatchInv /\ AsksInv /\ [Next]_vars => BatchInv'
<1> SUFFICES ASSUME BatchInv, AsksInv, [Next]_vars PROVE BatchInv'
  OBVIOUS
<1> USE DEF BatchInv
<1>1. CASE Thinking
  BY <1>1, ThinkingFrame DEF batching
<1>2. ASSUME NEW b \in Batches, Calls(b)
      PROVE  BatchInv'
  <2>1. /\ batch' = b /\ pc' = "tools"
        /\ st' = [i \in Slots |-> IF i \in DOMAIN b THEN "listed" ELSE "none"]
    BY <1>2 DEF Calls, GoTo
  <2> QED
    BY <2>1, BatchSlots DEF CallStates
<1>3. ASSUME NEW i \in Slots, Call(i)
      PROVE  BatchInv'
  <2> DEFINE StatesKept ==
               /\ st' \in [Slots -> CallStates]
               /\ \A j \in Slots : (st'[j] = "none") <=> (st[j] = "none")
  <2>1. UNCHANGED <<batch, pc>>
    BY <1>3, CallFrame
  <2>2. StatesKept
    <3>1. ASSUME NEW how \in CallStates, GoesOn(i, how)
          PROVE  StatesKept
      BY <3>1 DEF GoesOn, Awake
    <3>2. ASSUME NEW how \in CallStates, Answered(i, how)
          PROVE  StatesKept
      <4>1. ~Cut /\ i \in Elems(asks) /\ i # Budgeting
        <5>1. asks \in Seq(Slots \cup {Budgeting}) /\ asks # <<>> /\ Head(asks) = i
          BY <3>2, AsksMeaning DEF Answered
        <5>2. i \in Elems(asks)
          BY <5>1 DEF Elems
        <5>3. i # Budgeting
          BY LoopAssumption DEF Slots, Budgeting
        <5> QED
          BY <5>2, <5>3, AsksMeaning
      <4>2. st[i] = "asking"
        BY <4>1, AsksMeaning DEF Awaited
      <4> QED
        BY <3>2, <4>2 DEF Answered
    <3>3. CASE AsksFor(i)
      BY <3>3 DEF AsksFor, Awake, CallStates
    <3>4. CASE LosesAsk(i)
      BY <3>4 DEF LosesAsk, CallStates, Settled
    <3>5. CASE RestSkipped
      BY <3>5 DEF RestSkipped, CallStates, Settled
    <3> QED
      BY <1>3, <3>1, <3>2, <3>3, <3>4, <3>5, CallShapes DEF CallShape
  <2> QED
    BY <2>1, <2>2
<1>4. CASE BatchEnd
  <2>1. batch' = <<>> /\ st' = Idle /\ pc' # "tools"
    BY <1>4 DEF BatchEnd, Boundary, SpendGuard, Absorb, GoTo, Stop
  <2> QED
    BY <2>1 DEF Idle, CallStates
<1>5. CASE User
  BY <1>5 DEF User, Interrupt, RequestSteer, SetAutonomy, Overspend, calls, CallStates, Settled
<1>6. CASE UNCHANGED vars
  BY <1>6 DEF vars, calls
<1> QED
  BY <1>1, <1>2, <1>3, <1>4, <1>5, <1>6, NextCases

-----------------------------------------------------------------------------
(* What a thinking step does to the dialogs.                                 *)
LEMMA ThinkingAsks ==
  ASSUME Thinking, RoleInv
  PROVE  \/ asks' = asks /\ pc \notin Spending /\ pc' \notin Spending
         \/ /\ asks' = Append(asks, Budgeting) /\ pc \notin Spending /\ pc' \in Spending
            /\ ~abort' /\ steer' = "none"
         \/ /\ asks # <<>> /\ Head(asks) = Budgeting /\ asks' = Tail(asks)
            /\ pc \in Spending /\ pc' \notin Spending
            /\ UNCHANGED <<abort, steer>>
         \/ /\ asks' = asks /\ Budgeting \notin Elems(asks)
            /\ pc \in Spending /\ pc' \notin Spending
            /\ UNCHANGED <<abort, steer>>
<1> USE DEF Spending
<1>1. CASE Top
  BY <1>1 DEF Top, RoleInv, Boundary, Ready, SpendGuard, Absorb, GoTo, Stop, steering
<1>2. CASE PassGate
  BY <1>2 DEF PassGate, RoleInv, Ready, SpendGuard, GoTo, Stop, steering
<1>3. CASE AnswerSpend
  BY <1>3 DEF AnswerSpend, GoTo, Stop, steering
<1>4. CASE SpendCut
  BY <1>4 DEF SpendCut, Elems, GoTo, Stop, steering, calls
<1>5. CASE \/ Compacted \/ OverflowReclaimed \/ FallBack \/ EmptyResponse
           \/ \E k \in DOMAIN tries : BadCall(k)
           \/ Correction \/ TurnEnd \/ ModelCutShort \/ Backoff
  BY <1>5 DEF Compacted, OverflowReclaimed, FallBack, EmptyResponse, BadCall, Correction, TurnEnd,
              ModelCutShort, Backoff, Response, Resend, Boundary, Absorb, GoTo, Stop, calls
<1> QED
  BY <1>1, <1>2, <1>3, <1>4, <1>5 DEF Thinking

LEMMA AsksStep == BatchInv /\ RoleInv /\ AsksInv /\ [Next]_vars => AsksInv'
<1> SUFFICES ASSUME BatchInv, RoleInv, AsksInv, [Next]_vars PROVE AsksInv'
  OBVIOUS
<1> DEFINE S == Slots \cup {Budgeting}
<1>0. /\ asks \in Seq(S)
      /\ Cut => Elems(asks) = {}
      /\ ~Cut => Elems(asks) = Awaited /\ Distinct(asks)
  BY AsksMeaning
<1>a. Budgeting \in S /\ Slots \subseteq S /\ Budgeting \notin Slots
  BY LoopAssumption DEF Slots, Budgeting
<1>b. ASSUME asks' = <<>>, Cut' \/ Awaited' = {}
      PROVE  AsksInv'
  <2>1. asks' \in Seq(S)
    BY <1>b
  <2> QED
    BY <1>b, <2>1, NoDialog, AsksMeaningNext
<1>c. ASSUME Elems(asks) = {}, asks' = Append(asks, Budgeting),
             Awaited' = {Budgeting}, ~Cut'
      PROVE  AsksInv'
  <2>1. asks = <<>>
    BY <1>0, <1>c, NoElems
  <2>2. asks \in Seq(S) /\ Distinct(asks) /\ Budgeting \notin Elems(asks)
    BY <1>0, <1>c, <2>1, NoDialog
  <2>3. /\ asks' \in Seq(S) /\ Elems(asks') = {Budgeting} /\ Distinct(asks')
    BY <1>a, <1>c, <2>2, AppendElems
  <2> QED
    BY <1>c, <2>3, AsksMeaningNext
<1> HIDE DEF S
<1>1. CASE Thinking
  <2>1. /\ pc # "tools" /\ pc' # "tools" /\ UNCHANGED <<batch, st>>
    BY <1>1, ThinkingFrame DEF batching
  <2>2. \A i \in Slots : st[i] = "none" /\ st'[i] = "none"
    BY <2>1, OutsideBatch
  <2>3. /\ Awaited = IF pc \in Spending THEN {Budgeting} ELSE {}
        /\ Awaited' = IF pc' \in Spending THEN {Budgeting} ELSE {}
    BY <2>2 DEF Awaited, Spending
  <2>4. CASE asks' = asks /\ pc \notin Spending /\ pc' \notin Spending
    <3>1. Elems(asks) = {} /\ Awaited' = {}
      BY <1>0, <2>3, <2>4
    <3>2. asks' = <<>>
      BY <1>0, <2>4, <3>1, NoElems
    <3> QED
      BY <1>b, <3>1, <3>2
  <2>5. CASE /\ asks' = Append(asks, Budgeting) /\ pc \notin Spending /\ pc' \in Spending
             /\ ~abort' /\ steer' = "none"
    <3>1. Elems(asks) = {} /\ Awaited' = {Budgeting} /\ ~Cut'
      BY <1>0, <2>3, <2>5 DEF Cut
    <3> QED
      BY <1>c, <2>5, <3>1
  <2>6. CASE /\ asks # <<>> /\ Head(asks) = Budgeting /\ asks' = Tail(asks)
             /\ pc \in Spending /\ pc' \notin Spending
             /\ UNCHANGED <<abort, steer>>
    <3>1. ~Cut
      BY <1>0, <2>6, NoElems
    <3>2. Distinct(asks) /\ Elems(asks) = {Budgeting}
      BY <1>0, <2>3, <2>6, <3>1
    <3>3. asks' \in Seq(S) /\ Elems(asks') = {}
      BY <1>0, <2>6, <3>2, TailElems
    <3>4. asks' = <<>> /\ Awaited' = {}
      BY <2>3, <2>6, <3>3, NoElems
    <3> QED
      BY <1>b, <3>4
  <2>7. CASE /\ asks' = asks /\ Budgeting \notin Elems(asks)
             /\ pc \in Spending /\ pc' \notin Spending
             /\ UNCHANGED <<abort, steer>>
    <3>1. Cut
      BY <1>0, <2>3, <2>7
    <3>2. asks' = <<>> /\ Cut'
      BY <1>0, <2>7, <3>1, NoElems DEF Cut
    <3> QED
      BY <1>b, <3>2
  <2> QED
    BY <1>1, <2>4, <2>5, <2>6, <2>7, ThinkingAsks
<1>2. ASSUME NEW b \in Batches, Calls(b)
      PROVE  AsksInv'
  <2>1. /\ pc = "model" /\ pc' = "tools" /\ asks' = asks
        /\ st' = [i \in Slots |-> IF i \in DOMAIN b THEN "listed" ELSE "none"]
    BY <1>2 DEF Calls, Response, GoTo
  <2>2. \A i \in Slots : st[i] # "asking" /\ st'[i] # "asking"
    BY <2>1, OutsideBatch
  <2>3. Awaited = {} /\ Awaited' = {}
    BY <2>1, <2>2 DEF Awaited
  <2>4. asks' = <<>>
    BY <1>0, <2>1, <2>3, NoElems
  <2> QED
    BY <1>b, <2>3, <2>4
<1>3. ASSUME NEW i \in Slots, Call(i)
      PROVE  AsksInv'
  <2>1. UNCHANGED <<pc, abort, steer>> /\ st \in [Slots -> CallStates]
    BY <1>3, CallFrame DEF BatchInv, steering
  <2>2. ASSUME asks' = asks,
               Cut \/ \A j \in Slots : st'[j] = "asking" <=> st[j] = "asking"
        PROVE  AsksInv'
    BY <1>0, <2>1, <2>2, AsksMeaningNext DEF Cut, Awaited, S
  <2>3. ASSUME NEW how \in CallStates, GoesOn(i, how)
        PROVE  AsksInv'
    BY <2>1, <2>2, <2>3 DEF GoesOn, Awake
  <2>4. ASSUME NEW how \in CallStates, Answered(i, how)
        PROVE  AsksInv'
    <3>1. asks # <<>> /\ Head(asks) = i /\ asks' = Tail(asks) /\ st' = [st EXCEPT ![i] = how]
          /\ how # "asking"
      BY <2>4 DEF Answered
    <3>2. ~Cut
      BY <1>0, <3>1, NoElems
    <3>3. Distinct(asks) /\ Elems(asks) = Awaited
      BY <1>0, <3>2
    <3>4. asks' \in Seq(S) /\ Elems(asks') = Awaited \ {i} /\ Distinct(asks')
      BY <1>0, <3>1, <3>3, TailElems
    <3>5. Awaited' = Awaited \ {i}
      BY <1>a, <2>1, <3>1 DEF Awaited
    <3>6. ~Cut'
      BY <2>1, <3>2 DEF Cut
    <3> QED
      BY <3>4, <3>5, <3>6, AsksMeaningNext DEF S
  <2>5. CASE AsksFor(i)
    <3>1. ~Cut /\ st[i] # "asking" /\ st' = [st EXCEPT ![i] = "asking"] /\ asks' = Append(asks, i)
      BY <2>5 DEF AsksFor, Cut, Cancelled, Awake
    <3>2. Distinct(asks) /\ Elems(asks) = Awaited
      BY <1>0, <3>1
    <3>3. i \notin Awaited /\ i \in S
      BY <1>a, <3>1 DEF Awaited
    <3>4. asks' \in Seq(S) /\ Elems(asks') = Awaited \cup {i} /\ Distinct(asks')
      BY <1>0, <3>1, <3>2, <3>3, AppendElems
    <3>5. Awaited' = Awaited \cup {i}
      BY <2>1, <3>1 DEF Awaited
    <3>6. ~Cut'
      BY <2>1, <3>1 DEF Cut
    <3> QED
      BY <3>4, <3>5, <3>6, AsksMeaningNext DEF S
  <2>6. CASE LosesAsk(i)
    <3>1. Cut
      BY <1>0, <2>6 DEF LosesAsk, Shown, Elems, Awaited
    <3> QED
      BY <2>2, <2>6, <3>1 DEF LosesAsk
  <2>7. CASE RestSkipped
    BY <2>1, <2>2, <2>7 DEF RestSkipped
  <2> QED
    BY <1>3, <2>3, <2>4, <2>5, <2>6, <2>7, CallShapes DEF CallShape
<1>4. CASE BatchEnd
  <2>1. /\ pc = "tools" /\ st' = Idle
        /\ \A i \in DOMAIN batch : st[i] \in Settled \cup {"listed"}
    BY <1>4 DEF BatchEnd
  <2>2. \A i \in Slots : st[i] # "asking" /\ st'[i] # "asking"
    BY <2>1 DEF BatchInv, Idle, Settled
  <2>3. /\ Awaited = {}
        /\ Awaited' = IF pc' \in Spending THEN {Budgeting} ELSE {}
    BY <2>1, <2>2 DEF Awaited, Spending
  <2>4. Elems(asks) = {}
    BY <1>0, <2>3
  <2>5. \/ asks' = asks /\ pc' \notin Spending
        \/ asks' = Append(asks, Budgeting) /\ pc' \in Spending /\ ~abort' /\ steer' = "none"
    BY <1>4 DEF BatchEnd, Boundary, SpendGuard, Absorb, GoTo, Stop, Spending, steering
  <2>6. CASE asks' = asks /\ pc' \notin Spending
    <3>1. asks' = <<>> /\ Awaited' = {}
      BY <1>0, <2>3, <2>4, <2>6, NoElems
    <3> QED
      BY <1>b, <3>1
  <2>7. CASE asks' = Append(asks, Budgeting) /\ pc' \in Spending /\ ~abort' /\ steer' = "none"
    <3>1. Awaited' = {Budgeting} /\ ~Cut'
      BY <2>3, <2>7 DEF Cut
    <3> QED
      BY <1>c, <2>4, <2>7, <3>1
  <2> QED
    BY <2>5, <2>6, <2>7
<1>5. CASE User
  <2>1. CASE \/ Interrupt
             \/ \E kind \in {"bare", "text"} : RequestSteer(kind)
    <3>1. asks' = <<>> /\ Cut'
      BY <2>1 DEF Interrupt, RequestSteer, Cut
    <3> QED
      BY <1>b, <3>1
  <2>2. CASE SetAutonomy \/ Overspend
    <3>1. UNCHANGED <<pc, st, asks, abort, steer>>
      BY <2>2 DEF SetAutonomy, Overspend, calls, steering
    <3> QED
      BY <3>1 DEF AsksInv, DialogsMatchCalls, Shown, Awaited
  <2> QED
    BY <1>5, <2>1, <2>2 DEF User
<1>6. CASE UNCHANGED vars
  <2>1. UNCHANGED <<pc, st, asks, abort, steer>>
    BY <1>6 DEF vars, calls, steering
  <2> QED
    BY <2>1 DEF AsksInv, DialogsMatchCalls, Shown, Awaited
<1> QED
  BY <1>1, <1>2, <1>3, <1>4, <1>5, <1>6, NextCases

-----------------------------------------------------------------------------
(* A nonempty set of slots has a last one.                                   *)
LEMMA LastOf ==
  ASSUME NEW n \in Nat, NEW R \in SUBSET (1..n), R # {}
  PROVE  \E i \in R : \A j \in R : j <= i
<1> DEFINE T == {n - i : i \in R}
           Less == OpToRel(<, Nat)
<1>1. T \subseteq Nat /\ T # {}
  <2>1. \A i \in R : n - i \in Nat
    OBVIOUS
  <2>2. PICK i \in R : TRUE
    OBVIOUS
  <2> QED
    BY <2>1, <2>2
<1>2. IsWellFoundedOn(Less, Nat)
  BY NatLessThanWellFounded
<1>3. \A x, y \in Nat : <<y, x>> \in Less <=> y < x
  BY DEF OpToRel
<1> HIDE DEF Less, T
<1>4. PICK x \in T : \A y \in T : ~(<<y, x>> \in Less)
  BY <1>1, <1>2, WFMin
<1>5. \A y \in T : ~(y < x)
  BY <1>1, <1>3, <1>4
<1>6. PICK i \in R : x = n - i
  BY DEF T
<1>7. ASSUME NEW j \in R PROVE j <= i
  <2>1. n - j \in T /\ ~(n - j < n - i)
    BY <1>5, <1>6 DEF T
  <2> QED
    BY <2>1
<1> QED
  BY <1>7

-----------------------------------------------------------------------------
(* The loop guard counts calls the model made, whatever becomes of them.     *)
GuardInv ==
  /\ guard \in Counts /\ before \in Counts /\ streak \in Counts
  /\ parallel \in BOOLEAN /\ fatal \in BOOLEAN

LEMMA CountFields ==
  ASSUME NEW g \in Counts
  PROVE  /\ g.sig \in Tools \cup {NoTool} /\ g.n \in Nat
         /\ [g EXCEPT !.n = @ + 1] \in Counts
BY DEF Counts

LEMMA CallOf ==
  ASSUME BatchInv, NEW i \in Slots, st[i] # "none"
  PROVE  batch[i] \in Tools
<1>1. i \in DOMAIN batch
  BY DEF BatchInv
<1>2. batch \in Batches
  <2>1. CASE batch = <<>>
    BY <1>1, <2>1
  <2> QED
    BY <2>1 DEF BatchInv
<1>3. PICK n \in 1..MaxCalls : batch \in [1..n -> Tools]
  BY <1>2, LoopAssumption
<1> QED
  BY <1>1, <1>3

LEMMA EndsTyped ==
  ASSUME fatal \in BOOLEAN, NEW i, NEW how, NEW failed \in BOOLEAN, Ends(i, how, failed)
  PROVE  fatal' \in BOOLEAN
BY DEF Ends

LEMMA GateTyped ==
  ASSUME fatal \in BOOLEAN, NEW i, NEW doubted, Gate(i, doubted)
  PROVE  fatal' \in BOOLEAN
<1>1. \/ Ends(i, "asking", FALSE) \/ Ends(i, "running", FALSE) \/ Ends(i, "done", FALSE)
  BY Zenon DEF Gate, Launch
<1> QED
  BY <1>1, EndsTyped

LEMMA ConsiderTyped ==
  ASSUME fatal \in BOOLEAN, NEW i \in Slots, batch[i] \in Tools, NEW g \in Counts, Consider(i, g)
  PROVE  guard' \in Counts /\ fatal' \in BOOLEAN
<1> DEFINE n == IF g.sig = batch[i] THEN g.n + 1 ELSE 1
<1>1. n \in Nat
  <2>1. g.n \in Nat
    BY CountFields
  <2> QED
    BY <2>1
<1>2. CASE Cancelled
  BY <1>2, EndsTyped DEF Consider
<1>3. CASE ~Cancelled
  <2>1. guard' = [sig |-> batch[i], n |-> n]
    BY <1>3 DEF Consider
  <2>2. guard' \in Counts
    <3> HIDE DEF n
    <3> QED
      BY <1>1, <2>1 DEF Counts
  <2>3. \/ Ends(i, "done", n >= GuardLimit)
        \/ Ends(i, "done", n >= GuardFatal)
        \/ Ends(i, "done", FALSE)
        \/ Ends(i, "judged", FALSE)
        \/ Gate(i, FALSE)
    BY <1>3, Zenon DEF Consider
  <2>4. (n >= GuardLimit) \in BOOLEAN /\ (n >= GuardFatal) \in BOOLEAN
    OBVIOUS
  <2>5. fatal' \in BOOLEAN
    <3> HIDE DEF n
    <3> QED
      BY <2>3, <2>4, EndsTyped, GateTyped
  <2> QED
    BY <2>2, <2>5
<1> QED
  BY <1>2, <1>3

LEMMA EnterTyped ==
  ASSUME fatal \in BOOLEAN, NEW i \in Slots, batch[i] \in Tools, NEW g \in Counts, Enter(i, g)
  PROVE  guard' \in Counts /\ fatal' \in BOOLEAN
<1>1. CASE role = "lead"
  BY <1>1, ConsiderTyped DEF Enter
<1>2. CASE role # "lead"
  BY <1>2, EndsTyped DEF Enter
<1> QED
  BY <1>1, <1>2

LEMMA CallTyped ==
  ASSUME BatchInv, GuardInv, NEW i \in Slots, Call(i)
  PROVE  guard' \in Counts /\ fatal' \in BOOLEAN
<1> USE DEF GuardInv
<1>1. CASE AdmitSerial(i)
  <2>1. batch[i] \in Tools
    BY <1>1, CallOf DEF AdmitSerial, Listed
  <2> QED
    BY <1>1, <2>1, EnterTyped DEF AdmitSerial
<1>2. CASE AdmitParallel(i)
  <2>1. batch[i] \in Tools
    BY <1>2, CallOf DEF AdmitParallel, Listed
  <2> QED
    BY <1>2, <2>1, EnterTyped, EndsTyped DEF AdmitParallel
<1>3. CASE Resume(i)
  <2>1. batch[i] \in Tools
    BY <1>3, CallOf DEF Resume
  <2> QED
    BY <1>3, <2>1, ConsiderTyped DEF Resume
<1>4. CASE Verdict(i)
  BY <1>4, EndsTyped, GateTyped DEF Verdict
<1>5. CASE Answer(i)
  BY <1>5, EndsTyped DEF Answer, Launch
<1>6. CASE AskCut(i)
  BY <1>6, EndsTyped DEF AskCut
<1>7. CASE Finish(i)
  BY <1>7, EndsTyped DEF Finish
<1> QED
  BY <1>1, <1>2, <1>3, <1>4, <1>5, <1>6, <1>7 DEF Call

(* What the guard and the history of repetitions are after a batch.          *)
LEMMA BatchEndTyped ==
  ASSUME BatchInv, GuardInv, BatchEnd
  PROVE  guard' \in Counts /\ streak' \in Counts
<1>1. Ran \in SUBSET Slots /\ \A i \in Ran : batch[i] \in Tools
  BY CallOf DEF Ran
<1>2. guard' \in Counts
  <2>1. CASE ~parallel \/ Ran = {}
    BY <2>1 DEF BatchEnd, GuardAfter, GuardInv
  <2>2. CASE parallel /\ Ran # {}
    <3> DEFINE k == CHOOSE i \in Ran : \A j \in Ran : j <= i
    <3>1. k \in Ran
      <4>1. \E i \in Ran : \A j \in Ran : j <= i
        BY <1>1, <2>2, LastOf, LoopAssumption DEF Slots
      <4> QED
        BY <4>1
    <3>2. batch[k] \in Tools
      BY <1>1, <3>1
    <3>3. \/ guard' = [before EXCEPT !.n = @ + 1]
          \/ guard' = Fresh(batch[k])
      BY <2>2 DEF BatchEnd, GuardAfter
    <3>4. Fresh(batch[k]) \in Counts
      BY <3>2 DEF Fresh, Counts
    <3> QED
      BY <3>3, <3>4, CountFields DEF GuardInv
  <2> QED
    BY <2>1, <2>2 DEF GuardInv
<1>3. streak' \in Counts
  <2> DEFINE kinds == {batch[i] : i \in Ran}
  <2>1. \/ streak' = streak
        \/ streak' = [streak EXCEPT !.n = @ + 1]
        \/ kinds # {} /\ streak' = Fresh(CHOOSE t \in kinds : TRUE)
        \/ streak' = Nothing
    BY DEF BatchEnd
  <2>2. Nothing \in Counts
    BY DEF Nothing, Counts
  <2>3. ASSUME kinds # {}
        PROVE  Fresh(CHOOSE t \in kinds : TRUE) \in Counts
    <3>1. (CHOOSE t \in kinds : TRUE) \in kinds
      BY <2>3
    <3>2. (CHOOSE t \in kinds : TRUE) \in Tools
      BY <1>1, <3>1
    <3> HIDE DEF kinds
    <3> QED
      BY <3>2 DEF Fresh, Counts
  <2> HIDE DEF kinds
  <2> QED
    BY <2>1, <2>2, <2>3, CountFields DEF GuardInv
<1> QED
  BY <1>2, <1>3

LEMMA GuardStep == BatchInv /\ GuardInv /\ [Next]_vars => GuardInv'
<1> SUFFICES ASSUME BatchInv, GuardInv, [Next]_vars PROVE GuardInv'
  OBVIOUS
<1>1. CASE Thinking
  BY <1>1, ThinkingFrame DEF batching, GuardInv
<1>2. CASE \E b \in Batches : Calls(b)
  <2>1. /\ parallel' \in BOOLEAN /\ before' = guard
        /\ UNCHANGED <<fatal, guard, streak>>
    BY <1>2 DEF Calls
  <2> QED
    BY <2>1 DEF GuardInv
<1>3. ASSUME NEW i \in Slots, Call(i)
      PROVE  GuardInv'
  <2>1. UNCHANGED <<before, parallel, streak>>
    BY <1>3, CallFrame DEF history
  <2> QED
    BY <1>3, <2>1, CallTyped DEF GuardInv
<1>4. CASE BatchEnd
  <2>1. parallel' = FALSE /\ fatal' = FALSE /\ before' = Nothing
    BY <1>4 DEF BatchEnd
  <2> QED
    BY <1>4, <2>1, BatchEndTyped DEF GuardInv, Nothing, Counts
<1>5. CASE User
  BY <1>5 DEF User, Interrupt, RequestSteer, SetAutonomy, Overspend, calls, history, GuardInv
<1>6. CASE UNCHANGED vars
  BY <1>6 DEF vars, calls, history, GuardInv
<1> QED
  BY <1>1, <1>2, <1>3, <1>4, <1>5, <1>6, NextCases

-----------------------------------------------------------------------------
(* A provider turn climbs its ladder at most twice and falls back at most    *)
(* once, so it sends at most four requests.                                  *)
LadderInv == attempt \in 0..3 /\ rung \in 0..2 /\ attempt <= rung + 1

LEMMA Climb ==
  ASSUME NEW a \in 0..3, NEW b \in 0..2, NEW c \in {b + 1, 2}, a <= b + 1, b < 2
  PROVE  a + 1 \in 0..3 /\ c \in 0..2 /\ a + 1 <= c + 1
OBVIOUS

LEMMA FallBackFits ==
  ASSUME NEW b \in 0..2, NEW c \in {b, 2}
  PROVE  c \in 0..2 /\ 0 + 1 \in 0..3 /\ 0 + 1 <= c + 1
OBVIOUS

LEMMA LadderStep == LadderInv /\ [Next]_vars => LadderInv'
<1> SUFFICES ASSUME LadderInv, [Next]_vars PROVE LadderInv'
  OBVIOUS
<1> USE DEF LadderInv
<1>1. CASE Thinking
  <2>1. CASE Compacted
    BY <2>1 DEF Compacted
  <2>2. CASE OverflowReclaimed
    <3>1. rung < 2 /\ rung' \in {rung + 1, 2} /\ attempt' = attempt + 1
      BY <2>2 DEF OverflowReclaimed, Resend
    <3>2. attempt + 1 \in 0..3 /\ rung' \in 0..2 /\ attempt + 1 <= rung' + 1
      BY <3>1, Climb
    <3> QED
      BY <3>1, <3>2
  <2>3. CASE FallBack
    <3>1. attempt = 0 /\ rung' \in {rung, 2} /\ attempt' = attempt + 1
      BY <2>3 DEF FallBack, Resend
    <3>2. rung' \in 0..2 /\ 0 + 1 \in 0..3 /\ 0 + 1 <= rung' + 1
      BY <3>1, FallBackFits
    <3>3. attempt' = 0 + 1
      BY <3>1
    <3> QED
      BY <3>2, <3>3
  <2>4. CASE \/ Top \/ PassGate \/ AnswerSpend \/ SpendCut \/ EmptyResponse
             \/ \E k \in DOMAIN tries : BadCall(k)
             \/ Correction \/ TurnEnd \/ ModelCutShort \/ Backoff
    BY <2>4 DEF Top, PassGate, AnswerSpend, SpendCut, EmptyResponse, BadCall, Correction, TurnEnd,
                ModelCutShort, Backoff, ladder
  <2> QED
    BY <1>1, <2>1, <2>2, <2>3, <2>4 DEF Thinking
<1>2. CASE \E b \in Batches : Calls(b)
  BY <1>2 DEF Calls, ladder
<1>3. CASE \E i \in Slots : Call(i)
  BY <1>3, CallFrame DEF ladder
<1>4. CASE BatchEnd
  BY <1>4 DEF BatchEnd, ladder
<1>5. CASE User
  BY <1>5 DEF User, Interrupt, RequestSteer, SetAutonomy, Overspend, ladder
<1>6. CASE UNCHANGED vars
  BY <1>6 DEF vars, ladder
<1> QED
  BY <1>1, <1>2, <1>3, <1>4, <1>5, <1>6, NextCases

-----------------------------------------------------------------------------
(* The run stops for a reason, and what was asked of it is well formed.      *)
ControlInv ==
  /\ role \in Roles /\ pc \in PCs /\ outcome \in Outcomes
  /\ (pc = "over") <=> (outcome # "none")
  /\ abort \in BOOLEAN /\ modelCut \in BOOLEAN /\ spent \in BOOLEAN /\ auto \in BOOLEAN
  /\ steer \in {"none", "bare", "text"}

LEMMA ThinkingEnds ==
  ASSUME Thinking \/ BatchEnd, pc # "over"
  PROVE  \/ pc' \in PCs \ {"over"} /\ outcome' = outcome
         \/ pc' = "over" /\ outcome' \in Outcomes \ {"none"}
<1> USE DEF PCs, Outcomes, GoTo, Stop, BudgetStop
<1>1. CASE Thinking
  BY <1>1 DEF Thinking, Top, PassGate, AnswerSpend, SpendCut, Compacted, OverflowReclaimed, FallBack,
       EmptyResponse, BadCall, Correction, TurnEnd, ModelCutShort, Backoff, Response, Resend,
       Boundary, Ready, SpendGuard, Absorb
<1>2. CASE BatchEnd
  BY <1>2 DEF BatchEnd, Boundary, SpendGuard, Absorb
<1> QED
  BY <1>1, <1>2

LEMMA ThinkingSteers ==
  ASSUME Thinking \/ BatchEnd
  PROVE  /\ UNCHANGED <<role, spent, auto, abort>>
         /\ modelCut' \in {modelCut, FALSE}
         /\ \/ steer' = steer
            \/ steer = "text" /\ steer' = "none"
            \/ pc' = "over" /\ steer' = "none"
<1>1. CASE Thinking
  BY <1>1 DEF Thinking, Top, PassGate, AnswerSpend, SpendCut, Compacted, OverflowReclaimed, FallBack,
       EmptyResponse, BadCall, Correction, TurnEnd, ModelCutShort, Backoff, Response, Resend,
       Boundary, Ready, SpendGuard, Absorb, GoTo, Stop, steering, flags
<1>2. CASE BatchEnd
  BY <1>2 DEF BatchEnd, Boundary, SpendGuard, Absorb, GoTo, Stop, steering, flags
<1> QED
  BY <1>1, <1>2

LEMMA ControlStep == ControlInv /\ [Next]_vars => ControlInv'
<1> SUFFICES ASSUME ControlInv, [Next]_vars PROVE ControlInv'
  OBVIOUS
<1> USE DEF ControlInv
<1>1. CASE Thinking \/ BatchEnd
  <2>1. pc # "over"
    BY <1>1, ThinkingFrame DEF BatchEnd
  <2>2. pc' \in PCs /\ outcome' \in Outcomes /\ ((pc' = "over") <=> (outcome' # "none"))
    BY <1>1, <2>1, ThinkingEnds DEF PCs
  <2> QED
    BY <1>1, <2>2, ThinkingSteers
<1>2. CASE \E b \in Batches : Calls(b)
  BY <1>2 DEF Calls, Response, GoTo, PCs, flags, steering
<1>3. ASSUME NEW i \in Slots, Call(i)
      PROVE  ControlInv'
  <2>1. UNCHANGED <<pc, outcome, role, spent, abort, steer, modelCut>>
    BY <1>3, CallFrame DEF steering
  <2>2. auto' \in BOOLEAN
    BY <1>3 DEF Call, AdmitSerial, AdmitParallel, Resume, Verdict, Answer, AskCut, Finish, flags
  <2> QED
    BY <2>1, <2>2
<1>4. CASE User
  BY <1>4 DEF User, Interrupt, RequestSteer, SetAutonomy, Overspend, flags, steering
<1>5. CASE UNCHANGED vars
  BY <1>5 DEF vars, flags, steering
<1> QED
  BY <1>1, <1>2, <1>3, <1>4, <1>5, NextCases

-----------------------------------------------------------------------------
(* The counters of the provider turn, and what the user has granted.         *)
CountInv ==
  /\ fellBack \in BOOLEAN /\ granted \subseteq Tools
  /\ steers \in Nat /\ iterations \in Nat /\ empties \in Nat /\ corrections \in Nat
  /\ tries \in [{"json", "signal"} -> 0..MaxRepairs]

LEMMA GrantedTyped ==
  ASSUME BatchInv, AsksInv, granted \subseteq Tools, NEW i \in Slots, Call(i)
  PROVE  granted' \subseteq Tools
<1>1. CASE Answer(i) /\ granted' = granted \cup {batch[i]}
  <2>1. asks \in Seq(Slots \cup {Budgeting}) /\ asks # <<>> /\ Head(asks) = i
    BY <1>1, AsksMeaning DEF Answer
  <2>2. i \in Elems(asks) /\ i # Budgeting
    BY <2>1, LoopAssumption DEF Elems, Slots, Budgeting
  <2>3. st[i] = "asking"
    BY <2>2, AsksMeaning DEF Awaited
  <2> QED
    BY <1>1, <2>3, CallOf
<1>2. CASE granted' = granted
  BY <1>2
<1> QED
  BY <1>1, <1>2
  DEF Call, AdmitSerial, AdmitParallel, Resume, Verdict, Answer, AskCut, Finish, flags

LEMMA CountStep == BatchInv /\ AsksInv /\ CountInv /\ [Next]_vars => CountInv'
<1> SUFFICES ASSUME BatchInv, AsksInv, CountInv, [Next]_vars PROVE CountInv'
  OBVIOUS
<1> USE DEF CountInv
<1>a. MaxRepairs \in Nat
  BY LoopAssumption
<1>1. CASE Thinking
  <2>1. ASSUME NEW k \in DOMAIN tries, BadCall(k)
        PROVE  CountInv'
    <3>1. tries' \in [{"json", "signal"} -> 0..MaxRepairs]
      <4>1. \/ tries' = tries
            \/ tries[k] < MaxRepairs /\ tries' = [tries EXCEPT ![k] = @ + 1]
        BY <2>1 DEF BadCall
      <4>2. k \in {"json", "signal"} /\ tries[k] \in 0..MaxRepairs
        OBVIOUS
      <4>3. tries[k] < MaxRepairs => tries[k] + 1 \in 0..MaxRepairs
        BY <1>a, <4>2
      <4> QED
        BY <4>1, <4>2, <4>3
    <3> QED
      BY <2>1, <3>1 DEF BadCall, Response, flags, ladder
  <2>2. CASE Top \/ PassGate \/ AnswerSpend \/ SpendCut \/ Compacted \/ Backoff
    BY <2>2 DEF Top, PassGate, AnswerSpend, SpendCut, Compacted, Backoff, flags, ladder, counts
  <2>3. CASE OverflowReclaimed \/ FallBack
    BY <2>3 DEF OverflowReclaimed, FallBack, flags, counts
  <2>4. CASE EmptyResponse \/ Correction \/ TurnEnd \/ ModelCutShort
    BY <2>4 DEF EmptyResponse, Correction, TurnEnd, ModelCutShort, Response, flags, ladder
  <2> QED
    BY <1>1, <2>1, <2>2, <2>3, <2>4 DEF Thinking
<1>2. ASSUME NEW b \in Batches, Calls(b)
      PROVE  CountInv'
  <2>1. tries' \in [{"json", "signal"} -> 0..MaxRepairs]
    BY <1>a, <1>2 DEF Calls
  <2> QED
    BY <1>2, <2>1 DEF Calls, Response, flags, ladder
<1>3. ASSUME NEW i \in Slots, Call(i)
      PROVE  CountInv'
  BY <1>3, CallFrame, GrantedTyped DEF ladder, counts
<1>4. CASE BatchEnd
  BY <1>4 DEF BatchEnd, flags, ladder, counts
<1>5. CASE User
  BY <1>5 DEF User, Interrupt, RequestSteer, SetAutonomy, Overspend, flags, ladder, counts
<1>6. CASE UNCHANGED vars
  BY <1>6 DEF vars, flags, ladder, counts
<1> QED
  BY <1>1, <1>2, <1>3, <1>4, <1>5, <1>6, NextCases

-----------------------------------------------------------------------------
(* The requests beyond the ceiling are those of the provider turn that was   *)
(* past its check when the ceiling was crossed, counted by the turn's own    *)
(* counters; no check lies ahead of it any more.                             *)
OverrunInv ==
  /\ late \in Nat /\ late <= 2 + attempt + rung
  /\ late > 0 => spent /\ pc \notin {"compact", "spend"}

LEMMA Charged ==
  ASSUME NEW l \in Nat, NEW a \in Nat, NEW b \in Nat, NEW c \in Nat, b <= c, l <= 2 + a + b
  PROVE  l + (c - b + 1) \in Nat /\ l + (c - b + 1) <= 2 + (a + 1) + c
OBVIOUS

LEMMA OverrunStep == LadderInv /\ OverrunInv /\ [Next]_vars => OverrunInv'
<1> SUFFICES ASSUME LadderInv, OverrunInv, [Next]_vars PROVE OverrunInv'
  OBVIOUS
<1> USE DEF OverrunInv, LadderInv
<1>1. CASE Thinking
  <2>1. CASE Compacted
    BY <2>1 DEF Compacted, Unchecked, Boundary, Absorb, GoTo, Stop, flags
  <2>2. CASE Top \/ PassGate \/ AnswerSpend \/ SpendCut
    BY <2>2 DEF Top, PassGate, AnswerSpend, SpendCut, Boundary, Ready, OverBudget, SpendGuard,
                Absorb, GoTo, Stop, flags, ladder, history
  <2>3. CASE OverflowReclaimed \/ FallBack
    <3>1. UNCHANGED spent /\ late' = IF spent THEN late + (rung' - rung + 1) ELSE late
      BY <2>3 DEF OverflowReclaimed, FallBack, Resend, Unchecked, GoTo, flags
    <3>2. /\ pc' = "model" /\ attempt' = attempt + 1 /\ rung' \in {rung, rung + 1, 2}
          /\ rung \in Nat /\ attempt \in Nat /\ rung' \in Nat /\ rung' >= rung
      BY <2>3 DEF OverflowReclaimed, FallBack, Resend, GoTo
    <3>3. CASE spent
      <4>1. spent' /\ late' = late + (rung' - rung + 1)
        BY <3>1, <3>3, Zenon
      <4>2. late' \in Nat /\ late' <= 2 + attempt' + rung'
        <5>1. /\ late + (rung' - rung + 1) \in Nat
              /\ late + (rung' - rung + 1) <= 2 + (attempt + 1) + rung'
          BY <3>2, Charged
        <5> QED
          BY <3>2, <4>1, <5>1, Zenon
      <4> QED
        BY <3>2, <4>1, <4>2
    <3>4. CASE ~spent
      <4>1. late = 0
        BY <3>4
      <4>2. late' = 0
        BY <3>1, <3>4, <4>1, Zenon
      <4>3. ASSUME NEW a \in Nat, NEW b \in Nat PROVE 0 <= 2 + (a + 1) + b
        OBVIOUS
      <4>4. 0 <= 2 + attempt' + rung'
        BY <3>2, <4>3, Zenon
      <4> QED
        BY <4>2, <4>4
    <3> QED
      BY <3>3, <3>4
  <2>4. CASE \/ EmptyResponse \/ \E k \in DOMAIN tries : BadCall(k)
             \/ Correction \/ TurnEnd \/ ModelCutShort \/ Backoff
    BY <2>4 DEF EmptyResponse, BadCall, Correction, TurnEnd, Response,
                ModelCutShort, Backoff, Boundary, Absorb, GoTo, Stop, flags, ladder, history
  <2> QED
    BY <1>1, <2>1, <2>2, <2>3, <2>4 DEF Thinking
<1>2. CASE \E b \in Batches : Calls(b)
  BY <1>2 DEF Calls, GoTo, flags, ladder
<1>3. CASE \E i \in Slots : Call(i)
  BY <1>3, CallFrame DEF history, ladder
<1>4. CASE BatchEnd
  BY <1>4 DEF BatchEnd, Boundary, SpendGuard, Absorb, GoTo, Stop, flags, ladder
<1>5. CASE User
  BY <1>5 DEF User, Interrupt, RequestSteer, SetAutonomy, Overspend, flags, ladder, history
<1>6. CASE UNCHANGED vars
  BY <1>6 DEF vars, flags, ladder, history
<1> QED
  BY <1>1, <1>2, <1>3, <1>4, <1>5, <1>6, NextCases

-----------------------------------------------------------------------------
(* The inductive invariant: the types of the loop, and what relates its      *)
(* batch, its dialogs, its history, its budget and its steering.             *)
IInv ==
  /\ ControlInv /\ RoleInv /\ CountInv /\ LadderInv
  /\ BatchInv /\ GuardInv /\ AsksInv
  /\ PairedInv /\ NotPoisoned /\ OverrunInv

LEMMA InitInvariant == Init => IInv
<1> SUFFICES ASSUME Init PROVE IInv
  OBVIOUS
<1>a. MaxRepairs \in Nat
  BY LoopAssumption
<1>1. ControlInv /\ RoleInv
  BY DEF Init, ControlInv, RoleInv, PCs, Outcomes
<1>7. LadderInv
  BY DEF Init, LadderInv
<1>2. CountInv
  <2>1. tries \in [{"json", "signal"} -> 0..MaxRepairs]
    BY <1>a DEF Init
  <2> QED
    BY <2>1 DEF Init, CountInv
<1>3. BatchInv
  BY DEF Init, BatchInv, Idle, CallStates
<1>4. GuardInv
  BY DEF Init, GuardInv, Nothing, Counts
<1>5. AsksInv
  <2>1. Awaited = {}
    BY DEF Init, Awaited, Idle
  <2>2. asks = <<>> /\ asks \in Seq(Slots \cup {Budgeting})
    BY DEF Init
  <2> QED
    BY <2>1, <2>2, NoDialog, AsksMeaning
<1>6. PairedInv /\ NotPoisoned /\ OverrunInv
  BY DEF Init, PairedInv, Paired, NotPoisoned, OverrunInv
<1> QED
  BY <1>1, <1>2, <1>3, <1>4, <1>5, <1>6, <1>7 DEF IInv

(* What the loop's state is at every await, for any tools, any responses and *)
(* any budget, whatever the user does.                                       *)
THEOREM LoopInvariant == Spec => []IInv
<1>1. IInv /\ [Next]_vars => IInv'
  BY ControlStep, RoleStep, CountStep, LadderStep, BatchStep, GuardStep, AsksStep,
     PairedStep, PoisonStep, OverrunStep DEF IInv
<1> QED
  BY <1>1, InitInvariant, PTL DEF Spec

(* Every variable of the loop holds a value of its type, and a provider turn *)
(* sends at most four requests.                                              *)
THEOREM LoopTyped == Spec => []TypeOK
<1>1. IInv => TypeOK
  <2> SUFFICES ASSUME IInv PROVE TypeOK
    OBVIOUS
  <2>1. ControlInv /\ CountInv /\ LadderInv /\ BatchInv /\ GuardInv /\ AsksInv /\ PairedInv /\ OverrunInv
    BY DEF IInv
  <2>2. unpaired \subseteq Slots
    <3>1. CASE batch \in Batches
      BY <2>1, <3>1, BatchSlots DEF PairedInv
    <3>2. CASE batch = <<>>
      <4>1. DOMAIN batch = {}
        BY <3>2
      <4> QED
        BY <2>1, <4>1 DEF PairedInv
    <3> QED
      BY <2>1, <3>1, <3>2 DEF BatchInv
  <2>3. rung \in Nat /\ late \in Nat
    BY <2>1 DEF LadderInv, OverrunInv
  <2> QED
    BY <2>1, <2>2, <2>3
    DEF TypeOK, ControlInv, CountInv, LadderInv, BatchInv, GuardInv, AsksInv
<1> QED
  BY <1>1, LoopInvariant, PTL

(* However calls are refused, cancelled, skipped or interrupted, no tool_use *)
(* block is left without its result when the batch is over.                  *)
THEOREM HistoryPaired == Spec => []Paired
<1>1. IInv => Paired
  BY DEF IInv, PairedInv
<1> QED
  BY <1>1, LoopInvariant, PTL

(* A turn that took the text of a steer hears the model again.               *)
THEOREM NeverPoisoned == Spec => []NotPoisoned
<1>1. IInv => NotPoisoned
  BY DEF IInv
<1> QED
  BY <1>1, LoopInvariant, PTL

(* A ceiling crossed at any moment is overrun by the requests of the one     *)
(* provider turn that was past its check, seven with those that compact.     *)
THEOREM OneTurnOver == Spec => []OverrunBounded
<1>1. IInv => OverrunBounded
  BY DEF IInv, LadderInv, OverrunInv, OverrunBounded
<1> QED
  BY <1>1, LoopInvariant, PTL

(* The dialogs are those of the calls that wait for one, each once, and none *)
(* survives a steer or an interrupt.                                         *)
THEOREM DialogsAreAwaited == Spec => []DialogsMatchCalls
<1>1. IInv => DialogsMatchCalls
  BY DEF IInv, AsksInv
<1> QED
  BY <1>1, LoopInvariant, PTL

-----------------------------------------------------------------------------
(* A call that starts to run in a step was not cancelled.                    *)
LEMMA Starts ==
  ASSUME BatchInv, [Next]_vars, NEW j \in Slots, st'[j] = "running", st[j] # "running"
  PROVE  ~abort /\ steer = "none" /\ \E i \in Slots : Call(i)
<1>1. st \in [Slots -> CallStates]
  BY DEF BatchInv
<1>2. ~Thinking /\ ~BatchEnd /\ ~UNCHANGED vars
  BY ThinkingFrame DEF batching, BatchEnd, Idle, vars, calls
<1>3. ~ \E b \in Batches : Calls(b)
  BY DEF Calls
<1>4. ~User
  BY <1>1 DEF User, Interrupt, RequestSteer, SetAutonomy, Overspend, calls
<1>5. ASSUME NEW i \in Slots, Call(i)
      PROVE  ~abort /\ steer = "none"
  <2>1. ASSUME NEW how \in CallStates, GoesOn(i, how) \/ Answered(i, how)
        PROVE  ~Cancelled
    BY <1>1, <2>1 DEF GoesOn, Answered
  <2>2. ~AsksFor(i) /\ ~LosesAsk(i) /\ ~RestSkipped
    BY <1>1 DEF AsksFor, LosesAsk, RestSkipped
  <2> QED
    BY <1>5, <2>1, <2>2, CallShapes DEF CallShape, Cancelled
<1> QED
  BY <1>2, <1>3, <1>4, <1>5, NextCases

(* No tool starts once the user has interrupted.                             *)
THEOREM NothingStartsLate == Spec => NoLateStart
<1>1. IInv /\ [Next]_vars =>
        [\A i \in Slots : abort /\ st'[i] = "running" => st[i] = "running"]_vars
  BY Starts DEF IInv
<1> QED
  BY <1>1, LoopInvariant, PTL DEF Spec, NoLateStart

-----------------------------------------------------------------------------
(* A tool repeated batch after batch (RepeatsBounded). The guard counts      *)
(* calls and is set back after a parallel batch; the streak counts batches.  *)
(* The guard is never behind the streak as long as everything the batch has  *)
(* considered is the repeated tool, and a serial batch has it ahead by one   *)
(* as soon as a call was considered.                                         *)
Waits == {"judged", "asking", "running"}
Considered == {i \in Slots : st[i] \in Waits \cup {"done", "loose"}}
AllAre(t) == \A i \in Considered : batch[i] = t

CountsOn(g, s) == s.sig # NoTool => g.sig = s.sig /\ g.n >= s.n

BeforeCounts == pc = "tools" => CountsOn(before, streak)
GuardCounts == AllAre(streak.sig) => CountsOn(guard, streak)
SerialCounts ==
  \A t \in Tools : ~parallel /\ Considered # {} /\ AllAre(t) =>
    guard.sig = t /\ guard.n >= 1 /\ (streak.sig = t => guard.n >= streak.n + 1)
UnderLimit ==
  \A i \in Slots :
    (st[i] \in Waits /\ streak.sig = batch[i] /\ \A j \in DOMAIN batch : batch[j] = batch[i])
      => streak.n + 1 < GuardLimit
HeldApart == \A i \in Slots : st[i] = "held" => role # "lead"

RepeatInv ==
  /\ abort => \A i \in Slots : st[i] # "running"
  /\ ~abort => BeforeCounts /\ GuardCounts /\ SerialCounts /\ UnderLimit /\ HeldApart

(* What a step of call i does to the loop guard: it counts the call, on from *)
(* the guard or from what it was before a parallel batch; goes on with a     *)
(* call that is counted; holds a background call; or skips what is left.     *)
Recount(g, t) == IF g.sig = t THEN g.n + 1 ELSE 1

Counted(i, g, how) ==
  /\ st[i] \in {"listed", "held"} /\ how \in Waits \cup {"done"}
  /\ st' = [st EXCEPT ![i] = how]
  /\ guard' = [sig |-> batch[i], n |-> Recount(g, batch[i])]
  /\ how # "done" => Recount(g, batch[i]) < GuardLimit
GoesOnCounted(i, how) ==
  /\ st[i] \in Waits /\ how \in Waits \cup {"done"}
  /\ st' = [st EXCEPT ![i] = how] /\ guard' = guard
IsHeld(i, g) ==
  /\ st[i] = "listed" /\ role # "lead"
  /\ st' = [st EXCEPT ![i] = "held"] /\ guard' = g
OnlySkips ==
  /\ \A j \in Slots : st'[j] = st[j] \/ (st[j] = "listed" /\ st'[j] = "skipped")
  /\ guard' = guard

CountShape(i, g) ==
  \/ \E how \in CallStates : Counted(i, g, how) \/ GoesOnCounted(i, how)
  \/ IsHeld(i, g) \/ OnlySkips

LEMMA ConsiderCounts ==
  ASSUME NEW i \in Slots, NEW g, st[i] \in {"listed", "held"}, ~Cancelled, Consider(i, g)
  PROVE  \E how \in CallStates : Counted(i, g, how)
<1> DEFINE n == Recount(g, batch[i])
<1>1. guard' = [sig |-> batch[i], n |-> n]
  BY DEF Consider, Recount
<1>2. \/ st' = [st EXCEPT ![i] = "done"]
      \/ n < GuardLimit /\ st' = [st EXCEPT ![i] = "judged"]
      \/ n < GuardLimit /\ Gate(i, FALSE)
  BY DEF Consider, Ends, Recount
<1>3. Gate(i, FALSE) => \/ st' = [st EXCEPT ![i] = "asking"]
                        \/ st' = [st EXCEPT ![i] = "running"]
                        \/ st' = [st EXCEPT ![i] = "done"]
  BY DEF Gate, Launch, Ends
<1> HIDE DEF n
<1>4. \/ st' = [st EXCEPT ![i] = "done"]
      \/ n < GuardLimit /\ \E how \in Waits : st' = [st EXCEPT ![i] = how]
  BY <1>2, <1>3 DEF Waits
<1>5. CASE st' = [st EXCEPT ![i] = "done"]
  BY <1>1, <1>5 DEF Counted, n, CallStates, Settled
<1>6. CASE n < GuardLimit /\ \E how \in Waits : st' = [st EXCEPT ![i] = how]
  BY <1>1, <1>6 DEF Counted, n, CallStates, Waits
<1> QED
  BY <1>4, <1>5, <1>6

LEMMA EnterCounts ==
  ASSUME NEW i \in Slots, NEW g, st[i] = "listed", ~Cancelled, Enter(i, g)
  PROVE  CountShape(i, g)
<1>1. CASE role = "lead"
  BY <1>1, ConsiderCounts DEF Enter, CountShape
<1>2. CASE role # "lead"
  BY <1>2 DEF Enter, Ends, IsHeld, CountShape
<1> QED
  BY <1>1, <1>2

(* The dialog that is answered is that of a call that asked.                 *)
LEMMA AnsweredAsks ==
  ASSUME AsksInv, NEW i \in Slots, Answer(i)
  PROVE  st[i] = "asking"
<1>1. asks \in Seq(Slots \cup {Budgeting}) /\ asks # <<>> /\ Head(asks) = i
  BY AsksMeaning DEF Answer
<1>2. i \in Elems(asks)
  BY <1>1 DEF Elems
<1>3. i # Budgeting
  BY LoopAssumption DEF Slots, Budgeting
<1> QED
  BY <1>2, <1>3, AsksMeaning DEF Awaited

LEMMA CallInBatch ==
  ASSUME BatchInv, AsksInv, NEW i \in Slots, Call(i)
  PROVE  pc = "tools"
<1>1. CASE AdmitSerial(i) \/ AdmitParallel(i)
  BY <1>1 DEF AdmitSerial, AdmitParallel
<1>2. CASE Resume(i) \/ Verdict(i) \/ AskCut(i) \/ Finish(i)
  BY <1>2, OutsideBatch DEF Resume, Verdict, AskCut, Finish
<1>3. CASE Answer(i)
  BY <1>3, AnsweredAsks, OutsideBatch
<1> QED
  BY <1>1, <1>2, <1>3 DEF Call

LEMMA CountShapes ==
  ASSUME BatchInv, AsksInv, RoleInv, HeldApart, ~abort, NEW i \in Slots, Call(i)
  PROVE  \/ CountShape(i, guard)
         \/ parallel /\ CountShape(i, before)
<1>0. st \in [Slots -> CallStates]
  BY DEF BatchInv
<1>1. CASE AdmitSerial(i)
  <2>1. st[i] = "listed" /\ ~Cancelled
    BY <1>1 DEF AdmitSerial, Listed
  <2>2. CASE spent
    <3>1. \A j \in Slots : st'[j] = st[j] \/ (st[j] = "listed" /\ st'[j] = "skipped")
      BY <1>1, <2>2 DEF AdmitSerial, Listed
    <3> QED
      BY <1>1, <2>2, <3>1 DEF AdmitSerial, OnlySkips, CountShape
  <2>3. CASE ~spent
    BY <1>1, <2>1, <2>3, EnterCounts DEF AdmitSerial
  <2> QED
    BY <2>2, <2>3
<1>2. CASE AdmitParallel(i)
  <2>1. st[i] = "listed" /\ parallel
    BY <1>2 DEF AdmitParallel, Listed
  <2>2. CASE Cancelled \/ spent
    <3>1. \A j \in Slots : st'[j] = st[j] \/ (st[j] = "listed" /\ st'[j] = "skipped")
      BY <1>0, <1>2, <2>1, <2>2 DEF AdmitParallel, Ends
    <3> QED
      BY <1>2, <2>2, <3>1 DEF AdmitParallel, OnlySkips, CountShape
  <2>3. CASE ~(Cancelled \/ spent)
    BY <1>2, <2>1, <2>3, EnterCounts DEF AdmitParallel
  <2> QED
    BY <2>2, <2>3
<1>3. CASE Resume(i)
  <2>1. st[i] = "held" /\ Consider(i, guard)
    BY <1>3 DEF Resume
  <2>2. ~Cancelled
    BY <2>1 DEF HeldApart, RoleInv, Cancelled
  <2> QED
    BY <2>1, <2>2, ConsiderCounts DEF CountShape
<1>4. CASE Verdict(i)
  <2>1. \E how \in Waits \cup {"done"} : st' = [st EXCEPT ![i] = how]
    BY <1>4 DEF Verdict, Gate, Launch, Ends, Waits
  <2> QED
    BY <1>4, <2>1 DEF Verdict, GoesOnCounted, CountShape, Waits, CallStates, Settled
<1>5. CASE Answer(i)
  <2>1. st[i] = "asking"
    BY <1>5, AnsweredAsks
  <2>2. st' = [st EXCEPT ![i] = "done"] \/ st' = [st EXCEPT ![i] = "running"]
    BY <1>5 DEF Answer, Launch, Ends
  <2> QED
    BY <1>5, <2>1, <2>2 DEF Answer, GoesOnCounted, CountShape, Waits, CallStates, Settled
<1>6. CASE AskCut(i) \/ Finish(i)
  BY <1>6 DEF AskCut, Finish, Ends, GoesOnCounted, CountShape, Waits, CallStates, Settled
<1> QED
  BY <1>1, <1>2, <1>3, <1>4, <1>5, <1>6 DEF Call

(* Only a call of a batch is considered.                                     *)
LEMMA ConsideredCalls ==
  ASSUME BatchInv
  PROVE  \A i \in Considered : i \in DOMAIN batch /\ batch[i] \in Tools
<1>1. \A i \in Considered : i \in Slots /\ st[i] # "none"
  BY DEF Considered, Waits
<1> QED
  BY <1>1, CallOf DEF BatchInv

(* A call that is counted keeps the guard level with the streak.             *)
LEMMA CountedKeeps ==
  ASSUME BatchInv, GuardInv, BeforeCounts, GuardCounts, SerialCounts, UnderLimit, HeldApart,
         pc = "tools", UNCHANGED <<pc, batch, parallel, before, streak, role>>,
         NEW i \in Slots, NEW g \in {guard, before}, NEW how \in CallStates, Counted(i, g, how)
  PROVE  BeforeCounts' /\ GuardCounts' /\ SerialCounts' /\ UnderLimit' /\ HeldApart'
<1> DEFINE u == batch[i]
           n == Recount(g, u)
<1>1. u \in Tools /\ u # NoTool
  BY CallOf, LoopAssumption DEF Counted
<1>2. g.n \in Nat /\ streak.n \in Nat /\ guard'.sig = u /\ guard'.n = n
  BY CountFields DEF GuardInv, Counted
<1>3. st \in [Slots -> CallStates]
  BY DEF BatchInv
<1>4. Considered' = Considered \cup {i}
  BY <1>3 DEF Counted, Considered, Waits
<1>5. AllAre(streak.sig) => CountsOn(g, streak)
  BY DEF BeforeCounts, GuardCounts
<1>6. n \in Nat /\ n >= 1
  BY <1>2 DEF Recount
<1>7. ASSUME AllAre(u), streak.sig = u PROVE n >= streak.n + 1
  <2>1. g.sig = u /\ g.n >= streak.n
    BY <1>1, <1>5, <1>7 DEF CountsOn
  <2> QED
    BY <1>2, <2>1 DEF Recount
<1>8. \A t : AllAre(t)' => u = t /\ AllAre(t)
  BY <1>4 DEF AllAre
<1> HIDE DEF n, u
<1>9. BeforeCounts'
  BY DEF BeforeCounts, CountsOn
<1>10. GuardCounts'
  <2>1. SUFFICES ASSUME AllAre(streak.sig)' PROVE CountsOn(guard', streak)
    BY DEF GuardCounts
  <2>2. u = streak.sig /\ AllAre(u)
    BY <1>8, <2>1
  <2> QED
    BY <1>2, <1>6, <1>7, <2>2 DEF CountsOn
<1>11. SerialCounts'
  <2>1. SUFFICES ASSUME NEW t \in Tools, AllAre(t)'
                 PROVE  guard'.sig = t /\ guard'.n >= 1 /\ (streak.sig = t => guard'.n >= streak.n + 1)
    BY DEF SerialCounts
  <2> QED
    BY <1>2, <1>6, <1>7, <1>8, <2>1
<1>12. UnderLimit'
  <2>1. SUFFICES ASSUME NEW j \in Slots, st'[j] \in Waits, streak.sig = batch[j],
                        \A k \in DOMAIN batch : batch[k] = batch[j]
                 PROVE  streak.n + 1 < GuardLimit
    BY DEF UnderLimit
  <2>2. CASE j # i
    BY <1>3, <2>1, <2>2 DEF UnderLimit, Counted
  <2>3. CASE j = i
    <3>1. AllAre(u) /\ streak.sig = u
      BY <2>1, <2>3, ConsideredCalls DEF AllAre, u
    <3>2. n < GuardLimit /\ GuardLimit \in Nat
      <4>1. st'[i] = how
        BY <1>3 DEF Counted
      <4>2. how # "done"
        BY <2>1, <2>3, <4>1 DEF Waits
      <4> QED
        BY <4>2, LoopAssumption DEF Counted, n, u
    <3> QED
      BY <1>2, <1>6, <1>7, <3>1, <3>2
  <2> QED
    BY <2>2, <2>3
<1>13. HeldApart'
  BY <1>3 DEF HeldApart, Counted, Waits
<1> QED
  BY <1>9, <1>10, <1>11, <1>12, <1>13

(* The other steps of a call leave what is considered alone.                 *)
LEMMA UncountedKeeps ==
  ASSUME BatchInv, BeforeCounts, GuardCounts, SerialCounts, UnderLimit, HeldApart,
         pc = "tools", UNCHANGED <<pc, batch, parallel, before, streak, role>>,
         NEW i \in Slots, NEW g \in {guard, before}, ~parallel => g = guard,
         \/ \E how \in CallStates : GoesOnCounted(i, how)
         \/ IsHeld(i, g) \/ OnlySkips
  PROVE  BeforeCounts' /\ GuardCounts' /\ SerialCounts' /\ UnderLimit' /\ HeldApart'
<1>1. st \in [Slots -> CallStates]
  BY DEF BatchInv
<1>2. /\ Considered' = Considered
      /\ \A j \in Slots : st'[j] \in Waits => st[j] \in Waits
      /\ \A j \in Slots : st'[j] = "held" => st[j] = "held" \/ role # "lead"
  BY <1>1 DEF GoesOnCounted, IsHeld, OnlySkips, Considered, Waits
<1>3. guard' = guard \/ (parallel /\ guard' = before)
  BY DEF GoesOnCounted, IsHeld, OnlySkips
<1>4. \A t : AllAre(t)' <=> AllAre(t)
  BY <1>2 DEF AllAre
<1>5. BeforeCounts'
  BY DEF BeforeCounts, CountsOn
<1>6. GuardCounts'
  BY <1>3, <1>4 DEF GuardCounts, BeforeCounts, CountsOn
<1>7. SerialCounts'
  BY <1>2, <1>3, <1>4 DEF SerialCounts
<1>8. UnderLimit'
  BY <1>2 DEF UnderLimit
<1>9. HeldApart'
  BY <1>2 DEF HeldApart
<1> QED
  BY <1>5, <1>6, <1>7, <1>8, <1>9

(* Whatever became of its calls, a batch counts as one more of its tool if   *)
(* it consisted of one, and the guard has counted it too.                    *)
LEMMA BatchCounts ==
  ASSUME BatchInv, GuardInv, BeforeCounts, GuardCounts, SerialCounts, BatchEnd
  PROVE  CountsOn(guard', streak')
<1> DEFINE kinds == {batch[i] : i \in Ran}
<1>1. pc = "tools" /\ guard' = GuardAfter /\ CountsOn(before, streak)
  BY DEF BatchEnd, BeforeCounts
<1>2. Considered = Ran
  <2>1. \A i \in Slots : i \notin DOMAIN batch => st[i] = "none"
    BY DEF BatchInv
  <2>2. \A i \in Slots : st[i] \in Settled \cup {"listed", "none"}
    BY <2>1 DEF BatchEnd
  <2> QED
    BY <2>2 DEF Considered, Ran, Waits, Settled
<1>3. Ran \in SUBSET Slots /\ \A i \in Ran : batch[i] \in Tools
  BY <1>2, ConsideredCalls DEF Considered
<1>4. /\ guard.sig \in Tools \cup {NoTool} /\ guard.n \in Nat
      /\ before.sig \in Tools \cup {NoTool} /\ before.n \in Nat
      /\ streak.sig \in Tools \cup {NoTool} /\ streak.n \in Nat
  BY CountFields DEF GuardInv
<1>5. \A t : AllAre(t) <=> \A i \in Ran : batch[i] = t
  BY <1>2 DEF AllAre
<1>6. streak' = IF kinds = {} THEN streak
                ELSE IF kinds = {streak.sig} THEN [streak EXCEPT !.n = @ + 1]
                ELSE IF Cardinality(kinds) = 1 THEN Fresh(CHOOSE t \in kinds : TRUE)
                ELSE Nothing
  BY DEF BatchEnd
<1>7. CASE Ran = {}
  <2>1. streak' = streak /\ guard' = guard
    BY <1>1, <1>6, <1>7 DEF GuardAfter
  <2> QED
    BY <1>5, <1>7, <2>1 DEF GuardCounts
<1>8. ASSUME NEW t, kinds = {t}
      PROVE  /\ guard'.sig = t /\ guard'.n >= 1
             /\ streak.sig = t => guard'.n >= streak.n + 1
  <2>1. Ran # {} /\ t \in Tools /\ t # NoTool /\ \A i \in Ran : batch[i] = t
    BY <1>3, <1>8, LoopAssumption
  <2>2. CASE ~parallel
    BY <1>1, <1>2, <1>5, <2>1, <2>2 DEF GuardAfter, SerialCounts
  <2>3. CASE parallel
    <3> DEFINE k == CHOOSE i \in Ran : \A j \in Ran : j <= i
    <3>1. k \in Ran
      <4>1. \E i \in Ran : \A j \in Ran : j <= i
        BY <1>3, <2>1, LastOf, LoopAssumption DEF Slots
      <4> QED
        BY <4>1
    <3>2. guard' = IF t = before.sig THEN [before EXCEPT !.n = @ + 1] ELSE Fresh(t)
      <4>1. batch[k] = t
        BY <2>1, <3>1
      <4>2. guard' = IF batch[k] = before.sig /\ \A i \in Ran : batch[i] = batch[k]
                     THEN [before EXCEPT !.n = @ + 1] ELSE Fresh(batch[k])
        BY <1>1, <2>1, <2>3 DEF GuardAfter
      <4> HIDE DEF k
      <4> QED
        BY <2>1, <4>1, <4>2
    <3>3. CASE t = before.sig
      <4>1. guard'.sig = t /\ guard'.n = before.n + 1
        BY <1>4, <3>2, <3>3 DEF GuardInv, Counts
      <4> QED
        BY <1>1, <1>4, <2>1, <4>1 DEF CountsOn
    <3>4. CASE t # before.sig
      <4>1. guard'.sig = t /\ guard'.n = 1 /\ streak.sig # t
        BY <1>1, <2>1, <3>2, <3>4 DEF CountsOn, Fresh
      <4> QED
        BY <4>1
    <3> QED
      BY <3>3, <3>4
  <2> QED
    BY <2>2, <2>3
<1>9. CASE kinds = {streak.sig}
  <2>1. guard'.sig = streak.sig /\ guard'.n >= streak.n + 1
    BY <1>8, <1>9
  <2>2. streak' = [streak EXCEPT !.n = @ + 1]
    BY <1>6, <1>9
  <2>3. streak'.sig = streak.sig /\ streak'.n = streak.n + 1
    BY <2>2 DEF GuardInv, Counts
  <2> QED
    BY <2>1, <2>3 DEF CountsOn
<1>10. CASE kinds # {} /\ kinds # {streak.sig} /\ Cardinality(kinds) = 1
  <2>1. IsFiniteSet(Slots)
    BY FS_Interval, LoopAssumption DEF Slots
  <2>2. IsFiniteSet(Ran)
    BY <1>3, <2>1, FS_Subset
  <2>3. IsFiniteSet(kinds)
    <3> DEFINE f == [i \in Ran |-> batch[i]]
    <3>1. f \in Surjection(Ran, kinds)
      BY DEF Surjection
    <3> HIDE DEF f, kinds
    <3> QED
      BY <2>2, <3>1, FS_Surjection
  <2>4. PICK t : kinds = {t}
    <3> HIDE DEF kinds
    <3> QED
      BY <1>10, <2>3, FS_Singleton
  <2>5. streak' = Fresh(t)
    <3>1. (CHOOSE x \in kinds : TRUE) = t
      BY <2>4
    <3> QED
      BY <1>6, <1>10, <3>1
  <2>6. guard'.sig = t /\ guard'.n >= 1
    BY <1>8, <2>4
  <2> QED
    BY <2>5, <2>6 DEF CountsOn, Fresh
<1>11. CASE kinds # {} /\ kinds # {streak.sig} /\ Cardinality(kinds) # 1
  BY <1>6, <1>11 DEF CountsOn, Nothing
<1>12. Ran # {} => kinds # {}
  OBVIOUS
<1> QED
  BY <1>7, <1>9, <1>10, <1>11, <1>12

LEMMA RepeatStep ==
  BatchInv /\ GuardInv /\ AsksInv /\ RoleInv /\ RepeatInv /\ [Next]_vars => RepeatInv'
<1> SUFFICES ASSUME BatchInv, GuardInv, AsksInv, RoleInv, RepeatInv, [Next]_vars
             PROVE  RepeatInv'
  OBVIOUS
<1>0. st \in [Slots -> CallStates]
  BY DEF BatchInv
<1>1. CASE abort
  <2>1. \A i \in Slots : st'[i] # "running"
    BY <1>1, Starts DEF RepeatInv
  <2>2. abort'
    <3>1. Thinking => abort'
      BY <1>1, ThinkingFrame
    <3>2. \A i \in Slots : Call(i) => abort'
      BY <1>1, CallFrame
    <3>3. BatchEnd \/ User \/ (\E b \in Batches : Calls(b)) \/ UNCHANGED vars => abort'
      BY <1>1 DEF BatchEnd, User, Interrupt, RequestSteer, SetAutonomy, Overspend, Calls, vars
    <3> QED
      BY <3>1, <3>2, <3>3, NextCases
  <2> QED
    BY <2>1, <2>2 DEF RepeatInv
<1>2. CASE ~abort
  <2> DEFINE Same == UNCHANGED <<batch, parallel, st, guard, before, streak, role, abort>>
  <2>1. BeforeCounts /\ GuardCounts /\ SerialCounts /\ UnderLimit /\ HeldApart
    BY <1>2 DEF RepeatInv
  <2>2. CASE Same /\ (pc' # "tools" \/ pc' = pc)
    <3>1. Considered' = Considered /\ \A t : AllAre(t)' <=> AllAre(t)
      BY <2>2 DEF Considered, AllAre
    <3>2. BeforeCounts' /\ GuardCounts' /\ SerialCounts'
      BY <2>1, <2>2, <3>1 DEF BeforeCounts, GuardCounts, SerialCounts, CountsOn
    <3>3. UnderLimit' /\ HeldApart'
      BY <2>1, <2>2 DEF UnderLimit, HeldApart
    <3> QED
      BY <1>2, <2>2, <3>2, <3>3 DEF RepeatInv
  <2>3. Thinking => Same /\ pc' # "tools"
    BY ThinkingFrame DEF batching
  <2>4. ASSUME NEW b \in Batches, Calls(b)
        PROVE  RepeatInv'
    <3>1. Considered = {} /\ Considered' = {} /\ HeldApart' /\ UnderLimit'
      <4>1. \A i \in Slots : st[i] = "none"
        BY <2>4, OutsideBatch DEF Calls, Response
      <4>2. \A i \in Slots : st'[i] \in {"listed", "none"}
        BY <2>4 DEF Calls
      <4> QED
        BY <4>1, <4>2 DEF Considered, Waits, HeldApart, UnderLimit
    <3>2. CountsOn(guard, streak)
      BY <2>1, <3>1 DEF GuardCounts, AllAre
    <3>3. before' = guard /\ guard' = guard /\ streak' = streak /\ abort' = abort
      BY <2>4 DEF Calls
    <3>4. BeforeCounts' /\ GuardCounts' /\ SerialCounts'
      BY <3>1, <3>2, <3>3 DEF BeforeCounts, GuardCounts, SerialCounts, CountsOn
    <3> QED
      BY <1>2, <3>1, <3>3, <3>4 DEF RepeatInv
  <2>5. ASSUME NEW i \in Slots, Call(i)
        PROVE  RepeatInv'
    <3>1. UNCHANGED <<pc, batch, parallel, before, streak, role, abort>>
      BY <2>5, CallFrame DEF history
    <3>2. pc = "tools"
      BY <2>5, CallInBatch
    <3>3. CountShape(i, guard) \/ (parallel /\ CountShape(i, before))
      BY <1>2, <2>1, <2>5, CountShapes
    <3>4. BeforeCounts' /\ GuardCounts' /\ SerialCounts' /\ UnderLimit' /\ HeldApart'
      <4>1. ASSUME NEW g \in {guard, before}, NEW how \in CallStates, Counted(i, g, how)
            PROVE  BeforeCounts' /\ GuardCounts' /\ SerialCounts' /\ UnderLimit' /\ HeldApart'
        BY <2>1, <3>1, <3>2, <4>1, CountedKeeps
      <4>2. ASSUME NEW g \in {guard, before}, ~parallel => g = guard,
                   \/ \E how \in CallStates : GoesOnCounted(i, how)
                   \/ IsHeld(i, g) \/ OnlySkips
            PROVE  BeforeCounts' /\ GuardCounts' /\ SerialCounts' /\ UnderLimit' /\ HeldApart'
        BY <2>1, <3>1, <3>2, <4>2, UncountedKeeps
      <4> QED
        BY <3>3, <4>1, <4>2 DEF CountShape
    <3> QED
      BY <1>2, <3>1, <3>4 DEF RepeatInv
  <2>6. CASE BatchEnd
    <3>1. CountsOn(guard', streak')
      BY <2>1, <2>6, BatchCounts
    <3>2. st' = Idle /\ pc' # "tools" /\ abort' = abort
      BY <2>6 DEF BatchEnd, Boundary, SpendGuard, Absorb, GoTo, Stop
    <3>3. Considered' = {} /\ HeldApart' /\ UnderLimit'
      BY <3>2 DEF Considered, Waits, Idle, HeldApart, UnderLimit
    <3> QED
      BY <1>2, <3>1, <3>2, <3>3
      DEF RepeatInv, BeforeCounts, GuardCounts, SerialCounts
  <2>7. CASE Interrupt
    <3>1. abort' /\ \A i \in Slots : st'[i] # "running"
      BY <1>0, <2>7 DEF Interrupt
    <3> QED
      BY <3>1 DEF RepeatInv
  <2>8. User /\ ~Interrupt => Same /\ pc' = pc
    BY DEF User, RequestSteer, SetAutonomy, Overspend, calls, history, flags
  <2>9. UNCHANGED vars => Same /\ pc' = pc
    BY DEF vars, calls, history, flags
  <2> QED
    BY <2>2, <2>3, <2>4, <2>5, <2>6, <2>7, <2>8, <2>9, NextCases
<1> QED
  BY <1>1, <1>2

(* A tool that was all the last batches consisted of does not run for the    *)
(* GuardLimit-th time, however those batches ran, were cut short or paused,  *)
(* and although a parallel batch sets the guard back.                        *)
THEOREM RepeatsStop == Spec => []RepeatsBounded
<1>1. Init => RepeatInv
  <2> SUFFICES ASSUME Init PROVE RepeatInv
    OBVIOUS
  <2>1. Considered = {} /\ UnderLimit /\ HeldApart
    BY DEF Init, Idle, Considered, Waits, UnderLimit, HeldApart
  <2> QED
    BY <2>1 DEF Init, Nothing, RepeatInv, BeforeCounts, GuardCounts, SerialCounts, CountsOn
<1>2. IInv /\ RepeatInv /\ [Next]_vars => RepeatInv'
  BY RepeatStep DEF IInv
<1>3. RepeatInv => RepeatsBounded
  BY DEF RepeatInv, UnderLimit, Waits, RepeatsBounded
<1> QED
  BY <1>1, <1>2, <1>3, LoopInvariant, PTL DEF Spec

-----------------------------------------------------------------------------
(* Only a batch has running calls, and the run is over outside of one.       *)
LEMMA PhaseMeaning ==
  ASSUME BatchInv
  PROVE  /\ pc = "over" => Phase = "over"
         /\ pc \notin {"tools", "over"} => Phase = "thinking"
         /\ pc = "tools" => Phase = IF Running THEN "acting" ELSE "thinking"
         /\ Running => pc = "tools"
BY OutsideBatch DEF Phase, Running

LEMMA PhaseMeaningNext ==
  ASSUME BatchInv'
  PROVE  /\ pc' = "over" => Phase' = "over"
         /\ pc' \notin {"tools", "over"} => Phase' = "thinking"
         /\ pc' = "tools" => Phase' = IF Running' THEN "acting" ELSE "thinking"
         /\ Running' => pc' = "tools"
<1>1. pc' # "tools" => \A i \in Slots : st'[i] = "none"
  <2>1. ASSUME pc' # "tools"
        PROVE  DOMAIN batch' = {}
    <3>1. batch' = <<>>
      BY <2>1 DEF BatchInv
    <3> QED
      BY <3>1
  <2> QED
    BY <2>1 DEF BatchInv
<1> QED
  BY <1>1 DEF Phase, Running

(* A running call ends or is left to itself: the turn thinks again, or acts  *)
(* on.                                                                       *)
LEMMA RestsOrActs ==
  ASSUME BatchInv, BatchInv', pc' = pc, steer' = steer,
         Running' => Running \/ steer = "none"
  PROVE  [Turn!Next]_(Turn!turnVars)
<1>1. CASE pc = "tools"
  <2>1. /\ Phase = IF Running THEN "acting" ELSE "thinking"
        /\ Phase' = IF Running' THEN "acting" ELSE "thinking"
    BY <1>1, PhaseMeaning, PhaseMeaningNext
  <2>2. CASE Running /\ ~Running'
    BY <2>1, <2>2 DEF Turn!Next, Turn!Rest
  <2>3. CASE ~Running /\ Running'
    BY <2>1, <2>3 DEF Turn!Next, Turn!Act
  <2>4. CASE (Running /\ Running') \/ (~Running /\ ~Running')
    BY <2>1, <2>4 DEF Turn!turnVars
  <2> QED
    BY <2>2, <2>3, <2>4
<1>2. CASE pc # "tools"
  <2>1. Phase' = Phase
    BY <1>2, PhaseMeaning, PhaseMeaningNext
  <2> QED
    BY <2>1 DEF Turn!turnVars
<1> QED
  BY <1>1, <1>2

LEMMA StepRefines == IInv /\ IInv' /\ [Next]_vars => [Turn!Next]_(Turn!turnVars)
<1> SUFFICES ASSUME IInv, IInv', [Next]_vars
             PROVE  [Turn!Next]_(Turn!turnVars)
  OBVIOUS
<1>0. BatchInv /\ BatchInv'
  BY DEF IInv
<1>1. CASE Thinking \/ BatchEnd
  <2>1. /\ Phase = "thinking"
        /\ Phase' = IF pc' = "over" THEN "over" ELSE "thinking"
    <3>1. pc # "over" /\ pc' # "tools"
      BY <1>1, ThinkingFrame DEF BatchEnd, Boundary, SpendGuard, Absorb, GoTo, Stop
    <3>2. Phase' = IF pc' = "over" THEN "over" ELSE "thinking"
      BY <1>0, <3>1, PhaseMeaningNext
    <3>3. CASE Thinking
      BY <1>0, <3>2, <3>3, ThinkingFrame, PhaseMeaning
    <3>4. CASE BatchEnd
      <4>1. /\ pc = "tools"
            /\ \A i \in DOMAIN batch : st[i] \in Settled \cup {"listed"}
        BY <3>4 DEF BatchEnd
      <4>2. \A i \in Slots : st[i] # "running"
        BY <1>0, <4>1 DEF BatchInv, Settled
      <4> QED
        BY <1>0, <3>2, <4>1, <4>2, PhaseMeaning DEF Running
    <3> QED
      BY <1>1, <3>3, <3>4
  <2>2. \/ steer' = steer
        \/ steer = "text" /\ steer' = "none"
        \/ pc' = "over" /\ steer' = "none"
    BY <1>1, ThinkingSteers
  <2>3. CASE pc' = "over"
    <3>1. steer' \in {steer, "none"}
      BY <2>2
    <3> QED
      BY <2>1, <2>3, <3>1 DEF Turn!Next, Turn!End
  <2>4. CASE pc' # "over" /\ steer' = steer
    BY <2>1, <2>4 DEF Turn!turnVars
  <2>5. CASE pc' # "over" /\ steer = "text" /\ steer' = "none"
    BY <2>1, <2>5 DEF Turn!Next, Turn!Inject
  <2> QED
    BY <2>2, <2>3, <2>4, <2>5
<1>2. ASSUME NEW b \in Batches, Calls(b)
      PROVE  [Turn!Next]_(Turn!turnVars)
  <2>1. /\ pc = "model" /\ pc' = "tools" /\ steer' = steer
        /\ st' = [i \in Slots |-> IF i \in DOMAIN b THEN "listed" ELSE "none"]
    BY <1>2 DEF Calls, Response, GoTo, steering
  <2>2. ~Running'
    BY <2>1 DEF Running
  <2>3. Phase = "thinking" /\ Phase' = "thinking"
    BY <1>0, <2>1, <2>2, PhaseMeaning, PhaseMeaningNext
  <2> QED
    BY <2>1, <2>3 DEF Turn!turnVars
<1>3. ASSUME NEW i \in Slots, Call(i)
      PROVE  [Turn!Next]_(Turn!turnVars)
  <2>1. pc' = pc /\ steer' = steer
    BY <1>3, CallFrame DEF steering
  <2>2. Running' => Running \/ steer = "none"
    BY <1>0, Starts DEF Running
  <2> QED
    BY <1>0, <2>1, <2>2, RestsOrActs
<1>4. CASE Interrupt \/ SetAutonomy \/ Overspend
  <2>1. pc' = pc /\ steer' = steer
    BY <1>4 DEF Interrupt, SetAutonomy, Overspend, steering
  <2>2. Running' => Running \/ steer = "none"
    BY <1>0, <1>4, Starts DEF Running, Interrupt, SetAutonomy, Overspend, calls
  <2> QED
    BY <1>0, <2>1, <2>2, RestsOrActs
<1>5. ASSUME NEW kind \in {"bare", "text"}, RequestSteer(kind)
      PROVE  [Turn!Next]_(Turn!turnVars)
  <2>1. /\ UNCHANGED <<pc, st>> /\ steer = "none" /\ steer' = kind
    BY <1>5 DEF RequestSteer
  <2>2. Phase' = Phase
    BY <2>1 DEF Phase
  <2> QED
    BY <1>5, <2>1, <2>2 DEF Turn!Next, Turn!Request, Turn!Steers
<1>6. CASE UNCHANGED vars
  <2>1. UNCHANGED <<pc, st, steer>>
    BY <1>6 DEF vars, calls, steering
  <2> QED
    BY <2>1 DEF Turn!turnVars, Phase
<1> QED
  BY <1>1, <1>2, <1>3, <1>4, <1>5, <1>6, NextCases DEF User

(* The loop keeps the steering contract: nothing starts while a steer is     *)
(* pending, and a steer is injected between two of its steps or the turn     *)
(* ends.                                                                     *)
THEOREM LoopImplementsSteer == Spec => ImplementsSteer
<1>1. Init => Turn!Init
  BY DEF Init, Turn!Init, Phase, Idle
<1>2. IInv /\ IInv' /\ [Next]_vars => [Turn!Next]_(Turn!turnVars)
  BY StepRefines
<1> QED
  BY <1>1, <1>2, LoopInvariant, PTL DEF Spec, ImplementsSteer, Turn!Spec
=============================================================================
