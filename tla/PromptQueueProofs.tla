-------------------------- MODULE PromptQueueProofs --------------------------
(***************************************************************************)
(* For any prompts, texts and commands: the terminal's record of a pending *)
(* steer agrees with the loop's; no submission is lost, doubled or         *)
(* overtaken by another, unless the terminal has taken a turn for ended    *)
(* that had just begun, which the Ink terminal never does.                 *)
(***************************************************************************)
EXTENDS PromptQueue, SequenceTheorems, WellFoundedInduction, TLAPS

(* A queue that holds the text of a report has a first entry with it.        *)
LEMMA FirstWithText ==
  ASSUME NEW q \in Seq(Prompts), NEW text, NEW i \in DOMAIN q, Text[q[i]] = text
  PROVE  \E k \in DOMAIN q : Text[q[k]] = text /\ \A j \in 1..k - 1 : Text[q[j]] # text
<1> DEFINE S == {n \in 1..Len(q) : Text[q[n]] = text}
<1>1. S \subseteq Nat /\ i \in S
  OBVIOUS
<1>2. PICK k \in S : \A j \in S : ~(<<j, k>> \in OpToRel(<, Nat))
  <2> HIDE DEF S
  <2> QED
    BY <1>1, NatLessThanWellFounded, WFMin
<1>3. \A x, y \in Nat : <<y, x>> \in OpToRel(<, Nat) <=> y < x
  BY DEF OpToRel
<1>4. \A j \in S : ~(j < k)
  BY <1>1, <1>2, <1>3
<1>5. \A j \in 1..k - 1 : j \in DOMAIN q /\ j < k
  OBVIOUS
<1>6. \A j \in 1..k - 1 : Text[q[j]] # text
  BY <1>4, <1>5
<1> QED
  BY <1>6

(* Removing one entry of a queue leaves a queue.                             *)
LEMMA RemoveTyped ==
  ASSUME NEW q \in Seq(Prompts), NEW k \in DOMAIN q
  PROVE  RemoveAt(q, k) \in Seq(Prompts)
<1>1. /\ k \in 1..Len(q) /\ Len(q) \in Nat
      /\ SubSeq(q, 1, k - 1) \in Seq(Prompts) /\ SubSeq(q, k + 1, Len(q)) \in Seq(Prompts)
  OBVIOUS
<1> QED
  BY <1>1 DEF RemoveAt

LEMMA DropTyped ==
  ASSUME NEW q \in Seq(Prompts), NEW text
  PROVE  DropOneByText(q, text) \in Seq(Prompts)
<1>1. CASE \E i \in DOMAIN q : Text[q[i]] = text
  <2> DEFINE First(k) == Text[q[k]] = text /\ \A j \in 1..k - 1 : Text[q[j]] # text
  <2>1. (CHOOSE k \in DOMAIN q : First(k)) \in DOMAIN q
    <3>1. \E k \in DOMAIN q : First(k)
      BY <1>1, FirstWithText
    <3> QED
      BY <3>1, Zenon
  <2> QED
    BY <1>1, <2>1, RemoveTyped DEF DropOneByText
<1> QED
  BY <1>1 DEF DropOneByText

LEMMA InitTyped == Init => TypeOK
<1> SUFFICES ASSUME Init PROVE TypeOK
  OBVIOUS
<1>1. <<>> \in Seq(Prompts)
  OBVIOUS
<1>2. running \in BOOLEAN /\ stranded \in BOOLEAN /\ doubled \in BOOLEAN
  BY Zenon DEF Init
<1>3. drains \in 0..2
  BY DEF Init
<1>4. /\ work \in Works \cup {"none"}
      /\ {current, owner, pending, aside, dropped} \subseteq SUBSET Prompts
      /\ phase \in Turn!Phases /\ steer \in Turn!Steers /\ pending = {} /\ steer # "text"
  BY DEF Init, Turn!Phases, Turn!Steers
<1>5. /\ queue \in Seq(Prompts) /\ waiting \in Seq(Prompts)
      /\ sent \in Seq(Prompts) /\ taken \in Seq(Prompts)
  BY <1>1 DEF Init
<1> QED
  BY <1>2, <1>3, <1>4, <1>5 DEF TypeOK

(* The parts of TypeOK that beginning a turn or running a command changes.   *)
HostTyped ==
  /\ running \in BOOLEAN /\ work \in Works \cup {"none"} /\ drains \in 0..2
  /\ queue \in Seq(Prompts) /\ waiting \in Seq(Prompts) /\ taken \in Seq(Prompts)
  /\ {current, aside, dropped} \subseteq SUBSET Prompts
  /\ stranded \in BOOLEAN

(* A turn that starts, or is refused, leaves the rest of the queue.          *)
LEMMA StartTyped ==
  ASSUME TypeOK, NEW p \in Prompts, NEW rest \in Seq(Prompts), StartTurn(p, rest)
  PROVE  HostTyped'
<1>1. Append(waiting, p) \in Seq(Prompts)
  BY DEF TypeOK
<1>2. CASE Refused(p, rest)
  <2>1. stranded' \in BOOLEAN
    BY <1>2, Zenon DEF Refused
  <2>2. drains' \in 0..2
    BY <1>2 DEF Refused, TypeOK
  <2> QED
    BY <1>2, <2>1, <2>2 DEF StartTurn, Refused, HostTyped, TypeOK
<1>3. CASE ~Refused(p, rest)
  BY <1>1, <1>3 DEF StartTurn, HostTyped, TypeOK
<1> QED
  BY <1>2, <1>3

(* A command that runs leaves the rest of the queue, or empties it.          *)
LEMMA RunTyped ==
  ASSUME TypeOK, NEW p \in Prompts, NEW rest \in Seq(Prompts), RunSlash(p, rest)
  PROVE  HostTyped'
<1>1. CASE StartTurn(p, rest)
  BY <1>1, StartTyped
<1>2. CASE ~StartTurn(p, rest)
  <2>1. /\ Append(taken, p) \in Seq(Prompts) /\ <<>> \in Seq(Prompts)
        /\ ToSet(rest) \subseteq Prompts
    BY DEF TypeOK, ToSet
  <2>2. /\ taken' = Append(taken, p) /\ work' \in Works \cup {"none"}
        /\ UNCHANGED <<running, current, waiting, drains, aside, stranded>>
        /\ \/ queue' = rest /\ dropped' = dropped
           \/ queue' = <<>> /\ dropped' = dropped \cup ToSet(rest)
    BY <1>2 DEF RunSlash, Ran, TypeOK
  <2> QED
    BY <2>1, <2>2 DEF HostTyped, TypeOK
<1> QED
  BY <1>1, <1>2

(* Submitting: the queue grows, and a steer is asked for with its message.   *)
LEMMA SubmitKeeps ==
  ASSUME TypeOK, NEW p \in Prompts, NEW deferred \in BOOLEAN, Submit(p, deferred)
  PROVE  TypeOK'
<1>1. sent' \in Seq(Prompts) /\ Append(queue, p) \in Seq(Prompts)
      /\ UNCHANGED <<owner, doubled>> /\ queue \in Seq(Prompts)
  BY DEF Submit, TypeOK
<1>2. CASE Live(p)
  BY <1>1, <1>2 DEF Live, TypeOK
<1>3. CASE Enqueue(p, deferred)
  <2>1. queue' = Append(queue, p)
        /\ UNCHANGED <<running, current, waiting, work, drains, taken, aside, dropped, stranded>>
    BY <1>3 DEF Enqueue
  <2>2. phase' = phase /\ ((steer' = steer /\ pending' = pending) \/
                          (steer' = "text" /\ pending' = {p}) \/
                          (steer' = "bare" /\ pending' = {} /\ pending = {}))
    BY <1>3 DEF Enqueue, TypeOK, Turn!Request
  <2>3. /\ steer' \in Turn!Steers /\ pending' \in SUBSET Prompts
        /\ (pending' # {}) <=> (steer' = "text")
    BY <2>2 DEF TypeOK, Turn!Steers
  <2> QED
    BY <1>1, <2>1, <2>2, <2>3 DEF TypeOK
<1>4. CASE (RunSlash(p, queue) \/ StartTurn(p, queue)) /\ UNCHANGED <<pending, phase, steer>>
  BY <1>1, <1>4, RunTyped, StartTyped DEF HostTyped, TypeOK
<1> QED
  BY <1>2, <1>3, <1>4 DEF Submit

(* Draining: the head of the queue is taken, refused or thrown away.         *)
LEMMA FlushKeeps == ASSUME TypeOK, Flush PROVE TypeOK'
<1>1. UNCHANGED <<owner, pending, phase, steer, sent>> /\ drains > 0
  BY DEF Flush
<1>2. CASE DrainOver
  <2>1. drains' \in 0..2
    BY <1>1, <1>2 DEF DrainOver, TypeOK
  <2>2. doubled' \in BOOLEAN /\ running' \in BOOLEAN /\ current' \subseteq Prompts
    <3>1. CASE drains = 2
      BY <1>2, <3>1, Zenon DEF DrainOver
    <3>2. CASE drains # 2
      BY <1>2, <3>2 DEF DrainOver, TypeOK
    <3> QED
      BY <3>1, <3>2
  <2> QED
    BY <1>1, <1>2, <2>1, <2>2 DEF DrainOver, TypeOK
<1>3. CASE ~DrainOver
  <2>1. queue # <<>> /\ UNCHANGED doubled
        /\ (RunSlash(Head(queue), Tail(queue)) \/ StartTurn(Head(queue), Tail(queue)))
    BY <1>3 DEF Flush
  <2>2. Head(queue) \in Prompts /\ Tail(queue) \in Seq(Prompts)
    BY <2>1 DEF TypeOK
  <2>3. HostTyped'
    BY <2>1, <2>2, RunTyped, StartTyped
  <2> QED
    BY <1>1, <2>1, <2>3 DEF HostTyped, TypeOK
<1> QED
  BY <1>2, <1>3

(* The injected text leaves the queue and the terminal's memory at once.     *)
LEMMA AppliedTyped ==
  ASSUME TypeOK, Applied
  PROVE  pending' = {} /\ queue' \in Seq(Prompts) /\ taken' \in Seq(Prompts)
<1>1. PICK p \in pending : Ran(p) /\ queue' = DropOneByText(queue, Text[p])
  BY DEF Applied
<1>2. p \in Prompts /\ queue \in Seq(Prompts) /\ taken \in Seq(Prompts)
  BY <1>1 DEF TypeOK
<1> QED
  BY <1>1, <1>2, DropTyped DEF Applied, Ran

(* Every step of the turn keeps the two records of the steer in agreement.   *)
LEMMA TurnKeeps == ASSUME TypeOK, TurnStep PROVE TypeOK'
<1>1. UNCHANGED <<host, sent, aside, dropped, stranded, doubled>>
  BY DEF TurnStep
<1>2. CASE Turn!Inject /\ Applied
  BY <1>1, <1>2, AppliedTyped DEF host, TypeOK, Turn!Inject, Turn!Phases, Turn!Steers
<1>3. CASE (Turn!Act \/ Turn!Rest) /\ UNCHANGED <<queue, pending, taken>>
  BY <1>1, <1>3 DEF host, TypeOK, Turn!Act, Turn!Rest, Turn!Phases
<1>4. CASE Turn!End /\ steer = "text" /\ steer' = "none" /\ Applied
  BY <1>1, <1>4, AppliedTyped DEF host, TypeOK, Turn!End, Turn!Phases, Turn!Steers
<1>5. CASE /\ Turn!End /\ ~(steer = "text" /\ steer' = "none")
           /\ UNCHANGED <<queue, pending, taken>>
  BY <1>1, <1>5 DEF host, TypeOK, Turn!End, Turn!Phases, Turn!Steers
<1> QED
  BY <1>2, <1>3, <1>4, <1>5 DEF TurnStep

LEMMA StepTyped == ASSUME TypeOK, [Next]_vars PROVE TypeOK'
<1>1. CASE LockGranted
  <2> DEFINE p == Head(waiting)
  <2>1. p \in Prompts /\ Tail(waiting) \in Seq(Prompts) /\ Append(taken, p) \in Seq(Prompts)
    BY <1>1 DEF LockGranted, TypeOK
  <2> HIDE DEF p
  <2>2. /\ owner' = {p} /\ waiting' = Tail(waiting) /\ taken' = Append(taken, p)
        /\ phase' = "thinking" /\ steer' = "none" /\ pending' = {}
        /\ UNCHANGED <<running, current, work, drains, queue, sent, aside, dropped,
                       stranded, doubled>>
    BY <1>1 DEF LockGranted, Ran, p
  <2> QED
    BY <2>1, <2>2 DEF TypeOK, Turn!Phases, Turn!Steers
<1>2. CASE LockAborted
  <2>1. PICK k \in DOMAIN waiting :
          waiting' = RemoveAt(waiting, k) /\ dropped' = dropped \cup {waiting[k]}
    BY <1>2 DEF LockAborted
  <2>2. RemoveAt(waiting, k) \in Seq(Prompts) /\ waiting[k] \in Prompts
    BY RemoveTyped DEF TypeOK
  <2>3. current' = {} /\ drains' \in 0..2
        /\ UNCHANGED <<owner, work, queue, pending, phase, steer, sent, taken, aside,
                       stranded, doubled>>
    BY <1>2 DEF LockAborted
  <2>4. running' \in BOOLEAN
    BY <1>2, Zenon DEF LockAborted
  <2> QED
    BY <2>1, <2>2, <2>3, <2>4 DEF TypeOK
<1>3. CASE WorkEnds
  BY <1>3 DEF WorkEnds, record, TypeOK
<1>4. CASE EndTurn
  <2>1. running' \in BOOLEAN
    BY <1>4, Zenon DEF EndTurn
  <2> QED
    BY <1>4, <2>1 DEF EndTurn, record, TypeOK, Turn!Steers
<1>5. CASE Discard
  <2>1. ToSet(queue) \subseteq Prompts /\ <<>> \in Seq(Prompts)
    BY DEF TypeOK, ToSet
  <2> QED
    BY <1>5, <2>1 DEF Discard, host, TypeOK, Turn!Steers
<1>6. CASE UNCHANGED vars
  BY <1>6 DEF vars, host, record, TypeOK
<1> QED
  BY <1>1, <1>2, <1>3, <1>4, <1>5, <1>6, SubmitKeeps, FlushKeeps, TurnKeeps DEF Next

(* The terminal remembers a message as the text of the steer exactly while   *)
(* the loop has a text to inject, so that a report finds its message.        *)
THEOREM SteersAgree == Spec => []TypeOK
  BY InitTyped, StepTyped, PTL DEF Spec

-----------------------------------------------------------------------------
(* What drains the queue, in either terminal and whatever became of its      *)
(* turns: nothing waits in one that takes itself for idle.                   *)
IdleInv == ~running /\ work = "none" /\ drains = 0 /\ ~stranded => queue = <<>>

(* The Ink terminal drains once at a time, and past a refusal.               *)
InkInv == frontend = "ink" => drains # 2 /\ ~doubled /\ ~stranded

(* A turn that starts makes the terminal busy; one that a hook refuses ends  *)
(* the drain only where that strands what is behind it.                      *)
LEMMA StartIdle ==
  ASSUME TypeOK, NEW p, NEW rest, StartTurn(p, rest)
  PROVE  /\ queue' = rest
         /\ drains' = 0 /\ drains # 0 /\ ~running' /\ ~stranded' => rest = <<>>
         /\ ~stranded' => ~stranded
<1>1. CASE Refused(p, rest)
  <2>1. CASE frontend = "ink"
    <3>1. drains' = 1 /\ (stranded' = stranded)
      BY <1>1, <2>1 DEF Refused, TypeOK
    <3> QED
      BY <3>1 DEF StartTurn
  <2>2. CASE frontend # "ink"
    <3>1. stranded' = (stranded \/ (frontend = "app" /\ p \notin Commands /\ drains < 2 /\ rest # <<>>))
      BY <1>1 DEF Refused
    <3>2. drains' = IF frontend = "app" /\ p \notin Commands /\ drains > 0
                    THEN drains - 1 ELSE drains
      BY <1>1, <2>2 DEF Refused
    <3>3. drains' = 0 => drains = 0 \/ (frontend = "app" /\ p \notin Commands /\ drains < 2)
      BY <3>2 DEF TypeOK
    <3>4. ~stranded' => ~stranded
      BY <3>1, Zenon
    <3> QED
      BY <3>1, <3>3, <3>4, Zenon DEF StartTurn
  <2> QED
    BY <2>1, <2>2
<1>2. CASE ~Refused(p, rest)
  BY <1>2 DEF StartTurn
<1> QED
  BY <1>1, <1>2

LEMMA RunIdle ==
  ASSUME TypeOK, NEW p, NEW rest, RunSlash(p, rest)
  PROVE  /\ queue' \in {rest, <<>>}
         /\ drains' = 0 /\ drains # 0 /\ ~running' /\ ~stranded' => rest = <<>>
         /\ ~stranded' => ~stranded
<1>1. CASE StartTurn(p, rest)
  BY <1>1, StartIdle
<1>2. CASE ~StartTurn(p, rest)
  BY <1>2 DEF RunSlash
<1> QED
  BY <1>1, <1>2

LEMMA StepIdle == ASSUME TypeOK, IdleInv, [Next]_vars PROVE IdleInv'
<1> SUFFICES ASSUME ~running', work' = "none", drains' = 0, ~stranded'
             PROVE  queue' = <<>>
  BY DEF IdleInv
<1>1. ASSUME NEW p \in Prompts, NEW deferred \in BOOLEAN, Submit(p, deferred)
      PROVE  queue' = <<>>
  <2>1. drains = 0
    BY <1>1 DEF Submit
  <2>2. CASE Live(p)
    BY <2>1, <2>2 DEF Live, IdleInv
  <2>3. CASE (Busy \/ (deferred /\ queue # <<>>)) /\ Enqueue(p, deferred)
    BY <2>1, <2>3 DEF Enqueue, IdleInv, Busy
  <2>4. CASE ~Busy /\ (RunSlash(p, queue) \/ StartTurn(p, queue))
    <3>1. queue' \in {queue, <<>>} /\ ~stranded
      BY <2>4, RunIdle, StartIdle
    <3> QED
      BY <2>1, <2>4, <3>1 DEF IdleInv, Busy
  <2> QED
    BY <1>1, <2>2, <2>3, <2>4 DEF Submit
<1>2. CASE Flush
  <2>1. drains > 0
    BY <1>2 DEF Flush
  <2>2. CASE DrainOver
    <3>1. drains = 1
      BY <2>2 DEF DrainOver, TypeOK
    <3> QED
      BY <2>2, <3>1 DEF DrainOver, Busy
  <2>3. CASE RunSlash(Head(queue), Tail(queue)) \/ StartTurn(Head(queue), Tail(queue))
    <3> DEFINE p == Head(queue)  rest == Tail(queue)
    <3>1. (RunSlash(p, rest) \/ StartTurn(p, rest)) /\ drains # 0
      BY <2>1, <2>3
    <3> HIDE DEF p, rest
    <3> QED
      BY <3>1, RunIdle, StartIdle
  <2> QED
    BY <1>2, <2>2, <2>3 DEF Flush
<1>3. CASE LockGranted
  BY <1>3 DEF LockGranted, IdleInv
<1>4. CASE LockAborted \/ WorkEnds \/ EndTurn
  BY <1>4 DEF LockAborted, WorkEnds, EndTurn
<1>5. CASE TurnStep
  <2>1. queue = <<>>
    BY <1>5 DEF TurnStep, host, IdleInv
  <2>2. \A text : DropOneByText(<<>>, text) = <<>>
    BY DEF DropOneByText
  <2> QED
    BY <1>5, <2>1, <2>2 DEF TurnStep, Applied
<1>6. CASE Discard
  BY <1>6 DEF Discard
<1>7. CASE UNCHANGED vars
  BY <1>7 DEF vars, host, record, IdleInv
<1> QED
  BY <1>1, <1>2, <1>3, <1>4, <1>5, <1>6, <1>7 DEF Next

(* A terminal that takes itself for idle has nothing queued, even when it is *)
(* mistaken: whatever ends a turn or a command drains the queue, unless a    *)
(* refusal has stranded it.                                                  *)
THEOREM IdleHasDrained ==
  Spec => [](~running /\ work = "none" /\ drains = 0 /\ ~stranded => queue = <<>>)
<1>1. Init => TypeOK /\ IdleInv
  BY InitTyped DEF Init, IdleInv
<1>2. TypeOK /\ IdleInv /\ [Next]_vars => (TypeOK /\ IdleInv)'
  BY StepTyped, StepIdle
<1>3. IdleInv => (~running /\ work = "none" /\ drains = 0 /\ ~stranded => queue = <<>>)
  BY DEF IdleInv
<1> QED
  BY <1>1, <1>2, <1>3, PTL DEF Spec

(* The Ink terminal neither drains twice nor is stranded.                    *)
LEMMA StartInk ==
  ASSUME InkInv, NEW p, NEW rest, RunSlash(p, rest) \/ StartTurn(p, rest), frontend = "ink"
  PROVE  drains' # 2 /\ ~stranded'
<1>1. drains # 2 /\ ~stranded
  BY DEF InkInv
<1>2. CASE StartTurn(p, rest)
  <2>1. CASE Refused(p, rest)
    <3>1. drains' = 1
      BY <2>1 DEF Refused
    <3>2. ~stranded'
      BY <1>1, <2>1 DEF Refused
    <3> QED
      BY <3>1, <3>2
  <2>2. CASE ~Refused(p, rest)
    BY <1>1, <1>2, <2>2 DEF StartTurn
  <2> QED
    BY <2>1, <2>2
<1>3. CASE ~StartTurn(p, rest)
  BY <1>1, <1>3 DEF RunSlash
<1> QED
  BY <1>2, <1>3

LEMMA StepInk == ASSUME TypeOK, InkInv, [Next]_vars PROVE InkInv'
<1>0. frontend' = frontend
  BY DEF Next, Submit, Flush, LockGranted, LockAborted, WorkEnds, TurnStep, EndTurn,
         Discard, vars
<1> SUFFICES ASSUME frontend = "ink" PROVE drains' # 2 /\ ~doubled' /\ ~stranded'
  BY <1>0 DEF InkInv
<1>1. drains # 2 /\ ~doubled /\ ~stranded
  BY DEF InkInv
<1>2. ASSUME NEW p \in Prompts, NEW deferred \in BOOLEAN, Submit(p, deferred)
      PROVE  drains' # 2 /\ ~doubled' /\ ~stranded'
  <2>1. ~doubled'
    BY <1>1, <1>2 DEF Submit
  <2>2. CASE Live(p) \/ Enqueue(p, deferred)
    BY <1>1, <2>1, <2>2 DEF Live, Enqueue
  <2>3. CASE RunSlash(p, queue) \/ StartTurn(p, queue)
    BY <2>1, <2>3, StartInk
  <2> QED
    BY <1>2, <2>2, <2>3 DEF Submit
<1>3. CASE Flush
  <2>1. CASE DrainOver
    <3>1. drains' # 2
      BY <2>1 DEF DrainOver, TypeOK
    <3> QED
      BY <1>1, <2>1, <3>1 DEF DrainOver
  <2>2. CASE ~DrainOver
    <3>1. ~doubled' /\ (\E p, rest : RunSlash(p, rest) \/ StartTurn(p, rest))
      BY <1>1, <1>3, <2>2 DEF Flush
    <3> QED
      BY <3>1, StartInk
  <2> QED
    BY <2>1, <2>2
<1>4. CASE LockGranted \/ LockAborted \/ WorkEnds \/ TurnStep \/ EndTurn \/ Discard
  BY <1>1, <1>4 DEF LockGranted, LockAborted, WorkEnds, TurnStep, EndTurn, Discard, host, record
<1>5. CASE UNCHANGED vars
  BY <1>1, <1>5 DEF vars, host, record
<1> QED
  BY <1>2, <1>3, <1>4, <1>5 DEF Next

-----------------------------------------------------------------------------
(* Nothing is lost, doubled or overtaken (InOrder). A report removes the     *)
(* entry it is about because a message only steers when nothing waits in     *)
(* front of it: while it is pending it is the head of the queue.             *)
Heard == taken \o waiting

Ordered(s, line) == \A i, j \in DOMAIN line : i < j => Before(s, line[i], line[j])

(* The line `line` holds what was submitted, `gone` apart, each entry once.  *)
Holds(s, line, gone) ==
  Once(s) /\ Once(line) /\ gone \subseteq ToSet(s) /\ ToSet(line) = ToSet(s) \ gone

HeldInOrder ==
  Holds(sent, Line, aside \cup dropped) /\ (~stranded => Ordered(sent, Line))

PendingIsHead == pending # {} => owner # {} /\ queue # <<>> /\ pending = {Head(queue)}

OneTurn ==
  /\ ~running => waiting = <<>> /\ owner = {}
  /\ waiting = <<>> \/ (owner = {} /\ \E p \in Prompts : waiting = <<p>>)

OrderInv == ~doubled => HeldInOrder /\ PendingIsHead /\ OneTurn

LEMMA SetOfAppend ==
  ASSUME NEW s \in Seq(Prompts), NEW p \in Prompts
  PROVE  /\ Append(s, p) \in Seq(Prompts)
         /\ ToSet(Append(s, p)) = ToSet(s) \cup {p}
         /\ \A i \in DOMAIN s : i \in DOMAIN Append(s, p) /\ Append(s, p)[i] = s[i]
<1>1. /\ DOMAIN s = 1..Len(s) /\ DOMAIN Append(s, p) = 1..Len(s) + 1 /\ Len(s) \in Nat
      /\ \A i \in 1..Len(s) : Append(s, p)[i] = s[i]
      /\ Append(s, p)[Len(s) + 1] = p /\ Append(s, p) \in Seq(Prompts)
  BY AppendProperties, LenProperties
<1>2. \A i \in 1..Len(s) + 1 : i \in 1..Len(s) \/ i = Len(s) + 1
  BY <1>1
<1>3. \A x : x \in ToSet(Append(s, p)) => x \in ToSet(s) \cup {p}
  BY <1>1, <1>2 DEF ToSet
<1>4. \A x : x \in ToSet(s) \cup {p} => x \in ToSet(Append(s, p))
  <2>1. \A i \in 1..Len(s) : i \in 1..Len(s) + 1
    BY <1>1
  <2>2. Len(s) + 1 \in 1..Len(s) + 1
    BY <1>1
  <2> QED
    BY <1>1, <2>1, <2>2 DEF ToSet
<1>5. \A i \in DOMAIN s : i \in DOMAIN Append(s, p)
  BY <1>1
<1> QED
  BY <1>1, <1>3, <1>4, <1>5

(* A new entry at the end leaves every entry where it was.                   *)
LEMMA AppendOnce ==
  ASSUME NEW s \in Seq(Prompts), NEW p \in Prompts, Once(s), p \notin ToSet(s)
  PROVE  Once(Append(s, p))
<1>1. SUFFICES ASSUME NEW i \in DOMAIN Append(s, p), NEW j \in DOMAIN Append(s, p),
                      Append(s, p)[i] = Append(s, p)[j]
               PROVE  i = j
  BY DEF Once
<1>2. /\ DOMAIN s = 1..Len(s) /\ DOMAIN Append(s, p) = 1..Len(s) + 1 /\ Len(s) \in Nat
      /\ \A k \in 1..Len(s) : Append(s, p)[k] = s[k]
      /\ Append(s, p)[Len(s) + 1] = p
  BY AppendProperties, LenProperties
<1>3. \A k \in 1..Len(s) : s[k] # p
  BY <1>2 DEF ToSet
<1>4. /\ i \in 1..Len(s) \/ i = Len(s) + 1
      /\ j \in 1..Len(s) \/ j = Len(s) + 1
  BY <1>2
<1> QED
  BY <1>1, <1>2, <1>3, <1>4 DEF Once

LEMMA AppendOrdered ==
  ASSUME NEW s \in Seq(Prompts), NEW line \in Seq(Prompts), NEW p \in Prompts,
         Ordered(s, line), ToSet(line) \subseteq ToSet(s)
  PROVE  Ordered(Append(s, p), line) /\ Ordered(Append(s, p), Append(line, p))
<1>1. /\ DOMAIN s = 1..Len(s) /\ DOMAIN Append(s, p) = 1..Len(s) + 1 /\ Len(s) \in Nat
      /\ \A k \in 1..Len(s) : Append(s, p)[k] = s[k]
      /\ Append(s, p)[Len(s) + 1] = p
  BY AppendProperties, LenProperties
<1>2. /\ DOMAIN line = 1..Len(line) /\ DOMAIN Append(line, p) = 1..Len(line) + 1
      /\ Len(line) \in Nat
      /\ \A k \in 1..Len(line) : Append(line, p)[k] = line[k]
      /\ Append(line, p)[Len(line) + 1] = p
  BY AppendProperties, LenProperties
<1>3. \A k \in DOMAIN s : k \in DOMAIN Append(s, p) /\ k < Len(s) + 1
  BY <1>1
<1>4. ASSUME NEW x, NEW y, Before(s, x, y) PROVE Before(Append(s, p), x, y)
  BY <1>1, <1>3, <1>4 DEF Before
<1>5. Ordered(Append(s, p), line)
  BY <1>4 DEF Ordered
<1>6. ASSUME NEW i \in DOMAIN Append(line, p), NEW j \in DOMAIN Append(line, p), i < j
      PROVE  Before(Append(s, p), Append(line, p)[i], Append(line, p)[j])
  <2>1. i \in 1..Len(line) /\ (j \in 1..Len(line) \/ j = Len(line) + 1)
    BY <1>2, <1>6
  <2>2. CASE j \in 1..Len(line)
    BY <1>2, <1>5, <1>6, <2>1, <2>2 DEF Ordered
  <2>3. CASE j = Len(line) + 1
    <3>1. line[i] \in ToSet(s)
      BY <1>2, <2>1 DEF ToSet
    <3>2. PICK k \in DOMAIN s : s[k] = line[i]
      BY <3>1 DEF ToSet
    <3>3. Len(s) + 1 \in DOMAIN Append(s, p)
      BY <1>1
    <3> QED
      BY <1>1, <1>2, <1>3, <2>1, <2>3, <3>2, <3>3 DEF Before
  <2> QED
    BY <2>1, <2>2, <2>3
<1> QED
  BY <1>5, <1>6 DEF Ordered

(* A shorter line: its entries are entries of the longer one, in order.      *)
LEMMA SubLine ==
  ASSUME NEW long \in Seq(Prompts), NEW short \in Seq(Prompts),
         NEW f \in [DOMAIN short -> DOMAIN long],
         \A i \in DOMAIN short : short[i] = long[f[i]],
         \A i, j \in DOMAIN short : i < j => f[i] < f[j]
  PROVE  /\ Once(long) => Once(short)
         /\ \A s : Ordered(s, long) => Ordered(s, short)
<1>1. \A s : Ordered(s, long) => Ordered(s, short)
  BY DEF Ordered
<1>2. ASSUME Once(long), NEW i \in DOMAIN short, NEW j \in DOMAIN short, short[i] = short[j]
      PROVE  i = j
  <2>1. f[i] = f[j]
    BY <1>2 DEF Once
  <2>2. DOMAIN short \subseteq Nat /\ DOMAIN long \subseteq Nat
    BY LenProperties
  <2>3. i \in Nat /\ j \in Nat /\ f[i] \in Nat /\ ~(f[i] < f[j]) /\ ~(f[j] < f[i])
    BY <2>1, <2>2
  <2> QED
    BY <2>3
<1> QED
  BY <1>1, <1>2 DEF Once

(* The line, entry by entry.                                                 *)
LEMMA LineParts ==
  ASSUME NEW t \in Seq(Prompts), NEW q \in Seq(Prompts)
  PROVE  /\ t \o q \in Seq(Prompts) /\ DOMAIN (t \o q) = 1..Len(t) + Len(q)
         /\ DOMAIN t = 1..Len(t) /\ DOMAIN q = 1..Len(q)
         /\ Len(t) \in Nat /\ Len(q) \in Nat /\ Len(t \o q) = Len(t) + Len(q)
         /\ \A k \in 1..Len(t) : k \in DOMAIN (t \o q) /\ (t \o q)[k] = t[k]
         /\ \A k \in 1..Len(q) : Len(t) + k \in DOMAIN (t \o q) /\ (t \o q)[Len(t) + k] = q[k]
<1>1. /\ t \o q \in Seq(Prompts) /\ Len(t \o q) = Len(t) + Len(q)
      /\ \A i \in 1..Len(t) + Len(q) : (t \o q)[i] =
           IF i <= Len(t) THEN t[i] ELSE q[i - Len(t)]
  BY ConcatProperties
<1>2. /\ DOMAIN t = 1..Len(t) /\ DOMAIN q = 1..Len(q) /\ Len(t) \in Nat /\ Len(q) \in Nat
      /\ DOMAIN (t \o q) = 1..Len(t) + Len(q)
  BY <1>1, LenProperties
<1>3. \A k \in 1..Len(t) : k \in 1..Len(t) + Len(q) /\ k <= Len(t)
  BY <1>2
<1>4. \A k \in 1..Len(q) :
        Len(t) + k \in 1..Len(t) + Len(q) /\ ~(Len(t) + k <= Len(t)) /\ Len(t) + k - Len(t) = k
  BY <1>2
<1> QED
  BY <1>1, <1>2, <1>3, <1>4

LEMMA LineSet ==
  ASSUME NEW t \in Seq(Prompts), NEW q \in Seq(Prompts)
  PROVE  /\ ToSet(t \o q) = ToSet(t) \cup ToSet(q)
         /\ Once(t \o q) => ToSet(t) \cap ToSet(q) = {}
<1>0. /\ DOMAIN (t \o q) = 1..Len(t) + Len(q) /\ DOMAIN t = 1..Len(t) /\ DOMAIN q = 1..Len(q)
      /\ Len(t) \in Nat /\ Len(q) \in Nat
      /\ \A k \in 1..Len(t) : k \in DOMAIN (t \o q) /\ (t \o q)[k] = t[k]
      /\ \A k \in 1..Len(q) : Len(t) + k \in DOMAIN (t \o q) /\ (t \o q)[Len(t) + k] = q[k]
  BY LineParts
<1>1. \A k \in 1..Len(t) + Len(q) : k \in 1..Len(t) \/ \E j \in 1..Len(q) : k = Len(t) + j
  <2>1. ASSUME NEW k \in 1..Len(t) + Len(q), k \notin 1..Len(t)
        PROVE  k - Len(t) \in 1..Len(q) /\ k = Len(t) + (k - Len(t))
    BY <1>0, <2>1
  <2> QED
    BY <2>1
<1>2. ASSUME NEW x \in ToSet(t \o q) PROVE x \in ToSet(t) \cup ToSet(q)
  <2>1. PICK k \in 1..Len(t) + Len(q) : (t \o q)[k] = x
    BY <1>0 DEF ToSet
  <2> QED
    BY <1>0, <1>1, <2>1 DEF ToSet
<1>3. ASSUME NEW x \in ToSet(t) \cup ToSet(q) PROVE x \in ToSet(t \o q)
  BY <1>0 DEF ToSet
<1>4. ASSUME Once(t \o q), NEW x \in ToSet(t), x \in ToSet(q) PROVE FALSE
  <2>1. PICK i \in 1..Len(t), j \in 1..Len(q) : t[i] = x /\ q[j] = x
    BY <1>0, <1>4 DEF ToSet
  <2>2. (t \o q)[i] = (t \o q)[Len(t) + j]
    BY <1>0, <2>1
  <2>3. i = Len(t) + j
    BY <1>0, <1>4, <2>2 DEF Once
  <2> QED
    BY <1>0, <2>1, <2>3
<1> QED
  BY <1>2, <1>3, <1>4

(* An entry that waits in front goes into the conversation: the line stays.  *)
LEMMA MoveHead ==
  ASSUME NEW t \in Seq(Prompts), NEW q \in Seq(Prompts), q # <<>>
  PROVE  Append(t, Head(q)) \o Tail(q) = t \o q
<1>1. /\ Head(q) \in Prompts /\ Tail(q) \in Seq(Prompts) /\ <<Head(q)>> \in Seq(Prompts)
      /\ q = <<Head(q)>> \o Tail(q)
  OBVIOUS
<1>2. Append(t, Head(q)) = t \o <<Head(q)>>
  BY <1>1, AppendIsConcat
<1> QED
  BY <1>1, <1>2, ConcatAssociative

LEMMA LineAppend ==
  ASSUME NEW t \in Seq(Prompts), NEW q \in Seq(Prompts), NEW p \in Prompts
  PROVE  t \o Append(q, p) = Append(t \o q, p)
<1>1. /\ <<p>> \in Seq(Prompts) /\ t \o q \in Seq(Prompts)
  OBVIOUS
<1> QED
  BY <1>1, AppendIsConcat, ConcatAssociative

(* What waited is thrown away: the conversation keeps its order.             *)
LEMMA Discarded ==
  ASSUME NEW t \in Seq(Prompts), NEW q \in Seq(Prompts), Once(t \o q)
  PROVE  /\ Once(t) /\ ToSet(t) = ToSet(t \o q) \ ToSet(q)
         /\ \A s : Ordered(s, t \o q) => Ordered(s, t)
<1> DEFINE f == [k \in DOMAIN t |-> k]
<1>1. f \in [DOMAIN t -> DOMAIN (t \o q)]
  BY LineParts
<1>2. /\ \A i \in DOMAIN t : t[i] = (t \o q)[f[i]]
      /\ \A i, j \in DOMAIN t : i < j => f[i] < f[j]
      /\ t \o q \in Seq(Prompts)
  BY LineParts
<1> HIDE DEF f
<1>3. Once(t) /\ \A s : Ordered(s, t \o q) => Ordered(s, t)
  BY <1>1, <1>2, SubLine
<1>4. ToSet(t) = ToSet(t \o q) \ ToSet(q)
  BY LineSet
<1> QED
  BY <1>3, <1>4

(* The head leaves the queue for good.                                       *)
LEMMA HeadLeaves ==
  ASSUME NEW t \in Seq(Prompts), NEW q \in Seq(Prompts), q # <<>>, Once(t \o q)
  PROVE  /\ Once(t \o Tail(q)) /\ ToSet(t \o Tail(q)) = ToSet(t \o q) \ {Head(q)}
         /\ \A s : Ordered(s, t \o q) => Ordered(s, t \o Tail(q))
<1> DEFINE short == t \o Tail(q)
           f == [k \in DOMAIN short |-> IF k <= Len(t) THEN k ELSE k + 1]
<1>1. /\ Tail(q) \in Seq(Prompts) /\ Len(Tail(q)) = Len(q) - 1 /\ Head(q) = q[1] /\ 1 \in 1..Len(q)
      /\ \A i \in 1..Len(q) - 1 : Tail(q)[i] = q[i + 1]
  BY HeadTailProperties
<1>2. /\ short \in Seq(Prompts) /\ t \o q \in Seq(Prompts) /\ Len(t) \in Nat /\ Len(q) \in Nat
      /\ DOMAIN short = 1..Len(t) + Len(q) - 1 /\ DOMAIN (t \o q) = 1..Len(t) + Len(q)
  BY <1>1, LineParts
<1>3. f \in [DOMAIN short -> DOMAIN (t \o q)]
  BY <1>2
<1>4. \A i, j \in DOMAIN short : i < j => f[i] < f[j]
  BY <1>2
<1>5. ASSUME NEW i \in DOMAIN short PROVE short[i] = (t \o q)[f[i]]
  <2>1. CASE i <= Len(t)
    <3>1. i \in 1..Len(t) /\ f[i] = i
      BY <1>2, <2>1
    <3> QED
      BY <1>1, <3>1, LineParts
  <2>2. CASE ~(i <= Len(t))
    <3>1. /\ i - Len(t) \in 1..Len(q) - 1 /\ i - Len(t) + 1 \in 1..Len(q)
          /\ f[i] = Len(t) + (i - Len(t) + 1) /\ i = Len(t) + (i - Len(t))
      BY <1>2, <2>2
    <3>2. short[i] = Tail(q)[i - Len(t)]
      <4>1. \A k \in 1..Len(Tail(q)) : (t \o Tail(q))[Len(t) + k] = Tail(q)[k]
        BY <1>1, LineParts
      <4> QED
        BY <1>1, <3>1, <4>1
    <3>3. (t \o q)[f[i]] = q[i - Len(t) + 1]
      <4>1. \A k \in 1..Len(q) : (t \o q)[Len(t) + k] = q[k]
        BY LineParts
      <4> QED
        BY <3>1, <4>1
    <3> QED
      BY <1>1, <3>1, <3>2, <3>3
  <2> QED
    BY <2>1, <2>2
<1>6. ToSet(short) = ToSet(t \o q) \ {Head(q)}
  <2>1. ToSet(q) = ToSet(Tail(q)) \cup {Head(q)}
    <3>1. \A k \in 1..Len(q) : k = 1 \/ (k - 1 \in 1..Len(q) - 1 /\ k = k - 1 + 1)
      BY <1>2
    <3>2. \A k \in 1..Len(q) - 1 : k + 1 \in 1..Len(q)
      BY <1>2
    <3>3. DOMAIN q = 1..Len(q) /\ DOMAIN Tail(q) = 1..Len(q) - 1
      BY <1>1, LenProperties
    <3>4. \A x : x \in ToSet(q) => x \in ToSet(Tail(q)) \cup {Head(q)}
      <4>1. SUFFICES ASSUME NEW k \in 1..Len(q) PROVE q[k] \in ToSet(Tail(q)) \cup {Head(q)}
        BY <3>3 DEF ToSet
      <4>2. CASE k = 1
        BY <1>1, <4>2
      <4>3. CASE k - 1 \in 1..Len(q) - 1 /\ k = k - 1 + 1
        <5>1. Tail(q)[k - 1] = q[k]
          BY <1>1, <4>3
        <5> QED
          BY <3>3, <4>3, <5>1 DEF ToSet
      <4> QED
        BY <3>1, <4>2, <4>3
    <3>5. \A x : x \in ToSet(Tail(q)) \cup {Head(q)} => x \in ToSet(q)
      BY <1>1, <3>2, <3>3 DEF ToSet
    <3> QED
      BY <3>4, <3>5
  <2>2. Head(q) \notin ToSet(Tail(q))
    <3>1. SUFFICES ASSUME Head(q) \in ToSet(Tail(q)) PROVE FALSE
      OBVIOUS
    <3>2. PICK k \in 1..Len(q) - 1 : Tail(q)[k] = q[1]
      BY <1>1, <3>1, LenProperties DEF ToSet
    <3>3. k + 1 \in 1..Len(q) /\ q[k + 1] = q[1]
      BY <1>1, <1>2, <3>2
    <3>4. Len(t) + (k + 1) = Len(t) + 1
      <4>1. \A j \in 1..Len(q) : Len(t) + j \in DOMAIN (t \o q) /\ (t \o q)[Len(t) + j] = q[j]
        BY LineParts
      <4>2. (t \o q)[Len(t) + (k + 1)] = (t \o q)[Len(t) + 1]
        BY <1>1, <3>3, <4>1
      <4> QED
        BY <1>1, <3>3, <4>1, <4>2 DEF Once
    <3> QED
      BY <1>2, <3>2, <3>4
  <2>3. Head(q) \notin ToSet(t)
    BY <2>1, LineSet
  <2>4. /\ ToSet(t \o q) = ToSet(t) \cup ToSet(q)
        /\ ToSet(short) = ToSet(t) \cup ToSet(Tail(q))
    BY <1>1, LineSet
  <2> QED
    BY <2>1, <2>2, <2>3, <2>4
<1> HIDE DEF f
<1>7. /\ Once(t \o q) => Once(short)
      /\ \A s : Ordered(s, t \o q) => Ordered(s, short)
  BY <1>2, <1>3, <1>4, <1>5, SubLine
<1> QED
  BY <1>6, <1>7

(* The report of a message at the head removes exactly that entry.           *)
LEMMA DropsHead ==
  ASSUME NEW q \in Seq(Prompts), q # <<>>
  PROVE  DropOneByText(q, Text[Head(q)]) = Tail(q)
<1> DEFINE text == Text[Head(q)]
           First(k) == Text[q[k]] = text /\ \A j \in 1..k - 1 : Text[q[j]] # text
<1>1. 1 \in DOMAIN q /\ Len(q) \in Nat /\ DOMAIN q = 1..Len(q) /\ Head(q) = q[1]
  OBVIOUS
<1>2. \A k \in DOMAIN q : First(k) => k = 1
  <2>1. \A k \in DOMAIN q : k = 1 \/ 1 \in 1..k - 1
    BY <1>1
  <2> QED
    BY <1>1, <2>1
<1>3. First(1)
  BY <1>1
<1>4. (CHOOSE k \in DOMAIN q : First(k)) = 1
  <2> HIDE DEF First
  <2> QED
    BY <1>1, <1>2, <1>3
<1>5. RemoveAt(q, 1) = Tail(q)
  <2>1. /\ SubSeq(q, 1, 0) = <<>> /\ Tail(q) = SubSeq(q, 2, Len(q)) /\ Tail(q) \in Seq(Prompts)
    BY SubSeqEmpty, TailIsSubSeq, HeadTailProperties
  <2> QED
    BY <2>1, ConcatEmptySeq DEF RemoveAt
<1>6. \E k \in DOMAIN q : Text[q[k]] = text
  BY <1>1
<1> QED
  BY <1>4, <1>5, <1>6 DEF DropOneByText

(* A new submission joins the line at its end, or is turned away.            *)
LEMMA HoldsGrows ==
  ASSUME NEW s \in Seq(Prompts), NEW line \in Seq(Prompts), NEW gone, NEW p \in Prompts,
         Holds(s, line, gone), p \notin ToSet(s)
  PROVE  /\ Holds(Append(s, p), Append(line, p), gone)
         /\ Holds(Append(s, p), line, gone \cup {p})
<1>1. p \notin ToSet(line) /\ p \notin gone
  BY DEF Holds
<1>2. Once(Append(s, p)) /\ Once(Append(line, p))
  BY <1>1, AppendOnce DEF Holds
<1>3. /\ ToSet(Append(s, p)) = ToSet(s) \cup {p}
      /\ ToSet(Append(line, p)) = ToSet(line) \cup {p}
  BY SetOfAppend
<1> QED
  BY <1>1, <1>2, <1>3 DEF Holds

(* A submission that starts at once beside a stranded queue passes it, and   *)
(* is still held once.                                                       *)
LEMMA HoldsPasses ==
  ASSUME NEW s \in Seq(Prompts), NEW t \in Seq(Prompts), NEW q \in Seq(Prompts),
         NEW gone, NEW p \in Prompts, Holds(s, t \o q, gone), p \notin ToSet(s)
  PROVE  Holds(Append(s, p), Append(t, p) \o q, gone)
<1> DEFINE u == Append(t, p)
<1>1. /\ u \in Seq(Prompts) /\ Len(u) = Len(t) + 1 /\ u[Len(t) + 1] = p
      /\ \A k \in 1..Len(t) : u[k] = t[k]
  BY AppendProperties
<1>2. /\ p \notin ToSet(t \o q) /\ p \notin gone /\ Once(Append(s, p)) /\ Once(t \o q)
      /\ ToSet(Append(s, p)) = ToSet(s) \cup {p} /\ ToSet(u) = ToSet(t) \cup {p}
  BY AppendOnce, SetOfAppend DEF Holds
<1>3. ToSet(u \o q) = ToSet(t \o q) \cup {p}
  <2>1. ToSet(u \o q) = ToSet(u) \cup ToSet(q) /\ ToSet(t \o q) = ToSet(t) \cup ToSet(q)
    BY <1>1, LineSet
  <2> QED
    BY <1>2, <2>1
<1>4. Once(u \o q)
  <2>1. /\ DOMAIN (u \o q) = 1..Len(t) + 1 + Len(q) /\ Len(t) \in Nat /\ Len(q) \in Nat
        /\ \A k \in 1..Len(t) + 1 : (u \o q)[k] = u[k]
        /\ \A k \in 1..Len(q) : (u \o q)[Len(t) + 1 + k] = q[k]
    <3>1. /\ DOMAIN (u \o q) = 1..Len(u) + Len(q) /\ Len(t) \in Nat /\ Len(q) \in Nat
          /\ \A k \in 1..Len(u) : (u \o q)[k] = u[k]
          /\ \A k \in 1..Len(q) : (u \o q)[Len(u) + k] = q[k]
      <4>1. u \in Seq(Prompts)
        BY <1>1
      <4> HIDE DEF u
      <4> QED
        BY <4>1, LineParts
    <3> HIDE DEF u
    <3> QED
      BY <1>1, <3>1
  <2>2. /\ DOMAIN (t \o q) = 1..Len(t) + Len(q)
        /\ \A k \in 1..Len(t) : (t \o q)[k] = t[k]
        /\ \A k \in 1..Len(q) : (t \o q)[Len(t) + k] = q[k]
    BY LineParts
  <2> DEFINE old(k) == IF k <= Len(t) THEN k ELSE k - 1
  <2>3. ASSUME NEW k \in DOMAIN (u \o q), k # Len(t) + 1
        PROVE  old(k) \in DOMAIN (t \o q) /\ (u \o q)[k] = (t \o q)[old(k)]
    <3>1. CASE k <= Len(t)
      <4>1. k \in 1..Len(t) /\ k \in 1..Len(t) + 1 /\ k \in 1..Len(t) + Len(q)
        BY <2>1, <3>1
      <4> QED
        BY <1>1, <2>1, <2>2, <3>1, <4>1
    <3>2. CASE ~(k <= Len(t))
      <4>1. /\ k - 1 - Len(t) \in 1..Len(q) /\ k = Len(t) + 1 + (k - 1 - Len(t))
            /\ k - 1 = Len(t) + (k - 1 - Len(t)) /\ k - 1 \in 1..Len(t) + Len(q)
        <5>1. k \in 1..Len(t) + 1 + Len(q) /\ k # Len(t) + 1
          BY <2>1, <2>3
        <5>2. \A m, n \in Nat : \A at \in 1..m + 1 + n : at # m + 1 /\ ~(at <= m) =>
                /\ at - 1 - m \in 1..n /\ at = m + 1 + (at - 1 - m)
                /\ at - 1 = m + (at - 1 - m) /\ at - 1 \in 1..m + n
          OBVIOUS
        <5> QED
          BY <2>1, <3>2, <5>1, <5>2
      <4>2. (u \o q)[k] = q[k - 1 - Len(t)] /\ (t \o q)[k - 1] = q[k - 1 - Len(t)]
        BY <2>1, <2>2, <4>1
      <4> QED
        BY <2>2, <3>2, <4>1, <4>2
    <3> QED
      BY <3>1, <3>2
  <2>4. (u \o q)[Len(t) + 1] = p
    <3>1. Len(t) + 1 \in 1..Len(t) + 1
      BY <2>1
    <3> QED
      BY <1>1, <2>1, <3>1
  <2>5. SUFFICES ASSUME NEW i \in DOMAIN (u \o q), NEW j \in DOMAIN (u \o q),
                        (u \o q)[i] = (u \o q)[j]
                 PROVE  i = j
    BY DEF Once
  <2>6. \A k \in DOMAIN (t \o q) : (t \o q)[k] # p
    BY <1>2 DEF ToSet
  <2>7. CASE i = Len(t) + 1 \/ j = Len(t) + 1
    BY <2>3, <2>4, <2>5, <2>6, <2>7
  <2>8. CASE i # Len(t) + 1 /\ j # Len(t) + 1
    <3>1. old(i) = old(j)
      <4>1. /\ old(i) \in DOMAIN (t \o q) /\ (u \o q)[i] = (t \o q)[old(i)]
            /\ old(j) \in DOMAIN (t \o q) /\ (u \o q)[j] = (t \o q)[old(j)]
        BY <2>3, <2>8
      <4> HIDE DEF old
      <4> QED
        BY <1>2, <2>5, <4>1 DEF Once
    <3> QED
      BY <2>1, <2>8, <3>1
  <2> QED
    BY <2>7, <2>8
<1> QED
  BY <1>2, <1>3, <1>4 DEF Holds

(* What leaves the queue is gone, and the rest of the line is held.          *)
LEMMA HoldsLess ==
  ASSUME NEW s, NEW line, NEW short, NEW gone, NEW out,
         Holds(s, line, gone), Once(short), out \subseteq ToSet(line),
         ToSet(short) = ToSet(line) \ out
  PROVE  Holds(s, short, gone \cup out)
BY DEF Holds

(* What TypeOK says of the line and its parts.                               *)
LEMMA LineTyped ==
  ASSUME TypeOK
  PROVE  /\ queue \in Seq(Prompts) /\ sent \in Seq(Prompts) /\ taken \in Seq(Prompts)
         /\ Heard \in Seq(Prompts) /\ Line \in Seq(Prompts) /\ Line = Heard \o queue
         /\ (waiting = <<>> => Heard = taken)
         /\ queue # <<>> => Head(queue) \in Prompts /\ Tail(queue) \in Seq(Prompts)
<1>1. /\ queue \in Seq(Prompts) /\ sent \in Seq(Prompts) /\ taken \in Seq(Prompts)
      /\ waiting \in Seq(Prompts)
  BY DEF TypeOK
<1>2. Heard \in Seq(Prompts) /\ (waiting = <<>> => Heard = taken)
  BY <1>1, ConcatEmptySeq DEF Heard
<1>3. Line = Heard \o queue
  BY DEF Line, Heard
<1> QED
  BY <1>1, <1>2, <1>3

-----------------------------------------------------------------------------
(* The ways in which the line changes. It stays, it grows at its end:        *)
LEMMA Stays ==
  ASSUME HeldInOrder, Line' = Line, UNCHANGED <<sent, aside, dropped>>, ~stranded' => ~stranded
  PROVE  HeldInOrder'
BY DEF HeldInOrder

LEMMA Grows ==
  ASSUME TypeOK, HeldInOrder, NEW p \in Prompts, p \notin ToSet(sent),
         sent' = Append(sent, p), Line' = Append(Line, p),
         UNCHANGED <<aside, dropped, stranded>>
  PROVE  HeldInOrder'
<1>1. Holds(sent', Line', aside' \cup dropped')
  BY HoldsGrows, LineTyped DEF HeldInOrder
<1>2. ~stranded' => Ordered(sent', Line')
  BY AppendOrdered, LineTyped DEF HeldInOrder, Holds
<1> QED
  BY <1>1, <1>2 DEF HeldInOrder

(* a submission begins at once, or is answered aside:                        *)
LEMMA BeginsNow ==
  ASSUME TypeOK, HeldInOrder, NEW p \in Prompts, p \notin ToSet(sent),
         sent' = Append(sent, p), ~stranded => queue = <<>>,
         Line' = Append(Heard, p) \o queue, UNCHANGED <<aside, dropped, stranded>>
  PROVE  HeldInOrder'
<1>1. Holds(sent', Line', aside' \cup dropped')
  BY HoldsPasses, LineTyped DEF HeldInOrder
<1>2. ASSUME ~stranded PROVE Ordered(sent', Line')
  <2>1. Line = Heard /\ Line' = Append(Heard, p)
    BY <1>2, ConcatEmptySeq, AppendProperties, LineTyped
  <2> QED
    BY <1>2, <2>1, AppendOrdered, LineTyped DEF HeldInOrder, Holds
<1> QED
  BY <1>1, <1>2 DEF HeldInOrder

LEMMA GoesAside ==
  ASSUME TypeOK, HeldInOrder, NEW p \in Prompts, p \notin ToSet(sent),
         sent' = Append(sent, p), Line' = Line, aside' = aside \cup {p},
         UNCHANGED dropped, ~stranded' => ~stranded
  PROVE  HeldInOrder'
<1>1. (aside \cup dropped) \cup {p} = aside' \cup dropped'
  OBVIOUS
<1>2. Holds(sent', Line', aside' \cup dropped')
  <2>1. Holds(Append(sent, p), Line, (aside \cup dropped) \cup {p})
    BY HoldsGrows, LineTyped DEF HeldInOrder
  <2> QED
    BY <1>1, <2>1
<1>3. ~stranded' => Ordered(sent', Line')
  BY AppendOrdered, LineTyped DEF HeldInOrder, Holds
<1> QED
  BY <1>2, <1>3 DEF HeldInOrder

(* a prompt leaves it, the rest in its order:                                *)
LEMMA Leaves ==
  ASSUME HeldInOrder, NEW out, out \subseteq ToSet(Line), UNCHANGED sent,
         Once(Line'), ToSet(Line') = ToSet(Line) \ out,
         \A s : Ordered(s, Line) => Ordered(s, Line'),
         aside' \cup dropped' = (aside \cup dropped) \cup out, ~stranded' => ~stranded
  PROVE  HeldInOrder'
<1>1. Holds(sent', Line', aside' \cup dropped')
  BY HoldsLess DEF HeldInOrder
<1> QED
  BY <1>1 DEF HeldInOrder

(* the queue is thrown away, also behind a command that has just run.        *)
LEMMA QueueLeaves ==
  ASSUME TypeOK, HeldInOrder, Line' = Heard, UNCHANGED <<sent, aside, stranded>>,
         dropped' = dropped \cup ToSet(queue)
  PROVE  HeldInOrder'
<1>0. /\ Heard \in Seq(Prompts) /\ queue \in Seq(Prompts) /\ Line = Heard \o queue
      /\ Once(Heard \o queue)
  BY LineTyped DEF HeldInOrder, Holds
<1>1. /\ Once(Line') /\ ToSet(Line') = ToSet(Line) \ ToSet(queue)
      /\ \A s : Ordered(s, Line) => Ordered(s, Line')
  <2>1. /\ Once(Heard) /\ ToSet(Heard) = ToSet(Heard \o queue) \ ToSet(queue)
        /\ \A s : Ordered(s, Heard \o queue) => Ordered(s, Heard)
    BY <1>0, Discarded
  <2> QED
    BY <1>0, <2>1
<1>2. ToSet(queue) \subseteq ToSet(Line)
  <2>1. ToSet(Heard \o queue) = ToSet(Heard) \cup ToSet(queue)
    BY <1>0, LineSet
  <2> QED
    BY <1>0, <2>1
<1>3. aside' \cup dropped' = (aside \cup dropped) \cup ToSet(queue)
  OBVIOUS
<1> QED
  BY <1>1, <1>2, <1>3, Leaves

LEMMA ClearsNow ==
  ASSUME TypeOK, HeldInOrder, NEW p \in Prompts, p \notin ToSet(sent),
         sent' = Append(sent, p), ~stranded => queue = <<>>, Line' = Append(Heard, p),
         dropped' = dropped \cup ToSet(queue), UNCHANGED <<aside, stranded>>
  PROVE  HeldInOrder'
<1> DEFINE now == Append(Heard, p) \o queue
<1>1. Holds(sent', now, aside \cup dropped)
  BY HoldsPasses, LineTyped DEF HeldInOrder
<1>2. ASSUME ~stranded PROVE Ordered(sent', now)
  <2>1. Line = Heard /\ now = Append(Heard, p)
    BY <1>2, ConcatEmptySeq, AppendProperties, LineTyped
  <2> QED
    BY <1>2, <2>1, AppendOrdered, LineTyped DEF HeldInOrder, Holds
<1>3. Append(Heard, p) \in Seq(Prompts)
  BY LineTyped, AppendProperties
<1>4. /\ Once(Line') /\ ToSet(Line') = ToSet(now) \ ToSet(queue)
      /\ \A s : Ordered(s, now) => Ordered(s, Line')
  BY <1>1, <1>3, Discarded, LineTyped DEF Holds
<1>5. ToSet(queue) \subseteq ToSet(now)
  <2>1. ToSet(now) = ToSet(Append(Heard, p)) \cup ToSet(queue)
    BY <1>3, LineSet, LineTyped
  <2> QED
    BY <2>1
<1>6. aside' \cup dropped' = (aside \cup dropped) \cup ToSet(queue)
  OBVIOUS
<1> HIDE DEF now
<1>7. Holds(sent', Line', aside' \cup dropped')
  BY <1>1, <1>4, <1>5, <1>6, HoldsLess
<1> QED
  BY <1>2, <1>4, <1>7 DEF HeldInOrder

(* The head of the queue is heard, or turned away, or clears what is behind. *)
LEMMA HeadHeard ==
  ASSUME TypeOK, HeldInOrder, queue # <<>>, Line' = Append(Heard, Head(queue)) \o Tail(queue),
         UNCHANGED <<sent, aside, dropped>>, ~stranded' => ~stranded
  PROVE  HeldInOrder'
<1>1. Line' = Line
  BY MoveHead, LineTyped
<1> QED
  BY <1>1, Stays

LEMMA HeadTurnedAway ==
  ASSUME TypeOK, HeldInOrder, queue # <<>>, Line' = Heard \o Tail(queue),
         UNCHANGED <<sent, dropped>>, aside' = aside \cup {Head(queue)}, ~stranded' => ~stranded
  PROVE  HeldInOrder'
<1> DEFINE p == Head(queue)  rest == Tail(queue)
<1>1. /\ Once(Line') /\ ToSet(Line') = ToSet(Line) \ {p}
      /\ \A s : Ordered(s, Line) => Ordered(s, Line')
  BY HeadLeaves, LineTyped DEF HeldInOrder, Holds
<1>2. /\ p \in Prompts /\ rest \in Seq(Prompts) /\ Append(Heard, p) \in Seq(Prompts)
      /\ Append(Heard, p) \o rest = Line
  BY LineTyped, MoveHead, AppendProperties
<1>3. {p} \subseteq ToSet(Line)
  <2>1. ToSet(Append(Heard, p) \o rest) = ToSet(Append(Heard, p)) \cup ToSet(rest)
    BY <1>2, LineSet
  <2>2. ToSet(Append(Heard, p)) = ToSet(Heard) \cup {p}
    BY <1>2, SetOfAppend, LineTyped
  <2> QED
    BY <1>2, <2>1, <2>2
<1>4. aside' \cup dropped' = (aside \cup dropped) \cup {p}
  OBVIOUS
<1> QED
  BY <1>1, <1>3, <1>4, Leaves

LEMMA HeadClears ==
  ASSUME TypeOK, HeldInOrder, queue # <<>>, Line' = Append(Heard, Head(queue)),
         UNCHANGED <<sent, aside>>, dropped' = dropped \cup ToSet(Tail(queue)),
         ~stranded' => ~stranded
  PROVE  HeldInOrder'
<1> DEFINE p == Head(queue)  rest == Tail(queue)
<1>1. /\ p \in Prompts /\ rest \in Seq(Prompts) /\ Append(Heard, p) \in Seq(Prompts)
      /\ Append(Heard, p) \o rest = Line
  BY LineTyped, MoveHead, AppendProperties
<1>2. dropped' = dropped \cup ToSet(rest) /\ Line' = Append(Heard, p)
  OBVIOUS
<1> HIDE DEF p, rest
<1>3. /\ Once(Line') /\ ToSet(Line') = ToSet(Line) \ ToSet(rest)
      /\ \A s : Ordered(s, Line) => Ordered(s, Line')
  <2>1. Once(Append(Heard, p) \o rest)
    BY <1>1 DEF HeldInOrder, Holds
  <2> QED
    BY <1>1, <1>2, <2>1, Discarded
<1>4. ToSet(rest) \subseteq ToSet(Line)
  <2>1. ToSet(Append(Heard, p) \o rest) = ToSet(Append(Heard, p)) \cup ToSet(rest)
    BY <1>1, LineSet
  <2> QED
    BY <1>1, <2>1
<1>5. aside' \cup dropped' = (aside \cup dropped) \cup ToSet(rest)
  BY <1>2
<1> QED
  BY <1>3, <1>4, <1>5, Leaves

-----------------------------------------------------------------------------
(* What becomes of a prompt that begins from an idle terminal: it is heard,  *)
(* it is turned away, or it is a command that clears what is behind it.      *)
Outcome(p, rest) ==
  \/ Line' = Append(Heard, p) \o rest /\ UNCHANGED <<aside, dropped, stranded>>
  \/ Line' = Heard \o rest /\ aside' = aside \cup {p} /\ UNCHANGED dropped
  \/ /\ Line' = Append(Heard, p) /\ dropped' = dropped \cup ToSet(rest)
     /\ UNCHANGED <<aside, stranded>>

LEMMA Starts ==
  ASSUME TypeOK, OneTurn, ~running, owner' = owner,
         NEW p \in Prompts, NEW rest \in Seq(Prompts), StartTurn(p, rest)
  PROVE  Outcome(p, rest) /\ OneTurn'
<1>1. /\ waiting = <<>> /\ owner = {} /\ Heard = taken /\ taken \in Seq(Prompts)
      /\ queue' = rest /\ UNCHANGED <<taken, dropped>>
  BY LineTyped DEF OneTurn, StartTurn
<1>2. CASE running' = TRUE /\ waiting' = Append(waiting, p) /\ UNCHANGED <<aside, stranded>>
  <2>1. Append(<<>>, p) = <<p>> /\ taken \o <<p>> = Append(taken, p)
    BY <1>1, AppendIsConcat
  <2>2. waiting' = <<p>> /\ Line' = Append(Heard, p) \o rest
    BY <1>1, <1>2, <2>1 DEF Line
  <2>3. OneTurn'
    BY <1>1, <1>2, <2>2 DEF OneTurn
  <2> QED
    BY <1>1, <1>2, <2>2, <2>3 DEF Outcome
<1>3. CASE Refused(p, rest)
  <2>1. UNCHANGED <<running, waiting>> /\ aside' = aside \cup {p}
    BY <1>3 DEF Refused
  <2>2. taken \o <<>> = taken /\ Line' = Heard \o rest
    BY <1>1, <2>1, ConcatEmptySeq DEF Line
  <2> QED
    BY <1>1, <2>1, <2>2 DEF Outcome, OneTurn
<1> QED
  BY <1>2, <1>3 DEF StartTurn

LEMMA Runs ==
  ASSUME TypeOK, OneTurn, ~running, owner' = owner,
         NEW p \in Prompts, NEW rest \in Seq(Prompts), RunSlash(p, rest)
  PROVE  Outcome(p, rest) /\ OneTurn'
<1>1. CASE StartTurn(p, rest)
  BY <1>1, Starts
<1>2. CASE ~StartTurn(p, rest)
  <2>1. /\ waiting = <<>> /\ owner = {} /\ Heard = taken
        /\ taken' = Append(taken, p) /\ Append(taken, p) \in Seq(Prompts)
        /\ UNCHANGED <<running, waiting, aside, stranded>>
        /\ (queue' = rest /\ dropped' = dropped)
             \/ (queue' = <<>> /\ dropped' = dropped \cup ToSet(rest))
    BY <1>2, LineTyped, AppendProperties DEF OneTurn, RunSlash, Ran
  <2>2. Line' = Append(Heard, p) \o queue'
    BY <2>1, ConcatEmptySeq DEF Line
  <2>3. queue' = <<>> => Line' = Append(Heard, p)
    BY <2>1, <2>2, ConcatEmptySeq
  <2>4. OneTurn'
    BY <2>1 DEF OneTurn
  <2> QED
    BY <2>1, <2>2, <2>3, <2>4 DEF Outcome
<1> QED
  BY <1>1, <1>2

(* While it is pending, a message is reported as the head it is.             *)
LEMMA AppliedTakesHead ==
  ASSUME TypeOK, PendingIsHead, Applied
  PROVE  /\ queue # <<>> /\ pending' = {}
         /\ taken' = Append(taken, Head(queue)) /\ queue' = Tail(queue)
<1>1. PICK p \in pending : Ran(p) /\ queue' = DropOneByText(queue, Text[p])
  BY DEF Applied
<1>2. queue # <<>> /\ p = Head(queue)
  BY <1>1 DEF PendingIsHead
<1>3. DropOneByText(queue, Text[Head(queue)]) = Tail(queue)
  BY <1>2, DropsHead, LineTyped
<1> QED
  BY <1>1, <1>2, <1>3 DEF Applied, Ran

(* A queued message joins the line at its end, and steers only as its head.  *)
LEMMA EnqueueOrdered ==
  ASSUME TypeOK, HeldInOrder, PendingIsHead, OneTurn, NEW p \in Prompts,
         NEW deferred \in BOOLEAN, p \notin ToSet(sent), sent' = Append(sent, p),
         UNCHANGED owner, Enqueue(p, deferred)
  PROVE  HeldInOrder' /\ PendingIsHead' /\ OneTurn'
<1>1. /\ queue' = Append(queue, p)
      /\ UNCHANGED <<running, waiting, taken, aside, dropped, stranded>>
  BY DEF Enqueue
<1>2. Line' = Append(Line, p)
  BY <1>1, LineAppend, LineTyped DEF Line, Heard
<1>3. HeldInOrder'
  BY <1>1, <1>2, Grows
<1>4. PendingIsHead'
  <2>1. queue' # <<>> /\ (queue # <<>> => Head(queue') = Head(queue))
        /\ (Len(queue) = 0 => Head(queue') = p)
    <3>1. queue \in Seq(Prompts)
      BY LineTyped
    <3>2. /\ Append(queue, p) # <<>> /\ (Len(queue) = 0 => queue = <<>>)
          /\ Head(Append(queue, p)) = IF queue = <<>> THEN p ELSE Head(queue)
      BY <3>1, HeadTailAppend, AppendProperties, EmptySeq
    <3> QED
      BY <1>1, <3>2
  <2>2. CASE UNCHANGED pending
    BY <1>1, <2>1, <2>2 DEF PendingIsHead
  <2>3. CASE owner # {} /\ SteeringAction(p, Len(queue)) = "inject" /\ pending' = {p}
    <3>1. Len(queue) = 0
      BY <2>3 DEF SteeringAction
    <3> QED
      BY <1>1, <2>1, <2>3, <3>1 DEF PendingIsHead
  <2>4. CASE pending' = {}
    BY <2>4 DEF PendingIsHead
  <2> QED
    BY <2>2, <2>3, <2>4 DEF Enqueue
<1>5. OneTurn'
  BY <1>1 DEF OneTurn
<1> QED
  BY <1>3, <1>4, <1>5

LEMMA SubmitOrdered ==
  ASSUME TypeOK, IdleInv, OrderInv, ~doubled, NEW p \in Prompts, NEW deferred \in BOOLEAN,
         Submit(p, deferred)
  PROVE  HeldInOrder' /\ PendingIsHead' /\ OneTurn'
<1>1. /\ p \notin ToSet(sent) /\ sent' = Append(sent, p) /\ owner' = owner /\ drains = 0
      /\ HeldInOrder /\ PendingIsHead /\ OneTurn
  BY DEF Submit, ToSet, OrderInv
<1>2. CASE Live(p)
  <2>1. /\ aside' = aside \cup {p}
        /\ UNCHANGED <<running, waiting, queue, pending, taken, dropped, stranded>>
    BY <1>2 DEF Live
  <2>2. HeldInOrder'
    <3>1. Line' = Line
      BY <2>1 DEF Line
    <3> QED
      BY <1>1, <2>1, <3>1, GoesAside
  <2> QED
    BY <1>1, <2>1, <2>2 DEF PendingIsHead, OneTurn
<1>3. CASE Enqueue(p, deferred)
  BY <1>1, <1>3, EnqueueOrdered
<1>4. CASE ~Busy /\ (RunSlash(p, queue) \/ StartTurn(p, queue)) /\ UNCHANGED pending
  <2>1. ~running /\ work = "none" /\ owner = {} /\ pending' = {}
    BY <1>1, <1>4 DEF Busy, OneTurn, PendingIsHead
  <2>2. ~stranded => queue = <<>>
    BY <1>1, <2>1 DEF IdleInv
  <2>3. /\ Outcome(p, queue) /\ OneTurn' /\ (~stranded' => ~stranded)
        /\ queue \in Seq(Prompts)
    BY <1>1, <1>4, <2>1, Starts, Runs, StartIdle, RunIdle, LineTyped
  <2>4. HeldInOrder'
    BY <1>1, <2>2, <2>3, BeginsNow, GoesAside, ClearsNow, LineTyped DEF Outcome
  <2> QED
    BY <2>1, <2>3, <2>4 DEF PendingIsHead
<1> QED
  BY <1>2, <1>3, <1>4 DEF Submit

(* Draining the queue leaves the line as it is, but for what is turned away  *)
(* or thrown away; a second drain that finds a turn begun spoils it.         *)
LEMMA FlushOrdered ==
  ASSUME TypeOK, OrderInv, ~doubled, ~doubled', Flush
  PROVE  HeldInOrder' /\ PendingIsHead' /\ OneTurn'
<1>1. HeldInOrder /\ PendingIsHead /\ OneTurn /\ UNCHANGED <<owner, pending, sent>>
  BY DEF Flush, OrderInv
<1>2. CASE DrainOver
  <2>1. UNCHANGED <<waiting, queue, taken, aside, dropped, stranded>>
        /\ (running' = running \/ (~running /\ ~running'))
    BY <1>2 DEF DrainOver
  <2>2. HeldInOrder'
    <3>1. Line' = Line
      BY <2>1 DEF Line
    <3> QED
      BY <1>1, <2>1, <3>1, Stays
  <2> QED
    BY <1>1, <2>1, <2>2 DEF PendingIsHead, OneTurn
<1>3. CASE ~DrainOver
  <2> DEFINE p == Head(queue)  rest == Tail(queue)
  <2>1. queue # <<>> /\ ~running /\ (RunSlash(p, rest) \/ StartTurn(p, rest))
    BY <1>3 DEF Flush, Busy
  <2>2. p \in Prompts /\ rest \in Seq(Prompts)
    BY <2>1, LineTyped
  <2>3. Outcome(p, rest) /\ OneTurn' /\ (~stranded' => ~stranded)
    <3> HIDE DEF p, rest
    <3> QED
      BY <1>1, <2>1, <2>2, Starts, Runs, StartIdle, RunIdle
  <2>4. HeldInOrder'
    BY <1>1, <2>1, <2>3, HeadHeard, HeadTurnedAway, HeadClears DEF Outcome
  <2>5. pending' = {}
    BY <1>1, <2>1 DEF OneTurn, PendingIsHead
  <2> QED
    BY <2>3, <2>4, <2>5 DEF PendingIsHead
<1> QED
  BY <1>2, <1>3

(* The prompt whose turn gets the lock is heard in the place it waited in.   *)
LEMMA GrantOrdered ==
  ASSUME TypeOK, OrderInv, ~doubled, LockGranted
  PROVE  HeldInOrder' /\ PendingIsHead' /\ OneTurn'
<1>1. HeldInOrder /\ OneTurn /\ UNCHANGED <<running, queue, sent, aside, dropped, stranded>>
      /\ pending' = {} /\ waiting # <<>>
  BY DEF LockGranted, OrderInv
<1>2. PICK p \in Prompts : waiting = <<p>>
  BY <1>1 DEF OneTurn
<1>3. /\ Head(<<p>>) = p /\ Tail(<<p>>) = <<>> /\ taken \in Seq(Prompts)
      /\ Append(taken, p) = taken \o <<p>> /\ Append(taken, p) \in Seq(Prompts)
  BY LineTyped, AppendIsConcat, AppendProperties
<1>4. waiting' = <<>> /\ taken' = taken \o <<p>> /\ taken' \in Seq(Prompts)
  BY <1>2, <1>3 DEF LockGranted, Ran
<1>5. Line' = Line
  BY <1>1, <1>2, <1>4, ConcatEmptySeq DEF Line
<1>6. HeldInOrder'
  BY <1>1, <1>5, Stays
<1> QED
  BY <1>1, <1>4, <1>6 DEF PendingIsHead, OneTurn

(* The prompt whose wait is given up leaves the line.                        *)
LEMMA AbortOrdered ==
  ASSUME TypeOK, OrderInv, ~doubled, LockAborted
  PROVE  HeldInOrder' /\ PendingIsHead' /\ OneTurn'
<1>1. /\ HeldInOrder /\ PendingIsHead /\ OneTurn
      /\ UNCHANGED <<owner, queue, pending, sent, taken, aside, stranded>>
  BY DEF LockAborted, OrderInv
<1>2. PICK k \in DOMAIN waiting :
        waiting' = RemoveAt(waiting, k) /\ dropped' = dropped \cup {waiting[k]}
  BY DEF LockAborted
<1>3. PICK p \in Prompts : waiting = <<p>> /\ owner = {}
  BY <1>1, <1>2 DEF OneTurn
<1>4. k = 1 /\ waiting[k] = p
  BY <1>2, <1>3
<1>5. waiting' = <<>>
  <2>1. /\ <<p>> \in Seq(Prompts) /\ Len(<<p>>) = 1 /\ SubSeq(<<p>>, 1, 0) = <<>>
        /\ SubSeq(<<p>>, 2, 1) = <<>>
    BY SubSeqEmpty
  <2>2. RemoveAt(<<p>>, 1) = <<>> \o <<>>
    BY <2>1 DEF RemoveAt
  <2> QED
    BY <1>2, <1>3, <1>4, <2>2
<1> DEFINE q == <<p>> \o queue
<1>6. /\ <<p>> \in Seq(Prompts) /\ queue \in Seq(Prompts) /\ taken \in Seq(Prompts)
      /\ q \in Seq(Prompts) /\ q # <<>> /\ Head(q) = p /\ Tail(q) = queue
  BY LineTyped
<1>7. Line = taken \o q /\ Line' = taken \o Tail(q)
  BY <1>1, <1>3, <1>5, <1>6, ConcatAssociative, ConcatEmptySeq DEF Line
<1> HIDE DEF q
<1>8. /\ Once(Line') /\ ToSet(Line') = ToSet(Line) \ {p}
      /\ \A s : Ordered(s, Line) => Ordered(s, Line')
  <2>1. Once(taken \o q)
    BY <1>1, <1>7 DEF HeldInOrder, Holds
  <2>2. /\ Once(taken \o Tail(q)) /\ ToSet(taken \o Tail(q)) = ToSet(taken \o q) \ {p}
        /\ \A s : Ordered(s, taken \o q) => Ordered(s, taken \o Tail(q))
    BY <1>6, <2>1, HeadLeaves
  <2> QED
    BY <1>7, <2>2
<1>9. {p} \subseteq ToSet(Line)
  <2>1. /\ DOMAIN (taken \o q) = 1..Len(taken) + Len(q) /\ Len(taken) \in Nat /\ Len(q) \in Nat
        /\ \A j \in 1..Len(q) : (taken \o q)[Len(taken) + j] = q[j]
    BY <1>6, LineParts
  <2>2. 1 \in 1..Len(q) /\ q[1] = p
    BY <1>6
  <2>3. Len(taken) + 1 \in DOMAIN (taken \o q) /\ (taken \o q)[Len(taken) + 1] = p
    BY <2>1, <2>2
  <2> QED
    BY <1>7, <2>3 DEF ToSet
<1>10. HeldInOrder'
  <2>1. aside' \cup dropped' = (aside \cup dropped) \cup {p}
    BY <1>1, <1>2, <1>4
  <2> QED
    BY <1>1, <1>8, <1>9, <2>1, Leaves
<1>11. PendingIsHead'
  BY <1>1, <1>3 DEF PendingIsHead
<1>12. OneTurn'
  BY <1>1, <1>3, <1>5 DEF OneTurn
<1> QED
  BY <1>10, <1>11, <1>12

(* In the turn, the queue only ever loses its head to the conversation.      *)
LEMMA TurnOrdered ==
  ASSUME TypeOK, OrderInv, ~doubled, TurnStep
  PROVE  HeldInOrder' /\ PendingIsHead' /\ OneTurn'
<1>1. /\ HeldInOrder /\ PendingIsHead /\ OneTurn /\ owner # {}
      /\ UNCHANGED <<running, waiting, owner, sent, aside, dropped, stranded>>
  BY DEF TurnStep, host, OrderInv
<1>2. OneTurn' /\ waiting = <<>>
  BY <1>1 DEF OneTurn
<1>3. CASE Applied
  <2>1. /\ queue # <<>> /\ pending' = {}
        /\ taken' = Append(taken, Head(queue)) /\ queue' = Tail(queue)
    BY <1>1, <1>3, AppliedTakesHead
  <2>2. Line' = Append(Heard, Head(queue)) \o Tail(queue)
    <3>1. Append(taken, Head(queue)) \in Seq(Prompts) /\ Heard = taken
      BY <1>2, <2>1, LineTyped, AppendProperties
    <3> QED
      BY <1>1, <1>2, <2>1, <3>1, ConcatEmptySeq DEF Line
  <2>3. HeldInOrder'
    BY <1>1, <2>1, <2>2, HeadHeard
  <2> QED
    BY <1>2, <2>1, <2>3 DEF PendingIsHead
<1>4. CASE UNCHANGED <<queue, pending, taken>>
  <2>1. Line' = Line
    BY <1>1, <1>4 DEF Line
  <2>2. HeldInOrder'
    BY <1>1, <2>1, Stays
  <2> QED
    BY <1>1, <1>2, <1>4, <2>2 DEF PendingIsHead
<1> QED
  BY <1>3, <1>4 DEF TurnStep

(* Ctrl-C: what waits is thrown away.                                        *)
LEMMA DiscardOrdered ==
  ASSUME TypeOK, OrderInv, ~doubled, Discard
  PROVE  HeldInOrder' /\ PendingIsHead' /\ OneTurn'
<1>1. /\ HeldInOrder /\ OneTurn /\ queue' = <<>> /\ pending' = {}
      /\ dropped' = dropped \cup ToSet(queue)
      /\ UNCHANGED <<running, waiting, owner, sent, taken, aside, stranded>>
  BY DEF Discard, host, OrderInv
<1>2. Line' = Heard
  <2>1. Line' = Heard \o <<>>
    BY <1>1 DEF Line, Heard
  <2> QED
    BY <2>1, ConcatEmptySeq, LineTyped
<1>3. HeldInOrder'
  BY <1>1, <1>2, QueueLeaves
<1> QED
  BY <1>1, <1>3 DEF PendingIsHead, OneTurn

LEMMA StepOrdered == ASSUME TypeOK, IdleInv, OrderInv, [Next]_vars PROVE OrderInv'
<1> SUFFICES ASSUME ~doubled' PROVE HeldInOrder' /\ PendingIsHead' /\ OneTurn'
  BY DEF OrderInv
<1>1. ~doubled
  BY DEF Next, Submit, Flush, DrainOver, LockGranted, LockAborted, WorkEnds, TurnStep,
         EndTurn, Discard, record, vars
<1>2. HeldInOrder /\ PendingIsHead /\ OneTurn
  BY <1>1 DEF OrderInv
<1>3. CASE WorkEnds \/ UNCHANGED vars
  <2>1. UNCHANGED <<running, waiting, owner, queue, pending, sent, taken, aside, dropped, stranded>>
    BY <1>3 DEF WorkEnds, vars, host, record
  <2>2. HeldInOrder'
    <3>1. Line' = Line
      BY <2>1 DEF Line
    <3> QED
      BY <1>2, <2>1, <3>1, Stays
  <2> QED
    BY <1>2, <2>1, <2>2 DEF PendingIsHead, OneTurn
<1>4. CASE EndTurn
  <2>1. /\ owner # {} /\ owner' = {} /\ running' = FALSE /\ pending' = {}
        /\ UNCHANGED <<waiting, queue, sent, taken, aside, dropped, stranded>>
    BY <1>4 DEF EndTurn, record
  <2>2. HeldInOrder'
    <3>1. Line' = Line
      BY <2>1 DEF Line
    <3> QED
      BY <1>2, <2>1, <3>1, Stays
  <2> QED
    BY <1>2, <2>1, <2>2 DEF PendingIsHead, OneTurn
<1> QED
  BY <1>1, <1>3, <1>4, SubmitOrdered, FlushOrdered, GrantOrdered, AbortOrdered, TurnOrdered,
     DiscardOrdered DEF Next

LEMMA InitOrdered == Init => OrderInv
<1> SUFFICES ASSUME Init PROVE HeldInOrder /\ PendingIsHead /\ OneTurn
  BY DEF OrderInv
<1>1. <<>> \o <<>> = <<>> /\ DOMAIN <<>> = {}
  OBVIOUS
<1>2. ToSet(<<>>) = {} /\ Once(<<>>) /\ \A s : Ordered(s, <<>>)
  BY <1>1 DEF ToSet, Once, Ordered
<1>3. /\ sent = <<>> /\ Line = <<>> /\ aside = {} /\ dropped = {} /\ pending = {}
      /\ waiting = <<>> /\ owner = {}
  BY <1>1 DEF Init, Line
<1> QED
  BY <1>2, <1>3 DEF HeldInOrder, Holds, PendingIsHead, OneTurn

LEMMA OrderInvariant == Spec => [](OrderInv /\ InkInv)
<1>1. Init => TypeOK /\ IdleInv /\ InkInv /\ OrderInv
  BY InitTyped, InitOrdered DEF Init, IdleInv, InkInv
<1>2. TypeOK /\ IdleInv /\ InkInv /\ OrderInv /\ [Next]_vars
        => (TypeOK /\ IdleInv /\ InkInv /\ OrderInv)'
  BY StepTyped, StepIdle, StepInk, StepOrdered
<1> QED
  BY <1>1, <1>2, PTL DEF Spec

(* Whatever is typed, queued and steered, and however turns and commands     *)
(* end: every submission that was not answered aside and that nobody threw   *)
(* away is heard or waits, once, and in its place while no refusal has       *)
(* stranded the queue; unless the terminal has taken a turn for ended that   *)
(* had just begun.                                                           *)
THEOREM NonePassesAnother == Spec => []InOrder
<1>1. OrderInv => InOrder
  BY DEF OrderInv, HeldInOrder, InOrder, OrderKept, Holds, Ordered
<1> QED
  BY <1>1, OrderInvariant, PTL

(* The Ink terminal keeps the order of submission always: it neither takes a *)
(* turn for ended that had just begun nor strands its queue.                 *)
THEOREM InkKeepsOrder ==
  Spec => [](frontend = "ink" =>
               \A i, j \in DOMAIN Line : i < j => Before(sent, Line[i], Line[j]))
<1>1. OrderInv /\ InkInv => (frontend = "ink" =>
        \A i, j \in DOMAIN Line : i < j => Before(sent, Line[i], Line[j]))
  BY DEF OrderInv, InkInv, HeldInOrder, Ordered
<1> QED
  BY <1>1, OrderInvariant, PTL

(* A reported steer is the entry in front: the text that names it cannot     *)
(* take another entry's place, whichever entries share it; unless a turn was *)
(* taken for ended that had just begun, when the drain may take the entry.   *)
THEOREM SteerIsTheHead ==
  Spec => [](~doubled /\ pending # {} => queue # <<>> /\ pending = {Head(queue)})
<1>1. OrderInv => (~doubled /\ pending # {} => queue # <<>> /\ pending = {Head(queue)})
  BY DEF OrderInv, PendingIsHead
<1> QED
  BY <1>1, OrderInvariant, PTL
=============================================================================
