---------------------------- MODULE RpcPeerProofs ----------------------------
(***************************************************************************)
(* The editor's peer, for any sessions, ids and bounds. The seals are      *)
(* those of the requests that wait, each under a wire id of its own, so an *)
(* answer grants the request it echoes. The operations are counted, and    *)
(* the ledger holds each outcome until LedgerBound others came after it,   *)
(* so a request is answered once and run again only beyond that. And the   *)
(* input is never paused over operations that all wait for it.             *)
(***************************************************************************)
EXTENDS RpcPeer, WellFoundedInduction, FiniteSetTheorems, SequenceTheorems, TLAPS

LEMMA BoundFacts == Bound \in Nat \ {0} /\ LedgerBound \in Nat \ {0} /\ MaxAsks \in Nat
  BY PeerAssumption

SealsOf(set) == {a.wire : a \in set}

(* Every request that waits has its seal, and a wire id nobody had before.   *)
SealInv ==
  /\ wires \in Nat /\ asks \subseteq Approvals
  /\ seals = SealsOf(asks)
  /\ \A a \in asks : a.wire \in Nat /\ a.wire <= wires
  /\ \A a, b \in asks : a.wire = b.wire => a = b

LEMMA InitSeals == Init => SealInv
  BY DEF Init, SealInv, SealsOf

(* Whatever settles of the requests burns their seals and no other.          *)
LEMMA BurnKeeps ==
  ASSUME SealInv, NEW over \in SUBSET asks, asks' = asks \ over,
         seals' = seals \ {a.wire : a \in over}, UNCHANGED wires
  PROVE  SealInv'
<1>1. \A a \in asks, b \in over : a.wire = b.wire => a \in over
  BY DEF SealInv
<1>2. seals' = SealsOf(asks')
  BY <1>1 DEF SealInv, SealsOf
<1> QED
  BY <1>2 DEF SealInv

LEMMA AskKeeps ==
  ASSUME SealInv, NEW s \in Sessions, NEW p \in Params, NEW from \in Askers, Ask(s, p, from)
  PROVE  SealInv' /\ ~reading /\ granted' = granted
<1> DEFINE a0 == [wire |-> wires + 1, session |-> s, params |-> p, from |-> from]
<1>1. /\ wires' = wires + 1 /\ wires \in Nat
      /\ asks' = asks \cup {a0} /\ seals' = seals \cup {wires + 1}
      /\ ~reading /\ granted' = granted
  BY DEF Ask, SealInv
<1>2. a0.wire = wires + 1
  OBVIOUS
<1> HIDE DEF a0
<1>3. a0 \in Approvals /\ \A a \in asks : a.wire # wires + 1
  BY <1>1, BoundFacts DEF SealInv, Ask, Approvals, a0
<1>4. seals' = SealsOf(asks')
  BY <1>1, <1>2 DEF SealInv, SealsOf
<1>5. \A a \in asks' : a.wire \in Nat /\ a.wire <= wires'
  BY <1>1, <1>2 DEF SealInv
<1>6. \A a, b \in asks' : a.wire = b.wire => a = b
  BY <1>1, <1>2, <1>3 DEF SealInv
<1>7. asks' \subseteq Approvals /\ wires' \in Nat
  BY <1>1, <1>3 DEF SealInv
<1> QED
  BY <1>1, <1>4, <1>5, <1>6, <1>7 DEF SealInv

(* A turn that ends leaves the requests of its sub-agents, with their wire   *)
(* ids.                                                                      *)
LEMMA LeavingKeeps ==
  ASSUME SealInv, NEW s, asks' = {LeftBy(s, a) : a \in asks}, UNCHANGED <<seals, wires>>
  PROVE  SealInv'
<1>1. \A a \in asks : LeftBy(s, a) \in Approvals /\ LeftBy(s, a).wire = a.wire
  BY DEF LeftBy, SealInv, Approvals, Askers
<1>2. SealsOf(asks') = SealsOf(asks)
  BY <1>1 DEF SealsOf
<1>3. \A a \in asks' : \E b \in asks : a = LeftBy(s, b) /\ a.wire = b.wire
  BY <1>1
<1>4. \A a, b \in asks' : a.wire = b.wire => a = b
  BY <1>3 DEF SealInv
<1> QED
  BY <1>1, <1>2, <1>3, <1>4 DEF SealInv

LEMMA ChunkEndKeeps ==
  ASSUME SealInv, ChunkEnd
  PROVE  /\ SealInv'
         /\ \A a \in granted' \ granted :
              /\ a \in asks /\ ~Interrupted(a)
              /\ \E t \in told : t.wire = a.wire /\ t.echo = a.params
<1> DEFINE over == {a \in asks : Interrupted(a) \/ \E t \in told : t.wire = a.wire}
<1>1. /\ granted' = granted \cup {a \in over : Gate(a)}
      /\ seals' = seals \ {a.wire : a \in over}
      /\ asks' = asks \ over /\ UNCHANGED wires
  BY DEF ChunkEnd
<1>2. over \in SUBSET asks
  OBVIOUS
<1> HIDE DEF over
<1>3. SealInv'
  BY <1>1, <1>2, BurnKeeps
<1>4. \A a \in granted' \ granted : a \in asks /\ Gate(a)
  BY <1>1, <1>2
<1> QED
  BY <1>3, <1>4 DEF Gate, Authorize

(* No other step grants anything.                                            *)
LEMMA StepSeals ==
  ASSUME SealInv, [Next]_vars
  PROVE  /\ SealInv'
         /\ \A a \in granted' \ granted :
              /\ a \in asks /\ ~Interrupted(a)
              /\ \E t \in told : t.wire = a.wire /\ t.echo = a.params
<1>1. ASSUME UNCHANGED <<asks, seals, wires, granted>>
      PROVE  SealInv' /\ granted' \ granted = {}
  BY <1>1 DEF SealInv
<1>2. CASE UNCHANGED vars
  BY <1>1, <1>2 DEF vars, approvals
<1>3. CASE \E id \in Ids : Handshake(id)
  BY <1>1, <1>3 DEF Handshake, approvals
<1>4. CASE \E r \in Requests : Request(r) \/ ForceCancel(r) \/ HandlerEnds(r) \/ LateResult(r)
  BY <1>1, <1>4 DEF Request, ForceCancel, HandlerEnds, LateResult, approvals
<1>5. CASE \E s \in Sessions : Cancel(s) \/ TurnEnds(s)
  <2>1. CASE \E s \in Sessions : Cancel(s)
    BY <1>1, <2>1 DEF Cancel, approvals
  <2>2. CASE \E s \in Sessions : TurnEnds(s)
    BY <2>2, LeavingKeeps DEF TurnEnds
  <2> QED
    BY <1>5, <2>1, <2>2
<1>6. CASE \E s \in Sessions, p \in Params, from \in Askers : Ask(s, p, from)
  BY <1>6, AskKeeps
<1>7. CASE \E a \in asks, e \in Params \cup {NoParams}, allow \in BOOLEAN : Answer(a, e, allow)
  BY <1>1, <1>7 DEF Answer
<1>8. CASE Die
  BY <1>1, <1>8 DEF Die, approvals
<1>9. CASE ChunkEnd
  BY <1>9, ChunkEndKeeps
<1>10. CASE Shutdown \/ End
  <2>1. asks' = asks \ asks /\ seals' = seals \ {a.wire : a \in asks}
        /\ UNCHANGED <<wires, granted>>
    BY <1>10 DEF Shutdown, End
  <2>2. asks \in SUBSET asks
    OBVIOUS
  <2>3. SealInv'
    BY <2>1, <2>2, BurnKeeps
  <2> QED
    BY <2>1, <2>3
<1>11. CASE \E a \in asks : AgentStops(a)
  <2> PICK b \in asks : AgentStops(b)
    BY <1>11
  <2>1. asks' = asks \ {b} /\ UNCHANGED <<wires, granted>>
        /\ seals' = seals \ {a.wire : a \in {b}}
    BY DEF AgentStops
  <2>2. {b} \in SUBSET asks
    OBVIOUS
  <2>3. SealInv'
    BY <2>1, <2>2, BurnKeeps
  <2> QED
    BY <2>1, <2>3
<1> QED
  BY <1>2, <1>3, <1>4, <1>5, <1>6, <1>7, <1>8, <1>9, <1>10, <1>11 DEF Next

(* The seals that authorize() would burn are those of the requests to the    *)
(* editor that wait, and no wire id is used twice.                           *)
THEOREM SealsAreOfAsks == Spec => []SealInv
<1>1. SealInv /\ [Next]_vars => SealInv'
  BY StepSeals
<1> QED
  BY <1>1, InitSeals, PTL DEF Spec

(* An answer that arrives late, twice, for another request or after an       *)
(* interrupt grants nothing, and no seal outlives its request.               *)
THEOREM GrantsAreMatched == Spec => GrantsMatch
<1>1. ASSUME SealInv, [Next]_vars
      PROVE  [/\ \A a \in granted' \ granted :
                   /\ a \in asks /\ ~Interrupted(a)
                   /\ \E t \in told : t.wire = a.wire /\ t.echo = a.params
              /\ ~reading' => seals' = {a.wire : a \in asks'}]_vars
  BY <1>1, StepSeals DEF SealInv, SealsOf
<1> QED
  BY <1>1, SealsAreOfAsks, PTL DEF Spec, GrantsMatch
-----------------------------------------------------------------------------
(* Sequences of operations.                                                  *)
DistinctIds(q) == \A j, k \in DOMAIN q : q[j].id = q[k].id => j = k
From(rest, q) == \A j \in DOMAIN rest : \E k \in DOMAIN q : rest[j] = q[k]
IdFree(q, id) == \A j \in DOMAIN q : q[j].id # id

(* The operations: what is live or remembered is counted, each id once, and  *)
(* an outcome that is remembered stands as far from the ledger's end as      *)
(* others have been recorded since.                                          *)
LiveInv ==
  /\ live \in Seq(Requests) /\ inflight = Len(live) /\ inflight <= Bound
  /\ DistinctIds(live)
  /\ answered \in [Ids -> Nat] /\ AnsweredOnce
(* What is remembered.                                                      *)
LedgerInv ==
  /\ ledger \in Seq(Requests) /\ Len(ledger) <= LedgerBound
  /\ since \in [Ids -> 0..LedgerBound]
  /\ peer # "dead" =>
       \A i \in Ids : since[i] < LedgerBound =>
         since[i] < Len(ledger) /\ ledger[Len(ledger) - since[i]].id = i
PeerInv ==
  /\ peer \in {"greeting", "ready", "dead"}
  /\ peer = "greeting" => live = <<>> /\ \A i \in Ids : since[i] = LedgerBound
OpsInv == LiveInv /\ LedgerInv /\ PeerInv

(* Where the j-th of a sequence stood before its m-th was removed.           *)
Before(m, j) == IF j < m THEN j ELSE j + 1

(* Without one of its operations, a sequence of operations with distinct ids *)
(* holds the others.                                                         *)
LEMMA RemoveFacts ==
  ASSUME NEW q \in Seq(Requests), NEW op, NEW i \in DOMAIN q, q[i] = op,
         DistinctIds(q), NEW rest, rest = RemoveFirst(q, op)
  PROVE  /\ rest \in Seq(Requests) /\ Len(rest) = Len(q) - 1
         /\ DistinctIds(rest) /\ From(rest, q) /\ IdFree(rest, op.id)
<1> DEFINE I == {k \in 1..Len(q) : q[k] = op}
           m == Min(I)
<1>1. Len(q) \in Nat /\ i \in I /\ I \subseteq Nat
  OBVIOUS
<1>2. \E k \in I : \A j \in I : k <= j
  <2> HIDE DEF I
  <2>1. PICK k \in I : \A j \in I : ~(<<j, k>> \in OpToRel(<, Nat))
    BY <1>1, NatLessThanWellFounded, WFMin
  <2>2. \A x, y \in Nat : <<y, x>> \in OpToRel(<, Nat) <=> y < x
    BY DEF OpToRel
  <2>3. \A j \in I : ~(j < k)
    BY <1>1, <2>1, <2>2
  <2> QED
    BY <1>1, <2>3
<1>3. m \in I
  <2> HIDE DEF I
  <2> QED
    BY <1>2 DEF Min
<1>4. RemoveFirst(q, op) = RemoveAt(q, m)
  <2>1. \E k \in 1..Len(q) : q[k] = op
    BY <1>1
  <2>2. I # {}
    BY <1>1
  <2> QED
    BY <2>1, <2>2 DEF RemoveFirst, SelectInSeq
<1> HIDE DEF m
<1>5. m \in 1..Len(q) /\ q[m] = op
  BY <1>3
<1>6. /\ SubSeq(q, 1, m - 1) \in Seq(Requests) /\ Len(SubSeq(q, 1, m - 1)) = m - 1
      /\ SubSeq(q, m + 1, Len(q)) \in Seq(Requests) /\ Len(SubSeq(q, m + 1, Len(q))) = Len(q) - m
  BY <1>1, <1>5
<1>7. /\ \A j \in 1..m - 1 : SubSeq(q, 1, m - 1)[j] = q[j]
      /\ \A j \in 1..Len(q) - m : SubSeq(q, m + 1, Len(q))[j] = q[j + m]
  BY <1>1, <1>5
<1> DEFINE front == SubSeq(q, 1, m - 1)
           back == SubSeq(q, m + 1, Len(q))
           r == front \o back
<1>8. RemoveFirst(q, op) = r
  BY <1>4 DEF RemoveAt
<1> HIDE DEF front, back
<1>9. /\ r \in Seq(Requests) /\ Len(r) = Len(q) - 1
      /\ \A j \in 1..Len(q) - 1 : r[j] = IF j < m THEN front[j] ELSE back[j - (m - 1)]
  <2>1. /\ front \in Seq(Requests) /\ back \in Seq(Requests)
        /\ Len(front) = m - 1 /\ Len(back) = Len(q) - m
    BY <1>6 DEF front, back
  <2>2. /\ r \in Seq(Requests) /\ Len(r) = Len(front) + Len(back)
        /\ \A j \in 1..Len(front) + Len(back) :
             r[j] = IF j <= Len(front) THEN front[j] ELSE back[j - Len(front)]
    BY <2>1, ConcatProperties
  <2> HIDE DEF r
  <2>3. ASSUME NEW j \in 1..Len(q) - 1
        PROVE  r[j] = IF j <= Len(front) THEN front[j] ELSE back[j - Len(front)]
    BY <1>1, <1>5, <2>1, <2>2
  <2> QED
    BY <1>1, <1>5, <2>1, <2>2, <2>3
<1> HIDE DEF r
<1>10. \A j \in DOMAIN r : r[j] = q[Before(m, j)]
  <2> SUFFICES ASSUME NEW j \in 1..Len(q) - 1
               PROVE  r[j] = q[Before(m, j)]
    BY <1>1, <1>9
  <2>1. r[j] = IF j < m THEN front[j] ELSE back[j - (m - 1)]
    BY <1>9
  <2>2. CASE j < m
    BY <1>5, <1>7, <2>1, <2>2 DEF front, Before
  <2>3. CASE ~(j < m)
    <3>1. j - (m - 1) \in 1..Len(q) - m /\ j - (m - 1) + m = j + 1
      BY <1>1, <1>5, <2>3
    <3> QED
      BY <1>7, <2>1, <2>3, <3>1 DEF back, Before
  <2> QED
    BY <2>2, <2>3
<1>11. \A j \in DOMAIN r : Before(m, j) \in DOMAIN q /\ Before(m, j) # m
  BY <1>1, <1>5, <1>9 DEF Before
<1>12. ASSUME NEW j \in DOMAIN r, NEW k \in DOMAIN r, r[j].id = r[k].id PROVE j = k
  <2>1. Before(m, j) = Before(m, k)
    BY <1>10, <1>11, <1>12 DEF DistinctIds
  <2>2. j \in Nat /\ k \in Nat /\ m \in Nat
    BY <1>1, <1>5, <1>9
  <2> QED
    BY <2>1, <2>2 DEF Before
<1>13. DistinctIds(r) /\ From(r, q)
  BY <1>10, <1>11, <1>12 DEF DistinctIds, From
<1>14. IdFree(r, op.id)
  BY <1>5, <1>10, <1>11 DEF IdFree, DistinctIds
<1> QED
  BY <1>8, <1>9, <1>13, <1>14

(* What remember() leaves: the newest outcomes, LedgerBound at most.         *)
LEMMA RememberFacts ==
  ASSUME NEW s \in Seq(Requests), ledger \in Seq(Requests), Remember(s)
  PROVE  /\ ledger' \in Seq(Requests) /\ Len(ledger') <= LedgerBound
         /\ Len(ledger') = IF Len(ledger) + Len(s) > LedgerBound THEN LedgerBound
                           ELSE Len(ledger) + Len(s)
         /\ \A j \in 1..Len(ledger') :
              ledger'[j] = (ledger \o s)[j + (Len(ledger) + Len(s) - Len(ledger'))]
<1> DEFINE all == ledger \o s
<1>1. all \in Seq(Requests) /\ Len(all) = Len(ledger) + Len(s)
  BY ConcatProperties
<1>2. ledger' = SubSeq(all, IF Len(all) > LedgerBound THEN Len(all) - LedgerBound + 1 ELSE 1,
                       Len(all))
  BY DEF Remember
<1>3. Len(ledger) \in Nat /\ Len(s) \in Nat /\ Len(all) \in Nat
  BY <1>1
<1> DEFINE from == IF Len(all) > LedgerBound THEN Len(all) - LedgerBound + 1 ELSE 1
<1> HIDE DEF all
<1>4. from \in Nat \ {0} /\ from <= Len(all) + 1 /\ ledger' = SubSeq(all, from, Len(all))
  BY <1>2, <1>3, BoundFacts
<1>5. Len(all) - from + 1 = IF Len(all) > LedgerBound THEN LedgerBound ELSE Len(all)
  BY <1>3, BoundFacts
<1> HIDE DEF from
<1>6. /\ ledger' \in Seq(Requests) /\ Len(ledger') = Len(all) - from + 1
      /\ \A j \in 1..Len(all) - from + 1 : ledger'[j] = all[from + j - 1]
  <2>1. /\ from \in 1..Len(all) + 1 /\ Len(all) \in from - 1..Len(all)
    BY <1>3, <1>4
  <2>2. /\ SubSeq(all, from, Len(all)) \in Seq(Requests)
        /\ Len(SubSeq(all, from, Len(all))) = IF from <= Len(all) THEN Len(all) - from + 1 ELSE 0
        /\ \A j \in 1..Len(all) - from + 1 :
             SubSeq(all, from, Len(all))[j] = all[from + j - 1]
    BY <1>1, <2>1, SubSeqProperties
  <2> QED
    BY <1>3, <1>4, <2>2
<1>7. ASSUME NEW j \in 1..Len(ledger')
      PROVE  ledger'[j] = all[j + (Len(all) - Len(ledger'))]
  <2>1. j \in 1..Len(all) - from + 1 /\ from + j - 1 = j + (Len(all) - Len(ledger'))
    BY <1>3, <1>4, <1>6
  <2> QED
    BY <1>6, <2>1
<1>8. Len(ledger') = IF Len(all) > LedgerBound THEN LedgerBound ELSE Len(all)
  BY <1>5, <1>6
<1>9. Len(ledger') <= LedgerBound
  BY <1>3, <1>8, BoundFacts
<1>10. /\ Len(ledger') = IF Len(ledger) + Len(s) > LedgerBound THEN LedgerBound
                         ELSE Len(ledger) + Len(s)
       /\ \A j \in 1..Len(ledger') :
            ledger'[j] = all[j + (Len(ledger) + Len(s) - Len(ledger'))]
  <2>1. Len(ledger') = IF Len(ledger) + Len(s) > LedgerBound THEN LedgerBound
                       ELSE Len(ledger) + Len(s)
    BY <1>1, <1>8
  <2>2. ASSUME NEW j \in 1..Len(ledger')
        PROVE  ledger'[j] = all[j + (Len(ledger) + Len(s) - Len(ledger'))]
    BY <1>1, <1>7
  <2> QED
    BY <2>1, <2>2
<1> QED
  BY <1>6, <1>9, <1>10 DEF all

LEMMA SettleKeeps ==
  ASSUME OpsInv, NEW op \in Requests, NEW i \in DOMAIN live, live[i] = op,
         Settle(op), UNCHANGED peer
  PROVE  OpsInv'
<1>1. /\ live \in Seq(Requests) /\ Len(live) \in Nat /\ inflight = Len(live)
      /\ inflight <= Bound /\ Bound \in Nat
      /\ live' = RemoveFirst(live, op) /\ inflight' = inflight - 1
      /\ DistinctIds(live)
  BY BoundFacts DEF OpsInv, LiveInv, Settle
<1>2. live' \in Seq(Requests) /\ Len(live') = Len(live) - 1
  BY <1>1, RemoveFacts
<1>3. DistinctIds(live') /\ From(live', live) /\ IdFree(live', op.id)
  BY <1>1, RemoveFacts
<1>4. answered' \in [Ids -> Nat] /\ AnsweredOnce'
  <2>1. op.id \in Ids /\ answered[op.id] = 0
    BY DEF OpsInv, LiveInv, AnsweredOnce, Requests
  <2>2. answered' = [answered EXCEPT ![op.id] = answered[op.id] + 1]
    BY DEF Settle
  <2> QED
    BY <1>3, <2>1, <2>2 DEF OpsInv, LiveInv, AnsweredOnce, From, IdFree
<1>5. LiveInv'
  BY <1>1, <1>2, <1>3, <1>4 DEF LiveInv
<1>6. /\ ledger \in Seq(Requests) /\ Len(ledger) <= LedgerBound /\ Len(ledger) \in Nat
      /\ since \in [Ids -> 0..LedgerBound] /\ LedgerBound \in Nat \ {0}
      /\ <<op>> \in Seq(Requests) /\ Len(<<op>>) = 1
  BY BoundFacts DEF OpsInv, LedgerInv
<1> DEFINE all == ledger \o <<op>>
<1>7. /\ ledger' \in Seq(Requests) /\ Len(ledger') <= LedgerBound
      /\ Len(ledger') = IF Len(ledger) + 1 > LedgerBound THEN LedgerBound ELSE Len(ledger) + 1
      /\ \A j \in 1..Len(ledger') :
           ledger'[j] = all[j + (Len(ledger) + 1 - Len(ledger'))]
  BY <1>6, RememberFacts DEF Settle
<1>8. /\ \A j \in 1..Len(ledger) : all[j] = ledger[j]
      /\ all[Len(ledger) + 1] = op
  BY <1>6
<1> HIDE DEF all
<1>9. since' = [j \in Ids |-> IF j = op.id THEN 0 ELSE Capped(since[j] + 1)]
  BY DEF Settle, Recorded
<1>10. \A j \in Ids : since'[j] \in 0..LedgerBound
  BY <1>6, <1>9 DEF Capped
<1>11. ASSUME peer # "dead", NEW j \in Ids, since'[j] < LedgerBound
       PROVE  since'[j] < Len(ledger') /\ ledger'[Len(ledger') - since'[j]].id = j
  <2>1. CASE j = op.id
    <3>1. since'[j] = 0
      BY <1>9, <2>1
    <3>2. Len(ledger') \in 1..LedgerBound
      BY <1>6, <1>7
    <3>3. ledger'[Len(ledger')] = op
      <4>1. /\ Len(ledger') \in 1..Len(ledger')
            /\ Len(ledger') + (Len(ledger) + 1 - Len(ledger')) = Len(ledger) + 1
        BY <1>6, <3>2
      <4>2. ledger'[Len(ledger')]
              = all[Len(ledger') + (Len(ledger) + 1 - Len(ledger'))]
        BY <1>7, <4>1
      <4> QED
        BY <1>8, <4>1, <4>2
    <3> QED
      BY <2>1, <3>1, <3>2, <3>3
  <2>2. CASE j # op.id
    <3>1. since'[j] = since[j] + 1 /\ since[j] < LedgerBound /\ since[j] \in Nat
      BY <1>6, <1>9, <1>11, <2>2 DEF Capped
    <3>2. since[j] < Len(ledger) /\ ledger[Len(ledger) - since[j]].id = j
      BY <1>11, <3>1 DEF OpsInv, LedgerInv
    <3>3. since'[j] < Len(ledger') /\ Len(ledger') \in Nat /\ Len(ledger) \in Nat
      BY <1>6, <1>7, <1>11, <3>1, <3>2
    <3>4. /\ Len(ledger') - since'[j] \in 1..Len(ledger')
          /\ Len(ledger') - since'[j] + (Len(ledger) + 1 - Len(ledger')) = Len(ledger) - since[j]
          /\ Len(ledger) - since[j] \in 1..Len(ledger)
      <4> DEFINE m == Len(ledger')
                 n == Len(ledger)
                 after == since'[j]
                 before == since[j]
      <4>1. /\ m \in Nat /\ n \in Nat /\ before \in Nat /\ after = before + 1
            /\ after < m /\ before < n
        BY <3>1, <3>2, <3>3
      <4> HIDE DEF m, n, after, before
      <4>2. /\ m - after \in 1..m /\ m - after + (n + 1 - m) = n - before
            /\ n - before \in 1..n
        BY <4>1
      <4> QED
        BY <4>2 DEF m, n, after, before
    <3>5. ledger'[Len(ledger') - since'[j]] = ledger[Len(ledger) - since[j]]
      BY <1>7, <1>8, <3>4
    <3> QED
      BY <3>2, <3>3, <3>5
  <2> QED
    BY <2>1, <2>2
<1>12. LedgerInv'
  BY <1>7, <1>9, <1>10, <1>11 DEF LedgerInv
<1>13. PeerInv'
  BY DEF OpsInv, PeerInv
<1> QED
  BY <1>5, <1>12, <1>13 DEF OpsInv

(* A request begins: its id is neither live nor remembered.                  *)
LEMMA ExecuteKeeps ==
  ASSUME OpsInv, NEW op \in Requests, IdFree(live, op.id), inflight < Bound,
         Execute(op), peer # "dead", peer' = "ready", UNCHANGED ledger
  PROVE  OpsInv'
<1>1. /\ live \in Seq(Requests) /\ Len(live) \in Nat /\ inflight = Len(live)
      /\ Bound \in Nat /\ op.id \in Ids
      /\ live' = Append(live, op) /\ inflight' = inflight + 1
      /\ answered' = [answered EXCEPT ![op.id] = 0]
  BY BoundFacts DEF OpsInv, LiveInv, Execute, Requests
<1>2. /\ live' \in Seq(Requests) /\ Len(live') = Len(live) + 1 /\ inflight' <= Bound
      /\ \A j \in 1..Len(live) : live'[j] = live[j]
      /\ live'[Len(live) + 1] = op
  BY <1>1
<1>3. DistinctIds(live')
  <2> SUFFICES ASSUME NEW j \in 1..Len(live) + 1, NEW k \in 1..Len(live) + 1,
                      live'[j].id = live'[k].id
               PROVE  j = k
    BY <1>1, <1>2 DEF DistinctIds
  <2>1. CASE j \in 1..Len(live) /\ k \in 1..Len(live)
    <3>1. j \in DOMAIN live /\ k \in DOMAIN live /\ DistinctIds(live)
      BY <1>1, <2>1 DEF OpsInv, LiveInv
    <3>2. live[j].id = live[k].id
      BY <1>2, <2>1
    <3> QED
      BY <3>1, <3>2 DEF DistinctIds
  <2>2. CASE j = Len(live) + 1 /\ k \in 1..Len(live)
    BY <1>1, <1>2, <2>2 DEF IdFree
  <2>3. CASE k = Len(live) + 1 /\ j \in 1..Len(live)
    BY <1>1, <1>2, <2>3 DEF IdFree
  <2> QED
    BY <1>1, <2>1, <2>2, <2>3
<1>4. answered' \in [Ids -> Nat] /\ AnsweredOnce'
  <2>1. \A k \in DOMAIN live' : k \in DOMAIN live \/ live'[k] = op
    BY <1>1, <1>2
  <2> QED
    BY <1>1, <1>2, <2>1 DEF OpsInv, LiveInv, AnsweredOnce
<1>5. LedgerInv' /\ PeerInv'
  BY DEF OpsInv, LedgerInv, PeerInv, Execute
<1> QED
  BY <1>1, <1>2, <1>3, <1>4, <1>5 DEF OpsInv, LiveInv

(* teardown(): what is live is remembered, and nothing runs any more.        *)
LEMMA TeardownKeeps ==
  ASSUME OpsInv, live' = <<>>, inflight' = 0, Remember(live), peer' = "dead",
         UNCHANGED <<answered, since>>
  PROVE  OpsInv'
<1>1. live \in Seq(Requests) /\ ledger \in Seq(Requests)
  BY DEF OpsInv, LiveInv, LedgerInv
<1>2. ledger' \in Seq(Requests) /\ Len(ledger') <= LedgerBound
  BY <1>1, RememberFacts
<1>3. LiveInv'
  <2>1. live' \in Seq(Requests) /\ Len(live') = 0 /\ DOMAIN live' = {}
    OBVIOUS
  <2> QED
    BY <2>1, BoundFacts DEF OpsInv, LiveInv, DistinctIds, AnsweredOnce
<1> QED
  BY <1>2, <1>3 DEF OpsInv, LedgerInv, PeerInv

LEMMA OpsSame ==
  ASSUME OpsInv, UNCHANGED <<live, inflight, ledger, answered, since, peer>>
  PROVE  OpsInv'
  BY DEF OpsInv, LiveInv, LedgerInv, PeerInv, AnsweredOnce

LEMMA InitOps == Init => OpsInv
<1> SUFFICES ASSUME Init PROVE OpsInv
  OBVIOUS
<1>1. live = <<>> /\ ledger = <<>> /\ <<>> \in Seq(Requests) /\ Len(<<>>) = 0 /\ DOMAIN <<>> = {}
  BY DEF Init
<1>2. LiveInv
  BY <1>1, BoundFacts DEF Init, LiveInv, DistinctIds, AnsweredOnce
<1>3. LedgerInv /\ PeerInv
  BY <1>1, BoundFacts DEF Init, LedgerInv, PeerInv
<1> QED
  BY <1>2, <1>3 DEF OpsInv

LEMMA StepOps == ASSUME OpsInv, [Next]_vars PROVE OpsInv'
<1>1. ASSUME NEW op \in Requests, Settle(op), UNCHANGED peer,
             \E k \in DOMAIN live : live[k] = op
      PROVE  OpsInv'
  BY <1>1, SettleKeeps
<1>2. ASSUME NEW op \in Requests, Request(op) PROVE OpsInv'
  <2>1. IdFree(live, op.id) /\ peer = "ready" /\ peer' = "ready" /\ UNCHANGED ledger
    BY <1>2 DEF Request, Execute, IdFree
  <2> QED
    BY <1>2, <2>1, ExecuteKeeps DEF Request
<1>3. ASSUME NEW id \in Ids, Handshake(id) PROVE OpsInv'
  <2> DEFINE op == [id |-> id, content |-> "brief"]
  <2>1. op \in Requests
    BY DEF Requests, Contents
  <2>2. live = <<>> /\ inflight = 0 /\ IdFree(live, op.id)
    BY <1>3 DEF Handshake, OpsInv, PeerInv, LiveInv, IdFree
  <2>3. Execute(op) /\ peer # "dead" /\ peer' = "ready" /\ UNCHANGED ledger
    BY <1>3 DEF Handshake, Execute
  <2> HIDE DEF op
  <2> QED
    BY <2>1, <2>2, <2>3, ExecuteKeeps, BoundFacts
<1>4. ASSUME NEW op \in Requests, ForceCancel(op) \/ HandlerEnds(op) PROVE OpsInv'
  BY <1>1, <1>4 DEF ForceCancel, HandlerEnds
<1>5. ASSUME NEW op \in Requests, LateResult(op) PROVE OpsInv'
  BY <1>5, OpsSame DEF LateResult
<1>6. ASSUME NEW s \in Sessions, TurnEnds(s) PROVE OpsInv'
  <2> DEFINE op == [id |-> owner[s], content |-> s]
  <2>1. CASE \E k \in DOMAIN live : live[k] = op
    <3>1. op \in Requests
      BY <2>1 DEF OpsInv, LiveInv
    <3>2. Settle(op) /\ UNCHANGED peer
      BY <1>6, <2>1 DEF TurnEnds
    <3> HIDE DEF op
    <3> QED
      BY <1>1, <2>1, <3>1, <3>2
  <2>2. CASE ~ \E k \in DOMAIN live : live[k] = op
    BY <1>6, <2>2, OpsSame DEF TurnEnds, ops
  <2> QED
    BY <2>1, <2>2
<1>7. ASSUME NEW s \in Sessions, Cancel(s) \/ \E p \in Params, from \in Askers : Ask(s, p, from) PROVE OpsInv'
  BY <1>7, OpsSame DEF Cancel, Ask, ops
<1>8. ASSUME NEW a \in asks, NEW e, NEW allow, Answer(a, e, allow) \/ AgentStops(a) PROVE OpsInv'
  BY <1>8, OpsSame DEF Answer, AgentStops, ops
<1>9. CASE Die \/ End
  BY <1>9, TeardownKeeps DEF Die, End
<1>10. CASE ChunkEnd \/ Shutdown
  BY <1>10, OpsSame DEF ChunkEnd, Shutdown, ops
<1>11. CASE UNCHANGED vars
  BY <1>11, OpsSame DEF vars, ops
<1> QED
  BY <1>2, <1>3, <1>4, <1>5, <1>6, <1>7, <1>8, <1>9, <1>10, <1>11 DEF Next

(* The operations in flight are counted and have ids of their own, and each  *)
(* outcome the ledger still has to hold stands where the next LedgerBound    *)
(* outcomes find it.                                                         *)
THEOREM OperationsInvariant == Spec => []OpsInv
<1>1. OpsInv /\ [Next]_vars => OpsInv'
  BY StepOps
<1> QED
  BY <1>1, InitOps, PTL DEF Spec

(* A request is answered once per run, and not by the handler that outlives  *)
(* its cancellation.                                                         *)
THEOREM AnswersAreSingle == Spec => []AnsweredOnce
<1>1. OpsInv => AnsweredOnce
  BY DEF OpsInv, LiveInv
<1> QED
  BY <1>1, OperationsInvariant, PTL

(* What a step adds to the live operations is one that was let in.           *)
LEMMA StepAdmits ==
  ASSUME OpsInv, [Next]_vars, NEW op \in Requests,
         \E k \in DOMAIN live' : live'[k] = op, \A k \in DOMAIN live : live[k] # op
  PROVE  since[op.id] = LedgerBound
<1>1. ASSUME From(live', live) PROVE FALSE
  BY <1>1 DEF From
<1>2. UNCHANGED live => From(live', live)
  BY DEF From
<1>3. live' = <<>> => From(live', live)
  BY DEF From
<1>4. ASSUME NEW r \in Requests, Settle(r), \E k \in DOMAIN live : live[k] = r PROVE FALSE
  <2>1. live \in Seq(Requests) /\ DistinctIds(live) /\ live' = RemoveFirst(live, r)
    BY <1>4 DEF OpsInv, LiveInv, Settle
  <2> QED
    BY <1>1, <1>4, <2>1, RemoveFacts
<1>5. ASSUME NEW r \in Requests, Execute(r) PROVE r = op
  <2>1. live \in Seq(Requests) /\ live' = Append(live, r)
    BY <1>5 DEF OpsInv, LiveInv, Execute
  <2> QED
    BY <2>1
<1>6. op.id \in Ids
  BY DEF Requests
<1>7. ASSUME NEW r \in Requests, Request(r) PROVE since[op.id] = LedgerBound
  <2>1. r = op /\ peer # "dead" /\ \A k \in DOMAIN ledger : ledger[k].id # op.id
    BY <1>5, <1>7 DEF Request
  <2>2. since[op.id] \in 0..LedgerBound /\ Len(ledger) \in Nat
    BY <1>6 DEF OpsInv, LedgerInv
  <2>3. ASSUME since[op.id] < LedgerBound PROVE FALSE
    <3>1. /\ since[op.id] < Len(ledger) /\ ledger[Len(ledger) - since[op.id]].id = op.id
      BY <1>6, <2>1, <2>3 DEF OpsInv, LedgerInv
    <3>2. Len(ledger) - since[op.id] \in DOMAIN ledger
      BY <2>2, <3>1 DEF OpsInv, LedgerInv
    <3> QED
      BY <2>1, <3>1, <3>2
  <2> QED
    BY <2>2, <2>3, BoundFacts
<1>8. ASSUME NEW id \in Ids, Handshake(id) PROVE since[op.id] = LedgerBound
  BY <1>6, <1>8 DEF Handshake, OpsInv, PeerInv
<1>9. ASSUME NEW r \in Requests, ForceCancel(r) \/ HandlerEnds(r) PROVE FALSE
  BY <1>4, <1>9 DEF ForceCancel, HandlerEnds
<1>10. ASSUME NEW r \in Requests, LateResult(r) PROVE FALSE
  BY <1>1, <1>2, <1>10 DEF LateResult
<1>11. ASSUME NEW s \in Sessions, TurnEnds(s) PROVE FALSE
  <2> DEFINE r == [id |-> owner[s], content |-> s]
  <2>1. CASE \E k \in DOMAIN live : live[k] = r
    <3>1. r \in Requests
      BY <2>1 DEF OpsInv, LiveInv
    <3>2. Settle(r)
      BY <1>11, <2>1 DEF TurnEnds
    <3> HIDE DEF r
    <3> QED
      BY <1>4, <2>1, <3>1, <3>2
  <2>2. CASE ~ \E k \in DOMAIN live : live[k] = r
    BY <1>1, <1>2, <1>11, <2>2 DEF TurnEnds, ops
  <2> QED
    BY <2>1, <2>2
<1>12. ASSUME NEW s \in Sessions, Cancel(s) \/ \E p \in Params, from \in Askers : Ask(s, p, from) PROVE FALSE
  BY <1>1, <1>2, <1>12 DEF Cancel, Ask, ops
<1>13. ASSUME NEW a \in asks, NEW e, NEW allow, Answer(a, e, allow) \/ AgentStops(a) PROVE FALSE
  BY <1>1, <1>2, <1>13 DEF Answer, AgentStops, ops
<1>14. ~(Die \/ End)
  BY <1>1, <1>3 DEF Die, End
<1>15. ~(ChunkEnd \/ Shutdown \/ UNCHANGED vars)
  BY <1>1, <1>2 DEF ChunkEnd, Shutdown, vars, ops
<1> QED
  BY <1>7, <1>8, <1>9, <1>10, <1>11, <1>12, <1>13, <1>14, <1>15 DEF Next

(* A request is executed again only if LedgerBound other outcomes have been  *)
(* recorded since its own.                                                   *)
THEOREM RequestsRunOnce == Spec => RunsOnce
<1>1. ASSUME OpsInv, [Next]_vars
      PROVE  [\A op \in Requests :
                (\E k \in DOMAIN live' : live'[k] = op) /\ (\A k \in DOMAIN live : live[k] # op)
                  => since[op.id] = LedgerBound]_vars
  BY <1>1, StepAdmits
<1> QED
  BY <1>1, OperationsInvariant, PTL DEF Spec, RunsOnce

-----------------------------------------------------------------------------
(* The rest of the peer's state.                                             *)
InputTyped ==
  /\ stdin \in {"open", "paused", "ended"}
  /\ reading \in BOOLEAN /\ latched \in BOOLEAN /\ closing \in BOOLEAN
TurnsTyped ==
  /\ loose \subseteq Requests
  /\ owner \in [Sessions -> Ids \cup {NoId}] /\ cancelled \cup agents \subseteq Sessions
ApprovalsTyped ==
  /\ asks \cup granted \subseteq Approvals
  /\ seals \subseteq 1..MaxAsks /\ wires \in 0..MaxAsks
PeerTypedInv == OpsInv /\ InputTyped /\ TurnsTyped /\ ApprovalsTyped

LEMMA SettleInput == ASSUME InputTyped, NEW op, Settle(op), UNCHANGED <<reading, closing>>
                     PROVE  InputTyped'
<1>1. CASE latched /\ inflight' < Bound
  BY <1>1 DEF Settle, Drain, InputTyped
<1>2. CASE ~(latched /\ inflight' < Bound)
  BY <1>2 DEF Settle, Drain, InputTyped
<1> QED
  BY <1>1, <1>2

LEMMA StepInput == ASSUME InputTyped, [Next]_vars PROVE InputTyped'
<1>1. CASE UNCHANGED <<stdin, latched, closing>> /\ reading' \in BOOLEAN
  BY <1>1 DEF InputTyped
<1>2. ASSUME NEW op, Request(op) PROVE InputTyped'
  BY <1>1, <1>2 DEF Request, Frame
<1>3. ASSUME NEW id, Handshake(id) PROVE InputTyped'
  BY <1>1, <1>3 DEF Handshake, Frame
<1>4. ASSUME NEW op, ForceCancel(op) PROVE InputTyped'
  <2>1. /\ stdin' \in {stdin, "open"} /\ latched' \in BOOLEAN
        /\ reading' = TRUE /\ UNCHANGED closing
    BY <1>4 DEF ForceCancel, Frame, Settle, Drain, InputTyped
  <2> QED
    BY <2>1 DEF InputTyped
<1>5. ASSUME NEW op, HandlerEnds(op) PROVE InputTyped'
  BY <1>5, SettleInput DEF HandlerEnds
<1>6. ASSUME NEW op, LateResult(op) PROVE InputTyped'
  BY <1>1, <1>6 DEF LateResult, input, InputTyped
<1>7. ASSUME NEW s, TurnEnds(s) PROVE InputTyped'
  <2>1. UNCHANGED <<reading, closing>>
        /\ \/ Settle([id |-> owner[s], content |-> s])
           \/ UNCHANGED <<stdin, latched>>
    BY <1>7 DEF TurnEnds
  <2>2. CASE UNCHANGED <<stdin, latched>>
    BY <2>1, <2>2 DEF InputTyped
  <2> QED
    BY <2>1, <2>2, SettleInput
<1>8. ASSUME NEW s, Cancel(s) PROVE InputTyped'
  BY <1>1, <1>8 DEF Cancel, Frame
<1>9. ASSUME NEW s, NEW p, NEW from, Ask(s, p, from) PROVE InputTyped'
  BY <1>1, <1>9 DEF Ask, input, InputTyped
<1>10. ASSUME NEW a, NEW e, NEW allow, Answer(a, e, allow) \/ AgentStops(a) PROVE InputTyped'
  BY <1>1, <1>10 DEF Answer, AgentStops, Frame, input, InputTyped
<1>11. CASE Die
  BY <1>11 DEF Die, Frame, InputTyped
<1>12. CASE ChunkEnd
  <2>1. latched' = (peer # "dead" /\ inflight >= Bound) /\ reading' = FALSE
        /\ stdin' \in {stdin, "paused"} /\ UNCHANGED closing
    BY <1>12 DEF ChunkEnd
  <2>2. latched' \in BOOLEAN
    BY <2>1, Zenon
  <2> QED
    BY <2>1, <2>2 DEF InputTyped
<1>13. CASE Shutdown \/ End
  BY <1>13 DEF Shutdown, End, input, InputTyped
<1>14. CASE UNCHANGED vars
  BY <1>1, <1>14 DEF vars, input, InputTyped
<1> QED
  BY <1>2, <1>3, <1>4, <1>5, <1>6, <1>7, <1>8, <1>9, <1>10, <1>11, <1>12, <1>13, <1>14 DEF Next

LEMMA StepTurns == ASSUME TurnsTyped, [Next]_vars PROVE TurnsTyped'
<1>1. ASSUME NEW op \in Requests, Execute(op) PROVE TurnsTyped'
  <2>1. op.id \in Ids
    BY DEF Requests
  <2> QED
    BY <1>1, <2>1 DEF Execute, TakesTurn, TurnsTyped
<1>2. ASSUME NEW op \in Requests, Request(op) PROVE TurnsTyped'
  BY <1>1, <1>2 DEF Request
<1>3. ASSUME NEW id \in Ids, Handshake(id) PROVE TurnsTyped'
  <2>1. [id |-> id, content |-> "brief"] \in Requests
    BY DEF Requests, Contents
  <2> QED
    BY <1>1, <1>3, <2>1 DEF Handshake
<1>4. ASSUME NEW op \in Requests, ForceCancel(op) \/ HandlerEnds(op) \/ LateResult(op)
      PROVE  TurnsTyped'
  BY <1>4 DEF ForceCancel, HandlerEnds, LateResult, turns, TurnsTyped
<1>5. ASSUME NEW s \in Sessions, TurnEnds(s) PROVE TurnsTyped'
  <2>1. /\ owner' = [owner EXCEPT ![s] = NoId] /\ cancelled' = cancelled \ {s}
        /\ agents' \subseteq agents \cup {s}
        /\ UNCHANGED loose
    BY <1>5 DEF TurnEnds, ops
  <2> QED
    BY <2>1 DEF TurnsTyped
<1>6. ASSUME NEW s \in Sessions, Cancel(s) \/ \E p \in Params, from \in Askers : Ask(s, p, from) PROVE TurnsTyped'
  BY <1>6 DEF Cancel, Ask, Abort, ops, turns, TurnsTyped
<1>7. ASSUME NEW a \in asks, NEW e, NEW allow, Answer(a, e, allow) \/ AgentStops(a) PROVE TurnsTyped'
  BY <1>7 DEF Answer, AgentStops, ops, turns, TurnsTyped
<1>8. CASE Die \/ ChunkEnd \/ Shutdown \/ End \/ UNCHANGED vars
  BY <1>8 DEF Die, ChunkEnd, Shutdown, End, Abort, ops, turns, vars, TurnsTyped
<1> QED
  BY <1>2, <1>3, <1>4, <1>5, <1>6, <1>7, <1>8 DEF Next

LEMMA StepApprovals == ASSUME ApprovalsTyped, [Next]_vars PROVE ApprovalsTyped'
<1>1. CASE UNCHANGED approvals
  BY <1>1 DEF approvals, ApprovalsTyped
<1>2. ASSUME NEW s \in Sessions, NEW p \in Params, NEW from \in Askers, Ask(s, p, from)
      PROVE  ApprovalsTyped'
  <2>1. wires' = wires + 1 /\ wires' \in 1..MaxAsks
    BY <1>2, BoundFacts DEF Ask, ApprovalsTyped
  <2>2. [wire |-> wires', session |-> s, params |-> p, from |-> from] \in Approvals
    BY <2>1 DEF Approvals
  <2> QED
    BY <1>2, <2>1, <2>2, BoundFacts DEF Ask, ApprovalsTyped
<1>3. CASE ChunkEnd
  BY <1>3 DEF ChunkEnd, ApprovalsTyped
<1>4. CASE Shutdown \/ End
  BY <1>4 DEF Shutdown, End, ApprovalsTyped
<1>5. ASSUME NEW a \in asks, NEW e, NEW allow, Answer(a, e, allow) \/ AgentStops(a) PROVE ApprovalsTyped'
  BY <1>5 DEF Answer, AgentStops, ApprovalsTyped
<1>6. ASSUME NEW op \in Requests, Request(op) \/ ForceCancel(op) \/ HandlerEnds(op) \/ LateResult(op)
      PROVE  ApprovalsTyped'
  BY <1>1, <1>6 DEF Request, ForceCancel, HandlerEnds, LateResult
<1>7. ASSUME NEW s \in Sessions, Cancel(s) \/ TurnEnds(s) PROVE ApprovalsTyped'
  <2>1. CASE Cancel(s)
    BY <1>1, <2>1 DEF Cancel
  <2>2. CASE TurnEnds(s)
    <3>1. \A a \in Approvals : LeftBy(s, a) \in Approvals
      BY DEF LeftBy, Approvals, Askers
    <3>2. asks' = {LeftBy(s, a) : a \in asks} /\ UNCHANGED <<granted, seals, wires>>
      BY <2>2 DEF TurnEnds
    <3> QED
      BY <3>1, <3>2 DEF ApprovalsTyped
  <2> QED
    BY <1>7, <2>1, <2>2
<1>8. CASE Die \/ (\E id \in Ids : Handshake(id)) \/ UNCHANGED vars
  BY <1>1, <1>8 DEF Die, Handshake, vars
<1> QED
  BY <1>2, <1>3, <1>4, <1>5, <1>6, <1>7, <1>8 DEF Next

LEMMA InitTyped == Init => PeerTypedInv
<1> SUFFICES ASSUME Init PROVE PeerTypedInv
  OBVIOUS
<1>1. InputTyped
  BY DEF Init, InputTyped
<1>2. TurnsTyped
  BY DEF Init, TurnsTyped
<1>3. ApprovalsTyped
  BY BoundFacts DEF Init, ApprovalsTyped
<1> QED
  BY <1>1, <1>2, <1>3, InitOps DEF PeerTypedInv

(* The peer keeps to its bounds: never more than Bound operations are in     *)
(* flight, with distinct ids, and the counter is their number.               *)
THEOREM PeerTyped == Spec => []TypeOK
<1>1. PeerTypedInv /\ [Next]_vars => PeerTypedInv'
  BY StepOps, StepInput, StepTurns, StepApprovals DEF PeerTypedInv
<1>2. PeerTypedInv => TypeOK
  BY DEF PeerTypedInv, OpsInv, LiveInv, LedgerInv, PeerInv, DistinctIds, InputTyped,
         TurnsTyped, ApprovalsTyped, TypeOK
<1> QED
  BY <1>1, <1>2, InitTyped, PTL DEF Spec

-----------------------------------------------------------------------------
(* While the process does not read, the bound is used up, and it has noted   *)
(* that it is to read on once there is room.                                 *)
PausedInv ==
  /\ stdin = "paused" => latched /\ inflight >= Bound /\ ~reading
  /\ stdin \in {"open", "paused", "ended"}

(* Settling one operation makes room, and stdin is read on.                  *)
LEMMA SettleReadsOn ==
  ASSUME OpsInv, PausedInv, NEW op, Settle(op)
  PROVE  stdin' # "paused" /\ stdin' \in {"open", "ended"}
<1>1. inflight' < Bound
  BY BoundFacts DEF OpsInv, LiveInv, Settle
<1> QED
  BY <1>1 DEF Settle, Drain, PausedInv

LEMMA StepPaused ==
  ASSUME OpsInv, PausedInv, [Next]_vars
  PROVE  PausedInv' /\ (stdin = "paused" /\ stdin' = "paused" => UNCHANGED inflight)
<1> DEFINE Kept == PausedInv' /\ (stdin = "paused" /\ stdin' = "paused" => UNCHANGED inflight)
<1>1. ASSUME stdin' \in {"open", "ended"} PROVE Kept
  BY <1>1 DEF PausedInv
<1>2. ASSUME UNCHANGED <<stdin, latched, reading, inflight>> PROVE Kept
  BY <1>2 DEF PausedInv
<1>3. ASSUME NEW op, Settle(op) PROVE Kept
  BY <1>1, <1>3, SettleReadsOn
<1>4. ASSUME NEW op \in Requests, Request(op) \/ ForceCancel(op) \/ HandlerEnds(op) \/ LateResult(op)
      PROVE  Kept
  <2>1. CASE Request(op)
    BY <1>1, <2>1 DEF Request, Frame
  <2>2. CASE ForceCancel(op) \/ HandlerEnds(op)
    BY <1>3, <2>2 DEF ForceCancel, HandlerEnds
  <2>3. CASE LateResult(op)
    BY <1>2, <2>3 DEF LateResult, input
  <2> QED
    BY <1>4, <2>1, <2>2, <2>3
<1>5. ASSUME NEW s \in Sessions, TurnEnds(s) PROVE Kept
  BY <1>2, <1>3, <1>5 DEF TurnEnds, ops
<1>6. ASSUME NEW s \in Sessions, Cancel(s) \/ \E p \in Params, from \in Askers : Ask(s, p, from) PROVE Kept
  BY <1>1, <1>2, <1>6 DEF Cancel, Ask, Frame, input, ops
<1>7. ASSUME NEW a \in asks, NEW e, NEW allow, Answer(a, e, allow) \/ AgentStops(a) PROVE Kept
  <2>1. CASE Answer(a, e, allow)
    BY <1>1, <2>1 DEF Answer, Frame
  <2>2. CASE AgentStops(a)
    BY <1>2, <2>2 DEF AgentStops, input, ops
  <2> QED
    BY <1>7, <2>1, <2>2
<1>8. CASE Die \/ \E id \in Ids : Handshake(id)
  BY <1>1, <1>8 DEF Die, Handshake, Frame
<1>9. CASE ChunkEnd
  <2>1. stdin # "paused" /\ UNCHANGED inflight
    BY <1>9 DEF ChunkEnd, PausedInv, ops
  <2>2. /\ latched' = (peer # "dead" /\ inflight >= Bound)
        /\ reading' = FALSE /\ stdin' = IF latched' THEN "paused" ELSE stdin
    BY <1>9 DEF ChunkEnd
  <2>3. CASE peer # "dead" /\ inflight >= Bound
    BY <2>1, <2>2, <2>3 DEF PausedInv
  <2>4. CASE ~(peer # "dead" /\ inflight >= Bound)
    BY <2>1, <2>2, <2>4 DEF PausedInv
  <2> QED
    BY <2>3, <2>4
<1>10. CASE End
  BY <1>1, <1>10 DEF End
<1>11. CASE Shutdown \/ UNCHANGED vars
  BY <1>2, <1>11 DEF Shutdown, vars, input, ops
<1> QED
  BY <1>4, <1>5, <1>6, <1>7, <1>8, <1>9, <1>10, <1>11 DEF Next

(* Of Bound operations in flight one needs nothing from the editor: there    *)
(* are fewer sessions, and a session runs one prompt at a time.              *)
LEMMA SomeHandlerIsFree ==
  ASSUME OpsInv, inflight >= Bound
  PROVE  \E k \in DOMAIN live :
           live[k].content \in Sessions => owner[live[k].content] # live[k].id
<1> SUFFICES ASSUME \A k \in DOMAIN live : /\ live[k].content \in Sessions
                                           /\ owner[live[k].content] = live[k].id
             PROVE  FALSE
  OBVIOUS
<1>1. /\ live \in Seq(Requests) /\ Len(live) \in Nat /\ DOMAIN live = 1..Len(live)
      /\ Len(live) >= Bound /\ DistinctIds(live)
  BY DEF OpsInv, LiveInv
<1> DEFINE turn == [k \in 1..Len(live) |-> live[k].content]
<1>2. turn \in [1..Len(live) -> Sessions]
  BY <1>1
<1>3. \A j, k \in 1..Len(live) : turn[j] = turn[k] => j = k
  BY <1>1 DEF DistinctIds
<1>4. IsFiniteSet(1..Len(live)) /\ Cardinality(1..Len(live)) = Len(live)
  <2> DEFINE n == Len(live)
  <2> HIDE DEF n
  <2>1. IsFiniteSet(1..n) /\ Cardinality(1..n) = IF 1 > n THEN 0 ELSE n - 1 + 1
    <3>1. 1 \in Int /\ n \in Int
      BY <1>1 DEF n
    <3> QED
      BY <3>1, FS_Interval
  <2>2. n \in Nat
    BY <1>1 DEF n
  <2> QED
    BY <2>1, <2>2 DEF n
<1>5. IsFiniteSet(Sessions) /\ Cardinality(Sessions) < Cardinality(1..Len(live))
  <2>1. Cardinality(Sessions) \in Nat
    BY PeerAssumption, FS_CardinalityType
  <2> QED
    BY <1>1, <1>4, <2>1, PeerAssumption
<1> HIDE DEF turn
<1> QED
  BY <1>2, <1>3, <1>4, <1>5, FS_PigeonHole

LEMMA InitPaused == Init => PausedInv
  BY DEF Init, PausedInv

(* It reads whenever there is room.                                         *)
THEOREM PausedInvariant == Spec => []PausedInv
<1>1. OpsInv /\ PausedInv /\ [Next]_vars => PausedInv'
  BY StepPaused
<1> QED
  BY <1>1, InitPaused, OperationsInvariant, PTL DEF Spec

(* The process stops reading only while an operation in flight can settle    *)
(* without an answer from the editor, which it would have to read: prompts   *)
(* that wait for approvals never fill the bound.                             *)
THEOREM PauseIsNeverFinal ==
  Spec => [](stdin = "paused" =>
               \E k \in DOMAIN live :
                 live[k].content \in Sessions => owner[live[k].content] # live[k].id)
<1>1. OpsInv /\ PausedInv =>
        (stdin = "paused" =>
           \E k \in DOMAIN live :
             live[k].content \in Sessions => owner[live[k].content] # live[k].id)
  BY SomeHandlerIsFree DEF PausedInv
<1> QED
  BY <1>1, OperationsInvariant, PausedInvariant, PTL

(* And it reads on with the first of them that settles.                      *)
THEOREM SettlingResumes ==
  Spec => [][stdin = "paused" /\ inflight' < inflight => stdin' # "paused"]_vars
<1>1. ASSUME OpsInv, PausedInv, [Next]_vars
      PROVE  [stdin = "paused" /\ inflight' < inflight => stdin' # "paused"]_vars
  <2>1. inflight \in Nat
    BY <1>1 DEF OpsInv, LiveInv
  <2> QED
    BY <1>1, <2>1, StepPaused
<1> QED
  BY <1>1, OperationsInvariant, PausedInvariant, PTL DEF Spec
==============================================================================
