---------------------------- MODULE RunLockProofs ----------------------------
(***************************************************************************)
(* Proofs about the run lock (RunLock), for any set of calls and holders:  *)
(* the inductive invariant of the queue, the order in which waiting calls  *)
(* are served, and that the lock implements PriorityMutex.                 *)
(***************************************************************************)
EXTENDS RunLock, SequenceTheorems, TLAPS

(* The queue ws agrees with the promises' states s0: each waiting call is in *)
(* it once, nothing else is, and the operator's calls come first.            *)
QueueOK(ws, s0) ==
  /\ ws \in Seq(Calls)
  /\ s0 \in [Calls -> CallStates]
  /\ \A i \in 1..Len(ws) : s0[ws[i]] = "waiting"
  /\ \A i, j \in 1..Len(ws) : i # j => ws[i] # ws[j]
  /\ \A c \in Calls : s0[c] = "waiting" => \E i \in 1..Len(ws) : ws[i] = c
  /\ \A i, j \in 1..Len(ws) : i < j /\ ws[j] \in Priority => ws[i] \in Priority

(* ws is q thinned out; f says where in q each of its calls stood.           *)
ThinnedBy(q, ws, f) ==
  /\ f \in [1..Len(ws) -> 1..Len(q)]
  /\ \A j \in 1..Len(ws) : ws[j] = q[f[j]]
  /\ \A j, k \in 1..Len(ws) : j < k => f[j] < f[k]

(* The calls waiting in s1 are those of the queue ws.                        *)
WaitingAre(ws, s1) ==
  \A c \in Calls : s1[c] = "waiting" <=> \E j \in 1..Len(ws) : ws[j] = c

-----------------------------------------------------------------------------
(* Inserting into a queue shifts the calls from position i on by one.        *)
LEMMA InsertFacts ==
  ASSUME NEW ws \in Seq(Calls), NEW c \in Calls, NEW i \in 1..Len(ws) + 1
  PROVE  /\ InsertAt(ws, i, c) \in Seq(Calls)
         /\ Len(InsertAt(ws, i, c)) = Len(ws) + 1
         /\ \A j \in 1..Len(ws) + 1 :
              InsertAt(ws, i, c)[j] =
                IF j < i THEN ws[j] ELSE IF j = i THEN c ELSE ws[j - 1]
<1> DEFINE front == SubSeq(ws, 1, i - 1)
           back == SubSeq(ws, i, Len(ws))
<1>1. Len(ws) \in Nat /\ i \in Nat
  OBVIOUS
<1>2. /\ front \in Seq(Calls)
      /\ Len(front) = i - 1
      /\ \A j \in 1..i - 1 : front[j] = ws[j]
  <2>1. \A j \in 1..i - 1 : ws[j] \in Calls
    BY <1>1
  <2> QED
    BY <1>1, <2>1, SubSeqProperties
<1>3. /\ back \in Seq(Calls)
      /\ Len(back) = Len(ws) - i + 1
      /\ \A j \in 1..Len(ws) - i + 1 : back[j] = ws[i + j - 1]
  <2>1. \A j \in i..Len(ws) : ws[j] \in Calls
    BY <1>1
  <2> QED
    BY <1>1, <2>1, SubSeqProperties
<1> HIDE DEF front, back
<1>4. /\ front \o <<c>> \in Seq(Calls)
      /\ Len(front \o <<c>>) = i
      /\ \A j \in 1..i : (front \o <<c>>)[j] = IF j < i THEN ws[j] ELSE c
  BY <1>1, <1>2, ConcatProperties
<1>5. /\ (front \o <<c>>) \o back \in Seq(Calls)
      /\ Len((front \o <<c>>) \o back) = Len(ws) + 1
      /\ \A j \in 1..Len(ws) + 1 :
           ((front \o <<c>>) \o back)[j] =
             IF j < i THEN ws[j] ELSE IF j = i THEN c ELSE ws[j - 1]
  <2> DEFINE head == front \o <<c>>
  <2>1. /\ head \in Seq(Calls) /\ Len(head) = i
        /\ \A j \in 1..i : head[j] = IF j < i THEN ws[j] ELSE c
    BY <1>4
  <2> HIDE DEF head
  <2>2. /\ head \o back \in Seq(Calls)
        /\ Len(head \o back) = i + (Len(ws) - i + 1)
        /\ \A j \in 1..i + (Len(ws) - i + 1) :
             (head \o back)[j] = IF j <= i THEN head[j] ELSE back[j - i]
    BY <1>1, <1>3, <2>1, ConcatProperties
  <2>3. i + (Len(ws) - i + 1) = Len(ws) + 1
    BY <1>1
  <2>4. ASSUME NEW j \in 1..Len(ws) + 1
        PROVE  (head \o back)[j] =
                 IF j < i THEN ws[j] ELSE IF j = i THEN c ELSE ws[j - 1]
    <3>1. CASE j <= i
      <4>1. j \in 1..i /\ (head \o back)[j] = head[j]
        BY <1>1, <2>2, <2>3, <3>1
      <4> QED
        BY <1>1, <2>1, <3>1, <4>1
    <3>2. CASE j > i
      <4>1. j - i \in 1..Len(ws) - i + 1 /\ i + (j - i) - 1 = j - 1 /\ ~(j <= i)
        BY <1>1, <3>2
      <4>2. (head \o back)[j] = back[j - i]
        BY <2>2, <2>3, <4>1
      <4>3. back[j - i] = ws[j - 1]
        BY <1>3, <4>1
      <4> QED
        BY <1>1, <3>2, <4>2, <4>3
    <3>3. j <= i \/ j > i
      BY <1>1
    <3> QED
      BY <3>1, <3>2, <3>3
  <2> QED
    BY <2>2, <2>3, <2>4 DEF head
<1> QED
  BY <1>5 DEF InsertAt, front, back

(* Removing from a queue shifts the calls behind position i by one.          *)
LEMMA RemoveFacts ==
  ASSUME NEW ws \in Seq(Calls), NEW i \in 1..Len(ws)
  PROVE  /\ RemoveAt(ws, i) \in Seq(Calls)
         /\ Len(RemoveAt(ws, i)) = Len(ws) - 1
         /\ \A j \in 1..Len(ws) - 1 :
              RemoveAt(ws, i)[j] = IF j < i THEN ws[j] ELSE ws[j + 1]
<1> DEFINE front == SubSeq(ws, 1, i - 1)
           back == SubSeq(ws, i + 1, Len(ws))
<1>1. Len(ws) \in Nat /\ i \in Nat
  OBVIOUS
<1>2. /\ front \in Seq(Calls)
      /\ Len(front) = i - 1
      /\ \A j \in 1..i - 1 : front[j] = ws[j]
  <2>1. \A j \in 1..i - 1 : ws[j] \in Calls
    BY <1>1
  <2> QED
    BY <1>1, <2>1, SubSeqProperties
<1>3. /\ back \in Seq(Calls)
      /\ Len(back) = Len(ws) - i
      /\ \A j \in 1..Len(ws) - i : back[j] = ws[i + j]
  <2>1. \A j \in i + 1..Len(ws) : ws[j] \in Calls
    BY <1>1
  <2> QED
    BY <1>1, <2>1, SubSeqProperties
<1> HIDE DEF front, back
<1>4. /\ front \o back \in Seq(Calls)
      /\ Len(front \o back) = Len(ws) - 1
      /\ \A j \in 1..Len(ws) - 1 :
           (front \o back)[j] = IF j < i THEN ws[j] ELSE ws[j + 1]
  <2>1. /\ front \o back \in Seq(Calls)
        /\ Len(front \o back) = Len(front) + Len(back)
        /\ \A j \in 1..Len(front) + Len(back) :
             (front \o back)[j] =
               IF j <= Len(front) THEN front[j] ELSE back[j - Len(front)]
    BY <1>2, <1>3, ConcatProperties
  <2>2. ASSUME NEW j \in 1..Len(ws) - 1
        PROVE  (front \o back)[j] = IF j < i THEN ws[j] ELSE ws[j + 1]
    <3>1. CASE j < i
      BY <1>1, <1>2, <1>3, <2>1, <3>1
    <3>2. CASE j >= i
      <4>1. j - Len(front) \in 1..Len(ws) - i
        BY <1>1, <1>2, <3>2
      <4>2. back[j - Len(front)] = ws[j + 1]
        BY <1>1, <1>2, <1>3, <4>1
      <4>3. j \in 1..Len(front) + Len(back) /\ ~(j <= Len(front)) /\ ~(j < i)
        BY <1>1, <1>2, <1>3, <3>2
      <4>4. (front \o back)[j] = back[j - Len(front)]
        BY <2>1, <4>3
      <4> QED
        BY <1>1, <4>2, <4>3, <4>4
    <3>3. j < i \/ j >= i
      BY <1>1
    <3> QED
      BY <3>1, <3>2, <3>3, Zenon
  <2> QED
    BY <1>1, <1>2, <1>3, <2>1, <2>2
<1> QED
  BY <1>4 DEF RemoveAt, front, back

(* enqueue() keeps the queue in order.                                       *)
LEMMA EnqueueKeepsQueue ==
  ASSUME QueueOK(waiters, st), NEW c \in Calls, st[c] = "new",
         NEW i \in 1..Len(waiters) + 1, EnqueueAt(c, i)
  PROVE  QueueOK(InsertAt(waiters, i, c), [st EXCEPT ![c] = "waiting"])
<1> DEFINE ws == InsertAt(waiters, i, c)
           s0 == [st EXCEPT ![c] = "waiting"]
<1>1. /\ waiters \in Seq(Calls)
      /\ st \in [Calls -> CallStates]
      /\ Len(waiters) \in Nat
  BY DEF QueueOK
<1>2. /\ ws \in Seq(Calls)
      /\ Len(ws) = Len(waiters) + 1
      /\ \A j \in 1..Len(ws) :
           ws[j] = IF j < i THEN waiters[j] ELSE IF j = i THEN c ELSE waiters[j - 1]
  <2>1. /\ InsertAt(waiters, i, c) \in Seq(Calls)
        /\ Len(InsertAt(waiters, i, c)) = Len(waiters) + 1
        /\ \A j \in 1..Len(waiters) + 1 :
             InsertAt(waiters, i, c)[j] =
               IF j < i THEN waiters[j] ELSE IF j = i THEN c ELSE waiters[j - 1]
    BY <1>1, InsertFacts
  <2> QED
    BY <2>1
<1> HIDE DEF ws
<1>3. \A j \in 1..Len(waiters) : waiters[j] # c
  BY DEF QueueOK
<1>4. s0 \in [Calls -> CallStates]
  BY <1>1 DEF CallStates
<1>5. \A j \in 1..Len(ws) : s0[ws[j]] = "waiting"
  BY <1>1, <1>2 DEF QueueOK
<1>6. \A j, k \in 1..Len(ws) : j # k => ws[j] # ws[k]
  <2>1. SUFFICES ASSUME NEW j \in 1..Len(ws), NEW k \in 1..Len(ws), j < k
                 PROVE  ws[j] # ws[k]
    BY <1>1, <1>2
  <2>2. \A a, b \in 1..Len(waiters) : a # b => waiters[a] # waiters[b]
    BY DEF QueueOK
  <2>3. CASE j < i /\ k < i
    BY <1>1, <1>2, <2>1, <2>2, <2>3
  <2>4. CASE j < i /\ k = i
    BY <1>1, <1>2, <1>3, <2>1, <2>4
  <2>5. CASE j < i /\ k > i
    <3>1. k - 1 \in 1..Len(waiters) /\ j \in 1..Len(waiters) /\ j # k - 1
      BY <1>1, <1>2, <2>1, <2>5
    <3>2. ws[j] = waiters[j] /\ ws[k] = waiters[k - 1]
      BY <1>1, <1>2, <2>5
    <3> QED
      BY <2>2, <3>1, <3>2
  <2>6. CASE j = i
    <3>1. k - 1 \in 1..Len(waiters) /\ ws[j] = c /\ ws[k] = waiters[k - 1]
      BY <1>1, <1>2, <2>1, <2>6
    <3> QED
      BY <1>3, <3>1
  <2>7. CASE j > i
    <3>1. /\ j - 1 \in 1..Len(waiters)
          /\ k - 1 \in 1..Len(waiters)
          /\ j - 1 # k - 1
      BY <1>1, <1>2, <2>1, <2>7
    <3>2. ws[j] = waiters[j - 1] /\ ws[k] = waiters[k - 1]
      BY <1>1, <1>2, <2>1, <2>7
    <3> QED
      BY <2>2, <3>1, <3>2
  <2> QED
    BY <1>1, <1>2, <2>1, <2>3, <2>4, <2>5, <2>6, <2>7
<1>7. \A d \in Calls : s0[d] = "waiting" => \E j \in 1..Len(ws) : ws[j] = d
  <2>1. SUFFICES ASSUME NEW d \in Calls, s0[d] = "waiting"
                 PROVE  \E j \in 1..Len(ws) : ws[j] = d
    OBVIOUS
  <2>2. CASE d = c
    BY <1>1, <1>2, <2>2
  <2>3. CASE d # c
    <3>1. PICK j \in 1..Len(waiters) : waiters[j] = d
      BY <1>1, <2>1, <2>3 DEF QueueOK
    <3>2. CASE j < i
      BY <1>1, <1>2, <3>1, <3>2
    <3>3. CASE j >= i
      <4>1. j + 1 \in 1..Len(ws) /\ ws[j + 1] = d
        BY <1>1, <1>2, <3>1, <3>3
      <4> QED
        BY <4>1
    <3> QED
      BY <1>1, <3>2, <3>3
  <2> QED
    BY <2>2, <2>3
<1>8. \A j, k \in 1..Len(ws) : j < k /\ ws[k] \in Priority => ws[j] \in Priority
  <2>1. CASE c \in Priority
    BY <1>1, <1>2, <2>1 DEF QueueOK, EnqueueAt
  <2>2. CASE c \notin Priority
    BY <1>1, <1>2, <2>2 DEF QueueOK, EnqueueAt
  <2> QED
    BY <2>1, <2>2
<1> QED
  BY <1>2, <1>4, <1>5, <1>6, <1>7, <1>8 DEF QueueOK, ws

(* A queue thinned out to the calls that still wait is in order.             *)
LEMMA SubQueueOK ==
  ASSUME NEW q, NEW s0, QueueOK(q, s0),
         NEW ws \in Seq(Calls), NEW s1 \in [Calls -> CallStates],
         NEW f, ThinnedBy(q, ws, f), WaitingAre(ws, s1)
  PROVE  QueueOK(ws, s1)
<1>1. Len(ws) \in Nat /\ Len(q) \in Nat
  BY DEF QueueOK
<1>2. \A j \in 1..Len(ws) : s1[ws[j]] = "waiting"
  BY DEF WaitingAre
<1>3. \A j, k \in 1..Len(ws) : j # k => ws[j] # ws[k]
  <2>1. SUFFICES ASSUME NEW j \in 1..Len(ws), NEW k \in 1..Len(ws), j < k
                 PROVE  ws[j] # ws[k]
    BY <1>1
  <2>2. f[j] \in 1..Len(q) /\ f[k] \in 1..Len(q) /\ f[j] < f[k]
    BY <2>1 DEF ThinnedBy
  <2>3. f[j] # f[k] /\ ws[j] = q[f[j]] /\ ws[k] = q[f[k]]
    BY <1>1, <2>2 DEF ThinnedBy
  <2> QED
    BY <2>2, <2>3 DEF QueueOK
<1>4. \A j, k \in 1..Len(ws) : j < k /\ ws[k] \in Priority => ws[j] \in Priority
  <2>1. SUFFICES ASSUME NEW j \in 1..Len(ws), NEW k \in 1..Len(ws),
                        j < k, ws[k] \in Priority
                 PROVE  ws[j] \in Priority
    OBVIOUS
  <2>2. f[j] \in 1..Len(q) /\ f[k] \in 1..Len(q) /\ f[j] < f[k]
    BY <2>1 DEF ThinnedBy
  <2> QED
    BY <2>1, <2>2 DEF QueueOK, ThinnedBy
<1> QED
  BY <1>2, <1>3, <1>4 DEF QueueOK, WaitingAre

(* An aborted waiter's departure keeps the queue in order.                   *)
LEMMA AbortKeepsQueue ==
  ASSUME QueueOK(waiters, st), NEW c \in Calls,
         NEW i \in 1..Len(waiters), waiters[i] = c
  PROVE  QueueOK(RemoveAt(waiters, i), [st EXCEPT ![c] = "rejected"])
<1> DEFINE ws == RemoveAt(waiters, i)
           s1 == [st EXCEPT ![c] = "rejected"]
           f == [j \in 1..Len(ws) |-> IF j < i THEN j ELSE j + 1]
<1>1. /\ waiters \in Seq(Calls)
      /\ st \in [Calls -> CallStates]
      /\ Len(waiters) \in Nat
  BY DEF QueueOK
<1>2. /\ ws \in Seq(Calls)
      /\ Len(ws) = Len(waiters) - 1
      /\ \A j \in 1..Len(ws) : ws[j] = IF j < i THEN waiters[j] ELSE waiters[j + 1]
  BY <1>1, RemoveFacts
<1> HIDE DEF ws
<1>3. s1 \in [Calls -> CallStates]
  BY <1>1 DEF CallStates
<1>4. ThinnedBy(waiters, ws, f)
  <2>1. f \in [1..Len(ws) -> 1..Len(waiters)]
    BY <1>1, <1>2
  <2>2. \A j \in 1..Len(ws) : ws[j] = waiters[f[j]]
    BY <1>2
  <2>3. \A j, k \in 1..Len(ws) : j < k => f[j] < f[k]
    BY <1>1, <1>2
  <2> QED
    BY <2>1, <2>2, <2>3 DEF ThinnedBy
<1>5. ASSUME NEW d \in Calls
      PROVE  s1[d] = "waiting" <=> \E j \in 1..Len(ws) : ws[j] = d
  <2>1. ASSUME s1[d] = "waiting"
        PROVE  \E j \in 1..Len(ws) : ws[j] = d
    <3>1. d # c /\ st[d] = "waiting"
      BY <1>1, <2>1
    <3>2. PICK j \in 1..Len(waiters) : waiters[j] = d
      BY <3>1 DEF QueueOK
    <3>3. CASE j < i
      BY <1>1, <1>2, <3>2, <3>3
    <3>4. CASE j > i
      <4>1. j - 1 \in 1..Len(ws) /\ ws[j - 1] = d
        BY <1>1, <1>2, <3>2, <3>4
      <4> QED
        BY <4>1
    <3> QED
      BY <1>1, <3>1, <3>2, <3>3, <3>4
  <2>2. ASSUME NEW j \in 1..Len(ws), ws[j] = d
        PROVE  s1[d] = "waiting"
    <3>1. f[j] \in 1..Len(waiters) /\ f[j] # i /\ waiters[f[j]] = d
      BY <1>1, <1>2, <2>2
    <3>2. d # c /\ st[d] = "waiting"
      BY <3>1 DEF QueueOK
    <3> QED
      BY <1>1, <3>2
  <2> QED
    BY <2>1, <2>2
<1> HIDE DEF s1, f
<1>6. WaitingAre(ws, s1)
  BY <1>5 DEF WaitingAre
<1>7. QueueOK(ws, s1)
  BY <1>2, <1>3, <1>4, <1>6, SubQueueOK
<1> QED
  BY <1>7 DEF ws, s1

(* The calls releaseFor(h) keeps, and the promises it rejects.               *)
Kept(h) == { i \in 1..Len(waiters) : HolderOf[waiters[i]] # h }
Thinned(f) == [i \in DOMAIN f |-> waiters[f[i]]]
Dropped(h) ==
  [c \in Calls |->
     IF HolderOf[c] = h /\ \E i \in 1..Len(waiters) : waiters[i] = c
     THEN "rejected" ELSE st[c]]

(* releaseFor() keeps the queue in order.                                    *)
LEMMA DropKeepsQueue ==
  ASSUME QueueOK(waiters, st), NEW h \in Holders, NEW f \in Enumerations(Kept(h))
  PROVE  QueueOK(Thinned(f), Dropped(h))
<1> DEFINE ws == Thinned(f)
           s1 == Dropped(h)
<1>1. /\ waiters \in Seq(Calls)
      /\ st \in [Calls -> CallStates]
      /\ Len(waiters) \in Nat
  BY DEF QueueOK
<1>2. PICK n \in 0..Len(waiters) : f \in [1..n -> Kept(h)]
  BY DEF Enumerations
<1>3. /\ \A i, j \in 1..n : i < j => f[i] < f[j]
      /\ \A k \in Kept(h) : \E i \in 1..n : f[i] = k
  <2>1. DOMAIN f = 1..n
    BY <1>2
  <2> QED
    BY <2>1 DEF Enumerations
<1>4. /\ ws \in [1..n -> Calls]
      /\ \A j \in 1..n : ws[j] = waiters[f[j]] /\ f[j] \in Kept(h)
  BY <1>1, <1>2 DEF Kept, Thinned
<1>5. ws \in Seq(Calls) /\ Len(ws) = n
  BY <1>2, <1>4
<1> HIDE DEF ws, s1
<1>6. s1 \in [Calls -> CallStates]
  BY <1>1 DEF s1, Dropped, CallStates
<1>7. ThinnedBy(waiters, ws, f)
  <2>1. f \in [1..n -> 1..Len(waiters)]
    BY <1>2 DEF Kept
  <2> QED
    BY <1>3, <1>4, <1>5, <2>1 DEF ThinnedBy
<1>8. ASSUME NEW d \in Calls
      PROVE  s1[d] = "waiting" <=> \E j \in 1..Len(ws) : ws[j] = d
  <2>1. ASSUME s1[d] = "waiting"
        PROVE  \E j \in 1..Len(ws) : ws[j] = d
    <3>1. /\ st[d] = "waiting"
          /\ ~(HolderOf[d] = h /\ \E i \in 1..Len(waiters) : waiters[i] = d)
      BY <2>1 DEF s1, Dropped
    <3>2. PICK k \in 1..Len(waiters) : waiters[k] = d
      BY <3>1 DEF QueueOK
    <3>3. k \in Kept(h)
      BY <3>1, <3>2 DEF Kept
    <3>4. PICK j \in 1..n : f[j] = k
      BY <1>3, <3>3
    <3> QED
      BY <1>4, <1>5, <3>2, <3>4
  <2>2. ASSUME NEW j \in 1..Len(ws), ws[j] = d
        PROVE  s1[d] = "waiting"
    <3>1. waiters[f[j]] = d /\ f[j] \in 1..Len(waiters) /\ HolderOf[d] # h
      BY <1>4, <1>5, <2>2 DEF Kept
    <3>2. st[d] = "waiting"
      BY <3>1 DEF QueueOK
    <3> QED
      BY <3>1, <3>2 DEF s1, Dropped
  <2> QED
    BY <2>1, <2>2
<1>9. WaitingAre(ws, s1)
  BY <1>8 DEF WaitingAre
<1>10. QueueOK(ws, s1)
  BY <1>5, <1>6, <1>7, <1>9, SubQueueOK
<1> QED
  BY <1>10 DEF ws, s1

(* The front of the queue and what is behind it, once pump() has served it.  *)
LEMMA BehindFacts ==
  ASSUME NEW ws \in Seq(Calls), NEW k \in 1..Len(ws) + 1
  PROVE  LET back == SubSeq(ws, k + 1, Len(ws))
         IN /\ back \in Seq(Calls)
            /\ Len(back) = IF k <= Len(ws) THEN Len(ws) - k ELSE 0
            /\ \A j \in 1..Len(back) : back[j] = ws[k + j]
<1>1. Len(ws) \in Nat /\ k \in Nat
  OBVIOUS
<1>2. \A j \in k + 1..Len(ws) : ws[j] \in Calls
  BY <1>1
<1>3. /\ SubSeq(ws, k + 1, Len(ws)) \in Seq(Calls)
      /\ Len(SubSeq(ws, k + 1, Len(ws))) =
           IF k + 1 <= Len(ws) THEN Len(ws) - (k + 1) + 1 ELSE 0
      /\ \A j \in 1..Len(ws) - (k + 1) + 1 :
           SubSeq(ws, k + 1, Len(ws))[j] = ws[k + 1 + j - 1]
  BY <1>1, <1>2, SubSeqProperties
<1> DEFINE back == SubSeq(ws, k + 1, Len(ws))
<1>4. Len(back) = IF k <= Len(ws) THEN Len(ws) - k ELSE 0
  BY <1>1, <1>3
<1>5. \A j \in 1..Len(back) : back[j] = ws[k + j]
  BY <1>1, <1>3, <1>4
<1> QED
  BY <1>3, <1>4, <1>5

(* pump() with the lock free leaves the queue in order, a grant that was     *)
(* given, and a free lock only if the queue is empty.                        *)
LEMMA DispatchFacts ==
  ASSUME NEW ws, NEW s0, QueueOK(ws, s0), Dispatch(ws, s0)
  PROVE  /\ QueueOK(waiters', st')
         /\ active' \in Calls \cup {NoCall}
         /\ active' # NoCall => st'[active'] = "granted"
         /\ active' = NoCall => waiters' = <<>>
<1>1. /\ ws \in Seq(Calls)
      /\ s0 \in [Calls -> CallStates]
      /\ Len(ws) \in Nat
  BY DEF QueueOK
<1>2. PICK k \in 1..Len(ws) + 1 :
        /\ active' = IF k <= Len(ws) THEN ws[k] ELSE NoCall
        /\ waiters' = SubSeq(ws, k + 1, Len(ws))
        /\ st' = [c \in Calls |->
                    IF k <= Len(ws) /\ c = ws[k] THEN "granted"
                    ELSE IF \E j \in 1..k - 1 : c = ws[j] THEN "rejected"
                    ELSE s0[c]]
  BY DEF Dispatch
<1>3. /\ waiters' \in Seq(Calls)
      /\ Len(waiters') = IF k <= Len(ws) THEN Len(ws) - k ELSE 0
      /\ \A j \in 1..Len(waiters') : waiters'[j] = ws[k + j]
  BY <1>1, <1>2, BehindFacts
<1>4. st' \in [Calls -> CallStates]
  BY <1>1, <1>2 DEF CallStates
<1> DEFINE f == [j \in 1..Len(waiters') |-> k + j]
<1>5. ThinnedBy(ws, waiters', f)
  <2>1. f \in [1..Len(waiters') -> 1..Len(ws)]
    BY <1>1, <1>3
  <2>2. \A j \in 1..Len(waiters') : waiters'[j] = ws[f[j]]
    BY <1>3
  <2>3. \A i, j \in 1..Len(waiters') : i < j => f[i] < f[j]
    BY <1>1, <1>3
  <2> HIDE DEF f
  <2> QED
    BY <2>1, <2>2, <2>3 DEF ThinnedBy
<1> HIDE DEF f
<1>6. ASSUME NEW d \in Calls
      PROVE  st'[d] = "waiting" <=> \E j \in 1..Len(waiters') : waiters'[j] = d
  <2>1. ASSUME st'[d] = "waiting"
        PROVE  \E j \in 1..Len(waiters') : waiters'[j] = d
    <3>1. /\ s0[d] = "waiting"
          /\ ~(k <= Len(ws) /\ d = ws[k])
          /\ \A j \in 1..k - 1 : d # ws[j]
      BY <1>2, <2>1
    <3>2. PICK i \in 1..Len(ws) : ws[i] = d
      BY <3>1 DEF QueueOK
    <3>3. i > k
      BY <1>1, <3>1, <3>2
    <3>4. i - k \in 1..Len(waiters') /\ waiters'[i - k] = ws[k + (i - k)]
      BY <1>1, <1>3, <3>2, <3>3
    <3>5. k + (i - k) = i
      BY <1>1, <3>2
    <3> QED
      BY <3>2, <3>4, <3>5
  <2>2. ASSUME NEW j \in 1..Len(waiters'), waiters'[j] = d
        PROVE  st'[d] = "waiting"
    <3>1. k + j \in 1..Len(ws) /\ ws[k + j] = d
      BY <1>1, <1>3, <2>2
    <3>2. \A i \in 1..k : i \in 1..Len(ws) => ws[i] # d
      BY <1>1, <3>1 DEF QueueOK
    <3>3. s0[d] = "waiting"
      BY <3>1 DEF QueueOK
    <3>4. ~(k <= Len(ws) /\ d = ws[k]) /\ ~ \E i \in 1..k - 1 : d = ws[i]
      BY <1>1, <1>3, <2>2, <3>2
    <3> QED
      BY <1>2, <3>3, <3>4
  <2> QED
    BY <2>1, <2>2
<1>7. WaitingAre(waiters', st')
  BY <1>6 DEF WaitingAre
<1>8. QueueOK(waiters', st')
  BY <1>3, <1>4, <1>5, <1>7, SubQueueOK
<1>9. CASE k <= Len(ws)
  <2>1. ws[k] \in Calls /\ ws[k] # NoCall
    BY <1>1, <1>9, CallsAssumption
  <2> QED
    BY <1>2, <1>8, <1>9, <2>1
<1>10. CASE ~(k <= Len(ws))
  <2>1. waiters' = <<>>
    BY <1>3, <1>10
  <2> QED
    BY <1>2, <1>8, <1>10, <2>1
<1> QED
  BY <1>9, <1>10

(* The same for any operation that ends in a pump().                         *)
LEMMA PumpFacts ==
  ASSUME NEW held \in Calls \cup {NoCall}, NEW ws, NEW s0,
         QueueOK(ws, s0), held # NoCall => s0[held] = "granted",
         Pump(held, ws, s0)
  PROVE  /\ QueueOK(waiters', st')
         /\ active' \in Calls \cup {NoCall}
         /\ active' # NoCall => st'[active'] = "granted"
         /\ active' = NoCall => waiters' = <<>>
<1>1. CASE held # NoCall /\ active' = held /\ waiters' = ws /\ st' = s0
  BY <1>1
<1>2. CASE held = NoCall /\ Dispatch(ws, s0)
  BY <1>2, DispatchFacts
<1> QED
  BY <1>1, <1>2 DEF Pump

-----------------------------------------------------------------------------
(* The inductive invariant in terms of QueueOK.                              *)
LEMMA IInvParts ==
  IInv <=> /\ QueueOK(waiters, st)
           /\ active \in Calls \cup {NoCall}
           /\ active # NoCall => st[active] = "granted"
           /\ active = NoCall => waiters = <<>>
           /\ aborted \in [Calls -> BOOLEAN]
  BY DEF IInv, TypeOK, QueueIsWaiting, NeverWedged, PriorityFirst, GrantWasGiven,
         QueueOK

(* What the queue and the grant promise each other, whatever was aborted.    *)
Served(act, ws, s0) ==
  /\ QueueOK(ws, s0)
  /\ act \in Calls \cup {NoCall}
  /\ act # NoCall => s0[act] = "granted"
  /\ act = NoCall => ws = <<>>

LEMMA IInvServed ==
  IInv <=> Served(active, waiters, st) /\ aborted \in [Calls -> BOOLEAN]
  BY IInvParts DEF Served

LEMMA NextServed ==
  Served(active', waiters', st') /\ aborted' \in [Calls -> BOOLEAN] => IInv'
  BY DEF IInv, TypeOK, QueueIsWaiting, NeverWedged, PriorityFirst, GrantWasGiven,
         QueueOK, Served

(* The lock settles waiting calls only, those of S apart, and a call it      *)
(* grants holds the lock.                                                    *)
Settles(S) ==
  /\ Served(active', waiters', st')
  /\ \A d \in Calls \ S : st'[d] # st[d] =>
       st[d] = "waiting" /\ st'[d] \in {"granted", "rejected"}
  /\ \A d \in Calls : st'[d] = "granted" /\ st[d] # "granted" => active' = d
  /\ active' \in {NoCall, active} \/ st[active'] # "granted"

(* pump() after an operation that moved the promises from st to s0.          *)
LEMMA PumpSettles ==
  ASSUME Served(active, waiters, st), NEW S, NEW held \in {NoCall, active},
         NEW ws, NEW s0, QueueOK(ws, s0), held # NoCall => s0[held] = "granted",
         \A d \in Calls : s0[d] = "granted" => st[d] = "granted",
         \A d \in Calls : s0[d] = "waiting" => st[d] # "granted",
         \A d \in Calls \ S :
           s0[d] # st[d] => st[d] = "waiting" /\ s0[d] = "rejected",
         Pump(held, ws, s0)
  PROVE  /\ Settles(S)
         /\ held # NoCall => active' = held
         /\ held = NoCall => active' = NoCall \/ st[active'] # "granted"
         /\ \A d \in Calls : IF s0[d] = "waiting"
                             THEN st'[d] \in {"waiting", "granted", "rejected"}
                             ELSE st'[d] = s0[d]
<1>1. /\ ws \in Seq(Calls)
      /\ s0 \in [Calls -> CallStates]
      /\ Len(ws) \in Nat
      /\ \A j \in 1..Len(ws) : ws[j] \in Calls /\ s0[ws[j]] = "waiting"
      /\ active \in Calls \cup {NoCall}
  BY DEF QueueOK, Served
<1>2. Served(active', waiters', st')
  BY <1>1, PumpFacts DEF Served
<1>3. CASE held # NoCall
  <2>1. active' = held /\ st' = s0 /\ held = active
    BY <1>3 DEF Pump
  <2> QED
    BY <1>1, <1>2, <1>3, <2>1 DEF Settles
<1>4. CASE held = NoCall
  <2>1. PICK k \in 1..Len(ws) + 1 :
          /\ active' = IF k <= Len(ws) THEN ws[k] ELSE NoCall
          /\ st' = [c \in Calls |->
                      IF k <= Len(ws) /\ c = ws[k] THEN "granted"
                      ELSE IF \E j \in 1..k - 1 : c = ws[j] THEN "rejected"
                      ELSE s0[c]]
    BY <1>4 DEF Pump, Dispatch
  <2>2. \A j \in 1..k - 1 : j \in 1..Len(ws)
    BY <1>1
  <2>3. ASSUME NEW d \in Calls
        PROVE  \/ st'[d] = s0[d]
               \/ s0[d] = "waiting" /\ st'[d] = "rejected"
               \/ s0[d] = "waiting" /\ st'[d] = "granted" /\ active' = d
    <3>1. CASE k <= Len(ws) /\ d = ws[k]
      BY <1>1, <2>1, <3>1
    <3>2. CASE ~(k <= Len(ws) /\ d = ws[k]) /\ \E j \in 1..k - 1 : d = ws[j]
      BY <1>1, <2>1, <2>2, <3>2
    <3>3. CASE ~(k <= Len(ws) /\ d = ws[k]) /\ ~ \E j \in 1..k - 1 : d = ws[j]
      BY <2>1, <3>3
    <3> QED
      BY <3>1, <3>2, <3>3
  <2>4. active' = NoCall \/ st[active'] # "granted"
    <3>1. CASE k <= Len(ws)
      <4>1. ws[k] \in Calls /\ s0[ws[k]] = "waiting"
        BY <1>1, <3>1
      <4> QED
        BY <2>1, <3>1, <4>1
    <3>2. CASE ~(k <= Len(ws))
      BY <2>1, <3>2
    <3> QED
      BY <3>1, <3>2
  <2>5. \A d \in Calls : IF s0[d] = "waiting"
                         THEN st'[d] \in {"waiting", "granted", "rejected"}
                         ELSE st'[d] = s0[d]
    BY <2>3
  <2>6. Settles(S)
    BY <1>2, <2>3, <2>4 DEF Settles
  <2> QED
    BY <1>4, <2>4, <2>5, <2>6
<1> QED
  BY <1>3, <1>4

(* A promise that settles or is made without the queue leaves it alone.      *)
LEMMA SettleKeepsQueue ==
  ASSUME QueueOK(waiters, st), NEW c \in Calls, NEW v \in CallStates \ {"waiting"},
         st[c] = "new", st' = [st EXCEPT ![c] = v], UNCHANGED waiters
  PROVE  QueueOK(waiters', st')
<1>1. st' \in [Calls -> CallStates]
  BY DEF QueueOK
<1>2. \A d \in Calls : st'[d] = "waiting" <=> st[d] = "waiting"
  BY DEF QueueOK
<1>3. \A i \in 1..Len(waiters) : waiters[i] \in Calls
  BY DEF QueueOK
<1> QED
  BY <1>1, <1>2, <1>3 DEF QueueOK

(* acquire(): the caller waits, is served at once or is turned away, and a   *)
(* lock that is held stays with its owner.                                   *)
LEMMA AcquireSettles ==
  ASSUME Served(active, waiters, st), NEW c \in Calls, Acquire(c)
  PROVE  /\ Settles({c})
         /\ st[c] = "new" /\ st'[c] \in {"waiting", "granted", "rejected"}
         /\ active # NoCall => active' = active
<1>1. /\ QueueOK(waiters, st) /\ active \in Calls \cup {NoCall}
      /\ active # NoCall => st[active] = "granted"
      /\ active = NoCall => waiters = <<>>
      /\ waiters \in Seq(Calls) /\ st \in [Calls -> CallStates]
  BY DEF Served, QueueOK
<1>2. st[c] = "new"
  BY DEF Acquire
<1>3. CASE aborted[c]
  <2>1. st' = [st EXCEPT ![c] = "rejected"] /\ UNCHANGED <<active, waiters>>
    BY <1>3 DEF Acquire
  <2>2. QueueOK(waiters', st')
    BY <1>1, <1>2, <2>1, SettleKeepsQueue DEF CallStates
  <2>3. Served(active', waiters', st')
    BY <1>1, <1>2, <2>1, <2>2 DEF Served
  <2> QED
    BY <1>1, <1>2, <2>1, <2>3 DEF Settles
<1>4. CASE ~aborted[c]
  <2> DEFINE s0 == [st EXCEPT ![c] = "waiting"]
  <2>1. PICK i \in 1..Len(waiters) + 1 :
          EnqueueAt(c, i) /\ Pump(active, InsertAt(waiters, i, c), s0)
    BY <1>4 DEF Acquire
  <2>2. QueueOK(InsertAt(waiters, i, c), s0)
    BY <1>1, <1>2, <2>1, EnqueueKeepsQueue
  <2>3. s0[c] = "waiting" /\ \A d \in Calls \ {c} : s0[d] = st[d]
    BY <1>1
  <2>4. active # NoCall => s0[active] = "granted"
    BY <1>1, <1>2, <2>3
  <2> HIDE DEF s0
  <2>5. /\ \A d \in Calls : s0[d] = "granted" => st[d] = "granted"
        /\ \A d \in Calls : s0[d] = "waiting" => st[d] # "granted"
        /\ \A d \in Calls \ {c} :
             s0[d] # st[d] => st[d] = "waiting" /\ s0[d] = "rejected"
    BY <1>2, <2>3
  <2>6. /\ Settles({c})
        /\ active # NoCall => active' = active
        /\ \A d \in Calls : IF s0[d] = "waiting"
                            THEN st'[d] \in {"waiting", "granted", "rejected"}
                            ELSE st'[d] = s0[d]
    BY <2>1, <2>2, <2>4, <2>5, PumpSettles
  <2> QED
    BY <1>2, <2>3, <2>6
<1> QED
  BY <1>3, <1>4

(* The release closure: afterwards the caller does not hold the lock.        *)
LEMMA ReleaseSettles ==
  ASSUME Served(active, waiters, st), NEW c \in Calls, Release(c)
  PROVE  /\ Settles({})
         /\ active' # c
         /\ active # c => UNCHANGED lockVars
<1>1. /\ QueueOK(waiters, st) /\ active \in Calls \cup {NoCall}
      /\ waiters \in Seq(Calls) /\ st \in [Calls -> CallStates]
      /\ st[c] = "granted"
  BY DEF Served, QueueOK, Release
<1>2. CASE active = c
  <2>1. Pump(NoCall, waiters, st)
    BY <1>2, CallsAssumption DEF Release
  <2>2. Settles({}) /\ (active' = NoCall \/ st[active'] # "granted")
    BY <1>1, <2>1, PumpSettles
  <2> QED
    BY <1>1, <1>2, <2>2, CallsAssumption
<1>3. CASE active # c
  <2>1. UNCHANGED lockVars
    BY <1>3 DEF Release
  <2> QED
    BY <1>1, <1>3, <2>1 DEF Settles, Served, lockVars
<1> QED
  BY <1>2, <1>3

(* releaseFor(): every waiting call of the holder is rejected, and another   *)
(* holder's grant stays.                                                     *)
LEMMA ReleaseForSettles ==
  ASSUME Served(active, waiters, st), NEW h \in Holders, ReleaseFor(h)
  PROVE  /\ Settles({})
         /\ \A d \in Calls : HolderOf[d] = h /\ st[d] = "waiting" => st'[d] = "rejected"
         /\ active # NoCall /\ HolderOf[active] # h => active' = active
<1> DEFINE held == IF active \in Calls /\ HolderOf[active] = h THEN NoCall ELSE active
<1>1. /\ QueueOK(waiters, st) /\ active \in Calls \cup {NoCall}
      /\ active # NoCall => st[active] = "granted"
      /\ waiters \in Seq(Calls) /\ st \in [Calls -> CallStates]
  BY DEF Served, QueueOK
<1>2. PICK f \in Enumerations(Kept(h)) : Pump(held, Thinned(f), Dropped(h))
  BY DEF ReleaseFor, Kept, Thinned, Dropped
<1>3. QueueOK(Thinned(f), Dropped(h))
  BY <1>1, DropKeepsQueue
<1>4. ASSUME NEW d \in Calls
      PROVE  /\ Dropped(h)[d] = st[d] \/ (st[d] = "waiting" /\ Dropped(h)[d] = "rejected")
             /\ HolderOf[d] = h /\ st[d] = "waiting" => Dropped(h)[d] = "rejected"
  <2>1. ASSUME \E i \in 1..Len(waiters) : waiters[i] = d
        PROVE  st[d] = "waiting"
    BY <1>1, <2>1 DEF QueueOK
  <2>2. st[d] = "waiting" => \E i \in 1..Len(waiters) : waiters[i] = d
    BY <1>1 DEF QueueOK
  <2> QED
    BY <2>1, <2>2 DEF Dropped
<1>5. held # NoCall => held \in Calls /\ st[held] = "granted"
  BY <1>1
<1>6. held \in {NoCall, active} /\ (held # NoCall => Dropped(h)[held] = "granted")
  BY <1>4, <1>5
<1>7. active # NoCall /\ HolderOf[active] # h => held = active
  OBVIOUS
<1> HIDE DEF held
<1>8. /\ \A d \in Calls : Dropped(h)[d] = "granted" => st[d] = "granted"
      /\ \A d \in Calls : Dropped(h)[d] = "waiting" => st[d] # "granted"
      /\ \A d \in Calls \ {} :
           Dropped(h)[d] # st[d] => st[d] = "waiting" /\ Dropped(h)[d] = "rejected"
  BY <1>4
<1>9. /\ Settles({})
      /\ held # NoCall => active' = held
      /\ \A d \in Calls : IF Dropped(h)[d] = "waiting"
                          THEN st'[d] \in {"waiting", "granted", "rejected"}
                          ELSE st'[d] = Dropped(h)[d]
  BY <1>2, <1>3, <1>6, <1>8, PumpSettles
<1> QED
  BY <1>4, <1>7, <1>9

(* The abort listener: a waiting call is rejected, nobody else is concerned. *)
LEMMA OnAbortSettles ==
  ASSUME Served(active, waiters, st), NEW c \in Calls, OnAbort(c)
  PROVE  /\ Settles({})
         /\ st[c] = "waiting" => st'[c] = "rejected"
         /\ active' = active
<1>1. /\ QueueOK(waiters, st) /\ active \in Calls \cup {NoCall}
      /\ active # NoCall => st[active] = "granted"
      /\ active = NoCall => waiters = <<>>
      /\ waiters \in Seq(Calls) /\ st \in [Calls -> CallStates]
  BY DEF Served, QueueOK
<1>2. CASE st[c] = "waiting"
  <2>1. PICK i \in 1..Len(waiters) : waiters[i] = c /\ waiters' = RemoveAt(waiters, i)
    BY <1>2 DEF OnAbort
  <2>2. st' = [st EXCEPT ![c] = "rejected"] /\ UNCHANGED active
    BY <1>2 DEF OnAbort
  <2>3. QueueOK(waiters', st')
    BY <1>1, <2>1, <2>2, AbortKeepsQueue
  <2>4. Len(waiters) # 0
    BY <1>1, <2>1
  <2>5. active # NoCall
    BY <1>1, <2>4
  <2>6. Served(active', waiters', st')
    BY <1>1, <1>2, <2>2, <2>3, <2>5 DEF Served
  <2> QED
    BY <1>1, <1>2, <2>2, <2>6 DEF Settles
<1>3. CASE st[c] # "waiting"
  <2>1. UNCHANGED lockVars
    BY <1>3 DEF OnAbort
  <2> QED
    BY <1>1, <1>3, <2>1 DEF Settles, Served, lockVars
<1> QED
  BY <1>2, <1>3

THEOREM InitInvariant == Init => IInv
<1> SUFFICES ASSUME Init PROVE IInv
  OBVIOUS
<1>1. QueueOK(waiters, st)
  BY DEF Init, QueueOK, CallStates
<1> QED
  BY <1>1, IInvParts DEF Init

(* Each operation of the lock preserves the invariant.                       *)
THEOREM StepInvariant == IInv /\ [Next]_vars => IInv'
<1> SUFFICES ASSUME IInv, [Next]_vars PROVE IInv'
  OBVIOUS
<1>1. Served(active, waiters, st) /\ aborted \in [Calls -> BOOLEAN]
  BY IInvServed
<1>2. ASSUME NEW c \in Calls, CallAcquire(c)
      PROVE  IInv'
  BY <1>1, <1>2, AcquireSettles, NextServed DEF CallAcquire, Settles
<1>3. ASSUME NEW c \in Calls, CallTryAcquire(c)
      PROVE  IInv'
  <2>1. /\ QueueOK(waiters, st) /\ active \in Calls \cup {NoCall}
        /\ active # NoCall => st[active] = "granted"
        /\ active = NoCall => waiters = <<>>
        /\ waiters \in Seq(Calls) /\ st \in [Calls -> CallStates]
    BY <1>1 DEF Served, QueueOK
  <2>2. st[c] = "new" /\ UNCHANGED <<waiters, aborted>>
    BY <1>3 DEF CallTryAcquire, TryAcquire
  <2>3. CASE active # NoCall
    <3>1. st' = [st EXCEPT ![c] = "refused"] /\ UNCHANGED active
      BY <1>3, <2>3 DEF CallTryAcquire, TryAcquire
    <3>2. QueueOK(waiters', st')
      BY <2>1, <2>2, <3>1, SettleKeepsQueue DEF CallStates
    <3>3. Served(active', waiters', st')
      BY <2>1, <2>2, <2>3, <3>1, <3>2 DEF Served
    <3> QED
      BY <1>1, <2>2, <3>3, NextServed
  <2>4. CASE active = NoCall
    <3>1. st' = [st EXCEPT ![c] = "granted"] /\ active' = c
      BY <1>3, <2>4 DEF CallTryAcquire, TryAcquire
    <3>2. QueueOK(waiters', st')
      BY <2>1, <2>2, <3>1, SettleKeepsQueue DEF CallStates
    <3>3. Served(active', waiters', st')
      BY <2>1, <2>2, <3>1, <3>2, CallsAssumption DEF Served
    <3> QED
      BY <1>1, <2>2, <3>3, NextServed
  <2> QED
    BY <2>3, <2>4
<1>4. ASSUME NEW c \in Calls, CallRelease(c)
      PROVE  IInv'
  BY <1>1, <1>4, ReleaseSettles, NextServed DEF CallRelease, Settles
<1>5. ASSUME NEW h \in Holders, CallReleaseFor(h)
      PROVE  IInv'
  BY <1>1, <1>5, ReleaseForSettles, NextServed DEF CallReleaseFor, Settles
<1>6. ASSUME NEW c \in Calls, AbortListener(c)
      PROVE  IInv'
  BY <1>1, <1>6, OnAbortSettles, NextServed DEF AbortListener, Settles
<1>7. ASSUME NEW c \in Calls, Abort(c)
      PROVE  IInv'
  <2>1. aborted' \in [Calls -> BOOLEAN] /\ UNCHANGED lockVars
    BY <1>1, <1>7 DEF Abort
  <2> QED
    BY <1>1, <2>1, NextServed DEF lockVars
<1>8. CASE UNCHANGED vars
  BY <1>1, <1>8, NextServed DEF vars
<1> QED
  BY <1>2, <1>3, <1>4, <1>5, <1>6, <1>7, <1>8 DEF Next

(* The lock's queue and the promises agree, the operator's calls come first, *)
(* and the lock is never free while somebody waits, whatever the order of    *)
(* acquires, releases, teardowns and aborts.                                 *)
THEOREM LockInvariant == Spec => []IInv
  BY InitInvariant, StepInvariant, PTL DEF Spec

(* The owner and the queue are calls of the lock, each in one of its states. *)
THEOREM LockTyped == Spec => []TypeOK
<1>1. IInv => TypeOK
  BY DEF IInv, TypeOK, QueueOK
<1> QED
  BY <1>1, LockInvariant, PTL

(* An abort or a teardown never leaves the lock free with a queue behind it. *)
THEOREM LockNeverWedged == Spec => []NeverWedged
<1>1. IInv => NeverWedged
  BY DEF IInv
<1> QED
  BY <1>1, LockInvariant, PTL

-----------------------------------------------------------------------------
(* When pump() grants a waiting call, its signal has not fired and every     *)
(* call ahead of it was rejected.                                            *)
LEMMA DispatchInTurn ==
  ASSUME NEW ws, NEW s0, QueueOK(ws, s0), Dispatch(ws, s0),
         NEW j \in 1..Len(ws), st'[ws[j]] = "granted"
  PROVE  /\ ~aborted[ws[j]]
         /\ \A i \in 1..j - 1 : st'[ws[i]] = "rejected"
<1>1. /\ ws \in Seq(Calls)
      /\ s0 \in [Calls -> CallStates]
      /\ Len(ws) \in Nat
  BY DEF QueueOK
<1>2. PICK k \in 1..Len(ws) + 1 :
        /\ k <= Len(ws) => ~aborted[ws[k]]
        /\ st' = [c \in Calls |->
                    IF k <= Len(ws) /\ c = ws[k] THEN "granted"
                    ELSE IF \E i \in 1..k - 1 : c = ws[i] THEN "rejected"
                    ELSE s0[c]]
  BY DEF Dispatch
<1>3. \A i \in 1..Len(ws) : ws[i] \in Calls /\ s0[ws[i]] = "waiting"
  BY <1>1 DEF QueueOK
<1>4. k <= Len(ws) /\ ws[j] = ws[k]
  BY <1>2, <1>3
<1>5. k = j
  BY <1>1, <1>4 DEF QueueOK
<1>6. ASSUME NEW i \in 1..j - 1
      PROVE  st'[ws[i]] = "rejected"
  <2>1. i \in 1..Len(ws) /\ i # k /\ i \in 1..k - 1
    BY <1>1, <1>5
  <2>2. ws[i] \in Calls /\ ws[i] # ws[k]
    BY <1>3, <1>4, <2>1 DEF QueueOK
  <2> QED
    BY <1>2, <2>1, <2>2
<1> QED
  BY <1>2, <1>4, <1>5, <1>6

(* Who is granted in this step was not aborted, and whoever stood ahead of   *)
(* it was turned away.                                                       *)
InTurn ==
  \A j \in 1..Len(waiters) : st'[waiters[j]] = "granted" =>
    /\ ~aborted[waiters[j]]
    /\ \A i \in 1..j - 1 : st'[waiters[i]] = "rejected"

(* A step that changes no promise but one, or none, grants no waiting call.  *)
LEMMA StillInTurn ==
  ASSUME Served(active, waiters, st),
         \/ st' = st
         \/ \E c \in Calls : st[c] # "waiting" /\ \A d \in Calls \ {c} : st'[d] = st[d]
         \/ \E c \in Calls, v \in CallStates \ {"granted"} : st' = [st EXCEPT ![c] = v]
  PROVE  InTurn
<1>1. st \in [Calls -> CallStates] /\ waiters \in Seq(Calls) /\ Len(waiters) \in Nat
  BY DEF Served, QueueOK
<1>2. \A j \in 1..Len(waiters) : waiters[j] \in Calls /\ st[waiters[j]] = "waiting"
  BY <1>1 DEF Served, QueueOK
<1>3. \A j \in 1..Len(waiters) : st'[waiters[j]] # "granted"
  <2>1. CASE st' = st
    BY <1>2, <2>1
  <2>2. CASE \E c \in Calls : st[c] # "waiting" /\ \A d \in Calls \ {c} : st'[d] = st[d]
    BY <1>2, <2>2
  <2>3. CASE \E c \in Calls, v \in CallStates \ {"granted"} : st' = [st EXCEPT ![c] = v]
    BY <1>1, <1>2, <2>3
  <2> QED
    BY <2>1, <2>2, <2>3
<1> QED
  BY <1>3 DEF InTurn

LEMMA AcquireInTurn ==
  ASSUME Served(active, waiters, st), NEW c \in Calls, Acquire(c)
  PROVE  InTurn
<1>1. CASE active # NoCall \/ aborted[c]
  <2>1. \/ st' = [st EXCEPT ![c] = "rejected"]
        \/ st' = [st EXCEPT ![c] = "waiting"]
    BY <1>1 DEF Acquire, Pump
  <2> QED
    BY <2>1, StillInTurn DEF CallStates
<1>2. CASE active = NoCall
  BY <1>2 DEF Served, InTurn
<1> QED
  BY <1>1, <1>2

LEMMA ReleaseInTurn ==
  ASSUME Served(active, waiters, st), NEW c \in Calls, Release(c)
  PROVE  InTurn
<1>1. st' = st \/ Dispatch(waiters, st)
  BY DEF Release, Pump, lockVars
<1>2. CASE Dispatch(waiters, st)
  BY <1>2, DispatchInTurn DEF Served, InTurn
<1> QED
  BY <1>1, <1>2, StillInTurn

LEMMA OnAbortInTurn ==
  ASSUME Served(active, waiters, st), NEW c \in Calls, OnAbort(c)
  PROVE  InTurn
<1>1. st' = st \/ st' = [st EXCEPT ![c] = "rejected"]
  BY DEF OnAbort, lockVars
<1> QED
  BY <1>1, StillInTurn DEF CallStates

LEMMA ReleaseForInTurn ==
  ASSUME Served(active, waiters, st), NEW h \in Holders, ReleaseFor(h)
  PROVE  InTurn
<1>1. /\ QueueOK(waiters, st)
      /\ waiters \in Seq(Calls) /\ Len(waiters) \in Nat
      /\ st \in [Calls -> CallStates]
  BY DEF Served, QueueOK
<1> SUFFICES ASSUME NEW j \in 1..Len(waiters), st'[waiters[j]] = "granted"
             PROVE  /\ ~aborted[waiters[j]]
                    /\ \A i \in 1..j - 1 : st'[waiters[i]] = "rejected"
  BY DEF InTurn
<1>2. waiters[j] \in Calls /\ st[waiters[j]] = "waiting"
  BY <1>1 DEF QueueOK
<1>3. PICK f \in Enumerations(Kept(h)) :
        \/ st' = Dropped(h)
        \/ Dispatch(Thinned(f), Dropped(h))
  BY DEF ReleaseFor, Pump, Kept, Thinned, Dropped
<1>4. Dropped(h)[waiters[j]] # "granted"
  BY <1>2 DEF Dropped
<1>5. Dispatch(Thinned(f), Dropped(h))
  BY <1>3, <1>4
<1> DEFINE ws == Thinned(f)
<1>6. QueueOK(ws, Dropped(h))
  BY <1>1, DropKeepsQueue
<1>7. PICK n \in 0..Len(waiters) : f \in [1..n -> Kept(h)]
  BY DEF Enumerations
<1>8. /\ \A i, k \in 1..n : i < k => f[i] < f[k]
      /\ \A k \in Kept(h) : \E i \in 1..n : f[i] = k
  <2>1. DOMAIN f = 1..n
    BY <1>7
  <2> QED
    BY <2>1 DEF Enumerations
<1>9. /\ Len(ws) = n
      /\ \A m \in 1..n : ws[m] = waiters[f[m]] /\ f[m] \in 1..Len(waiters)
  <2>1. ws \in [1..n -> Calls]
    BY <1>1, <1>7 DEF Kept, Thinned
  <2> QED
    BY <1>7, <2>1 DEF Kept, Thinned
<1>10. \A d \in Calls : (\A m \in 1..n : ws[m] # d) => st'[d] = Dropped(h)[d]
  <2>1. PICK k \in 1..Len(ws) + 1 :
          st' = [c \in Calls |->
                   IF k <= Len(ws) /\ c = ws[k] THEN "granted"
                   ELSE IF \E i \in 1..k - 1 : c = ws[i] THEN "rejected"
                   ELSE Dropped(h)[c]]
    BY <1>5 DEF Dispatch
  <2> HIDE DEF ws
  <2> QED
    BY <1>7, <1>9, <2>1
<1> HIDE DEF ws
<1>11. PICK m \in 1..n : ws[m] = waiters[j]
  BY <1>2, <1>4, <1>10
<1>12. f[m] = j
  BY <1>1, <1>9, <1>11 DEF QueueOK
<1>13. /\ ~aborted[ws[m]]
       /\ \A i \in 1..m - 1 : st'[ws[i]] = "rejected"
  BY <1>5, <1>6, <1>9, <1>11, DispatchInTurn DEF ws
<1>14. ASSUME NEW i \in 1..j - 1
       PROVE  st'[waiters[i]] = "rejected"
  <2>1. /\ i \in 1..Len(waiters) /\ i < j
        /\ waiters[i] \in Calls
    BY <1>1
  <2>2. CASE HolderOf[waiters[i]] # h
    <3>1. PICK l \in 1..n : f[l] = i
      BY <1>8, <2>1, <2>2 DEF Kept
    <3>2. l < m
      <4>1. ~(m < l) /\ m # l
        BY <1>1, <1>8, <1>12, <2>1, <3>1
      <4> QED
        BY <1>7, <4>1
    <3>3. l \in 1..m - 1
      BY <1>7, <3>2
    <3> QED
      BY <1>9, <1>13, <3>1, <3>3
  <2>3. CASE HolderOf[waiters[i]] = h
    <3>1. \A l \in 1..n : ws[l] # waiters[i]
      BY <1>7, <1>9, <2>3 DEF Kept
    <3> QED
      BY <1>10, <2>1, <2>3, <3>1 DEF Dropped
  <2> QED
    BY <2>2, <2>3
<1> QED
  BY <1>11, <1>13, <1>14

(* No waiting call is granted out of its turn, by any step.                  *)
LEMMA StepInTurn == ASSUME IInv, [Next]_vars PROVE InTurn
<1>1. Served(active, waiters, st)
  BY IInvServed
<1>2. ASSUME NEW c \in Calls, CallAcquire(c) \/ CallRelease(c) \/ AbortListener(c)
      PROVE  InTurn
  BY <1>1, <1>2, AcquireInTurn, ReleaseInTurn, OnAbortInTurn
  DEF CallAcquire, CallRelease, AbortListener
<1>3. ASSUME NEW c \in Calls, CallTryAcquire(c)
      PROVE  InTurn
  <2>1. st[c] # "waiting" /\ \A d \in Calls \ {c} : st'[d] = st[d]
    BY <1>1, <1>3 DEF CallTryAcquire, TryAcquire, Served, QueueOK
  <2> QED
    BY <1>1, <2>1, StillInTurn
<1>4. ASSUME NEW h \in Holders, CallReleaseFor(h)
      PROVE  InTurn
  BY <1>1, <1>4, ReleaseForInTurn DEF CallReleaseFor
<1>5. CASE (\E c \in Calls : Abort(c)) \/ UNCHANGED vars
  BY <1>1, <1>5, StillInTurn DEF Abort, lockVars, vars
<1> QED
  BY <1>2, <1>3, <1>4, <1>5 DEF Next

(* First come, first served: a call is granted only while its signal has not *)
(* fired, and never past a call that stays in the queue ahead of it.         *)
THEOREM GrantsInTurn == Spec => GrantedInTurn
<1>1. IInv /\ [Next]_vars =>
        [\A j \in 1..Len(waiters) : st'[waiters[j]] = "granted" =>
           /\ ~aborted[waiters[j]]
           /\ \A i \in 1..j - 1 : st'[waiters[i]] = "rejected"]_vars
  BY StepInTurn DEF InTurn
<1> QED
  BY <1>1, LockInvariant, PTL DEF Spec, GrantedInTurn

-----------------------------------------------------------------------------
(* A pump() that serves the queue is a hand-over of the abstract mutex: the  *)
(* calls it drops give up, and the best of those that stay is served.        *)
LEMMA DispatchHandsOver ==
  ASSUME QueueOK(waiters, st), active \in Calls, active # NoCall,
         NEW ws, NEW s0, QueueOK(ws, s0), Dispatch(ws, s0),
         \A c \in Calls : s0[c] # st[c] => st[c] = "waiting" /\ s0[c] = "rejected"
  PROVE  \E gone \in SUBSET Calls : Mutex!HandOver(gone)
<1>1. /\ ws \in Seq(Calls)
      /\ s0 \in [Calls -> CallStates]
      /\ st \in [Calls -> CallStates]
      /\ Len(ws) \in Nat
  BY DEF QueueOK
<1>2. PICK k \in 1..Len(ws) + 1 :
        /\ active' = IF k <= Len(ws) THEN ws[k] ELSE NoCall
        /\ st' = [c \in Calls |->
                    IF k <= Len(ws) /\ c = ws[k] THEN "granted"
                    ELSE IF \E i \in 1..k - 1 : c = ws[i] THEN "rejected"
                    ELSE s0[c]]
  BY DEF Dispatch
<1>3. \A i \in 1..Len(ws) : ws[i] \in Calls /\ s0[ws[i]] = "waiting"
  BY <1>1 DEF QueueOK
<1>4. \A c \in Calls : s0[c] = "waiting" => st[c] = "waiting"
  OBVIOUS
<1> DEFINE gone == { c \in Calls : st[c] = "waiting" /\ st'[c] = "rejected" }
           pend == { c \in Calls : st[c] = "waiting" }
           stay == pend \ gone
           done == { c \in Calls : st[c] \in {"granted", "rejected", "refused"} }
<1>5. \A c \in Calls : st[c] # "waiting" =>
         /\ s0[c] = st[c]
         /\ st'[c] = st[c]
  <2>1. SUFFICES ASSUME NEW c \in Calls, st[c] # "waiting"
                 PROVE  s0[c] = st[c] /\ st'[c] = st[c]
    OBVIOUS
  <2>2. s0[c] = st[c]
    BY <2>1
  <2>3. \A i \in 1..Len(ws) : ws[i] # c
    BY <1>3, <2>1, <2>2
  <2> QED
    BY <1>1, <1>2, <2>2, <2>3
<1>6. CASE k <= Len(ws)
  <2>1. ws[k] \in Calls /\ active' = ws[k] /\ st'[ws[k]] = "granted"
    BY <1>1, <1>2, <1>3, <1>6
  <2>2. ws[k] \in stay
    BY <1>1, <1>3, <1>4, <1>6, <2>1
  <2>3. ASSUME NEW c \in stay, c # ws[k]
        PROVE  st'[c] = "waiting" /\ \E i \in k + 1..Len(ws) : ws[i] = c
    <3>1. c \in Calls /\ st[c] = "waiting" /\ st'[c] # "rejected"
      OBVIOUS
    <3>2. s0[c] = st'[c] /\ ~ \E i \in 1..k - 1 : c = ws[i]
      BY <1>2, <2>3, <3>1
    <3>3. s0[c] = "waiting"
      BY <3>1, <3>2
    <3>4. PICK i \in 1..Len(ws) : ws[i] = c
      BY <3>1, <3>3 DEF QueueOK
    <3>5. i \in k + 1..Len(ws)
      BY <1>1, <1>6, <2>3, <3>2, <3>4
    <3> QED
      BY <3>2, <3>3, <3>4, <3>5
  <2>4. ws[k] \in Priority \/ stay \cap Priority = {}
    <3>1. SUFFICES ASSUME NEW c \in stay, c \in Priority, ws[k] \notin Priority
                   PROVE  FALSE
      OBVIOUS
    <3>2. PICK i \in k + 1..Len(ws) : ws[i] = c
      BY <2>3, <3>1
    <3> QED
      BY <1>1, <1>6, <3>1, <3>2 DEF QueueOK
  <2>5. { c \in Calls : st'[c] = "waiting" } = stay \ {ws[k]}
    <3>1. ASSUME NEW c \in Calls, st'[c] = "waiting"
          PROVE  c \in stay \ {ws[k]}
      BY <1>5, <2>1, <3>1
    <3> QED
      BY <2>3, <3>1
  <2>6. { c \in Calls : st'[c] \in {"granted", "rejected", "refused"} }
          = done \cup gone \cup {ws[k]}
    <3>1. ASSUME NEW c \in Calls, st'[c] \in {"granted", "rejected", "refused"}
          PROVE  c \in done \cup gone \cup {ws[k]}
      BY <1>5, <2>3, <3>1
    <3>2. ASSUME NEW c \in done \cup gone \cup {ws[k]}
          PROVE  c \in Calls /\ st'[c] \in {"granted", "rejected", "refused"}
      BY <1>5, <2>1, <3>2
    <3> QED
      BY <3>1, <3>2
  <2> HIDE DEF done
  <2>7. PICK g \in SUBSET Calls : g = gone /\ g \subseteq pend
    OBVIOUS
  <2> HIDE DEF gone
  <2>8. Mutex!HandOver(g)
    BY <2>1, <2>2, <2>4, <2>5, <2>6, <2>7 DEF Mutex!HandOver, done
  <2> QED
    BY <2>8
<1>7. CASE ~(k <= Len(ws))
  <2>1. k = Len(ws) + 1 /\ active' = NoCall
    BY <1>1, <1>2, <1>7
  <2>2. ASSUME NEW c \in Calls, st[c] = "waiting"
        PROVE  st'[c] = "rejected"
    <3>1. CASE s0[c] = "waiting"
      <4>1. PICK i \in 1..Len(ws) : ws[i] = c
        BY <3>1 DEF QueueOK
      <4> QED
        BY <1>1, <1>2, <2>1, <4>1
    <3>2. CASE s0[c] # "waiting"
      BY <1>2, <1>7, <2>2, <3>2
    <3> QED
      BY <3>1, <3>2
  <2>3. stay = {}
    BY <2>2
  <2>4. { c \in Calls : st'[c] = "waiting" } = {}
    BY <1>5, <2>2
  <2>5. { c \in Calls : st'[c] \in {"granted", "rejected", "refused"} } = done \cup gone
    BY <1>5, <2>2
  <2> HIDE DEF done
  <2>6. PICK g \in SUBSET Calls : g = gone /\ g \subseteq pend
    OBVIOUS
  <2> HIDE DEF gone
  <2>7. Mutex!HandOver(g)
    BY <2>1, <2>3, <2>4, <2>5, <2>6 DEF Mutex!HandOver, done
  <2> QED
    BY <2>7
<1> QED
  BY <1>6, <1>7

(* A step of the abstract mutex, or none.                                    *)
MutexStep == Mutex!Next \/ UNCHANGED Mutex!vars

LEMMA NoStep == ASSUME active' = active, st' = st PROVE MutexStep
  BY DEF Mutex!vars, MutexStep

LEMMA TurnsAway ==
  ASSUME st \in [Calls -> CallStates], NEW c \in Calls, st[c] = "new",
         NEW v \in {"rejected", "refused"}, st' = [st EXCEPT ![c] = v], active' = active
  PROVE  MutexStep
<1>1. Mutex!TurnAway(c)
  BY DEF Mutex!TurnAway, Mutex!Fresh
<1> QED
  BY <1>1 DEF Mutex!Next, MutexStep

LEMMA Takes ==
  ASSUME st \in [Calls -> CallStates], NEW c \in Calls, st[c] = "new", active = NoCall,
         st' = [st EXCEPT ![c] = "granted"], active' = c
  PROVE  MutexStep
<1>1. Mutex!Take(c)
  BY DEF Mutex!Take, Mutex!Fresh
<1> QED
  BY <1>1 DEF Mutex!Next, MutexStep

(* Each operation of the lock is a step of the abstract mutex, or none.      *)
LEMMA AcquireRefines ==
  ASSUME Served(active, waiters, st), NEW c \in Calls, Acquire(c)
  PROVE  MutexStep
<1>1. /\ QueueOK(waiters, st)
      /\ active \in Calls \cup {NoCall}
      /\ active = NoCall => waiters = <<>>
      /\ waiters \in Seq(Calls)
      /\ st \in [Calls -> CallStates]
  BY DEF Served, QueueOK
<1>2. st[c] = "new"
  BY DEF Acquire
<1>3. CASE aborted[c]
  BY <1>1, <1>2, <1>3, TurnsAway DEF Acquire
<1>4. CASE ~aborted[c] /\ active # NoCall
  <2>1. st' = [st EXCEPT ![c] = "waiting"] /\ active' = active
    BY <1>4 DEF Acquire, Pump
  <2>2. Mutex!Wait(c)
    BY <1>1, <1>2, <1>4, <2>1 DEF Mutex!Wait, Mutex!Fresh
  <2> QED
    BY <2>2 DEF Mutex!Next, MutexStep
<1>5. CASE ~aborted[c] /\ active = NoCall
  <2> DEFINE ws == InsertAt(waiters, 1, c)
             s0 == [st EXCEPT ![c] = "waiting"]
  <2>1. waiters = <<>> /\ Len(waiters) = 0
    BY <1>1, <1>5
  <2>2. PICK i \in 1..Len(waiters) + 1 : Dispatch(InsertAt(waiters, i, c), s0)
    BY <1>5 DEF Acquire, Pump
  <2>3. i = 1
    BY <2>1
  <2>4. Len(ws) = 1 /\ ws[1] = c
    <3>1. 1 \in 1..Len(waiters) + 1
      BY <2>1
    <3>2. /\ Len(ws) = Len(waiters) + 1
          /\ \A j \in 1..Len(waiters) + 1 :
               ws[j] = IF j < 1 THEN waiters[j] ELSE IF j = 1 THEN c ELSE waiters[j - 1]
      BY <1>1, <3>1, InsertFacts
    <3> QED
      BY <2>1, <3>1, <3>2
  <2>5. Dispatch(ws, s0)
    BY <2>2, <2>3
  <2> HIDE DEF ws, s0
  <2>6. /\ active' = ws[1]
        /\ st' = [d \in Calls |-> IF d = ws[1] THEN "granted" ELSE s0[d]]
    <3>1. PICK k \in 1..Len(ws) + 1 :
            /\ \A j \in 1..k - 1 : aborted[ws[j]]
            /\ active' = IF k <= Len(ws) THEN ws[k] ELSE NoCall
            /\ st' = [d \in Calls |->
                        IF k <= Len(ws) /\ d = ws[k] THEN "granted"
                        ELSE IF \E j \in 1..k - 1 : d = ws[j] THEN "rejected"
                        ELSE s0[d]]
      BY <2>5 DEF Dispatch
    <3>2. k = 1
      BY <1>5, <2>4, <3>1
    <3> QED
      BY <2>4, <3>1, <3>2
  <2>7. active' = c /\ st' = [st EXCEPT ![c] = "granted"]
    BY <1>1, <2>4, <2>6 DEF s0
  <2> QED
    BY <1>1, <1>2, <1>5, <2>7, Takes
<1> QED
  BY <1>3, <1>4, <1>5

LEMMA ReleaseRefines ==
  ASSUME Served(active, waiters, st), NEW c \in Calls, Release(c)
  PROVE  MutexStep
<1>1. CASE active = c
  <2>1. Dispatch(waiters, st) /\ active \in Calls /\ active # NoCall
    BY <1>1, CallsAssumption DEF Release, Pump
  <2>2. \E gone \in SUBSET Calls : Mutex!HandOver(gone)
    BY <2>1, DispatchHandsOver DEF Served
  <2> QED
    BY <2>2 DEF Mutex!Next, MutexStep
<1>2. CASE active # c
  BY <1>2, NoStep DEF Release, lockVars
<1> QED
  BY <1>1, <1>2

LEMMA ReleaseForRefines ==
  ASSUME Served(active, waiters, st), NEW h \in Holders, ReleaseFor(h)
  PROVE  MutexStep
<1>1. /\ QueueOK(waiters, st)
      /\ active \in Calls \cup {NoCall}
      /\ active = NoCall => waiters = <<>>
      /\ waiters \in Seq(Calls)
      /\ st \in [Calls -> CallStates]
  BY DEF Served, QueueOK
<1> DEFINE pend == { c \in Calls : st[c] = "waiting" }
<1>2. active = NoCall => pend = {}
  BY <1>1 DEF QueueOK
<1> DEFINE held == IF active \in Calls /\ HolderOf[active] = h THEN NoCall ELSE active
<1>3. PICK f \in Enumerations(Kept(h)) : Pump(held, Thinned(f), Dropped(h))
  BY DEF ReleaseFor, Kept, Thinned, Dropped
<1>4. QueueOK(Thinned(f), Dropped(h))
  BY <1>1, DropKeepsQueue
<1>5. \A c \in Calls : Dropped(h)[c] # st[c] =>
         st[c] = "waiting" /\ Dropped(h)[c] = "rejected"
  BY <1>1 DEF Dropped, QueueOK
<1>6. CASE held # NoCall
  <2> DEFINE gone == { c \in pend : Dropped(h)[c] = "rejected" }
  <2>1. st' = Dropped(h) /\ active' = active /\ active # NoCall
    BY <1>3, <1>6 DEF Pump
  <2>2. { c \in Calls : st'[c] = "waiting" } = pend \ gone
    BY <1>5, <2>1
  <2>3. { c \in Calls : st'[c] \in {"granted", "rejected", "refused"} } =
          { c \in Calls : st[c] \in {"granted", "rejected", "refused"} } \cup gone
    BY <1>5, <2>1
  <2>4. PICK g \in SUBSET Calls : g = gone
    OBVIOUS
  <2>5. g \subseteq pend
    BY <2>4
  <2> HIDE DEF gone
  <2>6. Mutex!GiveUp(g)
    BY <2>1, <2>2, <2>3, <2>4, <2>5 DEF Mutex!GiveUp
  <2> QED
    BY <2>6 DEF Mutex!Next, MutexStep
<1>7. CASE held = NoCall /\ active # NoCall
  <2>1. Dispatch(Thinned(f), Dropped(h)) /\ active \in Calls
    BY <1>1, <1>3, <1>7 DEF Pump
  <2>2. \E gone \in SUBSET Calls : Mutex!HandOver(gone)
    BY <1>1, <1>4, <1>5, <1>7, <2>1, DispatchHandsOver
  <2> QED
    BY <2>2 DEF Mutex!Next, MutexStep
<1>8. CASE active = NoCall
  <2>1. Dispatch(Thinned(f), Dropped(h))
    BY <1>3, <1>8 DEF Pump
  <2>2. \A c \in Calls : Dropped(h)[c] = st[c] /\ st[c] # "waiting"
    BY <1>2, <1>5, <1>8
  <2>3. Len(Thinned(f)) = 0
    <3>1. \A i \in 1..Len(Thinned(f)) : FALSE
      BY <1>4, <2>2 DEF QueueOK
    <3>2. Len(Thinned(f)) \in Nat
      BY <1>4 DEF QueueOK
    <3> QED
      BY <3>1, <3>2
  <2>4. active' = NoCall /\ \A c \in Calls : st'[c] = st[c]
    BY <2>1, <2>2, <2>3 DEF Dispatch
  <2> QED
    BY <1>8, <2>4 DEF Mutex!vars, MutexStep
<1> QED
  BY <1>6, <1>7, <1>8

LEMMA OnAbortRefines ==
  ASSUME Served(active, waiters, st), NEW c \in Calls, OnAbort(c)
  PROVE  MutexStep
<1>1. CASE st[c] = "waiting"
  <2>1. st \in [Calls -> CallStates] /\ active # NoCall
    BY <1>1 DEF Served, QueueOK
  <2>2. st' = [st EXCEPT ![c] = "rejected"] /\ active' = active
    BY <1>1 DEF OnAbort
  <2>3. Mutex!GiveUp({c})
    BY <1>1, <2>1, <2>2 DEF Mutex!GiveUp
  <2> QED
    BY <2>3 DEF Mutex!Next, MutexStep
<1>2. CASE st[c] # "waiting"
  BY <1>2, NoStep DEF OnAbort, lockVars
<1> QED
  BY <1>1, <1>2

(* Each step of the lock is a step of the abstract mutex or leaves it alone. *)
LEMMA StepRefines == ASSUME IInv, [Next]_vars PROVE MutexStep
<1>1. Served(active, waiters, st) /\ st \in [Calls -> CallStates]
  BY IInvServed DEF Served, QueueOK
<1>2. ASSUME NEW c \in Calls, CallAcquire(c) \/ CallRelease(c) \/ AbortListener(c)
      PROVE  MutexStep
  BY <1>1, <1>2, AcquireRefines, ReleaseRefines, OnAbortRefines
  DEF CallAcquire, CallRelease, AbortListener
<1>3. ASSUME NEW c \in Calls, CallTryAcquire(c)
      PROVE  MutexStep
  BY <1>1, <1>3, TurnsAway, Takes DEF CallTryAcquire, TryAcquire
<1>4. ASSUME NEW h \in Holders, CallReleaseFor(h)
      PROVE  MutexStep
  BY <1>1, <1>4, ReleaseForRefines DEF CallReleaseFor
<1>5. CASE (\E c \in Calls : Abort(c)) \/ UNCHANGED vars
  BY <1>5, NoStep DEF Abort, lockVars, vars
<1> QED
  BY <1>2, <1>3, <1>4, <1>5 DEF Next

(* The lock implements the queueless mutex: at most one owner, nobody is     *)
(* preempted by another caller, no wake-up is lost, a settled call is never  *)
(* served again, and the operator's calls come before every session's.       *)
THEOREM LockImplementsMutex == Spec => ImplementsMutex
<1>1. Init => Mutex!Init
  BY DEF Init, Mutex!Init
<1>2. IInv /\ [Next]_vars => [Mutex!Next]_(Mutex!vars)
  BY StepRefines DEF MutexStep
<1> QED
  BY <1>1, <1>2, LockInvariant, PTL DEF Spec, ImplementsMutex, Mutex!Spec
=============================================================================
