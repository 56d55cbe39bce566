---------------------------- MODULE PromptQueue ----------------------------
(***************************************************************************)
(* The prompts of one terminal, from Enter to the conversation: the FIFO   *)
(* of src/app/app.ts and of its Ink counterpart (src/tui.tsx), the turns   *)
(* and commands it starts one by one, and the message that steers the      *)
(* running turn instead of waiting for its own. The turn is what           *)
(* SteeredTurn says of it, which is what AgentLoop is shown to do.         *)
(*                                                                         *)
(* A steering message stays in the FIFO until the loop reports that its    *)
(* text was injected; the report names the text, not the entry, and two    *)
(* messages may have the same text.                                        *)
(***************************************************************************)
EXTENDS Sequences, SequencesExt, Naturals

CONSTANTS
  Prompts,      (* what the user, or a timer, may submit                     *)
  Text,         (* what each of them says                                    *)
  Commands,     (* those that are commands                                   *)
  Frontends     (* app: the full-screen terminal; ink: the other one         *)

ASSUME PromptAssumption ==
  /\ Commands \subseteq Prompts
  /\ \A p, q \in Prompts : Text[p] = Text[q] => (p \in Commands <=> q \in Commands)
  /\ Frontends \subseteq {"app", "ink"}

VARIABLES
  frontend,     (* the terminal                                              *)
  running,      (* this.running: a turn was begun and has not ended          *)
  current,      (* the turn whose abort controller the terminal holds        *)
  waiting,      (* the prompts whose turns wait for the run lock             *)
  owner,        (* the prompt whose turn holds it: its loop is loopRef       *)
  work,         (* a compaction, a model check or a model switch             *)
  drains,       (* how many times flushQueue() is still to run, at once      *)
  queue,        (* queued                                                    *)
  pending,      (* the message whose text the pending steer carries          *)
  phase, steer, (* the turn of the owner                                     *)
  sent,         (* the submissions, in order                                 *)
  taken,        (* those that began a turn, were injected or executed        *)
  aside,        (* those a user_prompt_submit hook refused, and the commands *)
                (* answered at once, past the queue                          *)
  dropped,      (* those the user threw away while they waited               *)
  stranded,     (* a refusal has left the rest of the FIFO without a drain   *)
  doubled       (* a turn was taken for ended that had just begun            *)

host == <<running, current, waiting, owner, work, drains>>
record == <<sent, taken, aside, dropped, stranded, doubled>>
vars == <<frontend, host, queue, pending, phase, steer, record>>

Turn == INSTANCE SteeredTurn

Works == {"compaction", "check", "switch"}

Init ==
  /\ frontend \in Frontends
  /\ running = FALSE /\ current = {} /\ waiting = <<>> /\ owner = {}
  /\ work = "none" /\ drains = 0 /\ queue = <<>> /\ pending = {}
  /\ phase = "over" /\ steer = "none"
  /\ sent = <<>> /\ taken = <<>> /\ aside = {} /\ dropped = {}
  /\ stranded = FALSE /\ doubled = FALSE

Busy == running \/ work # "none"

Ran(p) == taken' = Append(taken, p)

(* A hook turns the prompt away. The Ink terminal drains on; the full-screen *)
(* one's drain ends there, unless a command of the queue began the turn.     *)
Refused(p, rest) ==
  LET ends == frontend = "app" /\ p \notin Commands IN
  /\ aside' = aside \cup {p}
  /\ drains' = IF frontend = "ink" THEN 1
               ELSE IF ends /\ drains > 0 THEN drains - 1 ELSE drains
  /\ stranded' = (stranded \/ (ends /\ drains < 2 /\ rest # <<>>))
  /\ UNCHANGED <<running, current, waiting>>

(* runTurn(), up to the wait for the run lock.                               *)
StartTurn(p, rest) ==
  /\ queue' = rest
  /\ \/ /\ running' = TRUE /\ current' = {p} /\ waiting' = Append(waiting, p)
        /\ UNCHANGED <<drains, aside, stranded>>
     \/ Refused(p, rest)
  /\ UNCHANGED <<work, taken, dropped>>

(* runSlash(): most commands are done at once; some leave work behind that   *)
(* bars the queue, some begin a turn; the full-screen terminal's `/clear`    *)
(* empties the queue.                                                        *)
RunSlash(p, rest) ==
  \/ StartTurn(p, rest)
  \/ /\ Ran(p)
     /\ \/ work' \in Works \cup {"none"} /\ queue' = rest /\ UNCHANGED dropped
        \/ /\ frontend = "app" /\ queue' = <<>> /\ dropped' = dropped \cup ToSet(rest)
           /\ UNCHANGED work
     /\ UNCHANGED <<running, current, waiting, drains, aside, stranded>>

(* Faulty: a message steers whatever waits in front of it.                   *)
SteeringActionUnfair(p, ahead) ==
  IF ~running \/ work # "none" \/ p \in Commands THEN "none" ELSE "inject"

(* promptSteeringAction() for a message behind `ahead` entries.              *)
SteeringAction(p, ahead) ==
  IF ~running \/ work # "none" \/ p \in Commands THEN "none"
  ELSE IF ahead = 0 THEN "inject"
  ELSE IF steer = "none" THEN "end-turn" ELSE "none"

(* queue(): first the entry, then the steer, if there is a loop to take it.  *)
(* `/queue`, a timer's wakeup and the like never steer.                      *)
Enqueue(p, deferred) ==
  LET action == IF deferred THEN "none" ELSE SteeringAction(p, Len(queue)) IN
  /\ queue' = Append(queue, p)
  /\ IF owner # {} /\ steer = "none" /\ action # "none"
     THEN /\ Turn!Request(IF action = "inject" THEN "text" ELSE "bare")
          /\ pending' = IF action = "inject" THEN {p} ELSE {}
     ELSE UNCHANGED <<phase, steer, pending>>
  /\ UNCHANGED <<running, current, waiting, work, drains, taken, aside, dropped, stranded>>

(* The commands that do not wait for what is going on: `/compact` while a    *)
(* compaction runs, which only says so, and in the Ink terminal the          *)
(* informational ones while a turn does (SLASH_WHILE_RUNNING).               *)
Live(p) ==
  /\ p \in Commands
  /\ IF frontend = "app" THEN work = "compaction" ELSE running
  /\ aside' = aside \cup {p}
  /\ UNCHANGED <<running, current, waiting, work, drains, queue, pending, phase, steer,
                 taken, dropped, stranded>>

(* submit(): at once when nothing is in the way, by the queue otherwise.     *)
(* Only `/queue` looks at what waits there; during a model switch the Ink    *)
(* terminal leaves everything else in the composer.                          *)
Submit(p, deferred) ==
  /\ \A k \in DOMAIN sent : sent[k] # p
  /\ drains = 0 /\ (deferred => p \notin Commands)
  /\ frontend = "ink" /\ work = "switch" => deferred
  /\ sent' = Append(sent, p)
  /\ \/ Live(p)
     \/ (Busy \/ (deferred /\ queue # <<>>)) /\ Enqueue(p, deferred)
     \/ /\ ~(Busy \/ (deferred /\ queue # <<>>))
        /\ IF p \in Commands THEN RunSlash(p, queue) ELSE StartTurn(p, queue)
        /\ UNCHANGED <<pending, phase, steer>>
  /\ UNCHANGED <<frontend, owner, doubled>>

(* A drain that has nothing more to do, or finds the terminal busy. Behind   *)
(* the first of two, endTurn() is called once more: what the first one began *)
(* is taken for ended.                                                       *)
DrainOver ==
  /\ Busy \/ queue = <<>>
  /\ drains' = drains - 1
  /\ IF drains = 2 THEN running' = FALSE /\ current' = {} /\ doubled' = (doubled \/ running)
     ELSE UNCHANGED <<running, current, doubled>>
  /\ UNCHANGED <<waiting, work, queue, taken, aside, dropped, stranded>>

(* flushQueue(), one entry at a time; nothing comes in between.              *)
Flush ==
  /\ drains > 0
  /\ \/ DrainOver
     \/ /\ ~Busy /\ queue # <<>>
        /\ IF Head(queue) \in Commands THEN RunSlash(Head(queue), Tail(queue))
           ELSE StartTurn(Head(queue), Tail(queue))
        /\ UNCHANGED doubled
  /\ UNCHANGED <<frontend, owner, pending, phase, steer, sent>>

(* The lock is granted, in the order of the waits, and the loop begins.      *)
LockGranted ==
  /\ drains = 0 /\ waiting # <<>> /\ owner = {}
  /\ owner' = {Head(waiting)} /\ waiting' = Tail(waiting) /\ Ran(Head(waiting))
  /\ phase' = "thinking" /\ steer' = "none" /\ pending' = {}
  /\ UNCHANGED <<frontend, running, current, work, drains, queue,
                 sent, aside, dropped, stranded, doubled>>

(* The wait is given up. The full-screen terminal ends the turn where it     *)
(* catches the abort, and again in the `finally` around it.                  *)
LockAborted ==
  /\ drains = 0
  /\ \E k \in DOMAIN waiting :
       /\ waiting[k] \in current
       /\ waiting' = RemoveAt(waiting, k) /\ dropped' = dropped \cup {waiting[k]}
  /\ running' = FALSE /\ current' = {}
  /\ drains' = IF frontend = "app" THEN 2 ELSE 1
  /\ UNCHANGED <<frontend, owner, work, queue, pending, phase, steer,
                 sent, taken, aside, stranded, doubled>>

(* Faulty: the queue is not resumed when the work is done.                   *)
WorkEndsOnly ==
  /\ drains = 0 /\ work # "none"
  /\ work' = "none"
  /\ UNCHANGED <<frontend, running, current, waiting, owner, drains, queue,
                 pending, phase, steer, record>>

(* The compaction, the model check or the switch settles.                    *)
WorkEnds ==
  /\ drains = 0 /\ work # "none"
  /\ work' = "none" /\ drains' = 1
  /\ UNCHANGED <<frontend, running, current, waiting, owner, queue,
                 pending, phase, steer, record>>

(* dropOneQueuedByText(): the first entry with the text of the report.       *)
DropOneByText(q, text) ==
  IF \E k \in DOMAIN q : Text[q[k]] = text
  THEN RemoveAt(q, CHOOSE k \in DOMAIN q :
                     Text[q[k]] = text /\ \A j \in 1..k - 1 : Text[q[j]] # text)
  ELSE q

(* Faulty: the loop keeps the text it has injected.                          *)
AppliedKept ==
  /\ UNCHANGED pending
  /\ \E p \in pending : Ran(p) /\ queue' = DropOneByText(queue, Text[p])

(* steer_applied: the text is part of the running turn.                      *)
Applied ==
  /\ pending' = {}
  /\ \E p \in pending : Ran(p) /\ queue' = DropOneByText(queue, Text[p])

(* A step of the running turn.                                               *)
TurnStep ==
  /\ drains = 0 /\ owner # {}
  /\ \/ Turn!Inject /\ Applied
     \/ (Turn!Act \/ Turn!Rest) /\ UNCHANGED <<queue, pending, taken>>
     \/ /\ Turn!End
        /\ IF steer = "text" /\ steer' = "none" THEN Applied
           ELSE UNCHANGED <<queue, pending, taken>>
  /\ UNCHANGED <<frontend, host, sent, aside, dropped, stranded, doubled>>

(* Ctrl-C in the Ink terminal: the turn is interrupted, and what waits is    *)
(* thrown away, the text of a pending steer with it.                         *)
Discard ==
  /\ drains = 0 /\ frontend = "ink" /\ running /\ queue # <<>>
  /\ dropped' = dropped \cup ToSet(queue) /\ queue' = <<>>
  /\ pending' = {} /\ steer' = IF steer = "text" THEN "bare" ELSE steer
  /\ UNCHANGED <<frontend, host, phase, sent, taken, aside, stranded, doubled>>

(* endTurn(): the terminal takes itself for idle, whichever turn ended, and  *)
(* the queue is drained.                                                     *)
EndTurn ==
  /\ drains = 0 /\ owner # {} /\ phase = "over"
  /\ owner' = {} /\ running' = FALSE /\ current' = {} /\ drains' = 1
  /\ steer' = "none" /\ pending' = {}
  /\ UNCHANGED <<frontend, waiting, work, queue, phase, record>>

Next ==
  \/ \E p \in Prompts, deferred \in BOOLEAN : Submit(p, deferred)
  \/ Flush
  \/ LockGranted \/ LockAborted \/ WorkEnds
  \/ TurnStep
  \/ EndTurn
  \/ Discard

(* Nothing is asked of the lock, which another holder may keep, nor of a     *)
(* turn left alone, which may wait for an answer: work settles, running      *)
(* tools end, and a turn that a bare steer is to end does (AgentLoop).       *)
Rests == TurnStep /\ phase = "acting"
Yields == TurnStep /\ steer = "bare" /\ phase' = "over"
Spec ==
  /\ Init /\ [][Next]_vars
  /\ WF_vars(Flush) /\ WF_vars(WorkEnds) /\ WF_vars(EndTurn)
  /\ WF_vars(Rests) /\ WF_vars(Yields)

-----------------------------------------------------------------------------
TypeOK ==
  /\ running \in BOOLEAN /\ work \in Works \cup {"none"} /\ drains \in 0..2
  /\ queue \in Seq(Prompts) /\ waiting \in Seq(Prompts)
  /\ sent \in Seq(Prompts) /\ taken \in Seq(Prompts)
  /\ {current, owner, pending, aside, dropped} \subseteq SUBSET Prompts
  /\ stranded \in BOOLEAN /\ doubled \in BOOLEAN
  /\ phase \in Turn!Phases /\ steer \in Turn!Steers
  /\ (pending # {}) <=> (steer = "text")

(* What the conversation holds, then what waits for the lock, then the queue.*)
Line == taken \o waiting \o queue

Once(s) == \A i, j \in DOMAIN s : s[i] = s[j] => i = j

Before(s, p, q) == \E i, j \in DOMAIN s : i < j /\ s[i] = p /\ s[j] = q

(* Everything keeps its place in the order of submission, until a refusal    *)
(* strands the queue: "Queue order is the user's stated intent and must not  *)
(* be reordered by a later message" (src/app/app.ts, queue()).               *)
OrderKept == ~stranded => \A i, j \in DOMAIN Line : i < j => Before(sent, Line[i], Line[j])

(* Every submission that was neither answered aside nor thrown away is in    *)
(* the conversation or waits, once, though the report of a steer names a     *)
(* text and not an entry: none is lost, none runs twice, and none runs in    *)
(* the place of another; and each keeps its place. Nothing of this is said   *)
(* of a terminal that has taken a turn for ended that had just begun.        *)
InOrder ==
  ~doubled =>
    /\ Once(Line)
    /\ ToSet(Line) = ToSet(sent) \ (aside \cup dropped)
    /\ OrderKept

(* What is queued leaves the queue, unless a refusal has stranded it, the    *)
(* lock is withheld for good, or a turn that no steer is to end never does.  *)
EveryPromptLeaves ==
  \/ <>[](waiting # <<>>)
  \/ <>[](owner # {} /\ steer # "bare")
  \/ []<>(queue = <<>> \/ stranded)
=============================================================================
