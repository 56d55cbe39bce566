--------------------------- MODULE MCSessionTurns ---------------------------
(***************************************************************************)
(* Two instances. "Many": two sessions with a prompt each and a turn of    *)
(* the terminal, so that a grant can pass along two waiters of both        *)
(* classes and closeAll() can close a session it has just granted. "Few":  *)
(* one session with two prompts and a turn of the terminal, so that a      *)
(* prompt can follow an interrupted, failed or torn-down one.              *)
(***************************************************************************)
EXTENDS SessionTurns

CONSTANTS sa, sb, a1, a2, b1, t1

ManySessions == {sa, sb}
ManyPrompts == {a1, b1}
ManySessionOf == [c \in ManyPrompts |-> IF c = b1 THEN sb ELSE sa]
FewSessions == {sa}
FewPrompts == {a1, a2}
FewSessionOf == [c \in FewPrompts |-> sa]
OneTuiTurn == {t1}
AllPrompts == {a1, a2, b1}
AllSessionOf == [c \in AllPrompts |-> IF c = b1 THEN sb ELSE sa]

(* As Init, but one of two prompts is spent: b1, with its session gone, or   *)
(* a2.                                                                       *)
SpentInit ==
  \E c \in {a2, b1} :
    /\ Lock!Init
    /\ pc = [d \in Calls |-> IF d = c THEN "done" ELSE "unsent"]
    /\ stops = [d \in Prompts |-> IF d = c THEN 1 ELSE 0]
    /\ known = IF c = b1 THEN {sa} ELSE {sa, sb}
    /\ status = [s \in Sessions |-> IF s \in known THEN "idle" ELSE "closed"]
    /\ agent = {} /\ building = [s \in Sessions |-> "none"]
    /\ abortOf = [s \in Sessions |-> None] /\ clients = [s \in Sessions |-> 0]
    /\ asking = {} /\ gone = {} /\ torn = {} /\ cancelled = {}
    /\ stopping = FALSE /\ closing = {} /\ exiting = FALSE

MCSpec == SpentInit /\ [][Next]_vars /\ Fairness
=============================================================================
