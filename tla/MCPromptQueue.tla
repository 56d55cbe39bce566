--------------------------- MODULE MCPromptQueue ---------------------------
(***************************************************************************)
(* Five submissions to either terminal: two messages that read the same,   *)
(* one that reads otherwise, and two commands.                             *)
(***************************************************************************)
EXTENDS PromptQueue

CONSTANTS yes1, yes2, other, compact, model

FivePrompts == {yes1, yes2, other, compact, model}
FiveTexts == [p \in FivePrompts |->
  IF p \in {yes1, yes2} THEN "yes"
  ELSE IF p = other THEN "other"
  ELSE IF p = compact THEN "/compact" ELSE "/model"]
TwoCommands == {compact, model}
=============================================================================
