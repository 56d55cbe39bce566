SPECIFICATION Spec
CONSTANTS
  yes1 = yes1
  yes2 = yes2
  other = other
  compact = compact
  model = model
  Prompts <- FivePrompts
  Text <- FiveTexts
  Commands <- TwoCommands
  Frontends = {"app", "ink"}
INVARIANT OrderKept
\* Everything may have been submitted and settled.
CHECK_DEADLOCK FALSE
