SPECIFICATION Spec
CONSTANTS
  Prompts = {p1, p2}
  Windows = {w1, w2}
  MaxCalls = 3
  Nil = Nil
SYMMETRY Symmetry
CHECK_DEADLOCK FALSE
INVARIANTS
  AnswersAreMeant
  AskedIsShown
  CallbacksFindTheirPrompt
