SPECIFICATION Spec
CONSTANTS
  r1 = r1
  r2 = r2
  p1 = p1
  c1 = c1
  rm = rm
  ls = ls
  twin = twin
  Runs = {r1, r2}
  AutoConfirm = {r2}
  Mode <- Modes
  Orchestrated = {r1}
  MaxIterations <- Iterations
  MaxCalls = 2
  Paths = {p1}
  Text = {c1}
  Raw = Raw
  Lossy = Lossy
  Torn = Torn
  Commands = {rm, ls, twin}
  Destructive = {rm, twin}
  Spells <- Spelled
  MaxUndo = 2
  MaxEdits = 3
  MaxTokens = 2
  None = None
INVARIANTS
  AnsweredInOrder
  EditsRecoverable
  ApprovedAsShown
CHECK_DEADLOCK FALSE
