SPECIFICATION Spec
CONSTANTS
  r1 = r1
  r2 = r2
  r3 = r3
  Requests <- MCRequests
  Questions <- MCQuestions
  Similar <- MCSimilar
  Clients = {"alice", "bob"}
  Enabled = TRUE
  NoPrompt = ""
  Nobody = "nobody"
  Threshold = 2
  Window = 0
  MaxHistory = 1
  MaxBuffer = 2
  MaxTime = 1
  MaxMishaps = 1
SYMMETRY RequestSymmetry
INVARIANTS OwnAnswers LoopExact TelemetryKept
CHECK_DEADLOCK FALSE
