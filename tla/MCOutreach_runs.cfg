\* Two runs of one process over two leads, with reviewers, answers and faults.
CONSTANTS
  a = a  b = b  r1 = r1  r2 = r2
  Leads = {a, b}
  Runs = {r1, r2}
  OneLoop = TRUE
  Channel <- ThreeSteps
  Sequences <- ThreeSequences
  Reach <- ReachBoth
  Settings <- TwoSettings
  MaxEmails = 1
  Ops = {"followup", "review", "answer", "response", "meeting", "data", "sequence", "import", "assign"}
  MaxRows = 3
  MaxStarts = 3
  MaxOps = 2
  MaxFaults = 1
CONSTRAINT Few
SYMMETRY RunsAlike
SPECIFICATION Spec
INVARIANTS TypeOK OnePendingTouch StepReachesOnce HaltsAreHeard LimitHolds
CHECK_DEADLOCK FALSE
