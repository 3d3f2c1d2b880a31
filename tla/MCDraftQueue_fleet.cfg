\* Everything at once: nothing is assumed of the clock, two replicas, two reviewers.
CONSTANTS
  w1 = w1  w2 = w2  r1 = r1  r2 = r2  p1 = p1  p2 = p2
  Drafts = {1}
  Workers = {w1, w2}
  Reviewers = {r1, r2}
  Replicas = {p1, p2}
  Home <- HomeTwo
  NoCall = NoCall
  Ops = {"send", "schedule", "reject", "delete", "move", "return"}
  BatchSize = 1
  MaxAttempts = 2
  MaxOps = 2
  MaxFaults = 1
  Webhooks = TRUE
  Prompt = FALSE
SPECIFICATION Spec
INVARIANTS ClaimRecoverable
PROPERTIES AttemptsNeverLost
CHECK_DEADLOCK FALSE
