\* Two replicas, and an approval while the last attempt is under way.
CONSTANTS
  w1 = w1  w2 = w2  r1 = r1  r2 = r2  p1 = p1  p2 = p2
  NoCall = NoCall
  Drafts = {1}
  Workers = {w1, w2}
  Reviewers = {r1}
  Replicas = {p1, p2}
  Home <- HomeSplit
  Ops = {"schedule"}
  BatchSize = 1
  MaxAttempts = 2
  MaxOps = 1
  MaxFaults = 0
  Webhooks = FALSE
  Prompt = TRUE
SPECIFICATION Spec
INVARIANTS SameRowOneSender
CHECK_DEADLOCK FALSE
