\* Two replicas with a scheduler each; time allows every claim to end.
CONSTANTS
  w1 = w1  w2 = w2  r1 = r1  r2 = r2  p1 = p1  p2 = p2
  NoCall = NoCall
  Drafts = {1}
  Workers = {w1, w2}
  Reviewers = {r1}
  Replicas = {p1, p2}
  Home <- HomeSplit
  Ops = {"reject", "delete", "move"}
  BatchSize = 2
  MaxAttempts = 3
  MaxOps = 3
  MaxFaults = 2
  Webhooks = FALSE
  Prompt = TRUE
SPECIFICATION FairSpec
PROPERTIES CallsFinish ScheduledResolves
CHECK_DEADLOCK FALSE
