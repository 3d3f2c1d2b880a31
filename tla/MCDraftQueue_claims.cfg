\* Two replicas with a scheduler each share two rows.
CONSTANTS
  w1 = w1  w2 = w2  r1 = r1  r2 = r2  p1 = p1  p2 = p2
  NoCall = NoCall
  Drafts = {1, 2}
  Workers = {w1, w2}
  Reviewers = {r1}
  Replicas = {p1, p2}
  Home <- HomeSplit
  Ops = {"reject", "delete", "move"}
  BatchSize = 2
  MaxAttempts = 2
  MaxOps = 1
  MaxFaults = 1
  Webhooks = TRUE
  Prompt = TRUE
SPECIFICATION Spec
INVARIANTS ClaimsExclusive DuplicateNeedsFault NoZombie
CHECK_DEADLOCK FALSE
