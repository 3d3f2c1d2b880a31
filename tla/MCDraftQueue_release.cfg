\* One replica: the background scheduler and the send-due endpoint.
CONSTANTS
  w1 = w1  w2 = w2  r1 = r1  r2 = r2  p1 = p1  p2 = p2
  NoCall = NoCall
  Drafts = {1}
  Workers = {w1, w2}
  Reviewers = {}
  Replicas = {p1}
  Home <- HomeOne
  Ops = {}
  BatchSize = 1
  MaxAttempts = 2
  MaxOps = 0
  MaxFaults = 0
  Webhooks = TRUE
  Prompt = TRUE
SPECIFICATION FairSpec
PROPERTIES ClaimReleased
CHECK_DEADLOCK FALSE
