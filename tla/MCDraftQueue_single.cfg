\* One replica, one scheduler run at a time, one reviewer.
CONSTANTS
  w1 = w1  w2 = w2  r1 = r1  r2 = r2  p1 = p1  p2 = p2
  Drafts = {1, 2}
  Workers = {w1}
  Reviewers = {r1}
  Replicas = {p1}
  Home <- HomeOne
  NoCall = NoCall
  Ops = {"send", "schedule", "reject", "delete", "move", "return"}
  BatchSize = 2
  MaxAttempts = 2
  MaxOps = 3
  MaxFaults = 1
  Webhooks = TRUE
  Prompt = TRUE
SPECIFICATION Spec
INVARIANTS TypeOK ClaimRecoverable NoZombie DuplicateNeedsFault MailIsRecorded WorkerSendsClaimed
PROPERTIES SentIsFinal ImplementsLifecycle
CHECK_DEADLOCK FALSE
