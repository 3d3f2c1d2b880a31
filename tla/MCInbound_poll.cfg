\* The poller, a manual poll and webhooks of one process, with crashes.
CONSTANTS
  a = a  s1 = s1  s2 = s2  h1 = h1  p = p
  Polled = {1, 2, 3}
  Exact = {2, p}
  Broken = {3}
  Pushed = {p}
  Leads = {a}
  From <- Senders
  Intent <- Meanings
  Syncs = {s1, s2}
  Hooks = {h1}
  AutoReply <- Approvals
  Limit = 2
  MaxPushes = 2
  MaxReviews = 1
  MaxFaults = 1
  MaxEvents = 2
SPECIFICATION Spec
INVARIANTS TypeOK AnsweredOnce RecordedIsHeard SeenIsSettled
 
CHECK_DEADLOCK FALSE
