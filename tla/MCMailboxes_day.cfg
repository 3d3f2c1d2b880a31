\* Two mailboxes, two senders, the background loop.
CONSTANTS
  x = x  y = y  s1 = s1  s2 = s2  loop = loop  None = None
  Boxes = {1, 2}
  Addresses = {x, y}
  Senders = {s1, s2}
  Polls = {loop}
  Poller = loop
  Telling = {x}
  DailyLimit = 1
  BoxLimit = 2
  MaxChanges = 3
SPECIFICATION Spec
INVARIANTS TypeOK WithinLimits OwnAccount
PROPERTIES RejectedIsNoticed
CHECK_DEADLOCK FALSE
