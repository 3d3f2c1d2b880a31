\* Two replicas, an owner and a user, and every request.
CONSTANTS
  r1 = r1  r2 = r2  owner = owner  user = user  trial = trial  paid = paid  None = None  Same = Same
  Replicas = {r1, r2}
  Persons = {owner, user}
  Owners = {owner}
  Invitee = user
  Plans = {trial, paid}
  Wishes <- Asked
  TrialDays <- Trials
  DefaultTrial = 2
  TTL = 2
  MaxTime = 3
  MaxRows = 3
  MaxOrgs = 2
  MaxAsked <- Budget
  MaxRequests = 4
SPECIFICATION Spec
SYMMETRY ReplicasAlike
INVARIANTS TypeOK StaleAccessIsBounded OneRowEach
PROPERTIES OwnerIsKept OnlyExplicitRevival
CHECK_DEADLOCK FALSE
