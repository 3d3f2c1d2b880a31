\* A metered task of two agents and a single agent, of two organizations.
CONSTANTS
  a = a  b = b  work = work  alone = alone  None = None
  Platform <- Providers
  OpenRouter = {"Meta", "OpenRouter-Auto"}
  Credentials = {1, 2}
  FirstKeys = {1}
  Owner <- OwnerOf
  OrgName <- ListedAs
  Family <- FamilyOf
  Rank <- Ranks
  Tasks = {work, alone}
  Org <- OrgOfTask
  Metered = {work}
  Agents <- AgentsOf
  Tools = {}
  Structured = {alone}
  Asked <- AskedFor
  Plans <- AllPlans
  DefaultPlan <- Business
  DefaultMode = "platform_first"
  Duration = 1
  MaxChanges = 1
  MaxFaults = 1
  MaxEvents = 1
SPECIFICATION Spec
INVARIANTS TypeOK FailedIsSpared ChargedOnce
PROPERTIES TasksEnd
CHECK_DEADLOCK FALSE
