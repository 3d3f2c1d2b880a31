\* Keys of an organization whose plan says organization_first.
CONSTANTS
  a = a  b = b  work = work  alone = alone  None = None
  Platform <- Providers
  OpenRouter = {"Meta", "OpenRouter-Auto"}
  Credentials = {1, 2}
  FirstKeys = {1}
  Owner <- OwnerOf
  OrgName <- ListedAs
  Family <- FamilyOf
  Rank <- Ranks
  Tasks = {work, alone}
  Org <- OrgOfTask
  Metered = {work}
  Agents <- AgentsOf
  Tools = {}
  Structured = {alone}
  Asked <- AskedFor
  Plans <- AllPlans
  DefaultPlan <- Business
  DefaultMode = "platform_first"
  Duration = 1
  MaxChanges = 1
  MaxFaults = 1
  MaxEvents = 0
SPECIFICATION Spec
INVARIANTS OrganizationFirst
CHECK_DEADLOCK FALSE
