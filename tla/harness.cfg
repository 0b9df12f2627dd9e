\* Coordinator and white team over one ledger and registry: an Orange task, its approval, a hold, departures, restarts and crashes.
SPECIFICATION HarnessSpec
CONSTANTS
  Tasks = {"t1"}
  Agents <- People
  TeamAtStart <- MCTeamAtStart
  RolesAtStart <- MCRolesAtStart
  Enrollments <- MCEnrollments
  Grants <- MCGrants
  Entries = {"repo"}
  AllowedEntries = {"repo"}
  Actions = {"release", "rollback", "scope_expansion", "*"}
  Declarations <- MCDeclarations
  Redeclares = FALSE
  Expansions = {}
  Approvals <- MCApprovals
  RiskTargets = {}
  Haltable = {"t1"}
  Rejectable = TRUE
  None = None
  MaxTime = 1
  MaxRecords = 4
  SYSTEM_AGENT = "coordinator.system"
  Keys = {}
  Notes = {"n"}
  SecretNotes = {}
  Intakes <- MCIntakes
  Commands <- MCCommands
  MaxEvents = 3
  MaxRejections = 0
  MaxLost = 1
  MaxFailed = 0
INVARIANTS MovesAreWarranted RolesFitTeams ScopeIsWarranted
PROPERTIES CoordinatorSpec ResolversAreEntitled
CHECK_DEADLOCK FALSE
