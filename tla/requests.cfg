\* Callers reuse request ids over two tasks, across refusals, a quarantine, failed writes, crashes and restarts.
SPECIFICATION Spec
CONSTANTS
  k1 = k1  k2 = k2
  None = None
  Tasks = {"t1", "t2"}
  Agents <- MCAgents
  TeamAtStart <- MCTeamAtStart
  RolesAtStart <- MCRolesAtStart
  Enrollments = {}
  Grants = {}
  SYSTEM_AGENT = "coordinator.system"
  Keys = {k1, k2}
  Notes = {"n", "n2", "secret"}
  SecretNotes = {"secret"}
  Actions = {"release", "rollback", "other"}
  Intakes <- AllIntakes
  Commands <- AllCommands
  Pausable = {}
  Quarantinable = {"silver"}
  Offered = {}
  Grantable = {}
  MaxEvents = 4
  MaxRejections = 1
  MaxLost = 1
  MaxFailed = 1
INVARIANTS TypeOK OneEventPerRequest SuccessAnswersTheCall SuccessSeqIncreases AuditFollowsLog DeclaredTasksExist RestartLosesNothing
PROPERTIES MovedByAuthority UsesDurableLog
CHECK_DEADLOCK FALSE
