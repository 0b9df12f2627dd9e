\* Blocks and escalations nested and resolved, under pauses, crashes and restarts, by a resolver whose role comes and goes.
SPECIFICATION Spec
CONSTANTS
  k1 = k1  k2 = k2
  None = None
  Tasks = {"t1"}
  Agents <- MCAgents
  TeamAtStart <- MCTeamAtStart
  RolesAtStart <- MCRolesAtStart
  Enrollments = {}
  Grants <- HoldGrants
  SYSTEM_AGENT = "coordinator.system"
  Keys = {}
  Notes = {"n", "n2", "secret"}
  SecretNotes = {"secret"}
  Actions = {"release", "rollback", "other"}
  Intakes <- PathIntakes
  Commands <- HoldCommands
  Pausable = {"t1"}
  Quarantinable = {}
  Offered <- HoldOffered
  Grantable = {}
  MaxEvents = 8
  MaxRejections = 0
  MaxLost = 1
  MaxFailed = 0
INVARIANTS EvidenceTrail LogIsAPath ResumeIsOrigin RestartLosesNothing
PROPERTIES ProgressOnlyWhenFree KeepsContract MovedByAuthority
CHECK_DEADLOCK FALSE
