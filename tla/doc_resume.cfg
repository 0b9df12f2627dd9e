\* A block resolved after the escalation over it leads back to the escalation (code against contract).
SPECIFICATION Spec
CONSTANTS
  k1 = k1  k2 = k2
  None = None
  Tasks = {"t1"}
  Agents <- MCAgents
  TeamAtStart <- MCTeamAtStart
  RolesAtStart <- MCRolesAtStart
  Enrollments = {}
  Grants = {}
  SYSTEM_AGENT = "coordinator.system"
  Keys = {}
  Notes = {"n", "n2", "secret"}
  SecretNotes = {"secret"}
  Actions = {"release", "rollback", "other"}
  Intakes <- PathIntakes
  Commands <- HoldCommands
  Pausable = {}
  Quarantinable = {}
  Offered <- HoldOffered
  Grantable = {}
  MaxEvents = 6
  MaxRejections = 0
  MaxLost = 0
  MaxFailed = 0
PROPERTY ResolutionLeadsBack
CHECK_DEADLOCK FALSE
