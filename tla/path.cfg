\* A task walks the whole path, is blocked and unblocked on it, approved, released, rolled back and closed, with restarts.
SPECIFICATION Spec
CONSTANTS
  k1 = k1  k2 = k2
  None = None
  Tasks = {"t1"}
  Agents <- MCAgents
  TeamAtStart <- MCTeamAtStart
  RolesAtStart <- MCRolesAtStart
  Enrollments = {}
  Grants = {}
  SYSTEM_AGENT = "coordinator.system"
  Keys = {}
  Notes = {"n", "n2", "secret"}
  SecretNotes = {"secret"}
  Actions = {"release", "rollback", "other"}
  Intakes <- PathIntakes
  Commands <- PathCommands
  Pausable = {}
  Quarantinable = {}
  Offered <- PathOffered
  Grantable <- PathGrantable
  MaxEvents = 11
  MaxRejections = 0
  MaxLost = 0
  MaxFailed = 0
INVARIANT EvidenceTrail
CHECK_DEADLOCK FALSE
