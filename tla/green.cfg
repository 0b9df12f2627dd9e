\* A Red task, two people, two roles granted and revoked, releases on their approvals, and restarts.
SPECIFICATION GreenSpec
CONSTANTS
  Tasks = {"t1", "t2"}
  Agents <- People
  TeamAtStart <- MCTeamAtStart
  RolesAtStart <- MCRolesAtStart
  Enrollments = {}
  Grants <- MCGrants
  Entries = {"repo"}
  AllowedEntries = {"repo"}
  Actions = {"release", "scope_expansion", "*"}
  Declarations <- MCDeclarations
  Redeclares = FALSE
  Expansions = {}
  Approvals <- MCApprovals
  RiskTargets = {}
  Haltable = {}
  Rejectable = TRUE
  None = None
  GreenAgents = {"gil"}
  MaxReleases = 1
  MaxTime = 1
  MaxRecords = 4
INVARIANTS RedIsJoint ReleaseIsWarranted
CHECK_DEADLOCK FALSE
