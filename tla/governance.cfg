\* A scope grows under approvals that expire, are revoked and cover more or less than is asked; risk, pauses and the rebuild.
SPECIFICATION Spec
CONSTANTS
  Tasks = {"t1", "t2"}
  Agents <- People
  TeamAtStart <- MCTeamAtStart
  RolesAtStart <- NoRoles
  Enrollments = {}
  Grants <- ScopeGrants
  Entries = {"repo", "tests", "database"}
  AllowedEntries = {"repo", "tests"}
  Actions = {"release", "scope_expansion", "*"}
  Declarations <- ScopeDeclarations
  Redeclares = FALSE
  Expansions <- ScopeExpansions
  Approvals <- ScopeApprovals
  RiskTargets = {"yellow", "orange"}
  Haltable = {"t1"}
  Rejectable = TRUE
  None = None
  MaxTime = 1
  MaxRecords = 4
INVARIANTS TypeOK ScopeIsWarranted RebuildIsOneSided
PROPERTY NoCallLowersRisk
CHECK_DEADLOCK FALSE
