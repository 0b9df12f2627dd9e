\* Approvals of lower roles count toward the two a Red gate needs (code against document).
SPECIFICATION Spec
CONSTANTS
  Tasks = {"t1"}
  Agents <- People
  TeamAtStart <- MCTeamAtStart
  RolesAtStart <- NoRoles
  Enrollments = {}
  Grants <- RaisedGrants
  Entries = {"repo", "tests", "database"}
  AllowedEntries = {"repo", "tests"}
  Actions = {"release", "scope_expansion", "*"}
  Declarations <- RaisedDeclarations
  Redeclares = FALSE
  Expansions = {}
  Approvals <- RaisedApprovals
  RiskTargets = {"red"}
  Haltable = {}
  Rejectable = FALSE
  None = None
  MaxTime = 1
  MaxRecords = 5
INVARIANT RedNeedsTwoAuthorities
CHECK_DEADLOCK FALSE
