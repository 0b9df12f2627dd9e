\* Version 1.9 is authored after version 1.10 (code against its documentation).
SPECIFICATION Spec
CONSTANTS
  Agents = {"gus"}
  TeamAtStart <- MCTeamAtStart
  RolesAtStart <- MCRolesAtStart
  Enrollments = {}
  Grants = {}
  None = None
  GoldAgents = {"gus"}
  Ids = {"s1"}
  Versions <- MCVersions
PROPERTY VersionsIncrease
CHECK_DEADLOCK FALSE
