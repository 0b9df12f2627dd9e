------------------------------- MODULE Registry -------------------------------
(***************************************************************************)
(* The team registry of colorharness/registry.py: which agents there are,  *)
(* of which team, and which reviewer roles they hold.  The coordinator and *)
(* the white team read the same registry, and its owner changes it between *)
(* any two of their calls.  Capabilities, which nothing reads, are left    *)
(* out, and so are calls that raise before they change anything.           *)
(***************************************************************************)
EXTENDS Lifecycle

CONSTANTS
  Agents,       \* every agent id a caller may pass, registered or not
  TeamAtStart,  \* the registry handed to the coordinator: agent -> team or None,
  RolesAtStart, \* agent -> its reviewer roles
  Enrollments,  \* <<agent, team>>: the register calls made; these agents may leave
  Grants,       \* <<agent, role>>: the grant_role and revoke_role calls made
  None

Roles == {"ci-operator", "security-lead", "platform-owner"}

RESOLVER_ROLES == {"security-lead", "platform-owner"}

\* Role -> teams that may hold it.
APPROVER_ROLE_TEAMS ==
  [r \in Roles |->
     CASE r = "ci-operator"    -> {"yellow", "gold", "green", "coordinator", "white"}
       [] r = "security-lead"  -> {"white", "red", "black", "purple", "green", "coordinator"}
       [] r = "platform-owner" -> {"coordinator", "white", "green"}]

MayHold(team, r) == team # None /\ team \in APPROVER_ROLE_TEAMS[r]

ASSUME RegistryAssumption ==
  /\ None \notin Teams
  /\ TeamAtStart \in [Agents -> Teams \cup {None}]
  /\ RolesAtStart \in [Agents -> SUBSET Roles]
  /\ \A a \in Agents : \A r \in RolesAtStart[a] : MayHold(TeamAtStart[a], r)
  /\ Enrollments \subseteq Agents \X Teams
  /\ Grants \subseteq Agents \X Roles

VARIABLES
  teamOf,  \* agent -> its team, None when it is not registered
  roles    \* agent -> the reviewer roles it holds

registryVars == <<teamOf, roles>>

RegistryInit == teamOf = TeamAtStart /\ roles = RolesAtStart

is_registered(a) == teamOf[a] # None

has_role(a, r) == r \in roles[a]

\* A registered id is refused.
register(a, team) ==
  /\ ~is_registered(a)
  /\ teamOf' = [teamOf EXCEPT ![a] = team]
  /\ UNCHANGED roles

\* Faulty variant: roles kept beside the registrations, and left behind.
unregister_KeepsRolesBug(a) ==
  /\ is_registered(a)
  /\ teamOf' = [teamOf EXCEPT ![a] = None]
  /\ UNCHANGED roles

\* The registration goes, and with it the roles.
unregister(a) ==
  /\ is_registered(a)
  /\ teamOf' = [teamOf EXCEPT ![a] = None]
  /\ roles' = [roles EXCEPT ![a] = {}]

grant_role(a, r) ==
  /\ MayHold(teamOf[a], r)
  /\ roles' = [roles EXCEPT ![a] = @ \cup {r}]
  /\ UNCHANGED teamOf

revoke_role(a, r) ==
  /\ has_role(a, r)
  /\ roles' = [roles EXCEPT ![a] = @ \ {r}]
  /\ UNCHANGED teamOf

RegistryStep ==
  \/ \E e \in Enrollments : register(e[1], e[2]) \/ unregister(e[1])
  \/ \E g \in Grants : grant_role(g[1], g[2]) \/ revoke_role(g[1], g[2])

RegistryType == teamOf \in [Agents -> Teams \cup {None}] /\ roles \in [Agents -> SUBSET Roles]

\* A role is held only by an agent whose team may hold it, through departures
\* and returns in another team: registry.py checks it once, at the grant.
RolesFitTeams == \A a \in Agents : \A r \in roles[a] : MayHold(teamOf[a], r)
=============================================================================
