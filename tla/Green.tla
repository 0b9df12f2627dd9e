-------------------------------- MODULE Green --------------------------------
(***************************************************************************)
(* The green team of colorharness/green.py over the white team: release    *)
(* plans, releases executed on approvals the white team holds valid, and   *)
(* rollbacks, handed to the white team for the ledger at some later call.  *)
(* Green keeps nothing itself; plans, releases and rollbacks are objects   *)
(* its callers carry from one call to the next, through restarts too.      *)
(* Their titles, artifacts, phases and steps are left out.                 *)
(***************************************************************************)
EXTENDS WhiteTeam

CONSTANTS
  GreenAgents,   \* the agents that call green
  MaxReleases    \* bound: releases executed

ASSUME GreenAssumption == GreenAgents \subseteq Agents /\ MaxReleases \in Nat

VARIABLES
  plans,     \* tasks with a release plan
  releases,  \* the releases executed, and what the ledger and the clock said then
  rollbacks  \* tasks with a rollback to be recorded

greenVars == <<plans, releases, rollbacks>>

\* _check_actor
IsGreen(a) == teamOf[a] = "green"

Asks == UNCHANGED <<ledger, memory, registryVars, now>>

GreenInit == Init /\ plans = {} /\ releases = {} /\ rollbacks = {}

release_plan(t, a) ==
  /\ IsGreen(a)
  /\ plans' = plans \cup {t}
  /\ Asks /\ UNCHANGED <<releases, rollbacks>>

valid_approval_refs(t, action) == {i \in approvals : approval_valid(i, t, action, {})}

\* Faulty variant: one valid reference among those cited is enough.
Cites_AnyBug(t, cited) == cited \cap valid_approval_refs(t, "release") # {}

\* What is cited must be there and all of it valid; the task's scope, its quorum,
\* its approvers' roles and a pause are not asked for.
Cites(t, cited) == cited # {} /\ cited \subseteq valid_approval_refs(t, "release")

\* Any plan will do, another task's too.
execute_release(t, a, cited) ==
  /\ Cardinality(releases) < MaxReleases
  /\ IsGreen(a)
  /\ plans # {}
  /\ Cites(t, cited)
  /\ releases' = releases \cup {[task |-> t, cited |-> cited, at |-> now, seen |-> Len(ledger)]}
  /\ Asks /\ UNCHANGED <<plans, rollbacks>>

\* A rollback is planned on no approval.
rollback(t, a) ==
  /\ IsGreen(a)
  /\ rollbacks' = rollbacks \cup {t}
  /\ Asks /\ UNCHANGED <<plans, releases>>

\* record_green_output, under whatever task the caller names.
record_release(t, r) ==
  /\ AppendRecord([type |-> "release", task |-> t, at |-> now, release |-> r])
  /\ UNCHANGED <<memory, registryVars, now, greenVars>>

record_rollback(t) ==
  /\ AppendRecord([type |-> "rollback", task |-> t, at |-> now])
  /\ UNCHANGED <<memory, registryVars, now, greenVars>>

GreenCalls ==
  \/ \E t \in Tasks, a \in GreenAgents :
       \/ release_plan(t, a) \/ rollback(t, a)
       \/ \E cited \in SUBSET approvals : execute_release(t, a, cited)
  \/ \E t \in Tasks, r \in releases : record_release(t, r)
  \/ \E t \in rollbacks : record_rollback(t)

GreenNext == GreenCalls \/ (Next /\ UNCHANGED greenVars)

GreenSpec == GreenInit /\ [][GreenNext]_<<vars, greenVars>>

-----------------------------------------------------------------------------
(* Properties *)

\* G1 for releases: every release, recorded or still in its caller's hands,
\* cites approvals of its own task for releasing, each in the ledger before it,
\* unexpired when it was executed and unrevoked by anything the ledger had told,
\* although green and the white team were restarted, approvals revived and the
\* release recorded late or under another task.
ReleaseIsWarranted ==
  \A r \in releases \cup {ledger[k].release : k \in OfType(ledger, "release")} :
    /\ r.cited # {}
    /\ \A j \in r.cited :
         /\ j \in OfType(ledger, "approval") /\ j <= r.seen
         /\ ledger[j].task = r.task /\ ledger[j].action \in {"release", "*"}
         /\ r.at < ledger[j].expires
         /\ ~\E k \in (j + 1) .. r.seen : Revokes(k, j)
=============================================================================
