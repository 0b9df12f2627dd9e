---------------------------- MODULE MCCoordinator ----------------------------
(* Instances of Coordinator for TLC: who is registered, and for each run the *)
(* calls made and what the white team and the watchdog may do.               *)
EXTENDS Coordinator

CONSTANTS k1, k2   \* request ids

system == "coordinator.system"

\* One agent per team that owns a state, and one nobody registered.
MCAgents == {system, "blue", "black", "gold", "silver", "yellow", "green", "stranger"}
MCTeamAtStart == [a \in MCAgents |-> CASE a = system -> "coordinator"
                                         [] a = "stranger" -> None
                                         [] OTHER -> a]
MCRolesAtStart == [a \in MCAgents |-> IF a = "green" THEN {"security-lead"} ELSE {}]

Call(t, tr, a, n, k) == [task |-> t, trigger |-> tr, actor |-> a, note |-> n,
                         referenced |-> TRUE, action |-> None, key |-> k]

IntakeOf(t, k) == [task |-> t, actor |-> system, note |-> "n", inScope |-> TRUE,
                   validRisk |-> TRUE, key |-> k]

-----------------------------------------------------------------------------
\* path, holds, doc_resume: one task, its owners walk it down the path with fresh request
\* ids, and it is blocked, escalated, released from holds and rolled back.
PathCalls(t) ==
  { Call(t, s[1], s[2], "n", None) : s \in
    { <<"ROUTE", system>>, <<"OBSERVATIONS_READY", "blue">>, <<"DIAGNOSIS_ACCEPTED", "black">>,
      <<"PLAN_APPROVED", "gold">>, <<"IMPLEMENTATION_READY", "silver">>,
      <<"VERIFICATION_PASSED", "yellow">>, <<"RELEASE_APPROVED", system>>,
      <<"DEPLOYED", "green">>, <<"SUCCESS_CONFIRMED", "green">>, <<"ROLLBACK_INITIATED", "green">> } }

HoldCalls(t) ==
  { Call(t, s[1], s[2], "n", None) : s \in
    { <<"BLOCK", "silver">>, <<"ESCALATE", "green">>, <<"UNBLOCK", "green">>, <<"DECISION_RESUME", system>> } }

PathIntakes == {IntakeOf("t1", None)}
PathCommands ==
  PathCalls("t1") \cup {c \in HoldCalls("t1") : c.trigger \in {"BLOCK", "UNBLOCK"}}
    \cup {[Call("t1", "ROUTE", system, "n", None) EXCEPT !.referenced = FALSE]}
PathOffered == {"t1"} \X EvidenceTypes
PathGrantable == {<<"t1", "release">>, <<"t1", "rollback">>}

HoldCommands ==
  HoldCalls("t1") \cup {Call("t1", "ESCALATE", "stranger", "n", None)}
    \cup {c \in PathCalls("t1") : c.trigger \in {"ROUTE", "OBSERVATIONS_READY"}}
HoldOffered == {<<"t1", "observation">>}

\* The resolver's role comes and goes.
HoldGrants == {<<"green", "security-lead">>}

-----------------------------------------------------------------------------
\* requests: two tasks and callers that reuse their keys, across a quarantine, writes that
\* fail, crashes and restarts.
RequestIntakes ==
  {IntakeOf("t1", k1), IntakeOf("t2", k2),
   [IntakeOf("t2", None) EXCEPT !.validRisk = FALSE], [IntakeOf("t1", k2) EXCEPT !.inScope = FALSE]}

RequestCommands ==
  {Call("t1", "ROUTE", system, "n", k2), Call("t2", "ROUTE", system, "n", k2),
   Call("t1", "BLOCK", "silver", "n", k1), Call("t1", "ESCALATE", "silver", "n2", k2)}

\* ... and the calls apply_transition turns away before anything else.
RefusalIntakes == {[IntakeOf("t1", k2) EXCEPT !.note = "secret"]}

RefusalCommands ==
  {Call("t1", "BLOCK", "silver", "secret", k2), Call("t1", "UNBLOCK", "blue", "n", k2),
   Call("t1", "OBSERVATIONS_READY", "blue", "n", k1)}

AllIntakes == RequestIntakes \cup RefusalIntakes
AllCommands == RequestCommands \cup RefusalCommands
=============================================================================
