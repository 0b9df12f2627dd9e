------------------------------ MODULE MCHarness ------------------------------
(* An instance of Harness for TLC: one Orange task, and a security lead who  *)
(* approves, resolves, leaves and comes back as a blue agent.                *)
EXTENDS Harness

system == "coordinator.system"
People == {system, "ann"}
MCTeamAtStart == [a \in People |-> IF a = system THEN "coordinator" ELSE "white"]
MCRolesAtStart == [a \in People |-> IF a = system THEN {} ELSE {"security-lead"}]
MCEnrollments == {<<"ann", "white">>, <<"ann", "blue">>}
MCGrants == {<<"ann", "security-lead">>}

MCDeclarations == {[task |-> "t1", scope |-> {"repo"}, risk |-> "orange"]}
MCApprovals ==
  {[task |-> "t1", action |-> "release", approver |-> "ann", role |-> "security-lead",
    scope |-> {"repo"}, ttl |-> 1]}

Request(t, tr, a, act) == [task |-> t, trigger |-> tr, actor |-> a, note |-> "n",
                           referenced |-> TRUE, action |-> act, key |-> None]

\* A first step that its caller puts under release protection, and a hold.
MCCommands == {Request("t1", "ROUTE", system, "release"), Request("t1", "BLOCK", system, None),
               Request("t1", "UNBLOCK", "ann", None)}

MCIntakes == {[task |-> "t1", actor |-> system, note |-> "n", inScope |-> TRUE,
               validRisk |-> r, key |-> None] : r \in BOOLEAN}
=============================================================================
