------------------------------- MODULE MCGreen -------------------------------
(* An instance of Green for TLC: a Red task and one nobody declares, two    *)
(* people who hold the two Red roles between them, and a green agent.        *)
EXTENDS Green

People == {"ann", "bob", "gil"}
MCTeamAtStart == [a \in People |-> IF a = "gil" THEN "green" ELSE "coordinator"]
MCRolesAtStart == [a \in People |-> CASE a = "ann" -> {"security-lead"}
                                       [] a = "bob" -> {"platform-owner"}
                                       [] a = "gil" -> {}]
Holders == {<<"ann", "security-lead">>, <<"ann", "platform-owner">>, <<"bob", "platform-owner">>}
MCGrants == {<<"ann", "platform-owner">>, <<"bob", "platform-owner">>}
MCDeclarations == {[task |-> "t1", scope |-> {"repo"}, risk |-> "red"]}
MCApprovals ==
  {[task |-> "t1", action |-> "release", approver |-> g[1], role |-> g[2], scope |-> {"repo"}, ttl |-> 1] :
     g \in Holders}
=============================================================================
