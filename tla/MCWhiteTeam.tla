----------------------------- MODULE MCWhiteTeam -----------------------------
(* Instances of WhiteTeam for TLC: the calls made in each run. *)
EXTENDS WhiteTeam

Approval(t, a, who, r, scope, ttl) ==
  [task |-> t, action |-> a, approver |-> who, role |-> r, scope |-> scope, ttl |-> ttl]

Declaration(t, scope, risk) == [task |-> t, scope |-> scope, risk |-> risk]

\* Two people of the coordinator's team, which may hold every role.
People == {"ann", "bob"}
MCTeamAtStart == [a \in People |-> "coordinator"]
NoRoles == [a \in People |-> {}]

-----------------------------------------------------------------------------
\* governance: a task whose scope grows under approvals that expire, are revoked
\* and cover more or less than what is asked, and a task nobody declares.
ScopeDeclarations == {Declaration("t1", {"repo"}, "yellow")}
ScopeExpansions == {<<"t1", {"tests"}>>, <<"t1", {"database"}>>}
ScopeApprovals ==
  {Approval("t1", "scope_expansion", "ann", "ci-operator", {"repo", "tests"}, 1),
   Approval("t1", "scope_expansion", "ann", "ci-operator", {"tests"}, 2),
   Approval("t1", "*", "ann", "ci-operator", {"repo", "tests"}, 2)}
ScopeGrants == {<<"ann", "ci-operator">>}

\* doc_red: a task approved while yellow and raised to red.
RaisedDeclarations == {Declaration("t1", {"repo"}, "yellow")}
RaisedApprovals ==
  {Approval("t1", "release", "ann", "security-lead", {"repo"}, 1),
   Approval("t1", "release", "ann", "platform-owner", {"repo"}, 1),
   Approval("t1", "release", "bob", "ci-operator", {"repo"}, 1)}
RaisedGrants == {<<"ann", "security-lead">>, <<"ann", "platform-owner">>, <<"bob", "ci-operator">>}
=============================================================================
