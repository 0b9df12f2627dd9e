------------------------------ MODULE WhiteTeam ------------------------------
(***************************************************************************)
(* The white team of colorharness/governance.py, over the registry: scope  *)
(* declarations and expansions, risk, approvals with expiry, revocation    *)
(* and role-bound quorum, pauses, and the rebuild of all of it from the    *)
(* evidence ledger.                                                        *)
(*                                                                         *)
(* The ledger is a sequence of records, an append-only file; everything    *)
(* else is memory.  An approval is named by the position of its record.  A *)
(* scope is the set of its entries, so that scope_covers is inclusion.     *)
(* Calls that raise before they change anything are left out.              *)
(***************************************************************************)
EXTENDS Registry, Naturals, Sequences, FiniteSets

CONSTANTS
  Tasks,
  Entries,        \* what a scope is made of
  AllowedEntries, \* entries of the domains in DEVOPS_ALLOWLIST
  Actions,        \* actions an approval can name
  Declarations,   \* [task, scope, risk]: the declare_scope calls made
  Redeclares,     \* are declared tasks declared again
  Expansions,     \* <<task, additions>>: the expand_scope calls made
  Approvals,      \* [task, action, approver, role, scope, ttl]: the record_approval calls
  RiskTargets,    \* the risks raise_risk is called with
  Haltable,       \* the tasks that are paused, resumed and escalated
  Rejectable,     \* can the ledger refuse a record (secret material, empty actor)
  MaxTime,        \* bound: the clock
  MaxRecords      \* bound: records in the ledger

Risks == {"green", "yellow", "orange", "red"}

\* risk._ORDER
rank == [green |-> 0, yellow |-> 1, orange |-> 2, red |-> 3]

is_higher(a, b) == rank[a] > rank[b]

RISK_AUTHORITY ==
  [green |-> {"ci-operator"}, yellow |-> {"ci-operator"},
   orange |-> {"security-lead"}, red |-> {"security-lead", "platform-owner"}]

\* Faulty variant: one approver is enough for every tier.
QUORUM_COUNT_Bug == [green |-> 1, yellow |-> 1, orange |-> 1, red |-> 1]

QUORUM_COUNT == [green |-> 1, yellow |-> 1, orange |-> 1, red |-> 2]

ScopeDeclaration == [scope : SUBSET Entries, risk : Risks, version : Nat]

ApprovalCall == [task : Tasks, action : Actions, approver : Agents, role : Roles,
                 scope : SUBSET Entries, ttl : Nat]

ASSUME CallsAssumption ==
  /\ AllowedEntries \subseteq Entries
  /\ {"scope_expansion", "*"} \subseteq Actions
  /\ Declarations \subseteq [task : Tasks, scope : SUBSET Entries, risk : Risks]
  /\ Expansions \subseteq Tasks \X SUBSET Entries
  /\ Approvals \subseteq ApprovalCall
  /\ RiskTargets \subseteq Risks
  /\ Haltable \subseteq Tasks
  /\ {Redeclares, Rejectable} \subseteq BOOLEAN

ASSUME BoundAssumption == {MaxTime, MaxRecords} \subseteq Nat

ASSUME NoneAssumption == None \notin ScopeDeclaration

VARIABLES
  ledger,   \* ledger.records
  scopes,   \* _scopes: task -> its current declaration, or None
  approvals,\* _approvals: the approvals held in memory, by their record
  revoked,  \* _revoked
  pauses,   \* DOMAIN _paused: tasks that are paused
  now       \* the clock

memory == <<scopes, approvals, revoked, pauses>>
vars == <<ledger, memory, registryVars, now>>

-----------------------------------------------------------------------------
(* The ledger's records and the rebuild *)

DeclarationRecord(t, scope, risk) ==
  [type |-> "scope_declaration", task |-> t, at |-> now, scope |-> scope, risk |-> risk]

ApprovalRecord(c) ==
  [type |-> "approval", task |-> c.task, at |-> now, action |-> c.action, approver |-> c.approver,
   role |-> c.role, scope |-> c.scope, expires |-> now + c.ttl]

DecisionRecord(t, decision, subject) ==
  [type |-> "decision", task |-> t, at |-> now, decision |-> decision, subject |-> subject]

PauseRecord(t) == [type |-> "pause", task |-> t, at |-> now]

AppendRecord(r) == Len(ledger) < MaxRecords /\ ledger' = Append(ledger, r)

OfType(l, type) == {i \in DOMAIN l : l[i].type = type}

DeclarationsOf(l, t) == {i \in OfType(l, "scope_declaration") : l[i].task = t}

Decisions(l, decision) == {i \in OfType(l, "decision") : l[i].decision = decision}

\* Faulty variant: every decision about a task lifts its pause.
Lifts_AnyDecisionBug(r) == r.type = "decision"

Lifts(r) == r.type = "decision" /\ r.decision = "pause_lifted"

EmptyMemory == [scopes |-> [t \in Tasks |-> None], approvals |-> {}, revoked |-> {}, pauses |-> {}]

\* The body of _rebuild_from_ledger's loop, for the i-th record; versions, which
\* the code counts beside, are those of the scopes so far.
RebuildStep(m, r, i) ==
  [scopes    |-> IF r.type # "scope_declaration" THEN m.scopes
                 ELSE [m.scopes EXCEPT ![r.task] =
                         [scope |-> r.scope, risk |-> r.risk,
                          version |-> IF @ = None THEN 1 ELSE @.version + 1]],
   approvals |-> m.approvals \cup (IF r.type = "approval" THEN {i} ELSE {}),
   revoked   |-> m.revoked \cup (IF r.type = "decision" /\ r.decision = "approval_revoked"
                                 THEN {r.subject} ELSE {}),
   pauses    |-> (m.pauses \ (IF Lifts(r) THEN {r.task} ELSE {}))
                   \cup (IF r.type = "pause" THEN {r.task} ELSE {})]

\* _rebuild_from_ledger: what a new white team makes of ledger l, record by record.
RebuiltMemory(l) ==
  LET after[n \in 0 .. Len(l)] ==
        IF n = 0 THEN EmptyMemory ELSE RebuildStep(after[n - 1], l[n], n)
  IN  after[Len(l)]

-----------------------------------------------------------------------------
(* Questions the coordinator and green ask *)

current_risk(t) == IF scopes[t] = None THEN "yellow" ELSE scopes[t].risk

\* Faulty variant: the expiry is read at the recording only.
approval_valid_NeverExpiresBug(i, t, action, requested) ==
  /\ i \in approvals
  /\ ledger[i].task = t
  /\ ledger[i].action \in {action, "*"}
  /\ i \notin revoked
  /\ requested \subseteq ledger[i].scope

\* approval_valid; requested is {} when the caller asks for no scope.
approval_valid(i, t, action, requested) ==
  /\ i \in approvals
  /\ ledger[i].task = t
  /\ ledger[i].action \in {action, "*"}
  /\ i \notin revoked
  /\ now < ledger[i].expires
  /\ requested \subseteq ledger[i].scope

\* The approvals that count toward a gate: valid, and not void by role.
Counted(t, action, requested) ==
  {i \in approvals : /\ approval_valid(i, t, action, requested)
                     /\ has_role(ledger[i].approver, ledger[i].role)}

approval_quorum_met(t, action, requested) ==
  LET counted == Counted(t, action, requested)
      risk    == current_risk(t)
  IN  /\ RISK_AUTHORITY[risk] \subseteq {ledger[i].role : i \in counted}
      /\ Cardinality({ledger[i].approver : i \in counted}) >= QUORUM_COUNT[risk]

\* What the coordinator asks for: the scope declared, if any.
RequestedScope(t) == IF scopes[t] = None THEN {} ELSE scopes[t].scope

has_valid_approval(t, action) == approval_quorum_met(t, action, RequestedScope(t))

-----------------------------------------------------------------------------
Init ==
  /\ ledger = <<>>
  /\ scopes = [t \in Tasks |-> None]
  /\ approvals = {} /\ revoked = {} /\ pauses = {}
  /\ RegistryInit
  /\ now = 0

\* declare_scope: the version restarts at 1 in memory.
declare_scope(d) ==
  /\ d.scope \subseteq AllowedEntries
  /\ AppendRecord(DeclarationRecord(d.task, d.scope, d.risk))
  /\ scopes' = [scopes EXCEPT ![d.task] = [scope |-> d.scope, risk |-> d.risk, version |-> 1]]
  /\ UNCHANGED <<approvals, revoked, pauses, registryVars, now>>

\* Faulty variant: the approval is checked against the additions alone.
Covering_AdditionsBug(t, additions) == additions

\* The scope an expansion's approval must cover: the merged one.
Covering(t, additions) == scopes[t].scope \cup additions

\* expand_scope: one valid scope_expansion approval is enough.
expand_scope(t, additions, i) ==
  /\ scopes[t] # None
  /\ LET merged == scopes[t].scope \cup additions
     IN  /\ merged \subseteq AllowedEntries
         /\ approval_valid(i, t, "scope_expansion", Covering(t, additions))
         /\ AppendRecord(DeclarationRecord(t, merged, scopes[t].risk))
         /\ scopes' = [scopes EXCEPT ![t] = [scope |-> merged, risk |-> scopes[t].risk,
                                              version |-> scopes[t].version + 1]]
  /\ UNCHANGED <<approvals, revoked, pauses, registryVars, now>>

\* Faulty variant: the new risk is not compared.
MayReclassify_Bug(t, risk) == risk # current_risk(t)

MayReclassify(t, risk) == is_higher(risk, current_risk(t))

\* raise_risk: a decision record, then the declaration in memory; when no
\* scope is declared the record stays and the call raises KeyError.
raise_risk(t, risk) ==
  /\ MayReclassify(t, risk)
  /\ AppendRecord(DecisionRecord(t, "risk_reclassification", risk))
  /\ scopes' = IF scopes[t] = None THEN scopes ELSE [scopes EXCEPT ![t].risk = risk]
  /\ UNCHANGED <<approvals, revoked, pauses, registryVars, now>>

\* _resolve_approver_role: the role is held and clears the task's tier.
MayApprove(c) == /\ has_role(c.approver, c.role)
                 /\ c.role \in RISK_AUTHORITY[current_risk(c.task)]

\* Faulty variant: memory first, and the ledger refuses the record.
record_approval_MemoryFirstBug(c) ==
  /\ MayApprove(c)
  /\ approvals' = approvals \cup {Len(ledger) + 1}
  /\ UNCHANGED <<ledger, scopes, revoked, pauses, registryVars, now>>

record_approval(c) ==
  /\ MayApprove(c)
  /\ AppendRecord(ApprovalRecord(c))
  /\ approvals' = approvals \cup {Len(ledger) + 1}
  /\ UNCHANGED <<scopes, revoked, pauses, registryVars, now>>

\* revoke_approval: memory first, then the record.
revoke_approval(i) ==
  /\ revoked' = revoked \cup {i}
  /\ AppendRecord(DecisionRecord(ledger[i].task, "approval_revoked", i))
  /\ UNCHANGED <<scopes, approvals, pauses, registryVars, now>>

\* The ledger refuses the record: revoked in memory only.
revoke_approval_Raises(i) ==
  /\ revoked' = revoked \cup {i}
  /\ UNCHANGED <<ledger, scopes, approvals, pauses, registryVars, now>>

\* pause: the record first.
pause(t) ==
  /\ AppendRecord(PauseRecord(t))
  /\ pauses' = pauses \cup {t}
  /\ UNCHANGED <<scopes, approvals, revoked, registryVars, now>>

\* resume: memory first, then the record.
resume(t) ==
  /\ t \in pauses
  /\ pauses' = pauses \ {t}
  /\ AppendRecord(DecisionRecord(t, "pause_lifted", t))
  /\ UNCHANGED <<scopes, approvals, revoked, registryVars, now>>

\* The ledger refuses the record: lifted in memory only.
resume_Raises(t) ==
  /\ t \in pauses
  /\ pauses' = pauses \ {t}
  /\ UNCHANGED <<ledger, scopes, approvals, revoked, registryVars, now>>

\* escalate: a decision record and nothing else.
escalate(t) ==
  /\ AppendRecord(DecisionRecord(t, "escalation", t))
  /\ UNCHANGED <<memory, registryVars, now>>

\* A new WhiteTeam on the same ledger; the registry is its caller's.
Rebuild ==
  LET m == RebuiltMemory(ledger)
  IN  /\ scopes' = m.scopes /\ approvals' = m.approvals
      /\ revoked' = m.revoked /\ pauses' = m.pauses

Restart == Rebuild /\ UNCHANGED <<ledger, registryVars, now>>

\* Agents and roles come and go, and time passes.
Enrollment == RegistryStep /\ UNCHANGED <<ledger, memory, now>>

Tick == now < MaxTime /\ now' = now + 1 /\ UNCHANGED <<ledger, memory, registryVars>>

Declare == \E d \in Declarations : (Redeclares \/ scopes[d.task] = None) /\ declare_scope(d)

\* The other calls of the white team.
Calls ==
  \/ \E e \in Expansions, i \in approvals : expand_scope(e[1], e[2], i)
  \/ \E t \in Tasks, risk \in RiskTargets : raise_risk(t, risk)
  \/ \E c \in Approvals : record_approval(c)
  \/ \E i \in approvals : revoke_approval(i) \/ (Rejectable /\ revoke_approval_Raises(i))
  \/ \E t \in Haltable : \/ pause(t) \/ resume(t) \/ escalate(t)
                         \/ Rejectable /\ resume_Raises(t)

Next ==
  \/ Declare
  \/ Calls
  \/ Enrollment
  \/ Tick
  \/ Restart

Spec == Init /\ [][Next]_vars

-----------------------------------------------------------------------------
(* Properties *)

RecordType ==
  [type : {"scope_declaration"}, task : Tasks, at : Nat, scope : SUBSET Entries, risk : Risks]
  \cup [type : {"approval"}, task : Tasks, at : Nat, action : Actions, approver : Agents,
        role : Roles, scope : SUBSET Entries, expires : Nat]
  \cup [type : {"decision"}, task : Tasks, at : Nat, decision : {"approval_revoked"}, subject : Nat]
  \cup [type : {"decision"}, task : Tasks, at : Nat,
        decision : {"pause_lifted", "escalation"}, subject : Tasks]
  \cup [type : {"decision"}, task : Tasks, at : Nat,
        decision : {"risk_reclassification"}, subject : Risks]
  \cup [type : {"pause"}, task : Tasks, at : Nat]

\* Every variable holds a value of its kind; an approval in memory is one of
\* the ledger's approval records.
TypeOK ==
  /\ ledger \in Seq(RecordType)
  /\ scopes \in [Tasks -> ScopeDeclaration \cup {None}]
  /\ approvals \subseteq OfType(ledger, "approval")
  /\ revoked \subseteq approvals
  /\ pauses \subseteq Tasks
  /\ RegistryType
  /\ now \in Nat

\* docs/agent-contract.md, "quorum": a Red gate whose counted approvals all
\* carry roles with authority over Red is cleared only jointly, by a security
\* lead and a platform owner who are two people, however many roles each holds
\* and however many approvals each gave.
RedIsJoint ==
  \A t \in Tasks, a \in Actions :
    (/\ current_risk(t) = "red" /\ has_valid_approval(t, a)
     /\ \A i \in Counted(t, a, RequestedScope(t)) : ledger[i].role \in RISK_AUTHORITY["red"])
    => \E i, j \in Counted(t, a, RequestedScope(t)) :
         /\ ledger[i].role = "security-lead" /\ ledger[j].role = "platform-owner"
         /\ ledger[i].approver # ledger[j].approver

\* Record k of the ledger revokes approval record j.
Revokes(k, j) == k \in Decisions(ledger, "approval_revoked") /\ ledger[k].subject = j

\* Approval record j covers the scope of declaration record i and was in force
\* when i was written, by what the ledger says before i.
Warrants(j, i) ==
  /\ j < i
  /\ ledger[j].task = ledger[i].task
  /\ ledger[j].action \in {"scope_expansion", "*"}
  /\ ledger[i].scope \subseteq ledger[j].scope
  /\ ledger[i].at < ledger[j].expires
  /\ ~\E k \in (j + 1) .. (i - 1) : Revokes(k, j)

\* G2, "no agent may silently broaden a task": of every scope in the ledger
\* that is not the task's first, the ledger itself shows an approval that
\* covers all of it and was neither expired nor revoked when it was written,
\* whatever restarts and refused records came in between.
ScopeIsWarranted ==
  \A t \in Tasks : \A i, f \in DeclarationsOf(ledger, t) :
    f < i => \E j \in OfType(ledger, "approval") : Warrants(j, i)

\* A restart drops no pause, approval or scope, and revokes nothing that was
\* not revoked, even when the ledger refused records: where memory and ledger
\* differ, it is a lift or a revocation that comes undone.
RebuildIsOneSided ==
  LET m == RebuiltMemory(ledger)
  IN  /\ pauses \subseteq m.pauses
      /\ approvals = m.approvals
      /\ m.revoked \subseteq revoked
      /\ \A t \in Tasks : /\ scopes[t] = None <=> m.scopes[t] = None
                          /\ scopes[t] # None => scopes[t].scope = m.scopes[t].scope

\* Contract section 5, "risk may move only toward higher risk": no call that
\* writes to the ledger lowers a declared task's risk.
NoCallLowersRisk ==
  [][ledger' # ledger =>
       \A t \in Tasks : scopes[t] # None => ~is_higher(current_risk(t), current_risk(t)')]_vars

-----------------------------------------------------------------------------
(* What the documents say that the code does not do *)

\* docs/authority-matrix.md: one approver holding two roles "does not clear a
\* Red gate", two distinct approvers with the required roles are needed.
RedNeedsTwoAuthorities ==
  \A t \in Tasks, a \in Actions :
    (current_risk(t) = "red" /\ has_valid_approval(t, a))
    => \E i, j \in Counted(t, a, RequestedScope(t)) :
         /\ ledger[i].role = "security-lead" /\ ledger[j].role = "platform-owner"
         /\ ledger[i].approver # ledger[j].approver
=============================================================================
