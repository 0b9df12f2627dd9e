----------------------------- MODULE Coordinator -----------------------------
(***************************************************************************)
(* The coordinator of colorharness/coordinator.py over the idempotent      *)
(* event log of colorharness/eventlog.py: task intake, every branch of     *)
(* apply_transition, the governance and watchdog answers it consults, the  *)
(* two ledger writes it makes, an event whose write fails, a crash between *)
(* an event and its ledger write, and a restart that replays the log.      *)
(*                                                                         *)
(* The harness is single threaded: a call is one step, unless the process  *)
(* dies inside it.  White team and watchdog appear as what the coordinator *)
(* asks of them (paused, evidence, approved, quarantined), changed by      *)
(* others between any two calls, and so is the registry.  The module       *)
(* Harness puts the real white team in their place.  Event ids,            *)
(* timestamps, titles and details are left out; an event is named by its   *)
(* position in the log.                                                    *)
(***************************************************************************)
EXTENDS Registry, Naturals, Sequences, FiniteSets

CONSTANTS
  Tasks,          \* task ids
  SYSTEM_AGENT,   \* "coordinator.system"
  Keys,           \* request ids callers choose; None asks for a fresh uuid
  Notes,          \* what a caller writes: title, reason, evidence names
  SecretNotes,    \* the notes in which scan_for_secrets finds something
  Actions,        \* actions an approval can name
  Intakes,        \* the create_task calls callers make
  Commands,       \* the apply_transition calls callers make
  Pausable, Quarantinable, Offered, Grantable,  \* what the others may do
  MaxEvents,      \* bound: events in log.events, on file or not
  MaxRejections,  \* bound: rejected events in the log
  MaxLost,        \* bound: transitions, and tasks, the ledger misses
  MaxFailed       \* bound: events of one process whose write fails

IntakeCalls == [task : Tasks, actor : Agents, note : Notes, inScope : BOOLEAN,
                validRisk : BOOLEAN, key : Keys \cup {None}]

\* referenced: evidence_refs is not empty.
TransitionCalls == [task : Tasks, trigger : Trigger, actor : Agents, note : Notes,
                    referenced : BOOLEAN, action : Actions \cup {None},
                    key : Keys \cup {None}]

ASSUME CallsAssumption == /\ Intakes \subseteq IntakeCalls
                          /\ Commands \subseteq TransitionCalls

ASSUME GovernanceAssumption == /\ {"release", "rollback"} \subseteq Actions
                               /\ Pausable \subseteq Tasks
                               /\ Quarantinable \subseteq Agents
                               /\ Offered \subseteq Tasks \X EvidenceTypes
                               /\ Grantable \subseteq Tasks \X Actions

\* A uuid never equals a key a caller chose.
ASSUME KeysAssumption == Keys \cap Nat = {}

\* What _tasks holds of a task, as far as it changes.
TaskType == [state : TaskState, resume : TaskState \cup {None}, seq : Nat]

ASSUME NoneAssumption == /\ None \notin Keys \cup Nat \cup Actions
                         /\ None \notin TaskState \cup RejectionCode
                         /\ None \notin TaskType

\* __init__ registers the coordinator itself when nobody has.
ASSUME SystemAssumption == SYSTEM_AGENT \in Agents /\ TeamAtStart[SYSTEM_AGENT] # None

ASSUME BoundAssumption == {MaxEvents, MaxRejections, MaxLost, MaxFailed} \subseteq Nat

VARIABLES
  tasks,        \* _tasks: task id -> [state, resume, seq], or None
  log,          \* the events on file, and in log.events
  unwritten,    \* what log._seen knows besides: of events whose write failed
  reply,        \* what the last call returned
  declared,     \* tasks with a scope_declaration record in the ledger
  audit,        \* the ledger's transition records, each named by its event
  paused,       \* governance.is_paused
  evidence,     \* <<task, type>> with a record of that type in the ledger
  approved,     \* <<task, action>> for which governance.has_valid_approval
  quarantined   \* watchdog.is_quarantined

coordinatorVars == <<tasks, log, unwritten, reply>>
ledgerVars == <<declared, audit>>
governanceVars == <<paused, evidence, approved>>
vars == <<coordinatorVars, ledgerVars, governanceVars, registryVars, quarantined>>

-----------------------------------------------------------------------------
(* Events, the idempotency cache and replay *)

Larger(a, b) == IF a >= b THEN a ELSE b

\* The largest element of a set of numbers.
Latest(S) == CHOOSE i \in S : \A j \in S : j <= i

Events(l, t) == {i \in DOMAIN l : l[i].task = t}

Successes(l, t) == {i \in Events(l, t) : l[i].outcome = "SUCCESS"}

resumeAfter(e) == IF e.to \in RESUME_HOLDING THEN e.resume ELSE None

\* Faulty variants, one plausible slip each, stand before the definition they
\* vary and are named ..._Bug.  No specification uses them.

\* A resume state that is not cleared when the hold ends.
Applied_KeepsResumeBug(e, task) ==
  [state |-> e.to, resume |-> IF e.to \in RESUME_HOLDING THEN e.resume ELSE task.resume,
   seq |-> Larger(task.seq, e.seq)]

\* A second hold that does not record where it started.
Applied_FirstResumeBug(e, task) ==
  [state |-> e.to, seq |-> Larger(task.seq, e.seq),
   resume |-> IF e.to \in RESUME_HOLDING /\ task.resume # None THEN task.resume ELSE resumeAfter(e)]

\* A sequence number counted on, not taken from the event.
Applied_CountsBug(e, task) ==
  IF e.outcome = "SUCCESS"
  THEN [state |-> e.to, resume |-> resumeAfter(e), seq |-> task.seq + 1]
  ELSE task

\* A rejection applied like a success.
Applied_RejectionsBug(e, task) ==
  [state |-> e.to, resume |-> resumeAfter(e), seq |-> Larger(task.seq, e.seq)]

\* _apply: what an event does to the task it belongs to.
Applied(e, task) ==
  IF e.outcome = "SUCCESS"
  THEN [state |-> e.to, resume |-> resumeAfter(e), seq |-> Larger(task.seq, e.seq)]
  ELSE task

NewTask == [state |-> "INTAKE", resume |-> None, seq |-> 0]

\* The body of _replay's loop.  The first event of a task creates its entry.
ReplayStep(ts, e) == [ts EXCEPT ![e.task] = Applied(e, IF @ = None THEN NewTask ELSE @)]

\* _replay: the tasks a coordinator rebuilds from log l, one event at a time.
Replay(l) ==
  LET after[n \in 0 .. Len(l)] ==
        IF n = 0 THEN [t \in Tasks |-> None] ELSE ReplayStep(after[n - 1], l[n])
  IN  after[Len(l)]

\* idempotency_fingerprint of the two kinds of call: neither names the task.
IntakeFingerprint(c) == [note |-> c.note, validRisk |-> c.validRisk, inScope |-> c.inScope]

Fingerprint(c) == [trigger |-> c.trigger, actor |-> c.actor, note |-> c.note,
                   referenced |-> c.referenced, action |-> c.action]

Fingerprints == {IntakeFingerprint(c) : c \in Intakes} \cup {Fingerprint(c) : c \in Commands}

ASSUME FingerprintAssumption == None \notin Fingerprints

\* request_id, or a fresh uuid: no two events share a log position.
RequestId(c) == IF c.key = None THEN Len(log) + 1 ELSE c.key

\* Only successes remembered.
Cached_SuccessesBug(c) ==
  {i \in DOMAIN log : /\ log[i].actor = c.actor /\ log[i].request = RequestId(c)
                      /\ log[i].outcome = "SUCCESS"}

\* EventLog._seen: the event cached under (actor, request id), if any, that is
\* on file, and that is not.
Cached(c) == {i \in DOMAIN log : log[i].actor = c.actor /\ log[i].request = RequestId(c)}

Remembered(c) ==
  {u \in DOMAIN unwritten : c.key # None /\ unwritten[u].actor = c.actor /\ unwritten[u].request = c.key}

\* Call c has no outcome yet.
Unanswered(c) == Cached(c) = {} /\ Remembered(c) = {}

\* Fingerprints not compared.
Conflicts_NeverBug(fp, recorded) == FALSE

\* Two fingerprints conflict only when both were recorded.
Conflicts(fp, recorded) == recorded # None /\ recorded # fp

Reply(t, trigger, i, code) == [task |-> t, trigger |-> trigger, event |-> i, code |-> code]

Room == Len(log) + Len(unwritten) < MaxEvents

\* EventLog.append of event e under a key not seen before: memory and file.
StoreEvent(e) == Room /\ log' = Append(log, e)

\* ... and the reply that reports it.
AppendEvent(e) ==
  /\ StoreEvent(e)
  /\ UNCHANGED unwritten
  /\ reply' = Reply(e.task, e.trigger, Len(log) + 1, e.code)

MayFail == Room /\ Len(unwritten) < MaxFailed

\* EventLog.append whose _write raises: memory has event e of call c, the file
\* has not, and the caller gets an exception for an answer.
WriteFails(c, e) ==
  /\ unwritten' = Append(unwritten, [actor |-> c.actor, request |-> c.key, fp |-> e.fp, code |-> e.code])
  /\ reply' = None
  /\ UNCHANGED <<log, ledgerVars, governanceVars, registryVars, quarantined>>

-----------------------------------------------------------------------------
(* create_task *)

Init ==
  /\ tasks = [t \in Tasks |-> None]
  /\ log = <<>> /\ unwritten = <<>>
  /\ reply = None
  /\ declared = {} /\ audit = <<>>
  /\ paused = {} /\ evidence = {} /\ approved = {}
  /\ RegistryInit
  /\ quarantined = {}

\* An existing task id is answered with the task as it stands.
ReturnExisting(c) ==
  /\ tasks[c.task] # None
  /\ reply' = Reply(c.task, "CREATED", 0, None)
  /\ UNCHANGED <<tasks, log, unwritten, ledgerVars, governanceVars, registryVars, quarantined>>

\* Refused at intake, in this order, and never recorded.
IntakeRefusal(c) ==
  IF ~c.inScope THEN "SCOPE_OUT_OF_BOUNDS"
  ELSE IF c.note \in SecretNotes THEN "SECRET_EXPOSURE"
  ELSE IF ~Unanswered(c) THEN "IDEMPOTENCY_CONFLICT"
  ELSE None

RefuseIntake(c) ==
  /\ tasks[c.task] = None
  /\ IntakeRefusal(c) # None
  /\ reply' = Reply(c.task, "CREATED", 0, IntakeRefusal(c))
  /\ UNCHANGED <<tasks, log, unwritten, ledgerVars, governanceVars, registryVars, quarantined>>

CreatedEvent(c) ==
  [task |-> c.task, seq |-> 1, request |-> RequestId(c), trigger |-> "CREATED",
   actor |-> c.actor, outcome |-> "SUCCESS", from |-> None, to |-> "INTAKE",
   resume |-> None, code |-> None, fp |-> IntakeFingerprint(c)]

Intake(c) ==
  /\ tasks[c.task] = None
  /\ IntakeRefusal(c) = None
  /\ StoreEvent(CreatedEvent(c))
  /\ UNCHANGED unwritten
  /\ tasks' = [tasks EXCEPT ![c.task] = Applied(CreatedEvent(c), NewTask)]

\* The scope and risk now declared decide anew which approvals the task has.
Reassessed(t) ==
  /\ approved' \in SUBSET Grantable
  /\ {a \in approved' : a[1] # t} = {a \in approved : a[1] # t}

\* Faulty variant: the declaration first, then the event, and a crash between.
CreateTask_DeclaresFirstBug(c) ==
  /\ tasks[c.task] = None
  /\ IntakeRefusal(c) = None
  /\ declared' = declared \cup {c.task}
  /\ UNCHANGED <<tasks, log, unwritten, reply, audit, governanceVars, registryVars, quarantined>>

Accept(c) ==
  /\ Intake(c)
  /\ c.validRisk
  /\ reply' = Reply(c.task, "CREATED", Len(log) + 1, None)

\* The event first, then declare_scope.
CreateTask(c) ==
  /\ Accept(c)
  /\ declared' = declared \cup {c.task}
  /\ Reassessed(c.task)
  /\ UNCHANGED <<audit, paused, evidence, registryVars, quarantined>>

\* Tasks a process has and the ledger does not know of.
Undeclared == {t \in Tasks : tasks[t] # None} \ declared

\* declare_scope raises, on a risk it cannot normalize or a record the ledger
\* does not take: the caller gets an exception for an answer, the task stays,
\* undeclared.
CreateTaskRaises(c) ==
  /\ ~c.validRisk \/ Cardinality(Undeclared) < MaxLost
  /\ Intake(c)
  /\ reply' = None
  /\ UNCHANGED <<ledgerVars, governanceVars, registryVars, quarantined>>

\* The CREATED event cannot be written, and there is no task.
CreateTaskFails(c) ==
  /\ MayFail
  /\ tasks[c.task] = None
  /\ IntakeRefusal(c) = None
  /\ WriteFails(c, CreatedEvent(c))
  /\ UNCHANGED tasks

-----------------------------------------------------------------------------
(* apply_transition *)

State(c) == tasks[c.task].state

\* The protected action a call needs an approval for: the caller's own
\* "action" when it passes one, else the one the trigger is governed by.
GovernedActions(c) ==
  IF c.action # None THEN {c.action} ELSE {g[2] : g \in {h \in GOVERNED_ACTIONS : h[1] = c.trigger}}

\* Where the call's trigger leads: one state, or none.
NextStates(c) ==
  {n \in TaskState : resolve_next_state(State(c), c.trigger, tasks[c.task].resume, n)}

hasEvidence(t, type) == <<t, type>> \in evidence

hasTestResult(t) == hasEvidence(t, "passed_test") \/ hasEvidence(t, "failed_test")

verification_passing(t) == hasEvidence(t, "passed_test") /\ ~hasEvidence(t, "failed_test")

\* The pause not consulted.
Halted_NeverBug(c) == FALSE

\* A pause stops every trigger but the resolutions.
Halted(c) == c.task \in paused /\ c.trigger \notin RESOLUTION_TRIGGERS

\* The owner rule of the holding states ("*") applied to resolutions.
can_resolve_AnyoneBug(c) == TRUE

can_resolve(c) == c.actor = SYSTEM_AGENT \/ roles[c.actor] \cap RESOLVER_ROLES # {}

\* The guards of apply_transition in the order the code tries them.
GuardOrder ==
  <<"PAUSED", "AGENT_QUARANTINED", "EVIDENCE_MISSING", "SECRET_EXPOSURE", "ACTOR_UNKNOWN",
    "ABSORBING", "CANNOT_HOLD", "AUTH_INVALID", "SCOPE_INVALID", "APPROVAL_MISSING",
    "EVIDENCE_NOT_RECORDED", "UNTESTED", "VERIFICATION_FAILED", "STATE_INVALID">>

\* Call c is caught by guard g.
Fails(c, g) ==
  \/ g = "PAUSED"            /\ Halted(c)
  \/ g = "AGENT_QUARANTINED" /\ c.actor \in quarantined
  \/ g = "EVIDENCE_MISSING"  /\ ~c.referenced
  \/ g = "SECRET_EXPOSURE"   /\ c.note \in SecretNotes
  \/ g = "ACTOR_UNKNOWN"     /\ ~is_registered(c.actor)
  \/ g = "ABSORBING"         /\ State(c) \in ABSORBING
  \/ g = "CANNOT_HOLD"       /\ \/ c.trigger = "BLOCK" /\ ~can_block(State(c))
                                \/ c.trigger = "ESCALATE" /\ ~can_escalate(State(c))
  \/ g = "AUTH_INVALID"      /\ c.trigger \in RESOLUTION_TRIGGERS /\ ~can_resolve(c)
  \/ g = "SCOPE_INVALID"     /\ c.trigger \notin OPEN_TRIGGERS \cup RESOLUTION_TRIGGERS
                             /\ teamOf[c.actor] \notin STATE_OWNERS[State(c)]
  \/ g = "APPROVAL_MISSING"  /\ \E a \in GovernedActions(c) : <<c.task, a>> \notin approved
  \/ g = "EVIDENCE_NOT_RECORDED"
       /\ \E r \in EVIDENCE_GATED_TRIGGERS : r[1] = c.trigger /\ ~hasEvidence(c.task, r[2])
  \/ g = "UNTESTED"            /\ c.trigger = "VERIFICATION_PASSED" /\ ~hasTestResult(c.task)
  \/ g = "VERIFICATION_FAILED" /\ c.trigger = "VERIFICATION_PASSED" /\ ~verification_passing(c.task)
  \/ g = "STATE_INVALID"     /\ NextStates(c) = {}

\* The guard's name for its code.
CodeOf_RawBug(g) == g

CodeOf(g) == CASE g = "CANNOT_HOLD" -> "STATE_INVALID"
               [] g = "UNTESTED"    -> "EVIDENCE_NOT_RECORDED"
               [] OTHER             -> g

\* The rejections recorded together with the call's fingerprint.
Fingerprinted == {"PAUSED", "AGENT_QUARANTINED", "EVIDENCE_MISSING", "ACTOR_UNKNOWN", "AUTH_INVALID"}

\* The i-th guard is the first to catch call c.
CaughtBy(c, i) == /\ Fails(c, GuardOrder[i])
                  /\ \A j \in 1 .. (i - 1) : ~Fails(c, GuardOrder[j])

\* The cached outcome of event e, or a conflict when both fingerprints exist and
\* differ.  The reply names e by n, which is 0 for an event that is not on file.
ReplaysOutcome(c, e, n) ==
  reply' = IF Conflicts(Fingerprint(c), e.fp)
           THEN Reply(c.task, c.trigger, 0, "IDEMPOTENCY_CONFLICT")
           ELSE Reply(c.task, c.trigger, n, e.code)

\* A call whose key the log knows is answered from the cache, whether or not
\* its event got on file.
ReplayCached(c) ==
  /\ \/ \E i \in Cached(c) : ReplaysOutcome(c, log[i], i)
     \/ \E u \in Remembered(c) : ReplaysOutcome(c, unwritten[u], 0)
  /\ UNCHANGED <<tasks, log, unwritten, ledgerVars, governanceVars, registryVars, quarantined>>

TaskNotFound(c) ==
  /\ Unanswered(c)
  /\ tasks[c.task] = None
  /\ reply' = Reply(c.task, c.trigger, 0, "TASK_NOT_FOUND")
  /\ UNCHANGED <<tasks, log, unwritten, ledgerVars, governanceVars, registryVars, quarantined>>

\* A new call on a known task.
Arrives(c) == Unanswered(c) /\ tasks[c.task] # None

\* Secret material is refused without a record of it.
RefuseSecret(c) ==
  /\ Arrives(c)
  /\ \E i \in DOMAIN GuardOrder : GuardOrder[i] = "SECRET_EXPOSURE" /\ CaughtBy(c, i)
  /\ reply' = Reply(c.task, c.trigger, 0, "SECRET_EXPOSURE")
  /\ UNCHANGED <<tasks, log, unwritten, ledgerVars, governanceVars, registryVars, quarantined>>

RejectedEvent(c, g) ==
  [task |-> c.task, seq |-> tasks[c.task].seq + 1, request |-> RequestId(c),
   trigger |-> c.trigger, actor |-> c.actor, outcome |-> "REJECTED",
   from |-> State(c), to |-> None, resume |-> None, code |-> CodeOf(g),
   fp |-> IF g \in Fingerprinted THEN Fingerprint(c) ELSE None]

Rejections == {i \in DOMAIN log : log[i].outcome = "REJECTED"}

\* Call c is rejected for the i-th guard, and that is recorded.
Rejects(c, i) == GuardOrder[i] # "SECRET_EXPOSURE" /\ CaughtBy(c, i)

\* The rejection takes a sequence number of the task ...
CountsRejection(c) == tasks' = [tasks EXCEPT ![c.task].seq = @ + 1]

\* _record_rejection.
RecordRejection(c) ==
  /\ Cardinality(Rejections) < MaxRejections
  /\ Arrives(c)
  /\ \E i \in DOMAIN GuardOrder : Rejects(c, i) /\ AppendEvent(RejectedEvent(c, GuardOrder[i]))
  /\ CountsRejection(c)
  /\ UNCHANGED <<ledgerVars, governanceVars, registryVars, quarantined>>

\* ... before it is written.
RecordRejectionFails(c) ==
  /\ MayFail
  /\ Arrives(c)
  /\ \E i \in DOMAIN GuardOrder : Rejects(c, i) /\ WriteFails(c, RejectedEvent(c, GuardOrder[i]))
  /\ CountsRejection(c)

SuccessEvent(c, n) ==
  [task |-> c.task, seq |-> tasks[c.task].seq + 1, request |-> RequestId(c),
   trigger |-> c.trigger, actor |-> c.actor, outcome |-> "SUCCESS",
   from |-> State(c), to |-> n,
   resume |-> IF n \in RESUME_HOLDING THEN State(c) ELSE None,
   code |-> None, fp |-> Fingerprint(c)]

\* Call c is new and no guard catches it.
Admitted(c) ==
  /\ Arrives(c)
  /\ \A i \in DOMAIN GuardOrder : ~Fails(c, GuardOrder[i])

\* The state set, the rest left to the event.
Move_StateOnlyBug(c) ==
  /\ Admitted(c)
  /\ \E n \in NextStates(c) :
       /\ StoreEvent(SuccessEvent(c, n))
       /\ tasks' = [tasks EXCEPT ![c.task].state = n, ![c.task].seq = @ + 1]
  /\ UNCHANGED unwritten

Move(c) ==
  /\ Admitted(c)
  /\ \E n \in NextStates(c) :
       /\ StoreEvent(SuccessEvent(c, n))
       /\ tasks' = [tasks EXCEPT ![c.task] = Applied(SuccessEvent(c, n), @)]
  /\ UNCHANGED unwritten

Moved(c) == Move(c) /\ reply' = Reply(c.task, c.trigger, Len(log) + 1, None)

\* The event first, then the task, then the ledger's transition record.
ApplyTransition(c) ==
  /\ Moved(c)
  /\ audit' = Append(audit, Len(log) + 1)
  /\ UNCHANGED <<declared, governanceVars, registryVars, quarantined>>

\* The transitions of the log the ledger never heard of.
Lost == {i \in DOMAIN log : /\ log[i].outcome = "SUCCESS" /\ log[i].trigger # "CREATED"
                            /\ \A k \in DOMAIN audit : audit[k] # i}

\* The ledger does not take the record: the task has moved all the same, and the
\* caller gets an exception for an answer.
TransitionRaises(c) ==
  /\ Cardinality(Lost) < MaxLost
  /\ Move(c)
  /\ reply' = None
  /\ UNCHANGED <<ledgerVars, governanceVars, registryVars, quarantined>>

\* The event cannot be written: the task stays where it is and the ledger hears
\* nothing, but the log remembers a success.
TransitionFails(c) ==
  /\ MayFail
  /\ Admitted(c)
  /\ \E n \in NextStates(c) : WriteFails(c, SuccessEvent(c, n))
  /\ UNCHANGED tasks

-----------------------------------------------------------------------------
(* Crashes and restarts.  The log and the ledger are files; the tasks, the *)
(* caller's reply, events that could not be written and the watchdog's     *)
(* quarantines live in the process.                                        *)

\* The white team rebuilt from its ledger: pauses stand, lifts and revocations
\* the ledger refused come undone, and approvals are counted anew.
GovernanceRebuilt ==
  /\ \E held \in SUBSET Pausable : paused' = paused \cup held
  /\ approved' \in SUBSET Grantable
  /\ UNCHANGED evidence

\* The registry is the caller's; __init__ sees to its own registration.
SystemRegistered ==
  /\ teamOf' = IF is_registered(SYSTEM_AGENT) THEN teamOf
               ELSE [teamOf EXCEPT ![SYSTEM_AGENT] = "coordinator"]
  /\ UNCHANGED roles

\* What the process held is gone; a new coordinator opens the log.
Reopened ==
  /\ tasks' = Replay(log')
  /\ unwritten' = <<>>
  /\ reply' = None
  /\ quarantined' = {}
  /\ SystemRegistered

\* A new coordinator on the same store.
Restart ==
  /\ UNCHANGED log
  /\ Reopened
  /\ GovernanceRebuilt
  /\ UNCHANGED ledgerVars

\* The ledger written before the log.
CrashAfterEvent_LedgerFirstBug(e) ==
  /\ UNCHANGED <<log, declared>>
  /\ audit' = Append(audit, Len(log) + 1)
  /\ Reopened
  /\ GovernanceRebuilt

\* The process dies inside a call, after the event is on file and before the
\* ledger has heard of it; then it is restarted.
CrashAfterEvent(e) ==
  /\ StoreEvent(e)
  /\ Reopened
  /\ GovernanceRebuilt
  /\ UNCHANGED ledgerVars

CreateTaskCrash(c) ==
  /\ tasks[c.task] = None
  /\ IntakeRefusal(c) = None
  /\ CrashAfterEvent(CreatedEvent(c))

TransitionCrash(c) ==
  /\ Cardinality(Lost) < MaxLost
  /\ Admitted(c)
  /\ \E n \in NextStates(c) : CrashAfterEvent(SuccessEvent(c, n))

-----------------------------------------------------------------------------
(* The white team, the registry's owner and the watchdog between two calls *)

Pause(t) == paused' = paused \cup {t} /\ UNCHANGED <<evidence, approved>>

Resume(t) == t \in paused /\ paused' = paused \ {t} /\ UNCHANGED <<evidence, approved>>

\* The ledger is append only: evidence is never withdrawn.
RecordEvidence(r) == evidence' = evidence \cup {r} /\ UNCHANGED <<paused, approved>>

\* A quorum is reached, or approvals expire or are revoked, or the scope or
\* risk they have to answer for changes: any number of gates opens or closes.
CountApprovals == approved' \in SUBSET Grantable /\ UNCHANGED <<paused, evidence>>

Governance ==
  /\ \/ \E t \in Pausable : Pause(t) \/ Resume(t)
     \/ \E r \in Offered : RecordEvidence(r)
     \/ CountApprovals
  /\ UNCHANGED <<coordinatorVars, ledgerVars, registryVars, quarantined>>

\* Agents come and go and roles are granted and revoked; approvals whose
\* approver has not the recorded role do not count.
Enrollment ==
  /\ RegistryStep
  /\ approved' \in SUBSET Grantable
  /\ UNCHANGED <<coordinatorVars, ledgerVars, paused, evidence, quarantined>>

Quarantine(a) == quarantined' = quarantined \cup {a}

Unquarantine(a) == quarantined' = quarantined \ {a}

Watchdog ==
  /\ \E a \in Quarantinable : Quarantine(a) \/ Unquarantine(a)
  /\ UNCHANGED <<coordinatorVars, ledgerVars, governanceVars, registryVars>>

-----------------------------------------------------------------------------
Next ==
  \/ Governance
  \/ Enrollment
  \/ Watchdog
  \/ \E c \in Intakes : \/ ReturnExisting(c) \/ RefuseIntake(c)
                        \/ CreateTask(c) \/ CreateTaskRaises(c)
                        \/ CreateTaskFails(c) \/ CreateTaskCrash(c)
  \/ \E c \in Commands : \/ ReplayCached(c) \/ TaskNotFound(c) \/ RefuseSecret(c)
                         \/ RecordRejection(c) \/ RecordRejectionFails(c)
                         \/ ApplyTransition(c) \/ TransitionRaises(c) \/ TransitionFails(c)
                         \/ TransitionCrash(c)
  \/ Restart

Spec == Init /\ [][Next]_vars

-----------------------------------------------------------------------------
(* Properties *)

EventType ==
  [task : Tasks, seq : Nat, request : Keys \cup Nat, trigger : Trigger, actor : Agents,
   outcome : {"SUCCESS", "REJECTED"}, from : TaskState \cup {None}, to : TaskState \cup {None},
   resume : TaskState \cup {None}, code : RejectionCode \cup {None},
   fp : Fingerprints \cup {None}]

\* A success says where it led; a hold says where to resume.
WellFormed(e) == /\ e.outcome = "SUCCESS" => e.to \in TaskState
                 /\ e.outcome = "SUCCESS" /\ e.to \in RESUME_HOLDING => e.resume \in TaskState

UnwrittenType == [actor : Agents, request : Keys \cup {None}, fp : Fingerprints \cup {None},
                  code : RejectionCode \cup {None}]

ReplyType == [task : Tasks, trigger : Trigger, event : Nat, code : RejectionCode \cup {None}]

\* Every variable holds a value of its kind, for the state the coordinator,
\* the log, the ledger, the white team and the watchdog keep.
TypeOK ==
  /\ tasks \in [Tasks -> TaskType \cup {None}]
  /\ log \in Seq(EventType)
  /\ \A i \in DOMAIN log : WellFormed(log[i])
  /\ unwritten \in Seq(UnwrittenType)
  /\ reply \in ReplyType \cup {None}
  /\ declared \subseteq Tasks
  /\ audit \in Seq(Nat)
  /\ paused \subseteq Tasks
  /\ evidence \subseteq Tasks \X EvidenceTypes
  /\ approved \subseteq Tasks \X Actions
  /\ RegistryType
  /\ quarantined \subseteq Agents

\* G9, "a restarted command must not duplicate a completed transition": no
\* (actor, request id) ever has two events, through crashes, restarts and
\* resends, in whatever state the resend finds the task.
OneEventPerRequest ==
  \A i, j \in DOMAIN log :
    log[i].actor = log[j].actor /\ log[i].request = log[j].request => i = j

\* A coordinator restarted now would hold every task in the state and with the
\* resume state this one has, whatever calls and rejections came in between.
RestartLosesNothing ==
  LET replayed == Replay(log)
  IN  \A t \in Tasks :
        /\ tasks[t] = None <=> replayed[t] = None
        /\ tasks[t] # None => /\ tasks[t].state = replayed[t].state
                              /\ tasks[t].resume = replayed[t].resume

\* The log as entries under their keys, and the one the last reply is about.
LogEntries == [i \in DOMAIN log |-> [key |-> <<log[i].actor, log[i].request>>, id |-> i]]

Told == IF reply # None /\ reply.event # 0 THEN {LogEntries[reply.event]} ELSE {}

\* What the process answers from, the events it could not write among them.
Served == {LogEntries[i] : i \in DOMAIN log}
            \cup {[key |-> <<unwritten[u].actor, unwritten[u].request>>, id |-> 0] : u \in DOMAIN unwritten}

Durable == INSTANCE DurableLog WITH stored <- LogEntries, told <- Told, served <- Served

\* While no process remembers an event its file has not got, the coordinator
\* asks of its log what a durable log does and nothing more: it adds under new
\* keys only, answers from what is stored, and never rewrites, through refusals,
\* replays, crashes, restarts and the end of a process that did remember one.
UsesDurableLog ==
  Durable!DurableInit /\ [][unwritten' = <<>> => Durable!DurableNext]_vars

\* p is the last success of i's task before event i.
Precedes(p, i) ==
  /\ p \in Successes(log, log[i].task) /\ p < i
  /\ \A q \in Successes(log, log[i].task) : q < i => q <= p

\* The successes the log holds of a task are a path of the state machine from
\* its creation on: each starts where the one before it ended, with the resume
\* state that one left, across every restart and crash.
LogIsAPath ==
  \A i \in DOMAIN log :
    log[i].outcome = "SUCCESS" =>
      IF \A j \in Successes(log, log[i].task) : j >= i
      THEN log[i].trigger = "CREATED"
      ELSE \A p \in DOMAIN log : Precedes(p, i) =>
             /\ log[i].from = log[p].to
             /\ resolve_next_state(log[p].to, log[i].trigger, resumeAfter(log[p]), log[i].to)

\* The path states a task has been in, as the log tells it, and the last one.
PathSteps(l, t) == {i \in Successes(l, t) : l[i].to \in PathStates}

Origin(l, t) == l[Latest(PathSteps(l, t))].to

\* Whatever the nesting of blocks and escalations, a held task that is to
\* resume work resumes the work it was taken from: no hold skips a stage or
\* sends the task back.
ResumeIsOrigin ==
  \A t \in Tasks :
    (tasks[t] # None /\ tasks[t].resume \in PathStates) => tasks[t].resume = Origin(log, t)

\* How far a task has come: the last path state the log has of it, which a hold
\* does not change; and the tasks in a hold.
Stage(t) == IF tasks[t] = None THEN None ELSE Origin(log, t)

Held == {t \in Tasks : tasks[t] # None /\ tasks[t].state \in RESUME_HOLDING}

Contract == INSTANCE TaskContract WITH stage <- [t \in Tasks |-> Stage(t)], held <- Held

\* The contract of docs/agent-contract.md, sections 3 and 4, kept through every
\* resend, nesting of holds, crash and restart: tasks move along the path only,
\* only when neither held nor paused, and past a gate only with its evidence.
KeepsContract == Contract!Spec

\* The states that lie behind the gate of each kind of evidence.
Verified == {"APPROVE", "RELEASE", "MONITOR"} \cup ABSORBING
Changed == {"VERIFY"} \cup Verified
Diagnosed == {"PLAN", "BUILD"} \cup Changed
Observed == {"DIAGNOSE"} \cup Diagnosed

\* No task works behind an evidence gate whose record the ledger lacks, not
\* even when it got there over blocks, escalations, crashes and restarts.
EvidenceTrail ==
  \A t \in Tasks :
    tasks[t] # None =>
      /\ Origin(log, t) \in Observed  => <<t, "observation">> \in evidence
      /\ Origin(log, t) \in Diagnosed => <<t, "diagnosis">> \in evidence
      /\ Origin(log, t) \in Changed   => <<t, "change">> \in evidence
      /\ Origin(log, t) \in Verified  => <<t, "passed_test">> \in evidence

\* The sequence numbers of a task's successes increase along the log, although
\* a restart forgets the numbers rejections took.
SuccessSeqIncreases ==
  \A i, j \in DOMAIN log :
    /\ log[i].task = log[j].task /\ i < j
    /\ log[i].outcome = "SUCCESS" /\ log[j].outcome = "SUCCESS"
    => log[i].seq < log[j].seq

\* The ledger reports the log's transitions in the log's order, none twice and
\* none the log does not hold, wherever the process dies.
AuditFollowsLog ==
  /\ \A k \in DOMAIN audit :
       /\ audit[k] \in DOMAIN log
       /\ log[audit[k]].outcome = "SUCCESS" /\ log[audit[k]].trigger # "CREATED"
  /\ \A k, m \in DOMAIN audit : k < m => audit[k] < audit[m]

\* The ledger never declares a task the log does not hold: wherever the process
\* dies, a declaration belongs to a task that a restart brings back.
DeclaredTasksExist == \A t \in declared : Events(log, t) # {} /\ tasks[t] # None

\* A caller answered with a success asked for that transition: a key reused for
\* another trigger is never answered with the first one's success.
SuccessAnswersTheCall ==
  (reply # None /\ reply.event # 0) =>
    (log[reply.event].outcome = "SUCCESS" => log[reply.event].trigger = reply.trigger)

\* STATE_OWNERS and the resolution rule of docs/authority-matrix.md, over the
\* whole log: work moves on only by an agent of a team that owns the state the
\* task is in, leaves a hold only by a resolver or the coordinator itself, and
\* an agent that is quarantined moves nothing.
MovedByAuthority ==
  [][\A i \in DOMAIN log' \ DOMAIN log :
       LET e == log'[i]
       IN  (e.outcome = "SUCCESS" /\ e.trigger # "CREATED") =>
             /\ is_registered(e.actor) /\ e.actor \notin quarantined
             /\ (e.from \in PathStates /\ e.to \in PathStates)
                  => teamOf[e.actor] \in STATE_OWNERS[tasks[e.task].state]
             /\ (e.from \in RESUME_HOLDING /\ e.to # "ESCALATED")
                  => e.actor = SYSTEM_AGENT \/ roles[e.actor] \cap RESOLVER_ROLES # {}]_vars

\* G10 and the block rule of docs/authority-matrix.md: a task that is paused,
\* blocked or escalated gets no further along its path, whatever resolutions,
\* resends, crashes and restarts happen; work moves only when it is free.
ProgressOnlyWhenFree ==
  [][\A t \in Tasks :
       (tasks[t] # None /\ (t \in paused \/ tasks[t].state \in RESUME_HOLDING))
         => Origin(log', t) = Origin(log, t)]_vars

-----------------------------------------------------------------------------
(* What the documents and tests say that the code does not do *)

\* docs/agent-contract.md, section 4: BLOCK leads to "BLOCKED (resume recorded)",
\* ESCALATE to "ESCALATED (resume recorded)", UNBLOCK from BLOCKED and
\* DECISION_RESUME from ESCALATED to the "recorded resume state".  So UNBLOCK
\* leads where the task's last BLOCK recorded, DECISION_RESUME where its last
\* ESCALATE did, however the two nest.
ResolutionLeadsBack ==
  [][\A i \in DOMAIN log' \ DOMAIN log :
       LET e == log'[i]
           Holds(trigger) == {j \in Successes(log, e.task) : log[j].trigger = trigger}
       IN  e.outcome = "SUCCESS" =>
             /\ e.trigger = "UNBLOCK" => e.to = log[Latest(Holds("BLOCK"))].resume
             /\ e.trigger = "DECISION_RESUME" => e.to = log[Latest(Holds("ESCALATE"))].resume]_vars
=============================================================================
