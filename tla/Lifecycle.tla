------------------------------ MODULE Lifecycle ------------------------------
(***************************************************************************)
(* The task state machine of colorharness/_common.py: states, triggers,    *)
(* the frozen transition table, the two holding states a task can be       *)
(* parked in, and which team owns which state.  Only definitions; the      *)
(* Coordinator module gives them behaviour.                                *)
(***************************************************************************)

Teams == {"coordinator", "observer", "red", "blue", "black", "purple",
          "gold", "silver", "yellow", "green", "white"}

\* PATH_TRANSITIONS: <<from, trigger, to>>.
PATH_TRANSITIONS ==
  { <<"INTAKE",   "ROUTE",                "OBSERVE">>,
    <<"OBSERVE",  "OBSERVATIONS_READY",   "DIAGNOSE">>,
    <<"DIAGNOSE", "DIAGNOSIS_ACCEPTED",   "PLAN">>,
    <<"PLAN",     "PLAN_APPROVED",        "BUILD">>,
    <<"BUILD",    "IMPLEMENTATION_READY", "VERIFY">>,
    <<"VERIFY",   "VERIFICATION_PASSED",  "APPROVE">>,
    <<"APPROVE",  "RELEASE_APPROVED",     "RELEASE">>,
    <<"RELEASE",  "DEPLOYED",             "MONITOR">>,
    <<"MONITOR",  "SUCCESS_CONFIRMED",    "CLOSED">>,
    <<"RELEASE",  "ROLLBACK_INITIATED",   "ROLLED_BACK">>,
    <<"MONITOR",  "ROLLBACK_INITIATED",   "ROLLED_BACK">> }

ABSORBING == {"CLOSED", "ROLLED_BACK"}

RESUME_HOLDING == {"BLOCKED", "ESCALATED"}

\* The states on the path: every state but the two holding ones.
PathStates == {"INTAKE", "OBSERVE", "DIAGNOSE", "PLAN", "BUILD", "VERIFY",
               "APPROVE", "RELEASE", "MONITOR", "CLOSED", "ROLLED_BACK"}

TaskState == PathStates \cup RESUME_HOLDING

OPEN_TRIGGERS == {"BLOCK", "ESCALATE"}

RESOLUTION_TRIGGERS == {"UNBLOCK", "DECISION_RESUME"}

Trigger == {"CREATED", "ROUTE", "OBSERVATIONS_READY", "DIAGNOSIS_ACCEPTED",
            "PLAN_APPROVED", "IMPLEMENTATION_READY", "VERIFICATION_PASSED",
            "RELEASE_APPROVED", "DEPLOYED", "SUCCESS_CONFIRMED",
            "ROLLBACK_INITIATED"}
           \cup OPEN_TRIGGERS \cup RESOLUTION_TRIGGERS

\* Faulty variant: a gate missing from the table.
EVIDENCE_GATED_TRIGGERS_Bug == { <<"DIAGNOSIS_ACCEPTED", "diagnosis">>, <<"IMPLEMENTATION_READY", "change">> }

\* EVIDENCE_GATED_TRIGGERS: <<trigger, record type it needs>>.
EVIDENCE_GATED_TRIGGERS == { <<"OBSERVATIONS_READY",   "observation">>,
                             <<"DIAGNOSIS_ACCEPTED",   "diagnosis">>,
                             <<"IMPLEMENTATION_READY", "change">> }

\* What the gates ask the ledger for; a test result is one that passed or one
\* that failed.
EvidenceTypes == {"observation", "diagnosis", "change", "passed_test", "failed_test"}

\* GOVERNED_ACTIONS of governance.py: <<trigger, protected action>>.
GOVERNED_ACTIONS == { <<"RELEASE_APPROVED",   "release">>,
                      <<"ROLLBACK_INITIATED", "rollback">> }

can_block(s) == s \notin ABSORBING \cup RESUME_HOLDING

can_escalate(s) == s \notin ABSORBING /\ s # "ESCALATED"

\* resolve_next_state as a relation: trigger tr takes a task in state s, whose
\* recorded resume state is r, to state n.  No n: the call returns None.
resolve_next_state(s, tr, r, n) ==
  \/ <<s, tr, n>> \in PATH_TRANSITIONS
  \/ tr = "UNBLOCK"         /\ s = "BLOCKED"   /\ n = r
  \/ tr = "DECISION_RESUME" /\ s = "ESCALATED" /\ n = r
  \/ tr = "BLOCK"           /\ can_block(s)    /\ n = "BLOCKED"
  \/ tr = "ESCALATE"        /\ can_escalate(s) /\ n = "ESCALATED"

\* STATE_OWNERS; every team owns the two holding states ("*" in the code).
STATE_OWNERS ==
  [ INTAKE |-> {"coordinator"},         OBSERVE |-> {"observer", "blue", "purple", "red"},
    DIAGNOSE |-> {"black"},             PLAN |-> {"gold", "coordinator"},
    BUILD |-> {"silver"},               VERIFY |-> {"yellow"},
    APPROVE |-> {"yellow", "coordinator"}, RELEASE |-> {"green"},
    MONITOR |-> {"green", "blue"},      CLOSED |-> {"coordinator"},
    ROLLED_BACK |-> {"green"},          BLOCKED |-> Teams,   ESCALATED |-> Teams ]

RejectionCode ==
  {"STATE_INVALID", "EVIDENCE_MISSING", "EVIDENCE_NOT_RECORDED", "ACTOR_UNKNOWN",
   "SCOPE_INVALID", "TASK_NOT_FOUND", "ABSORBING", "PAUSED", "APPROVAL_MISSING",
   "SCOPE_OUT_OF_BOUNDS", "IDEMPOTENCY_CONFLICT", "AUTH_INVALID", "SECRET_EXPOSURE",
   "AGENT_QUARANTINED", "VERIFICATION_FAILED"}
=============================================================================
