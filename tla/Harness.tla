------------------------------- MODULE Harness -------------------------------
(***************************************************************************)
(* The coordinator and the white team as the harness wires them: over one  *)
(* registry, one evidence ledger and one clock, both lost and rebuilt when *)
(* the process is.  What Coordinator leaves open (is the task paused, is   *)
(* the action approved, what the ledger says) is here what the white team  *)
(* answers; that its answers are among those Coordinator allows for is the *)
(* refinement CoordinatorSpec.  The evidence gates, which need no more of  *)
(* the white team than a record, stay with Coordinator and Evidence, and   *)
(* the watchdog, which asks the white team for no more than an escalation  *)
(* record, with Coordinator.                                               *)
(***************************************************************************)
EXTENDS WhiteTeam

CONSTANTS SYSTEM_AGENT, Keys, Notes, SecretNotes, Intakes, Commands,
          MaxEvents, MaxRejections, MaxLost, MaxFailed

VARIABLES tasks, log, unwritten, reply

coordinatorVars == <<tasks, log, unwritten, reply>>
whiteVars == <<ledger, memory, now>>
harnessVars == <<whiteVars, registryVars, coordinatorVars>>

\* How many of the positions in S come up to i.
Rank(S, i) == Cardinality({j \in S : j <= i})

\* The k-th of the positions in S.
Nth(S, k) == CHOOSE i \in S : Rank(S, i) = k

\* The ledger's transition records in its order, each named by its event.
Transitions(l) ==
  LET at == OfType(l, "transition")
  IN  [k \in 1 .. Cardinality(at) |-> l[Nth(at, k)].event]

\* The protected actions of a call, or of the fingerprint of one.
ActionsOf(c) == IF c.action # None THEN {c.action}
                ELSE {g[2] : g \in {h \in GOVERNED_ACTIONS : h[1] = c.trigger}}

\* What the coordinator may come to ask an approval for.
Protected == {p \in Tasks \X Actions : \E c \in Commands : p[1] = c.task /\ p[2] \in ActionsOf(c)}

C == INSTANCE Coordinator
       WITH declared      <- {t \in Tasks : DeclarationsOf(ledger, t) # {}},
            audit         <- Transitions(ledger),
            paused        <- pauses,
            approved      <- {p \in Protected : has_valid_approval(p[1], p[2])},
            evidence      <- {},
            Offered       <- {},
            Pausable      <- Haltable,
            Grantable     <- Protected,
            quarantined   <- {},
            Quarantinable <- {}

\* The calls made are the coordinator's, and what it takes for granted of them holds.
ASSUME HarnessAssumption ==
  /\ C!CallsAssumption /\ C!KeysAssumption /\ C!NoneAssumption
  /\ C!SystemAssumption /\ C!GovernanceAssumption /\ C!BoundAssumption /\ C!FingerprintAssumption

HarnessInit ==
  /\ Init
  /\ tasks = [t \in Tasks |-> None] /\ log = <<>> /\ unwritten = <<>> /\ reply = None

\* A call of the coordinator in which the white team is only asked.
Asks == UNCHANGED <<whiteVars, registryVars>>

\* Faulty variant: a task that exists is declared again.
CreateTask_RedeclaresBug(c) ==
  /\ \E d \in Declarations : d.task = c.task /\ declare_scope(d)
  /\ C!Accept(c) \/ C!ReturnExisting(c)

\* create_task, whose declaration is the white team's declare_scope.
CreateTask(c) ==
  /\ \E d \in Declarations : d.task = c.task /\ declare_scope(d)
  /\ C!Accept(c)

\* record_transition, the white team's part in a transition.
record_transition(t, event) ==
  /\ AppendRecord([type |-> "transition", task |-> t, at |-> now, event |-> event])
  /\ UNCHANGED <<memory, registryVars, now>>

ApplyTransition(c) ==
  /\ record_transition(c.task, Len(log) + 1)
  /\ C!Moved(c)

\* The process is gone: both are built again, over the files.
Rebuilt == Rebuild /\ C!Reopened /\ UNCHANGED <<ledger, now>>

CreateTaskCrash(c) ==
  /\ tasks[c.task] = None /\ C!IntakeRefusal(c) = None
  /\ C!StoreEvent(C!CreatedEvent(c))
  /\ Rebuilt

TransitionCrash(c) ==
  /\ Cardinality(C!Lost) < MaxLost
  /\ C!Admitted(c)
  /\ \E n \in C!NextStates(c) : C!StoreEvent(C!SuccessEvent(c, n))
  /\ Rebuilt

RestartBoth == UNCHANGED log /\ Rebuilt

Intake ==
  \E c \in Intakes :
    \/ Asks /\ \/ C!ReturnExisting(c) \/ C!RefuseIntake(c)
               \/ C!CreateTaskRaises(c) \/ C!CreateTaskFails(c)
    \/ CreateTask(c)
    \/ CreateTaskCrash(c)

Command ==
  \E c \in Commands :
    \/ Asks /\ \/ C!ReplayCached(c) \/ C!TaskNotFound(c) \/ C!RefuseSecret(c)
               \/ C!RecordRejection(c) \/ C!RecordRejectionFails(c)
               \/ C!TransitionFails(c) \/ C!TransitionRaises(c)
    \/ ApplyTransition(c)
    \/ TransitionCrash(c)

\* Between two calls of the coordinator: the white team's, the registry's and
\* the clock's.
Between == (Calls \/ Enrollment \/ Tick) /\ UNCHANGED coordinatorVars

HarnessNext == Intake \/ Command \/ Between \/ RestartBoth

HarnessSpec == HarnessInit /\ [][HarnessNext]_harnessVars

-----------------------------------------------------------------------------
(* Properties *)

\* The white team, rebuilt after every loss of the process and refused a record
\* or not, gives the coordinator no answers but those Coordinator allows for:
\* pauses survive, declarations appear with their task, transitions are recorded
\* once and in order.  What is shown of Coordinator holds of the harness.
CoordinatorSpec == C!Spec

\* The scope and risk the ledger declares of a task before its record k.
DeclaredBefore(t, k) == {i \in DeclarationsOf(ledger, t) : i < k}

\* Approval record j answers for transition record k and action a, by what the
\* ledger says up to k.
Answers(j, k, a) ==
  /\ j < k /\ ledger[j].task = ledger[k].task
  /\ ledger[j].action \in {a, "*"}
  /\ ledger[k].at < ledger[j].expires
  /\ ~\E m \in (j + 1) .. (k - 1) : Revokes(m, j)
  /\ \A i \in DeclaredBefore(ledger[k].task, k) :
       (\A h \in DeclaredBefore(ledger[k].task, k) : h <= i) => ledger[i].scope \subseteq ledger[j].scope

\* G1, "every protected action requires a recorded, in-scope, non-expired
\* approval", as an auditor sees it who has the two files: before each protected
\* transition the ledger records an approval that covers the scope declared last,
\* unexpired and unrevoked, whatever was restarted, refused or lost in between.
MovesAreWarranted ==
  \A k \in OfType(ledger, "transition") : \A a \in ActionsOf(log[ledger[k].event].fp) :
    \E j \in OfType(ledger, "approval") : Answers(j, k, a)

\* docs/authority-matrix.md: a hold is resolved by the coordinator or by a
\* security lead or platform owner, of a team that may hold that role: no agent
\* that left and came back in another team resolves with a role from before.
ResolversAreEntitled ==
  [][\A i \in DOMAIN log' \ DOMAIN log :
       (log'[i].outcome = "SUCCESS" /\ log'[i].trigger \in RESOLUTION_TRIGGERS)
         => \/ log'[i].actor = SYSTEM_AGENT
            \/ \E r \in RESOLVER_ROLES : MayHold(teamOf[log'[i].actor], r)]_harnessVars
=============================================================================
