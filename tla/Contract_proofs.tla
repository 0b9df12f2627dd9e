--------------------------- MODULE Contract_proofs ---------------------------
(***************************************************************************)
(* Proofs that Coordinator keeps TaskContract, and of what else its files  *)
(* show of a task's way, for every set of tasks, agents and calls: that    *)
(* its successes are a path of the state machine, that the ledger tells    *)
(* the log's transitions in the log's order and declares no task the log   *)
(* does not hold, and that whoever moved a task was entitled to.  They     *)
(* rest on Coordinator_proofs: a task in memory is what the last success   *)
(* the log has of it made it (StoreInv), so that a step, a crash and a     *)
(* restart need only be followed in the log.                               *)
(***************************************************************************)
EXTENDS Coordinator_proofs

\* Position i holds the last path state log l has of task t.
IsOrigin(l, t, i) == i \in PathSteps(l, t) /\ \A j \in PathSteps(l, t) : j <= i

\* A task at work is at its origin, and a hold that is to end at work ends there.
FromOrigin(tk, l, t) ==
  tk # None => \E i \in DOMAIN l : /\ IsOrigin(l, t, i)
                                   /\ tk.state \in PathStates => tk.state = l[i].to
                                   /\ tk.resume \in PathStates => tk.resume = l[i].to

OriginInv == \A t \in Tasks : FromOrigin(tasks[t], log, t)

-----------------------------------------------------------------------------
(* What a step does to the log *)

\* Every step logs nothing, an intake, an admitted transition or a rejection.
LEMMA LoggedStep ==
  ASSUME [Next]_vars
  PROVE  \/ log' = log
         \/ \E c \in Intakes : tasks[c.task] = None /\ log' = Append(log, CreatedEvent(c))
         \/ \E c \in Commands : \E n \in NextStates(c) :
              Admitted(c) /\ log' = Append(log, SuccessEvent(c, n))
         \/ \E c \in Commands : \E i \in DOMAIN GuardOrder :
              Arrives(c) /\ log' = Append(log, RejectedEvent(c, GuardOrder[i]))
<1>1. CASE \E c \in Intakes : \/ ReturnExisting(c) \/ RefuseIntake(c)
                              \/ CreateTask(c) \/ CreateTaskRaises(c)
                              \/ CreateTaskFails(c) \/ CreateTaskCrash(c)
  BY <1>1 DEF ReturnExisting, RefuseIntake, CreateTask, Accept, CreateTaskRaises, CreateTaskFails,
              WriteFails, CreateTaskCrash, Intake, CrashAfterEvent, StoreEvent
<1>2. CASE \E c \in Commands : \/ ReplayCached(c) \/ TaskNotFound(c) \/ RefuseSecret(c)
                               \/ RecordRejection(c) \/ RecordRejectionFails(c)
                               \/ ApplyTransition(c) \/ TransitionRaises(c) \/ TransitionFails(c)
                               \/ TransitionCrash(c)
  <2>1. PICK c \in Commands : \/ ReplayCached(c) \/ TaskNotFound(c) \/ RefuseSecret(c)
                              \/ RecordRejection(c) \/ RecordRejectionFails(c)
                              \/ ApplyTransition(c) \/ TransitionRaises(c) \/ TransitionFails(c)
                              \/ TransitionCrash(c)
    BY <1>2
  <2>2. CASE \/ ReplayCached(c) \/ TaskNotFound(c) \/ RefuseSecret(c)
             \/ RecordRejectionFails(c) \/ TransitionFails(c)
    BY <2>2 DEF ReplayCached, TaskNotFound, RefuseSecret, RecordRejectionFails, TransitionFails,
                WriteFails
  <2>3. CASE RecordRejection(c)
    <3>1. PICK i \in DOMAIN GuardOrder : AppendEvent(RejectedEvent(c, GuardOrder[i]))
      BY <2>3 DEF RecordRejection
    <3>2. Arrives(c) /\ log' = Append(log, RejectedEvent(c, GuardOrder[i]))
      BY <2>3, <3>1 DEF RecordRejection, AppendEvent, StoreEvent
    <3>3. QED
      BY <3>2
  <2>4. CASE ApplyTransition(c) \/ TransitionRaises(c)
    BY <2>4 DEF ApplyTransition, Moved, TransitionRaises, Move, StoreEvent
  <2>5. CASE TransitionCrash(c)
    BY <2>5 DEF TransitionCrash, CrashAfterEvent, StoreEvent
  <2>6. QED
    BY <2>1, <2>2, <2>3, <2>4, <2>5
<1>3. CASE Restart \/ Governance \/ Enrollment \/ Watchdog \/ UNCHANGED vars
  BY <1>3 DEF Restart, Governance, Enrollment, Watchdog, vars, coordinatorVars
<1>4. QED
  BY <1>1, <1>2, <1>3 DEF Next

\* No step withdraws evidence.
LEMMA EvidenceGrows ==
  ASSUME [Next]_vars
  PROVE  evidence \subseteq evidence'
<1>1. CASE \E c \in Intakes : \/ ReturnExisting(c) \/ RefuseIntake(c)
                              \/ CreateTask(c) \/ CreateTaskRaises(c)
                              \/ CreateTaskFails(c) \/ CreateTaskCrash(c)
  BY <1>1 DEF ReturnExisting, RefuseIntake, CreateTask, CreateTaskRaises, CreateTaskFails, WriteFails,
              CreateTaskCrash, CrashAfterEvent, GovernanceRebuilt, governanceVars
<1>2. CASE \E c \in Commands : \/ ReplayCached(c) \/ TaskNotFound(c) \/ RefuseSecret(c)
                               \/ RecordRejection(c) \/ RecordRejectionFails(c)
                               \/ ApplyTransition(c) \/ TransitionRaises(c) \/ TransitionFails(c)
                               \/ TransitionCrash(c)
  BY <1>2 DEF ReplayCached, TaskNotFound, RefuseSecret, RecordRejection, RecordRejectionFails,
              ApplyTransition, TransitionRaises, TransitionFails, WriteFails,
              TransitionCrash, CrashAfterEvent, GovernanceRebuilt, governanceVars
<1>3. CASE Restart \/ Enrollment \/ Watchdog \/ UNCHANGED vars
  BY <1>3 DEF Restart, GovernanceRebuilt, Enrollment, Watchdog, vars, governanceVars
<1>4. CASE Governance
  BY <1>4 DEF Governance, Pause, Resume, RecordEvidence, CountApprovals
<1>5. QED
  BY <1>1, <1>2, <1>3, <1>4 DEF Next

-----------------------------------------------------------------------------
(* Tasks and origins, read off the log *)

\* The last success of a task says what the task in memory is.
LEMMA TaskFromLog ==
  ASSUME StoreInv, NEW t \in Tasks, NEW i \in DOMAIN log, IsLast(log, t, i)
  PROVE  /\ tasks[t] # None
         /\ tasks[t].state = log[i].to /\ tasks[t].resume = resumeAfter(log[i])
<1>1. log \in Seq(EventType) /\ TaskMatches(tasks[t], log, t)
  BY DEF StoreInv, TypeOK, TasksMatch
<1>2. tasks[t] # None
  BY <1>1 DEF TaskMatches, IsLast, Successes
<1>3. PICK j \in DOMAIN log : /\ IsLast(log, t, j) /\ tasks[t].state = log[j].to
                              /\ tasks[t].resume = resumeAfter(log[j])
  BY <1>1, <1>2 DEF TaskMatches
<1>4. i = j
  <2>1. i \in Nat /\ j \in Nat
    BY <1>1
  <2>2. i <= j /\ j <= i
    BY <1>3 DEF IsLast
  <2>3. QED
    BY <2>1, <2>2
<1>5. QED
  BY <1>2, <1>3, <1>4

\* A task exists when the log has events of it, and then has a last success.
LEMMA HasLast ==
  ASSUME StoreInv, NEW t \in Tasks
  PROVE  /\ tasks[t] = None <=> Events(log, t) = {}
         /\ tasks[t] # None => \E i \in DOMAIN log : IsLast(log, t, i)
BY DEF StoreInv, TasksMatch, TaskMatches

\* The last path state of a log is what Origin reads off it.
LEMMA OriginIs ==
  ASSUME NEW l \in Seq(EventType), NEW t, NEW i \in DOMAIN l, IsOrigin(l, t, i)
  PROVE  Origin(l, t) = l[i].to /\ l[i].to \in PathStates
<1>1. PathSteps(l, t) \in SUBSET Nat /\ i \in PathSteps(l, t)
  BY DEF IsOrigin, PathSteps, Successes, Events
<1>2. Latest(PathSteps(l, t)) = i
  BY <1>1, LatestIs DEF IsOrigin
<1>3. QED
  BY <1>1, <1>2 DEF Origin, PathSteps

\* Logs that agree on the successes of a task agree on its origin.
LEMMA SameOrigin ==
  ASSUME NEW l, NEW m, NEW t,
         Successes(m, t) = Successes(l, t),
         \A i \in Successes(l, t) : m[i] = l[i]
  PROVE  PathSteps(m, t) = PathSteps(l, t)
BY DEF PathSteps

\* A step that logs no success of a task leaves the task as it is, and where it
\* came from.
LEMMA UntouchedTask ==
  ASSUME StoreInv, StoreInv', OriginInv, NEW t \in Tasks,
         DOMAIN log \subseteq DOMAIN log',
         Successes(log', t) = Successes(log, t),
         \A i \in Successes(log, t) : log'[i] = log[i],
         tasks[t] = None => Events(log', t) = {}
  PROVE  /\ tasks'[t] = None <=> tasks[t] = None
         /\ tasks[t] # None => /\ tasks'[t].state = tasks[t].state
                               /\ tasks'[t].resume = tasks[t].resume
                               /\ Origin(log', t) = Origin(log, t)
         /\ FromOrigin(tasks'[t], log', t)
<1>1. log \in Seq(EventType) /\ log' \in Seq(EventType)
  BY DEF StoreInv, TypeOK
<1>2. tasks'[t] = None <=> Events(log', t) = {}
  BY DEF StoreInv, TasksMatch, TaskMatches
<1>3. CASE tasks[t] = None
  BY <1>2, <1>3 DEF FromOrigin
<1>4. CASE tasks[t] # None
  <2>1. PICK i \in DOMAIN log : IsLast(log, t, i)
    BY <1>4, HasLast
  <2>2. i \in DOMAIN log' /\ IsLast(log', t, i) /\ log'[i] = log[i]
    BY <2>1 DEF IsLast
  <2>3. /\ tasks'[t] # None
        /\ tasks'[t].state = log[i].to /\ tasks'[t].resume = resumeAfter(log[i])
    <3>1. tasks'[t] # None
      BY <1>2, <2>2 DEF IsLast, Successes
    <3>2. PICK j \in DOMAIN log' : /\ IsLast(log', t, j) /\ tasks'[t].state = log'[j].to
                                   /\ tasks'[t].resume = resumeAfter(log'[j])
      BY <3>1 DEF StoreInv, TasksMatch, TaskMatches
    <3>3. i = j
      <4>1. i \in Nat /\ j \in Nat
        BY <1>1
      <4>2. i <= j /\ j <= i
        BY <2>2, <3>2 DEF IsLast
      <4>3. QED
        BY <4>1, <4>2
    <3>4. QED
      BY <2>2, <3>1, <3>2, <3>3
  <2>4. tasks[t].state = log[i].to /\ tasks[t].resume = resumeAfter(log[i])
    BY <2>1, TaskFromLog
  <2>5. PathSteps(log', t) = PathSteps(log, t)
    BY SameOrigin
  <2>6. PICK k \in DOMAIN log : /\ IsOrigin(log, t, k)
                                /\ tasks[t].state \in PathStates => tasks[t].state = log[k].to
                                /\ tasks[t].resume \in PathStates => tasks[t].resume = log[k].to
    BY <1>4 DEF OriginInv, FromOrigin
  <2>7. k \in DOMAIN log' /\ IsOrigin(log', t, k) /\ log'[k] = log[k]
    BY <2>5, <2>6 DEF IsOrigin, PathSteps
  <2>8. Origin(log', t) = Origin(log, t)
    BY <1>1, <2>6, <2>7, OriginIs
  <2>9. FromOrigin(tasks'[t], log', t)
    BY <2>3, <2>4, <2>6, <2>7 DEF FromOrigin
  <2>10. QED
    BY <1>4, <2>3, <2>4, <2>8, <2>9
<1>5. QED
  BY <1>3, <1>4

\* What an event does not concern, it leaves alone: every other task, and after
\* a rejection its own.
LEMMA Bystander ==
  ASSUME StoreInv, StoreInv', OriginInv, NEW e \in EventType, log' = Append(log, e),
         NEW t \in Tasks, e.task = t => e.outcome = "REJECTED" /\ tasks[t] # None
  PROVE  /\ Stage(t)' = Stage(t) /\ (t \in Held' <=> t \in Held)
         /\ FromOrigin(tasks'[t], log', t)
<1>1. log \in Seq(EventType)
  BY DEF StoreInv, TypeOK
<1>2. /\ DOMAIN log \subseteq DOMAIN log'
      /\ \A i \in DOMAIN log : log'[i] = log[i]
  BY <1>1, AppendedEvent
<1>3. /\ Successes(log', t) = Successes(log, t)
      /\ e.task # t => Events(log', t) = Events(log, t)
  BY <1>1, AppendedHistory
<1>4. \A i \in Successes(log, t) : log'[i] = log[i]
  BY <1>2 DEF Successes, Events
<1>5. tasks[t] = None => Events(log', t) = {}
  BY <1>3 DEF StoreInv, TasksMatch, TaskMatches
<1>6. /\ tasks'[t] = None <=> tasks[t] = None
      /\ tasks[t] # None => /\ tasks'[t].state = tasks[t].state
                            /\ Origin(log', t) = Origin(log, t)
      /\ FromOrigin(tasks'[t], log', t)
  BY <1>2, <1>3, <1>4, <1>5, UntouchedTask
<1>7. QED
  BY <1>6 DEF Stage, Held

\* When nothing is logged, every task is one that is left alone.
LEMMA NothingLogged ==
  ASSUME StoreInv, StoreInv', OriginInv, log' = log, NEW t \in Tasks
  PROVE  /\ Stage(t)' = Stage(t) /\ (t \in Held' <=> t \in Held)
         /\ FromOrigin(tasks'[t], log', t)
<1>1. tasks[t] = None => Events(log', t) = {}
  BY DEF StoreInv, TasksMatch, TaskMatches
<1>2. /\ tasks'[t] = None <=> tasks[t] = None
      /\ tasks[t] # None => /\ tasks'[t].state = tasks[t].state
                            /\ Origin(log', t) = Origin(log, t)
      /\ FromOrigin(tasks'[t], log', t)
  BY <1>1, UntouchedTask
<1>3. QED
  BY <1>2 DEF Stage, Held

\* A success takes its task where it says; on the path, that is its new origin.
LEMMA Reached ==
  ASSUME StoreInv, StoreInv', NEW e \in EventType, e.outcome = "SUCCESS", log' = Append(log, e)
  PROVE  /\ tasks'[e.task] # None
         /\ tasks'[e.task].state = e.to /\ tasks'[e.task].resume = resumeAfter(e)
         /\ e.to \in PathStates => /\ IsOrigin(log', e.task, Len(log) + 1)
                                   /\ Len(log) + 1 \in DOMAIN log' /\ log'[Len(log) + 1] = e
                                   /\ Origin(log', e.task) = e.to
         /\ e.to \notin PathStates => PathSteps(log', e.task) = PathSteps(log, e.task)
<1> DEFINE n == Len(log) + 1
           t == e.task
<1>1. log \in Seq(EventType) /\ t \in Tasks /\ log' \in Seq(EventType)
  BY DEF StoreInv, TypeOK, EventType
<1>2. /\ n \in Nat /\ DOMAIN log \subseteq Nat
      /\ DOMAIN log' = DOMAIN log \cup {n} /\ n \notin DOMAIN log
      /\ \A i \in DOMAIN log : i < n /\ log'[i] = log[i]
      /\ log'[n] = e
  BY <1>1, AppendedEvent
<1>3. Successes(log', t) = Successes(log, t) \cup {n}
  BY <1>1, AppendedHistory
<1>4. Successes(log, t) \subseteq DOMAIN log
  BY DEF Successes, Events
<1> HIDE DEF n, t
<1>5. n \in DOMAIN log' /\ IsLast(log', t, n)
  BY <1>2, <1>3, <1>4 DEF IsLast
<1>6. TaskMatches(tasks'[t], log', t)
  BY <1>1 DEF StoreInv, TasksMatch
<1>7. tasks'[t] # None
  BY <1>3, <1>6 DEF TaskMatches, Successes
<1>8. PICK j \in DOMAIN log' : /\ IsLast(log', t, j) /\ tasks'[t].state = log'[j].to
                               /\ tasks'[t].resume = resumeAfter(log'[j])
  BY <1>6, <1>7 DEF TaskMatches
<1>9. j = n
  <2>1. j \in Nat
    BY <1>1
  <2>2. n <= j /\ j <= n
    BY <1>5, <1>8 DEF IsLast
  <2>3. QED
    BY <1>2, <2>1, <2>2
<1>10. tasks'[t].state = e.to /\ tasks'[t].resume = resumeAfter(e)
  BY <1>2, <1>8, <1>9
<1>11. ASSUME e.to \in PathStates
       PROVE  IsOrigin(log', t, n) /\ Origin(log', t) = e.to
  <2>1. IsOrigin(log', t, n)
    BY <1>2, <1>3, <1>5, <1>11 DEF IsOrigin, IsLast, PathSteps
  <2>2. Origin(log', t) = log'[n].to
    BY ONLY <1>1, <1>5, <2>1, OriginIs
  <2>3. QED
    BY <1>2, <2>1, <2>2
<1>12. ASSUME e.to \notin PathStates
       PROVE  PathSteps(log', t) = PathSteps(log, t)
  BY <1>2, <1>3, <1>4, <1>12 DEF PathSteps
<1>13. QED
  BY <1>2, <1>5, <1>7, <1>10, <1>11, <1>12 DEF n, t

\* No path state, and no holding one, is None.
LEMMA StatesAreNotNone == None \notin PathStates /\ None \notin RESUME_HOLDING
BY NoneAssumption DEF TaskState

LEMMA HoldingIsOffPath == PathStates \cap RESUME_HOLDING = {}
BY DEF PathStates, RESUME_HOLDING

\* The task that moves comes from its origin too.
LEMMA MoverFromOrigin ==
  ASSUME StoreInv, StoreInv', OriginInv, NEW e \in EventType, e.outcome = "SUCCESS",
         WellFormed(e), log' = Append(log, e),
         e.to \in RESUME_HOLDING => tasks[e.task] # None /\ e.resume = tasks[e.task].state
  PROVE  FromOrigin(tasks'[e.task], log', e.task)
<1> DEFINE t == e.task
<1>1. t \in Tasks /\ log \in Seq(EventType) /\ e.to \in TaskState
  BY DEF EventType, StoreInv, TypeOK, WellFormed
<1>2. CASE e.to \in PathStates
  <2>1. resumeAfter(e) = None
    BY <1>2, HoldingIsOffPath DEF resumeAfter
  <2>2. QED
    BY <1>2, <2>1, Reached, StatesAreNotNone DEF FromOrigin
<1>3. CASE e.to \in RESUME_HOLDING
  <2>1. e.to \notin PathStates /\ resumeAfter(e) = tasks[t].state
    BY <1>3, HoldingIsOffPath DEF resumeAfter
  <2>2. PICK k \in DOMAIN log : /\ IsOrigin(log, t, k)
                                /\ tasks[t].state \in PathStates => tasks[t].state = log[k].to
    BY <1>1, <1>3 DEF OriginInv, FromOrigin
  <2>3. k \in DOMAIN log' /\ log'[k] = log[k]
    BY <1>1, AppendedEvent
  <2>4. IsOrigin(log', t, k)
    BY <2>1, <2>2, Reached DEF IsOrigin
  <2>5. tasks'[t].state = e.to /\ tasks'[t].resume = tasks[t].state
    BY <2>1, Reached
  <2>6. QED
    BY <2>1, <2>2, <2>3, <2>4, <2>5 DEF FromOrigin
<1>4. QED
  BY <1>1, <1>2, <1>3 DEF TaskState

\* Every step leaves every task at its origin or in a hold from it.
LEMMA OriginStep ==
  ASSUME StoreInv, StoreInv', OriginInv, [Next]_vars
  PROVE  OriginInv'
<1> SUFFICES ASSUME NEW t \in Tasks PROVE FromOrigin(tasks'[t], log', t)
  BY DEF OriginInv
<1>1. CASE log' = log
  BY <1>1, NothingLogged
<1>2. CASE \E c \in Intakes : tasks[c.task] = None /\ log' = Append(log, CreatedEvent(c))
  <2>1. PICK c \in Intakes : tasks[c.task] = None /\ log' = Append(log, CreatedEvent(c))
    BY <1>2
  <2> DEFINE e == CreatedEvent(c)
  <2>2. /\ e \in EventType /\ WellFormed(e) /\ e.outcome = "SUCCESS"
        /\ e.task = c.task /\ e.to = "INTAKE"
    BY CreatedEventType DEF StoreInv
  <2>3. e.to \notin RESUME_HOLDING /\ log' = Append(log, e)
    BY <2>1, <2>2 DEF RESUME_HOLDING
  <2> HIDE DEF e
  <2>4. CASE t = e.task
    BY <2>2, <2>3, <2>4, MoverFromOrigin
  <2>5. CASE t # e.task
    BY <2>2, <2>3, <2>5, Bystander
  <2>6. QED
    BY <2>4, <2>5
<1>3. CASE \E c \in Commands : \E n \in NextStates(c) :
             Admitted(c) /\ log' = Append(log, SuccessEvent(c, n))
  <2>0. PICK c \in Commands : \E n \in NextStates(c) :
               Admitted(c) /\ log' = Append(log, SuccessEvent(c, n))
    BY <1>3
  <2>1. PICK n \in NextStates(c) : Admitted(c) /\ log' = Append(log, SuccessEvent(c, n))
    BY <2>0
  <2> DEFINE e == SuccessEvent(c, n)
  <2>2. tasks[c.task] # None
    BY <2>1 DEF Admitted, Arrives
  <2>3. e \in EventType /\ WellFormed(e) /\ e.outcome = "SUCCESS" /\ e.task = c.task
    BY <2>2, SuccessEventType DEF StoreInv
  <2>4. e.to \in RESUME_HOLDING => e.resume = tasks[c.task].state
    BY DEF SuccessEvent, State
  <2>5. log' = Append(log, e)
    BY <2>1
  <2> HIDE DEF e
  <2>6. CASE t = e.task
    BY <2>2, <2>3, <2>4, <2>5, <2>6, MoverFromOrigin
  <2>7. CASE t # e.task
    BY <2>3, <2>5, <2>7, Bystander
  <2>8. QED
    BY <2>6, <2>7
<1>4. CASE \E c \in Commands : \E i \in DOMAIN GuardOrder :
             Arrives(c) /\ log' = Append(log, RejectedEvent(c, GuardOrder[i]))
  <2>1. PICK c \in Commands, i \in DOMAIN GuardOrder :
               Arrives(c) /\ log' = Append(log, RejectedEvent(c, GuardOrder[i]))
    BY <1>4
  <2> DEFINE e == RejectedEvent(c, GuardOrder[i])
  <2>2. tasks[c.task] # None /\ log' = Append(log, e)
    BY <2>1 DEF Arrives
  <2>3. e \in EventType /\ e.outcome = "REJECTED" /\ e.task = c.task
    BY <2>2, RejectedEventType DEF StoreInv
  <2> HIDE DEF e
  <2>4. QED
    BY <2>2, <2>3, Bystander
<1>5. QED
  BY <1>1, <1>2, <1>3, <1>4, LoggedStep

\* The two invariants together are inductive.
THEOREM OriginInvariant == Spec => [](StoreInv /\ OriginInv)
<1>1. Init => OriginInv
  BY DEF Init, OriginInv, FromOrigin
<1>2. StoreInv /\ StoreInv' /\ OriginInv /\ [Next]_vars => OriginInv'
  BY OriginStep
<1>3. QED
  BY <1>1, <1>2, StoreInvariant, PTL DEF Spec

\* A hold always ends where the task was taken from, however holds are nested.
THEOREM HoldsResumeAtTheOrigin == Spec => []ResumeIsOrigin
<1>1. StoreInv /\ OriginInv => ResumeIsOrigin
  <2> SUFFICES ASSUME StoreInv, OriginInv, NEW t \in Tasks, tasks[t] # None, tasks[t].resume \in PathStates
               PROVE  tasks[t].resume = Origin(log, t)
    BY DEF ResumeIsOrigin
  <2>1. PICK i \in DOMAIN log : IsOrigin(log, t, i) /\ tasks[t].resume = log[i].to
    BY DEF OriginInv, FromOrigin
  <2>2. QED
    BY <2>1, OriginIs DEF StoreInv, TypeOK
<1>2. QED
  BY <1>1, OriginInvariant, PTL

-----------------------------------------------------------------------------
(* Coordinator implements TaskContract.  The contract's stage is Origin, so *)
(* what each kind of logged event does to stage and hold is all there is to *)
(* follow: an intake creates, an admitted transition advances its task,     *)
(* holds it, releases it or moves it from hold to hold.                     *)

\* The contract reads the same tables.
LEMMA SameTables ==
  /\ Contract!PATH_TRANSITIONS = PATH_TRANSITIONS
  /\ Contract!EVIDENCE_GATED_TRIGGERS = EVIDENCE_GATED_TRIGGERS
  /\ Contract!ABSORBING = ABSORBING
<1>1. Contract!PATH_TRANSITIONS = PATH_TRANSITIONS
  BY Zenon DEF Contract!PATH_TRANSITIONS, PATH_TRANSITIONS
<1>2. Contract!EVIDENCE_GATED_TRIGGERS = EVIDENCE_GATED_TRIGGERS
  BY Zenon DEF Contract!EVIDENCE_GATED_TRIGGERS, EVIDENCE_GATED_TRIGGERS
<1>3. Contract!ABSORBING = ABSORBING
  BY Zenon DEF Contract!ABSORBING, ABSORBING
<1>4. QED
  BY <1>1, <1>2, <1>3

\* The transitions of the path join path states, and none is a resolution.
LEMMA PathTable ==
  ASSUME NEW s \in PATH_TRANSITIONS
  PROVE  /\ s[1] \in PathStates \ ABSORBING /\ s[3] \in PathStates
         /\ s[2] \notin RESOLUTION_TRIGGERS \cup OPEN_TRIGGERS
         /\ s = <<s[1], s[2], s[3]>>
BY DEF PATH_TRANSITIONS, PathStates, ABSORBING, RESOLUTION_TRIGGERS, OPEN_TRIGGERS

\* Where an admitted call leads, from a path state and from a hold.
LEMMA FromThePath ==
  ASSUME NEW c, NEW n \in NextStates(c), State(c) \in PathStates
  PROVE  \/ <<State(c), c.trigger, n>> \in PATH_TRANSITIONS
         \/ c.trigger \in OPEN_TRIGGERS /\ n \in RESUME_HOLDING /\ State(c) \notin ABSORBING
<1>1. resolve_next_state(State(c), c.trigger, tasks[c.task].resume, n)
  BY DEF NextStates
<1>2. State(c) \notin {"BLOCKED", "ESCALATED"}
  BY DEF PathStates
<1>3. CASE <<State(c), c.trigger, n>> \in PATH_TRANSITIONS
  BY <1>3
<1>4. CASE c.trigger = "BLOCK" /\ can_block(State(c)) /\ n = "BLOCKED"
  BY <1>4 DEF OPEN_TRIGGERS, RESUME_HOLDING, can_block
<1>5. CASE c.trigger = "ESCALATE" /\ can_escalate(State(c)) /\ n = "ESCALATED"
  BY <1>5 DEF OPEN_TRIGGERS, RESUME_HOLDING, can_escalate
<1>6. QED
  BY <1>1, <1>2, <1>3, <1>4, <1>5 DEF resolve_next_state

LEMMA FromAHold ==
  ASSUME NEW c, NEW n \in NextStates(c), State(c) \in RESUME_HOLDING
  PROVE  \/ n = "ESCALATED" /\ c.trigger = "ESCALATE"
         \/ n = tasks[c.task].resume /\ c.trigger \in RESOLUTION_TRIGGERS
<1>1. resolve_next_state(State(c), c.trigger, tasks[c.task].resume, n)
  BY DEF NextStates
<1>2. <<State(c), c.trigger, n>> \notin PATH_TRANSITIONS
  BY HoldingIsOffPath, PathTable
<1>3. ~can_block(State(c))
  BY DEF can_block
<1>4. QED
  BY <1>1, <1>2, <1>3 DEF resolve_next_state, RESOLUTION_TRIGGERS

\* A task that exists has a stage, its origin, which is a path state.
LEMMA StageIsOrigin ==
  ASSUME StoreInv, OriginInv, NEW t \in Tasks, tasks[t] # None
  PROVE  /\ Stage(t) = Origin(log, t) /\ Stage(t) \in PathStates
         /\ tasks[t].state \in PathStates => Stage(t) = tasks[t].state
         /\ tasks[t].resume \in PathStates => Stage(t) = tasks[t].resume
<1>1. PICK i \in DOMAIN log : /\ IsOrigin(log, t, i)
                              /\ tasks[t].state \in PathStates => tasks[t].state = log[i].to
                              /\ tasks[t].resume \in PathStates => tasks[t].resume = log[i].to
  BY DEF OriginInv, FromOrigin
<1>2. Origin(log, t) = log[i].to /\ log[i].to \in PathStates
  BY <1>1, OriginIs DEF StoreInv, TypeOK
<1>3. QED
  BY <1>1, <1>2 DEF Stage

\* A call no guard catches.
LEMMA AdmittedCall ==
  ASSUME NEW c, Admitted(c)
  PROVE  /\ tasks[c.task] # None
         /\ c.task \in paused => c.trigger \in RESOLUTION_TRIGGERS
         /\ c.actor \notin quarantined /\ is_registered(c.actor)
         /\ c.trigger \in RESOLUTION_TRIGGERS => can_resolve(c)
         /\ c.trigger \notin OPEN_TRIGGERS \cup RESOLUTION_TRIGGERS
              => teamOf[c.actor] \in STATE_OWNERS[State(c)]
         /\ \A r \in EVIDENCE_GATED_TRIGGERS : r[1] = c.trigger => <<c.task, r[2]>> \in evidence
         /\ c.trigger = "VERIFICATION_PASSED" => /\ <<c.task, "passed_test">> \in evidence
                                                 /\ <<c.task, "failed_test">> \notin evidence
<1>1. /\ ~Fails(c, "PAUSED") /\ ~Fails(c, "AGENT_QUARANTINED") /\ ~Fails(c, "ACTOR_UNKNOWN")
      /\ ~Fails(c, "AUTH_INVALID") /\ ~Fails(c, "SCOPE_INVALID")
      /\ ~Fails(c, "EVIDENCE_NOT_RECORDED") /\ ~Fails(c, "VERIFICATION_FAILED")
  <2>1. \A i \in 1 .. 14 : ~Fails(c, GuardOrder[i])
    BY DEF Admitted, GuardOrder
  <2>2. /\ GuardOrder[1] = "PAUSED" /\ GuardOrder[2] = "AGENT_QUARANTINED"
        /\ GuardOrder[5] = "ACTOR_UNKNOWN" /\ GuardOrder[8] = "AUTH_INVALID"
        /\ GuardOrder[9] = "SCOPE_INVALID" /\ GuardOrder[11] = "EVIDENCE_NOT_RECORDED"
        /\ GuardOrder[13] = "VERIFICATION_FAILED"
    BY DEF GuardOrder
  <2>3. QED
    BY <2>1, <2>2
<1>2. /\ ~Halted(c) /\ c.actor \notin quarantined /\ is_registered(c.actor)
      /\ c.trigger \in RESOLUTION_TRIGGERS => can_resolve(c)
      /\ c.trigger \notin OPEN_TRIGGERS \cup RESOLUTION_TRIGGERS
           => teamOf[c.actor] \in STATE_OWNERS[State(c)]
  BY <1>1 DEF Fails
<1>3. /\ \A r \in EVIDENCE_GATED_TRIGGERS : r[1] = c.trigger => hasEvidence(c.task, r[2])
      /\ c.trigger = "VERIFICATION_PASSED" => verification_passing(c.task)
  BY <1>1 DEF Fails
<1>4. QED
  BY <1>2, <1>3 DEF Admitted, Arrives, Halted, hasEvidence, verification_passing

\* Who is held is the same when it is for every task.
LEMMA SameHeld ==
  ASSUME \A t \in Tasks : t \in Held' <=> t \in Held
  PROVE  Held' = Held
<1>1. \A H, K \in SUBSET Tasks : (\A t \in Tasks : t \in H <=> t \in K) => H = K
  OBVIOUS
<1>2. Held \in SUBSET Tasks /\ Held' \in SUBSET Tasks
  BY DEF Held
<1>3. QED
  BY <1>1, <1>2

\* What the contract calls stage and held.
Stages == [t \in Tasks |-> Stage(t)]

\* An intake is the contract's Create.
LEMMA IntakeCreates ==
  ASSUME StoreInv, StoreInv', OriginInv, NEW c \in Intakes,
         tasks[c.task] = None, log' = Append(log, CreatedEvent(c))
  PROVE  Contract!Create(c.task)
<1> DEFINE e == CreatedEvent(c)
           u == c.task
<1>1. /\ e \in EventType /\ e.outcome = "SUCCESS" /\ e.task = u /\ e.to = "INTAKE" /\ u \in Tasks
      /\ log' = Append(log, e)
  BY CreatedEventType DEF StoreInv
<1> HIDE DEF e
<1>2. "INTAKE" \in PathStates /\ "INTAKE" \notin RESUME_HOLDING
  BY DEF PathStates, RESUME_HOLDING
<1>3. Stage(u)' = "INTAKE" /\ u \notin Held' /\ u \notin Held
  BY <1>1, <1>2, Reached DEF Stage, Held
<1>4. \A t \in Tasks \ {u} : Stage(t)' = Stage(t) /\ (t \in Held' <=> t \in Held)
  BY <1>1, Bystander
<1>5. Stages' = [Stages EXCEPT ![u] = "INTAKE"]
  BY <1>1, <1>3, <1>4 DEF Stages
<1>6. Held' = Held
  <2>1. \A t \in Tasks : t \in Held' <=> t \in Held
    BY <1>3, <1>4
  <2>2. QED
    BY <2>1, SameHeld
<1>7. Stages[u] = None
  BY <1>1 DEF Stages, Stage
<1>8. QED
  BY <1>5, <1>6, <1>7 DEF Contract!Create, Stages

\* An admitted transition is a step of the contract, or moves from hold to hold.
LEMMA TransitionKeepsContract ==
  ASSUME StoreInv, StoreInv', OriginInv, NEW c \in Commands, NEW n \in NextStates(c),
         Admitted(c), log' = Append(log, SuccessEvent(c, n))
  PROVE  \/ Contract!Advance(c.task) \/ Contract!Hold(c.task) \/ Contract!Release(c.task)
         \/ Stages' = Stages /\ Held' = Held
<1> DEFINE e == SuccessEvent(c, n)
           u == c.task
<1>1. tasks[u] # None /\ u \in Tasks
  BY CommandFields, AdmittedCall
<1>2. /\ e \in EventType /\ e.outcome = "SUCCESS" /\ e.task = u /\ e.to = n
      /\ n \in TaskState /\ log' = Append(log, e)
  BY <1>1, SuccessEventType DEF StoreInv, SuccessEvent
<1> HIDE DEF e
<1>3. /\ tasks'[u] # None /\ tasks'[u].state = n
      /\ n \in PathStates => Stage(u)' = n
      /\ n \notin PathStates => PathSteps(log', u) = PathSteps(log, u)
  BY <1>2, Reached DEF Stage
<1>4. \A t \in Tasks \ {u} : Stage(t)' = Stage(t) /\ (t \in Held' <=> t \in Held)
  BY <1>2, Bystander
<1>5. u \in Held' <=> n \in RESUME_HOLDING
  BY <1>1, <1>3 DEF Held
<1>6. u \in Held <=> State(c) \in RESUME_HOLDING
  BY <1>1 DEF Held, State
<1>7. n \in RESUME_HOLDING => Stage(u)' = Stage(u)
  <2> SUFFICES ASSUME n \in RESUME_HOLDING PROVE Stage(u)' = Stage(u)
    OBVIOUS
  <2>1. PathSteps(log', u) = PathSteps(log, u)
    BY <1>3, HoldingIsOffPath
  <2>2. PICK k \in DOMAIN log : IsOrigin(log, u, k)
    BY <1>1 DEF OriginInv, FromOrigin
  <2>3. log \in Seq(EventType) /\ log' \in Seq(EventType)
    BY DEF StoreInv, TypeOK
  <2>4. k \in DOMAIN log' /\ log'[k] = log[k] /\ IsOrigin(log', u, k)
    BY <1>2, <2>1, <2>2, <2>3, AppendedEvent DEF IsOrigin
  <2>5. Origin(log', u) = Origin(log, u)
    <3>1. Origin(log, u) = log[k].to
      BY ONLY <2>2, <2>3, OriginIs
    <3>2. Origin(log', u) = log'[k].to
      BY ONLY <2>3, <2>4, OriginIs
    <3>3. QED
      BY <2>4, <3>1, <3>2
  <2>6. QED
    BY <1>1, <1>3, <2>5 DEF Stage
<1>8. /\ Stages' = [Stages EXCEPT ![u] = Stage(u)']
      /\ Held' \subseteq Tasks /\ Held \subseteq Tasks
  BY <1>1, <1>4 DEF Stages, Held
<1>9. Stages[u] = Stage(u) /\ Stages \in [Tasks -> {Stage(t) : t \in Tasks}]
  BY <1>1 DEF Stages
<1>10. CASE State(c) \in PathStates
  <2>1. Stage(u) = State(c) /\ u \notin Held
    BY <1>1, <1>6, <1>10, StageIsOrigin, HoldingIsOffPath DEF State
  <2>2. CASE <<State(c), c.trigger, n>> \in PATH_TRANSITIONS
    <3> DEFINE s == <<State(c), c.trigger, n>>
    <3>1. n \in PathStates /\ c.trigger \notin RESOLUTION_TRIGGERS
      BY <2>2, PathTable
    <3>2. u \notin paused
      BY <3>1, AdmittedCall
    <3>3. Contract!Evidenced(u, c.trigger)
      BY AdmittedCall, SameTables DEF Contract!Evidenced
    <3>4. Held' = Held
      <4>1. u \notin Held' /\ u \notin Held
        BY <1>5, <2>1, <3>1, HoldingIsOffPath
      <4>2. \A t \in Tasks : t \in Held' <=> t \in Held
        BY <1>4, <4>1
      <4>3. QED
        BY <4>2, SameHeld
    <3>5. Stages' = [Stages EXCEPT ![u] = n]
      BY <1>3, <1>8, <3>1
    <3>6. s \in Contract!PATH_TRANSITIONS /\ Stages[u] = s[1] /\ Contract!Evidenced(u, s[2])
          /\ Stages' = [Stages EXCEPT ![u] = s[3]]
      BY <1>9, <2>1, <2>2, <3>3, <3>5, SameTables
    <3>7. \E q \in Contract!PATH_TRANSITIONS : /\ Stages[u] = q[1] /\ Contract!Evidenced(u, q[2])
                                               /\ Stages' = [Stages EXCEPT ![u] = q[3]]
      BY <3>6
    <3>8. Contract!Advance(u)
      BY <2>1, <3>2, <3>4, <3>7 DEF Contract!Advance, Stages
    <3>9. QED
      BY <3>8
  <2>3. CASE c.trigger \in OPEN_TRIGGERS /\ n \in RESUME_HOLDING /\ State(c) \notin ABSORBING
    <3>1. u \notin paused
      BY <2>3, AdmittedCall DEF OPEN_TRIGGERS, RESOLUTION_TRIGGERS
    <3>2. Held' = Held \cup {u}
      BY <1>1, <1>4, <1>5, <1>8, <2>3
    <3>3. Stages' = Stages
      BY <1>7, <1>8, <1>9, <2>3
    <3>4. Stages[u] \notin ABSORBING \cup {None}
      BY <1>9, <1>10, <2>1, <2>3, StatesAreNotNone
    <3>5. Contract!Hold(u)
      BY <3>1, <3>2, <3>3, <3>4, SameTables DEF Contract!Hold, Stages
    <3>6. QED
      BY <3>5
  <2>4. QED
    BY <1>10, <2>2, <2>3, FromThePath
<1>11. CASE State(c) \in RESUME_HOLDING
  <2>1. CASE n \in RESUME_HOLDING
    <3>1. Held' = Held
      <4>1. u \in Held' /\ u \in Held
        BY <1>5, <1>6, <1>11, <2>1
      <4>2. \A t \in Tasks : t \in Held' <=> t \in Held
        BY <1>4, <4>1
      <4>3. QED
        BY <4>2, SameHeld
    <3>2. Stages' = Stages
      BY <1>7, <1>8, <1>9, <2>1
    <3>3. QED
      BY <3>1, <3>2
  <2>2. CASE n \in PathStates
    <3>1. n = tasks[u].resume
      BY <1>11, <2>2, FromAHold DEF PathStates
    <3>2. Stage(u)' = Stage(u)
      BY <1>1, <1>3, <2>2, <3>1, StageIsOrigin
    <3>3. Stages' = Stages
      BY <1>8, <1>9, <3>2
    <3>4. Held' = Held \ {u} /\ u \in Held
      BY <1>4, <1>5, <1>6, <1>8, <1>11, <2>2, HoldingIsOffPath
    <3>5. Contract!Release(u)
      BY <3>3, <3>4 DEF Contract!Release, Stages
    <3>6. QED
      BY <3>5
  <2>3. QED
    BY <1>2, <2>1, <2>2 DEF TaskState
<1>12. State(c) \in TaskState
  BY <1>1 DEF StoreInv, TypeOK, TaskType, State
<1>13. QED
  BY <1>10, <1>11, <1>12 DEF TaskState

\* Every step of the coordinator is a step of the contract.
LEMMA ContractStep ==
  ASSUME StoreInv, StoreInv', OriginInv, [Next]_vars
  PROVE  [Contract!Next]_<<Stages, Held, paused, evidence>>
<1>1. paused' \subseteq Tasks /\ evidence \subseteq evidence'
  BY EvidenceGrows DEF StoreInv, TypeOK
<1>2. Contract!WhiteTeamActs
  BY <1>1 DEF Contract!WhiteTeamActs
<1>3. ASSUME \A t \in Tasks : Stage(t)' = Stage(t) /\ (t \in Held' <=> t \in Held)
      PROVE  Contract!Next
  <2>1. Stages' = Stages
    BY <1>3 DEF Stages
  <2>2. Held' = Held
    BY <1>3, SameHeld
  <2>3. QED
    BY <1>2, <2>1, <2>2 DEF Contract!Next, Stages
<1>4. CASE log' = log
  BY <1>3, <1>4, NothingLogged
<1>5. CASE \E c \in Intakes : tasks[c.task] = None /\ log' = Append(log, CreatedEvent(c))
  <2>1. PICK c \in Intakes : tasks[c.task] = None /\ log' = Append(log, CreatedEvent(c))
    BY <1>5
  <2>2. Contract!Create(c.task) /\ c.task \in Tasks
    BY <2>1, IntakeCreates, CreatedEventType DEF StoreInv
  <2>3. QED
    BY <1>2, <2>2 DEF Contract!Next
<1>6. CASE \E c \in Commands : \E n \in NextStates(c) :
             Admitted(c) /\ log' = Append(log, SuccessEvent(c, n))
  <2>1. PICK c \in Commands : \E n \in NextStates(c) :
               Admitted(c) /\ log' = Append(log, SuccessEvent(c, n))
    BY <1>6
  <2>2. PICK n \in NextStates(c) : Admitted(c) /\ log' = Append(log, SuccessEvent(c, n))
    BY <2>1
  <2>3. \/ Contract!Advance(c.task) \/ Contract!Hold(c.task) \/ Contract!Release(c.task)
        \/ Stages' = Stages /\ Held' = Held
    BY <2>2, TransitionKeepsContract
  <2>4. c.task \in Tasks
    BY CommandFields
  <2>5. QED
    BY <1>2, <2>3, <2>4 DEF Contract!Next, Stages
<1>7. CASE \E c \in Commands : \E i \in DOMAIN GuardOrder :
             Arrives(c) /\ log' = Append(log, RejectedEvent(c, GuardOrder[i]))
  <2>1. PICK c \in Commands, i \in DOMAIN GuardOrder :
               Arrives(c) /\ log' = Append(log, RejectedEvent(c, GuardOrder[i]))
    BY <1>7
  <2> DEFINE e == RejectedEvent(c, GuardOrder[i])
  <2>2. tasks[c.task] # None /\ log' = Append(log, e)
    BY <2>1 DEF Arrives
  <2>3. e \in EventType /\ e.outcome = "REJECTED" /\ e.task = c.task
    BY <2>2, RejectedEventType DEF StoreInv
  <2> HIDE DEF e
  <2>4. QED
    BY <1>3, <2>2, <2>3, Bystander
<1>8. QED
  BY <1>4, <1>5, <1>6, <1>7, LoggedStep

\* Coordinator implements TaskContract, for every set of tasks, agents and calls.
THEOREM KeepsTheContract == Spec => KeepsContract
<1>1. Init => Contract!Init
  BY DEF Init, Contract!Init, Stage, Held
<1>2. StoreInv /\ StoreInv' /\ OriginInv /\ [Next]_vars
        => [Contract!Next]_Contract!contractVars
  <2> SUFFICES ASSUME StoreInv, StoreInv', OriginInv, [Next]_vars
               PROVE  [Contract!Next]_Contract!contractVars
    OBVIOUS
  <2>1. [Contract!Next]_<<Stages, Held, paused, evidence>>
    BY ContractStep
  <2>2. QED
    BY <2>1 DEF Contract!contractVars, Stages
<1>3. QED
  BY <1>1, <1>2, OriginInvariant, PTL DEF Spec, KeepsContract, Contract!Spec

-----------------------------------------------------------------------------
(* What the contract gives *)

\* A task that is held or paused has the same stage after any step.
LEMMA StuckStage ==
  ASSUME [Contract!Next]_<<Stages, Held, paused, evidence>>, NEW t \in Tasks,
         tasks[t] # None, Stage(t) # None, t \in paused \cup Held
  PROVE  Stage(t)' = Stage(t)
<1>1. CASE Stages' = Stages
  BY <1>1 DEF Stages
<1>2. CASE \E u \in Tasks : Contract!Create(u)
  <2>1. PICK u \in Tasks : Stages[u] = None /\ Stages' = [Stages EXCEPT ![u] = "INTAKE"]
    BY <1>2 DEF Contract!Create, Stages
  <2>2. u # t
    BY <2>1 DEF Stages
  <2>3. Stages'[t] = Stages[t]
    BY <2>1, <2>2 DEF Stages
  <2>4. QED
    BY <2>3 DEF Stages
<1>3. CASE \E u \in Tasks : Contract!Advance(u)
  <2>1. PICK u \in Tasks : /\ u \notin Held \cup paused
                           /\ \E s \in Contract!PATH_TRANSITIONS : Stages' = [Stages EXCEPT ![u] = s[3]]
    BY <1>3 DEF Contract!Advance, Stages
  <2>2. u # t
    BY <2>1
  <2>3. Stages'[t] = Stages[t]
    BY <2>1, <2>2 DEF Stages
  <2>4. QED
    BY <2>3 DEF Stages
<1>4. CASE \E u \in Tasks : Contract!Hold(u) \/ Contract!Release(u)
  BY <1>1, <1>4 DEF Contract!Hold, Contract!Release, Stages
<1>5. QED
  BY <1>1, <1>2, <1>3, <1>4 DEF Contract!Next, Stages

\* A task that is paused, blocked or escalated gets no further along its path.
THEOREM HeldTasksStay == Spec => ProgressOnlyWhenFree
<1>1. StoreInv /\ StoreInv' /\ OriginInv /\ [Next]_vars
        => [\A t \in Tasks :
              (tasks[t] # None /\ (t \in paused \/ tasks[t].state \in RESUME_HOLDING))
                => Origin(log', t) = Origin(log, t)]_vars
  <2> SUFFICES ASSUME StoreInv, StoreInv', OriginInv, [Next]_vars, NEW t \in Tasks,
                      tasks[t] # None, t \in paused \/ tasks[t].state \in RESUME_HOLDING
               PROVE  Origin(log', t) = Origin(log, t)
    OBVIOUS
  <2>1. t \in paused \cup Held
    BY DEF Held
  <2>2. Stage(t) = Origin(log, t) /\ Stage(t) \in PathStates
    BY StageIsOrigin
  <2>3. Stage(t)' = Stage(t)
    BY <2>1, <2>2, ContractStep, StuckStage, StatesAreNotNone
  <2>4. tasks'[t] # None /\ Stage(t)' = Origin(log', t)
    BY <2>2, <2>3, StatesAreNotNone DEF Stage
  <2>5. QED
    BY <2>2, <2>3, <2>4
<1>2. QED
  BY <1>1, OriginInvariant, PTL DEF Spec, ProgressOnlyWhenFree

\* What a stage owes the ledger.
Trail(s, t, ev) == /\ s \in Observed  => <<t, "observation">> \in ev
                   /\ s \in Diagnosed => <<t, "diagnosis">> \in ev
                   /\ s \in Changed   => <<t, "change">> \in ev
                   /\ s \in Verified  => <<t, "passed_test">> \in ev

\* A step of the path enters a region behind a gate only through the gate.
LEMMA Gates ==
  ASSUME NEW s \in PATH_TRANSITIONS
  PROVE  /\ s[3] \in Observed  => s[1] \in Observed \/ s[2] = "OBSERVATIONS_READY"
         /\ s[3] \in Diagnosed => s[1] \in Diagnosed \/ s[2] = "DIAGNOSIS_ACCEPTED"
         /\ s[3] \in Changed   => s[1] \in Changed \/ s[2] = "IMPLEMENTATION_READY"
         /\ s[3] \in Verified  => s[1] \in Verified \/ s[2] = "VERIFICATION_PASSED"
BY DEF PATH_TRANSITIONS, Observed, Diagnosed, Changed, Verified, ABSORBING

\* So every stage reached has its trail.
LEMMA TrailStep ==
  ASSUME [Contract!Next]_<<Stages, Held, paused, evidence>>, evidence \subseteq evidence',
         NEW t \in Tasks, Trail(Stage(t), t, evidence)
  PROVE  Trail(Stage(t)', t, evidence')
<1>1. CASE Stage(t)' = Stage(t)
  BY <1>1 DEF Trail
<1>2. CASE \E u \in Tasks : Contract!Create(u)
  <2>1. PICK u \in Tasks : Stages' = [Stages EXCEPT ![u] = "INTAKE"]
    BY <1>2 DEF Contract!Create, Stages
  <2>2. Stages'[t] = Stages[t] \/ Stages'[t] = "INTAKE"
    BY <2>1 DEF Stages
  <2>3. CASE Stages'[t] = "INTAKE"
    BY <2>3 DEF Trail, Observed, Diagnosed, Changed, Verified, ABSORBING, Stages
  <2>4. QED
    BY <1>1, <2>2, <2>3 DEF Stages
<1>3. CASE \E u \in Tasks : Contract!Advance(u)
  <2>1. PICK u \in Tasks : \E s \in PATH_TRANSITIONS :
               /\ Stages[u] = s[1] /\ Contract!Evidenced(u, s[2])
               /\ Stages' = [Stages EXCEPT ![u] = s[3]]
    BY <1>3, SameTables DEF Contract!Advance, Stages
  <2>2. PICK s \in PATH_TRANSITIONS : /\ Stages[u] = s[1] /\ Contract!Evidenced(u, s[2])
                                      /\ Stages' = [Stages EXCEPT ![u] = s[3]]
    BY <2>1
  <2>3. CASE u # t
    <3>1. Stages'[t] = Stages[t]
      BY <2>2, <2>3 DEF Stages
    <3>2. QED
      BY <1>1, <3>1 DEF Stages
  <2>4. CASE u = t
    <3>1. Stage(t) = s[1] /\ Stage(t)' = s[3]
      <4>1. Stages'[t] = s[3]
        BY <2>2, <2>4 DEF Stages
      <4>2. QED
        BY <2>2, <2>4, <4>1 DEF Stages
    <3>2. /\ \A r \in EVIDENCE_GATED_TRIGGERS : r[1] = s[2] => <<t, r[2]>> \in evidence
          /\ s[2] = "VERIFICATION_PASSED" => <<t, "passed_test">> \in evidence
      BY <2>2, <2>4, SameTables DEF Contract!Evidenced
    <3>3. /\ s[2] = "OBSERVATIONS_READY" => <<t, "observation">> \in evidence
          /\ s[2] = "DIAGNOSIS_ACCEPTED" => <<t, "diagnosis">> \in evidence
          /\ s[2] = "IMPLEMENTATION_READY" => <<t, "change">> \in evidence
      BY <3>2 DEF EVIDENCE_GATED_TRIGGERS
    <3>4. Trail(s[3], t, evidence)
      BY <3>1, <3>2, <3>3, Gates DEF Trail
    <3>5. QED
      BY <3>1, <3>4 DEF Trail
  <2>5. QED
    BY <2>3, <2>4
<1>4. CASE Stages' = Stages
  BY <1>1, <1>4 DEF Stages
<1>5. CASE \E u \in Tasks : Contract!Hold(u) \/ Contract!Release(u)
  BY <1>4, <1>5 DEF Contract!Hold, Contract!Release, Stages
<1>6. QED
  BY <1>2, <1>3, <1>4, <1>5 DEF Contract!Next, Stages

\* No task works behind a gate whose record the ledger lacks.
THEOREM EvidenceComesFirst == Spec => []EvidenceTrail
<1> DEFINE TrailInv == \A t \in Tasks : Trail(Stage(t), t, evidence)
<1>1. Init => TrailInv
  <2> SUFFICES ASSUME Init, NEW t \in Tasks PROVE Trail(Stage(t), t, evidence)
    OBVIOUS
  <2>1. Stage(t) = None
    BY DEF Init, Stage
  <2>2. Observed \cup Diagnosed \cup Changed \cup Verified \subseteq PathStates
    BY DEF Observed, Diagnosed, Changed, Verified, ABSORBING, PathStates
  <2>3. QED
    BY <2>1, <2>2, StatesAreNotNone DEF Trail
<1>2. StoreInv /\ StoreInv' /\ OriginInv /\ TrailInv /\ [Next]_vars => TrailInv'
  <2> SUFFICES ASSUME StoreInv, StoreInv', OriginInv, TrailInv, [Next]_vars, NEW t \in Tasks
               PROVE  Trail(Stage(t)', t, evidence')
    OBVIOUS
  <2>1. Trail(Stage(t), t, evidence)
    OBVIOUS
  <2>2. QED
    BY <2>1, ContractStep, EvidenceGrows, TrailStep
<1>3. StoreInv /\ TrailInv => EvidenceTrail
  BY DEF EvidenceTrail, Trail, Stage
<1> HIDE DEF TrailInv
<1>4. QED
  BY <1>1, <1>2, <1>3, OriginInvariant, PTL DEF Spec

-----------------------------------------------------------------------------
(* The files' account of a task *)

\* Event i continues its task's path in log l.
Continues(l, i) ==
  l[i].outcome = "SUCCESS" =>
    IF \A j \in Successes(l, l[i].task) : j >= i
    THEN l[i].trigger = "CREATED"
    ELSE \A p \in DOMAIN l :
           (/\ p \in Successes(l, l[i].task) /\ p < i
            /\ \A q \in Successes(l, l[i].task) : q < i => q <= p)
             => /\ l[i].from = l[p].to
                /\ resolve_next_state(l[p].to, l[i].trigger, resumeAfter(l[p]), l[i].to)

\* What an event continues does not depend on the events after it.
LEMMA StillContinues ==
  ASSUME NEW l \in Seq(EventType), NEW e \in EventType, NEW i \in DOMAIN l, Continues(l, i)
  PROVE  Continues(Append(l, e), i)
<1> DEFINE m == Append(l, e)
           n == Len(l) + 1
           t == l[i].task
<1>1. /\ n \in Nat /\ i \in Nat /\ i < n /\ DOMAIN m = DOMAIN l \cup {n} /\ DOMAIN l \subseteq Nat
      /\ \A j \in DOMAIN l : j < n /\ m[j] = l[j]
  BY AppendedEvent
<1>2. /\ Successes(m, t) = Successes(l, t) \/ Successes(m, t) = Successes(l, t) \cup {n}
      /\ Successes(l, t) \subseteq DOMAIN l
  BY AppendedHistory DEF Successes, Events
<1> HIDE DEF m, n
<1>3. /\ \A j \in Successes(m, t) : j < i => j \in Successes(l, t)
      /\ Successes(l, t) \subseteq Successes(m, t)
      /\ (\A j \in Successes(m, t) : j >= i) <=> (\A j \in Successes(l, t) : j >= i)
  BY <1>1, <1>2
<1>4. \A p \in DOMAIN m : p < i => p \in DOMAIN l /\ m[p] = l[p]
  BY <1>1
<1>5. Continues(m, i)
  BY <1>1, <1>3, <1>4 DEF Continues, t
<1>6. QED
  BY <1>5 DEF m

\* The event of an intake starts a path.
LEMMA IntakeStarts ==
  ASSUME StoreInv, NEW c \in Intakes, tasks[c.task] = None
  PROVE  Continues(Append(log, CreatedEvent(c)), Len(log) + 1)
<1> DEFINE e == CreatedEvent(c)
           m == Append(log, e)
           n == Len(log) + 1
<1>1. e \in EventType /\ e.task = c.task /\ c.task \in Tasks
  BY CreatedEventType DEF StoreInv
<1>2. log \in Seq(EventType) /\ Successes(log, c.task) = {}
  BY <1>1, HasLast DEF StoreInv, TypeOK, Successes
<1>3. n \in Nat /\ m[n] = e
  BY <1>1, <1>2, AppendedEvent
<1>4. Successes(m, c.task) \subseteq {n}
  BY <1>1, <1>2, AppendedHistory
<1>5. e.trigger = "CREATED"
  BY DEF CreatedEvent
<1> HIDE DEF e, m, n
<1>6. \A j \in Successes(m, c.task) : j >= n
  BY <1>3, <1>4
<1>7. Continues(m, n)
  BY <1>1, <1>3, <1>5, <1>6 DEF Continues
<1>8. QED
  BY <1>7 DEF m, n, e

\* The event of an admitted transition goes on from where its task is.
LEMMA TransitionContinues ==
  ASSUME StoreInv, NEW c \in Commands, NEW n \in NextStates(c), Admitted(c)
  PROVE  Continues(Append(log, SuccessEvent(c, n)), Len(log) + 1)
<1> DEFINE e == SuccessEvent(c, n)
           m == Append(log, e)
           k == Len(log) + 1
           t == c.task
<1>1. tasks[t] # None /\ t \in Tasks
  BY CommandFields, AdmittedCall
<1>2. e \in EventType /\ e.outcome = "SUCCESS" /\ e.task = t /\ log \in Seq(EventType)
  BY <1>1, SuccessEventType DEF StoreInv, TypeOK
<1>3. /\ k \in Nat /\ k \notin DOMAIN log /\ DOMAIN log \subseteq Nat
      /\ \A j \in DOMAIN log : j < k /\ m[j] = log[j]
      /\ m[k] = e
  BY <1>2, AppendedEvent
<1>4. Successes(m, t) = Successes(log, t) \cup {k} /\ Successes(log, t) \subseteq DOMAIN log
  BY <1>2, AppendedHistory DEF Successes, Events
<1>5. PICK i \in DOMAIN log : IsLast(log, t, i)
  BY <1>1, HasLast
<1>6. tasks[t].state = log[i].to /\ tasks[t].resume = resumeAfter(log[i])
  BY <1>1, <1>5, TaskFromLog
<1>7. /\ e.from = log[i].to
      /\ resolve_next_state(log[i].to, e.trigger, resumeAfter(log[i]), e.to)
  BY <1>6 DEF SuccessEvent, NextStates, State
<1> HIDE DEF e, m, k
<1>8. i \in Successes(m, t) /\ i < k
  BY <1>3, <1>4, <1>5 DEF IsLast
<1>9. ASSUME NEW p \in Successes(m, t), p < k, \A q \in Successes(m, t) : q < k => q <= p
      PROVE  p = i
  <2>1. p \in Successes(log, t)
    BY <1>3, <1>4, <1>9
  <2>2. p <= i /\ i <= p /\ p \in Nat /\ i \in Nat
    BY <1>3, <1>4, <1>5, <1>8, <1>9, <2>1 DEF IsLast
  <2>3. QED
    BY <2>2
<1>10. ~\A j \in Successes(m, t) : j >= k
  BY <1>3, <1>5, <1>8
<1>11. Continues(m, k)
  <2>1. m[k].task = t /\ m[i] = log[i]
    BY <1>2, <1>3
  <2> SUFFICES ASSUME NEW p \in Successes(m, t), p < k, \A q \in Successes(m, t) : q < k => q <= p
               PROVE  /\ m[k].from = m[p].to
                      /\ resolve_next_state(m[p].to, m[k].trigger, resumeAfter(m[p]), m[k].to)
    BY <1>10, <2>1 DEF Continues
  <2>2. p = i
    BY <1>9
  <2>3. QED
    BY <1>3, <1>7, <2>1, <2>2
<1>12. QED
  BY <1>11 DEF m, k, e

\* The successes the log holds of a task are a path of the state machine from
\* its creation on, across every restart and crash.
THEOREM LogTellsAPath == Spec => []LogIsAPath
<1>1. Init => LogIsAPath
  BY DEF Init, LogIsAPath
<1>2. ASSUME StoreInv, LogIsAPath, [Next]_vars
      PROVE  LogIsAPath'
  <2>1. log \in Seq(EventType) /\ \A i \in DOMAIN log : Continues(log, i)
    BY <1>2 DEF StoreInv, TypeOK, LogIsAPath, Continues, Precedes
  <2>2. ASSUME NEW e \in EventType, log' = Append(log, e), Continues(log', Len(log) + 1)
        PROVE  \A i \in DOMAIN log' : Continues(log', i)
    <3>1. DOMAIN log' = DOMAIN log \cup {Len(log) + 1}
      BY <2>1, <2>2, AppendedEvent
    <3>2. \A i \in DOMAIN log : Continues(log', i)
      BY <2>1, <2>2, StillContinues
    <3>3. QED
      BY <2>2, <3>1, <3>2
  <2>3. \A i \in DOMAIN log' : Continues(log', i)
    <3>1. CASE log' = log
      BY <2>1, <3>1
    <3>2. CASE \E c \in Intakes : tasks[c.task] = None /\ log' = Append(log, CreatedEvent(c))
      <4>1. PICK c \in Intakes : tasks[c.task] = None /\ log' = Append(log, CreatedEvent(c))
        BY <3>2
      <4>2. CreatedEvent(c) \in EventType
        BY <1>2, CreatedEventType DEF StoreInv
      <4>3. Continues(log', Len(log) + 1)
        BY <1>2, <4>1, IntakeStarts
      <4>4. QED
        BY <2>2, <4>1, <4>2, <4>3
    <3>3. CASE \E c \in Commands : \E n \in NextStates(c) :
                 Admitted(c) /\ log' = Append(log, SuccessEvent(c, n))
      <4>1. PICK c \in Commands : \E n \in NextStates(c) :
                   Admitted(c) /\ log' = Append(log, SuccessEvent(c, n))
        BY <3>3
      <4>2. PICK n \in NextStates(c) : Admitted(c) /\ log' = Append(log, SuccessEvent(c, n))
        BY <4>1
      <4>3. SuccessEvent(c, n) \in EventType
        BY <1>2, <4>2, AdmittedCall, SuccessEventType DEF StoreInv
      <4>4. Continues(log', Len(log) + 1)
        BY <1>2, <4>2, TransitionContinues
      <4>5. QED
        BY <2>2, <4>2, <4>3, <4>4
    <3>4. CASE \E c \in Commands : \E i \in DOMAIN GuardOrder :
                 Arrives(c) /\ log' = Append(log, RejectedEvent(c, GuardOrder[i]))
      <4>1. PICK c \in Commands, i \in DOMAIN GuardOrder :
                   Arrives(c) /\ log' = Append(log, RejectedEvent(c, GuardOrder[i]))
        BY <3>4
      <4> DEFINE e == RejectedEvent(c, GuardOrder[i])
      <4>2. e \in EventType /\ e.outcome = "REJECTED" /\ log' = Append(log, e)
        BY <1>2, <4>1, RejectedEventType DEF StoreInv, Arrives
      <4> HIDE DEF e
      <4>3. log'[Len(log) + 1] = e
        BY <2>1, <4>2, AppendedEvent
      <4>4. Continues(log', Len(log) + 1)
        BY <4>2, <4>3 DEF Continues
      <4>5. QED
        BY <2>2, <4>2, <4>4
    <3>5. QED
      BY <1>2, <3>1, <3>2, <3>3, <3>4, LoggedStep
  <2>4. QED
    BY <2>3 DEF LogIsAPath, Continues, Precedes
<1>3. QED
  BY <1>1, <1>2, StoreInvariant, PTL DEF Spec

-----------------------------------------------------------------------------
(* The ledger *)

\* A step leaves the transition records alone, unless it is a transition: that
\* adds one of its own event.
LEMMA AuditStep ==
  ASSUME [Next]_vars
  PROVE  \/ audit' = audit
         \/ \E c \in Commands : \E n \in NextStates(c) :
              /\ Admitted(c) /\ log' = Append(log, SuccessEvent(c, n))
              /\ audit' = Append(audit, Len(log) + 1)
<1>1. CASE \E c \in Intakes : \/ ReturnExisting(c) \/ RefuseIntake(c)
                              \/ CreateTask(c) \/ CreateTaskRaises(c)
                              \/ CreateTaskFails(c) \/ CreateTaskCrash(c)
  BY <1>1 DEF ReturnExisting, RefuseIntake, CreateTask, CreateTaskRaises, CreateTaskFails, WriteFails,
              CreateTaskCrash, CrashAfterEvent, ledgerVars
<1>2. CASE \E c \in Commands : \/ ReplayCached(c) \/ TaskNotFound(c) \/ RefuseSecret(c)
                               \/ RecordRejection(c) \/ RecordRejectionFails(c)
                               \/ TransitionRaises(c) \/ TransitionFails(c) \/ TransitionCrash(c)
  BY <1>2 DEF ReplayCached, TaskNotFound, RefuseSecret, RecordRejection, RecordRejectionFails,
              TransitionRaises, TransitionFails, WriteFails, TransitionCrash, CrashAfterEvent, ledgerVars
<1>3. CASE \E c \in Commands : ApplyTransition(c)
  BY <1>3 DEF ApplyTransition, Moved, Move, StoreEvent
<1>4. CASE Restart \/ Governance \/ Enrollment \/ Watchdog \/ UNCHANGED vars
  BY <1>4 DEF Restart, Governance, Enrollment, Watchdog, vars, ledgerVars
<1>5. QED
  BY <1>1, <1>2, <1>3, <1>4 DEF Next

\* No call carries the trigger of an intake past the transition table.
LEMMA NoCallCreates ==
  ASSUME NEW c, NEW n \in NextStates(c)
  PROVE  c.trigger # "CREATED"
<1>1. resolve_next_state(State(c), c.trigger, tasks[c.task].resume, n)
  BY DEF NextStates
<1>2. \A s \in PATH_TRANSITIONS : s[2] # "CREATED"
  BY DEF PATH_TRANSITIONS
<1>3. QED
  BY <1>1, <1>2 DEF resolve_next_state

\* What a step adds to the log comes after what is there.
LEMMA LogGrows ==
  ASSUME StoreInv, [Next]_vars
  PROVE  /\ DOMAIN log \subseteq DOMAIN log' /\ DOMAIN log \subseteq Nat
         /\ \A i \in DOMAIN log : log'[i] = log[i]
<1>1. log \in Seq(EventType)
  BY DEF StoreInv, TypeOK
<1>2. CASE log' = log
  BY <1>1, <1>2
<1>3. CASE \E e \in EventType : log' = Append(log, e)
  BY <1>1, <1>3, AppendedEvent
<1>4. \A c \in Intakes : CreatedEvent(c) \in EventType
  BY CreatedEventType DEF StoreInv
<1>5. \A c \in Commands : \A n \in NextStates(c) : Admitted(c) => SuccessEvent(c, n) \in EventType
  BY AdmittedCall, SuccessEventType DEF StoreInv
<1>6. \A c \in Commands : \A i \in DOMAIN GuardOrder :
        Arrives(c) => RejectedEvent(c, GuardOrder[i]) \in EventType
  BY RejectedEventType DEF StoreInv, Arrives
<1>7. log' = log \/ \E e \in EventType : log' = Append(log, e)
  BY <1>4, <1>5, <1>6, LoggedStep
<1>8. QED
  BY <1>2, <1>3, <1>7

\* The ledger reports the log's transitions in the log's order, none twice and
\* none the log does not hold, wherever the process dies.
THEOREM LedgerFollowsLog == Spec => []AuditFollowsLog
<1>1. Init => AuditFollowsLog
  BY DEF Init, AuditFollowsLog
<1>2. ASSUME StoreInv, AuditFollowsLog, [Next]_vars
      PROVE  AuditFollowsLog'
  <2>1. audit \in Seq(Nat) /\ log \in Seq(EventType)
    BY <1>2 DEF StoreInv, TypeOK
  <2>2. CASE audit' = audit
    BY <1>2, <2>2, LogGrows DEF AuditFollowsLog
  <2>3. CASE \E c \in Commands : \E n \in NextStates(c) :
               /\ Admitted(c) /\ log' = Append(log, SuccessEvent(c, n))
               /\ audit' = Append(audit, Len(log) + 1)
    <3>1. PICK c \in Commands : \E n \in NextStates(c) :
                 /\ Admitted(c) /\ log' = Append(log, SuccessEvent(c, n))
                 /\ audit' = Append(audit, Len(log) + 1)
      BY <2>3
    <3>2. PICK n \in NextStates(c) : /\ Admitted(c) /\ log' = Append(log, SuccessEvent(c, n))
                                     /\ audit' = Append(audit, Len(log) + 1)
      BY <3>1
    <3> DEFINE e == SuccessEvent(c, n)
               i == Len(log) + 1
               m == Len(audit) + 1
    <3>3. e \in EventType /\ e.outcome = "SUCCESS"
      BY <1>2, <3>2, AdmittedCall, SuccessEventType DEF StoreInv
    <3>4. e.trigger # "CREATED"
      BY NoCallCreates DEF SuccessEvent
    <3>5. log' = Append(log, e)
      BY <3>2
    <3> HIDE DEF e
    <3>6. /\ i \in DOMAIN log' /\ log'[i] = e /\ i \in Nat
          /\ \A j \in DOMAIN log : j < i /\ j \in DOMAIN log' /\ log'[j] = log[j]
      BY <2>1, <3>3, <3>5, AppendedEvent
    <3>7. /\ DOMAIN audit' = DOMAIN audit \cup {m} /\ audit'[m] = i /\ m \in Nat
          /\ DOMAIN audit \subseteq Nat
          /\ \A k \in DOMAIN audit : k < m /\ audit'[k] = audit[k]
      BY <2>1, <3>2, <3>6
    <3> HIDE DEF i, m
    <3>8. /\ \A k \in DOMAIN audit : /\ audit[k] \in DOMAIN log
                                     /\ log[audit[k]].outcome = "SUCCESS"
                                     /\ log[audit[k]].trigger # "CREATED"
          /\ \A k, q \in DOMAIN audit : k < q => audit[k] < audit[q]
      BY <1>2 DEF AuditFollowsLog
    <3>9. \A k \in DOMAIN audit' : /\ audit'[k] \in DOMAIN log'
                                   /\ log'[audit'[k]].outcome = "SUCCESS"
                                   /\ log'[audit'[k]].trigger # "CREATED"
      BY <3>3, <3>4, <3>6, <3>7, <3>8
    <3>10. ASSUME NEW k \in DOMAIN audit', NEW q \in DOMAIN audit', k < q
           PROVE  audit'[k] < audit'[q]
      <4>1. k \in DOMAIN audit
        BY <3>7, <3>10
      <4>2. CASE q \in DOMAIN audit
        BY <3>7, <3>8, <3>10, <4>1, <4>2
      <4>3. CASE q = m
        BY <3>6, <3>7, <3>8, <4>1, <4>3
      <4>4. QED
        BY <3>7, <4>2, <4>3
    <3>11. QED
      BY <3>9, <3>10 DEF AuditFollowsLog
  <2>4. QED
    BY <1>2, <2>2, <2>3, AuditStep
<1>3. QED
  BY <1>1, <1>2, StoreInvariant, PTL DEF Spec

\* A declaration belongs to a task the log holds, which a restart brings back.
THEOREM DeclarationsHaveTasks == Spec => []DeclaredTasksExist
<1>1. Init => DeclaredTasksExist
  BY DEF Init, DeclaredTasksExist
<1>2. ASSUME StoreInv, StoreInv', DeclaredTasksExist, [Next]_vars
      PROVE  DeclaredTasksExist'
  <2>1. declared \subseteq Tasks /\ declared' \subseteq Tasks
    BY <1>2 DEF StoreInv, TypeOK
  <2>2. \A t \in declared : Events(log', t) # {}
    BY <1>2, LogGrows DEF DeclaredTasksExist, Events
  <2>3. \A t \in declared' : t \in declared \/ Events(log', t) # {}
    <3>1. CASE \E c \in Intakes : CreateTask(c)
      <4>1. PICK c \in Intakes : CreateTask(c)
        BY <3>1
      <4>2. declared' = declared \cup {c.task} /\ log' = Append(log, CreatedEvent(c))
        BY <4>1 DEF CreateTask, Accept, Intake, StoreEvent
      <4>3. CreatedEvent(c) \in EventType /\ CreatedEvent(c).task = c.task
        BY <1>2, CreatedEventType DEF StoreInv
      <4>4. Events(log', c.task) # {}
        BY <1>2, <4>2, <4>3, AppendedHistory DEF StoreInv, TypeOK
      <4>5. QED
        BY <4>2, <4>4
    <3>2. CASE \E c \in Intakes : \/ ReturnExisting(c) \/ RefuseIntake(c)
                                  \/ CreateTaskRaises(c) \/ CreateTaskFails(c) \/ CreateTaskCrash(c)
      BY <3>2 DEF ReturnExisting, RefuseIntake, CreateTaskRaises, CreateTaskFails, WriteFails,
                  CreateTaskCrash, CrashAfterEvent, ledgerVars
    <3>3. CASE \E c \in Commands : \/ ReplayCached(c) \/ TaskNotFound(c) \/ RefuseSecret(c)
                                   \/ RecordRejection(c) \/ RecordRejectionFails(c)
                                   \/ ApplyTransition(c) \/ TransitionRaises(c)
                                   \/ TransitionFails(c) \/ TransitionCrash(c)
      BY <3>3 DEF ReplayCached, TaskNotFound, RefuseSecret, RecordRejection, RecordRejectionFails,
                  ApplyTransition, TransitionRaises, TransitionFails, WriteFails,
                  TransitionCrash, CrashAfterEvent, ledgerVars
    <3>4. CASE Restart \/ Governance \/ Enrollment \/ Watchdog \/ UNCHANGED vars
      BY <3>4 DEF Restart, Governance, Enrollment, Watchdog, vars, ledgerVars
    <3>5. QED
      BY <1>2, <3>1, <3>2, <3>3, <3>4 DEF Next
  <2>4. \A t \in Tasks : Events(log', t) # {} => tasks'[t] # None
    BY <1>2 DEF StoreInv, TasksMatch, TaskMatches
  <2>5. QED
    BY <2>1, <2>2, <2>3, <2>4 DEF DeclaredTasksExist
<1>3. QED
  BY <1>1, <1>2, StoreInvariant, PTL DEF Spec

-----------------------------------------------------------------------------
(* Authority *)

\* What MovedByAuthority asks of an event.
Entitled(e) ==
  (e.outcome = "SUCCESS" /\ e.trigger # "CREATED") =>
    /\ is_registered(e.actor) /\ e.actor \notin quarantined
    /\ (e.from \in PathStates /\ e.to \in PathStates)
         => teamOf[e.actor] \in STATE_OWNERS[tasks[e.task].state]
    /\ (e.from \in RESUME_HOLDING /\ e.to # "ESCALATED")
         => e.actor = SYSTEM_AGENT \/ roles[e.actor] \cap RESOLVER_ROLES # {}

\* An admitted transition is made by an entitled agent.
LEMMA AdmittedIsEntitled ==
  ASSUME NEW c \in Commands, NEW n \in NextStates(c), Admitted(c)
  PROVE  Entitled(SuccessEvent(c, n))
<1> DEFINE e == SuccessEvent(c, n)
<1>1. e.actor = c.actor /\ e.from = State(c) /\ e.to = n /\ e.task = c.task
  BY DEF SuccessEvent
<1>2. is_registered(c.actor) /\ c.actor \notin quarantined
  BY AdmittedCall
<1>3. ASSUME State(c) \in PathStates, n \in PathStates
      PROVE  teamOf[c.actor] \in STATE_OWNERS[State(c)]
  <2>1. <<State(c), c.trigger, n>> \in PATH_TRANSITIONS
    BY <1>3, FromThePath, HoldingIsOffPath
  <2>2. c.trigger \notin RESOLUTION_TRIGGERS \cup OPEN_TRIGGERS
    BY <2>1, PathTable
  <2>3. QED
    BY <2>2, AdmittedCall
<1>4. ASSUME State(c) \in RESUME_HOLDING, n # "ESCALATED"
      PROVE  c.actor = SYSTEM_AGENT \/ roles[c.actor] \cap RESOLVER_ROLES # {}
  <2>1. c.trigger \in RESOLUTION_TRIGGERS
    BY <1>4, FromAHold
  <2>2. QED
    BY <2>1, AdmittedCall DEF can_resolve
<1> HIDE DEF e
<1>5. Entitled(e)
  BY <1>1, <1>2, <1>3, <1>4 DEF Entitled, State
<1>6. QED
  BY <1>5 DEF e

\* Work moves only by an owner of the state the task is in, leaves a hold only
\* by a resolver, and nothing moves by an agent that is quarantined or unknown.
THEOREM OnlyAuthorityMoves == Spec => MovedByAuthority
<1>1. ASSUME StoreInv, [Next]_vars
      PROVE  \A i \in DOMAIN log' \ DOMAIN log : Entitled(log'[i])
  <2>1. log \in Seq(EventType)
    BY <1>1 DEF StoreInv, TypeOK
  <2>2. ASSUME NEW e \in EventType, log' = Append(log, e), Entitled(e)
        PROVE  \A i \in DOMAIN log' \ DOMAIN log : Entitled(log'[i])
    <3>1. /\ DOMAIN log' = DOMAIN log \cup {Len(log) + 1}
          /\ log'[Len(log) + 1] = e
      BY <2>1, <2>2, AppendedEvent
    <3>2. QED
      BY <2>2, <3>1
  <2>3. CASE log' = log
    BY <2>3
  <2>4. CASE \E c \in Intakes : tasks[c.task] = None /\ log' = Append(log, CreatedEvent(c))
    <3>1. PICK c \in Intakes : log' = Append(log, CreatedEvent(c))
      BY <2>4
    <3>2. CreatedEvent(c) \in EventType
      BY <1>1, CreatedEventType DEF StoreInv
    <3>3. Entitled(CreatedEvent(c))
      BY DEF Entitled, CreatedEvent
    <3>4. QED
      BY <2>2, <3>1, <3>2, <3>3
  <2>5. CASE \E c \in Commands : \E n \in NextStates(c) :
               Admitted(c) /\ log' = Append(log, SuccessEvent(c, n))
    <3>1. PICK c \in Commands : \E n \in NextStates(c) :
                 Admitted(c) /\ log' = Append(log, SuccessEvent(c, n))
      BY <2>5
    <3>2. PICK n \in NextStates(c) : Admitted(c) /\ log' = Append(log, SuccessEvent(c, n))
      BY <3>1
    <3>3. SuccessEvent(c, n) \in EventType
      BY <1>1, <3>2, AdmittedCall, SuccessEventType DEF StoreInv
    <3>4. Entitled(SuccessEvent(c, n))
      BY <3>2, AdmittedIsEntitled
    <3>5. QED
      BY <2>2, <3>2, <3>3, <3>4
  <2>6. CASE \E c \in Commands : \E i \in DOMAIN GuardOrder :
               Arrives(c) /\ log' = Append(log, RejectedEvent(c, GuardOrder[i]))
    <3>1. PICK c \in Commands, i \in DOMAIN GuardOrder :
                 Arrives(c) /\ log' = Append(log, RejectedEvent(c, GuardOrder[i]))
      BY <2>6
    <3> DEFINE e == RejectedEvent(c, GuardOrder[i])
    <3>2. e \in EventType /\ e.outcome = "REJECTED" /\ log' = Append(log, e)
      BY <1>1, <3>1, RejectedEventType DEF StoreInv, Arrives
    <3> HIDE DEF e
    <3>3. Entitled(e)
      BY <3>2 DEF Entitled
    <3>4. QED
      BY <2>2, <3>2, <3>3
  <2>7. QED
    BY <1>1, <2>3, <2>4, <2>5, <2>6, LoggedStep
<1>2. StoreInv /\ [Next]_vars
        => [\A i \in DOMAIN log' \ DOMAIN log :
              LET e == log'[i]
              IN  (e.outcome = "SUCCESS" /\ e.trigger # "CREATED") =>
                    /\ is_registered(e.actor) /\ e.actor \notin quarantined
                    /\ (e.from \in PathStates /\ e.to \in PathStates)
                         => teamOf[e.actor] \in STATE_OWNERS[tasks[e.task].state]
                    /\ (e.from \in RESUME_HOLDING /\ e.to # "ESCALATED")
                         => e.actor = SYSTEM_AGENT \/ roles[e.actor] \cap RESOLVER_ROLES # {}]_vars
  BY <1>1 DEF Entitled
<1>3. QED
  BY <1>2, StoreInvariant, PTL DEF Spec, MovedByAuthority
=============================================================================
