---------------------------- MODULE Harness_proofs ----------------------------
(***************************************************************************)
(* Proofs about Harness, for every set of tasks, agents, scopes and calls: *)
(* the white team, rebuilt after every loss of the process, is a           *)
(* governance Coordinator allows for, every protected transition is        *)
(* answered for by an approval in force, and who resolves a hold is        *)
(* entitled to.                                                            *)
(***************************************************************************)
EXTENDS Harness, WhiteTeam_proofs

\* What the coordinator has put in the ledger.
HarnessRecords == [type : {"transition"}, task : Tasks, at : Nat, event : Nat]

\* Each of the positions in S is the k-th for some k.
Enumerated(S) ==
  IsFiniteSet(S) /\ \A k \in 1 .. Cardinality(S) : \E i \in S : Rank(S, i) = k

\* A sequence of whatever it holds.
IsASequence(l) == l \in Seq({l[i] : i \in DOMAIN l})

\* The white team pauses none but the tasks it is asked to.
PausesWithin == \A i \in OfType(ledger, "pause") : ledger[i].task \in Haltable

HarnessInv ==
  /\ MemoryInv(HarnessRecords)
  /\ PausesWithin
  /\ Enumerated(OfType(ledger, "transition"))
  /\ IsASequence(log)

-----------------------------------------------------------------------------
(* Positions and their ranks *)

\* No two positions have one rank.
LEMMA NthIs ==
  ASSUME NEW S \in SUBSET Nat, IsFiniteSet(S), NEW i \in S
  PROVE  Nth(S, Rank(S, i)) = i
<1> DEFINE j == Nth(S, Rank(S, i))
           A == {k \in S : k <= i}
           B == {k \in S : k <= j}
<1>1. j \in S /\ Rank(S, j) = Rank(S, i)
  BY Zenon DEF Nth
<1> HIDE DEF j
<1>2. i \in Nat /\ j \in Nat /\ S \subseteq Nat
  BY <1>1
<1>3. /\ A \subseteq S /\ B \subseteq S /\ i \in A /\ j \in B
      /\ \A k \in A : k <= i
      /\ \A k \in B : k <= j
      /\ A \subseteq B \/ B \subseteq A
  <2>1. i \in A /\ j \in B
    BY <1>1, <1>2
  <2>2. ASSUME j <= i, NEW k \in B
        PROVE  k \in A
    <3>1. k \in S /\ k \in Nat /\ k <= j
      BY <1>2
    <3>2. k <= i
      BY <1>2, <2>2, <3>1
    <3>3. QED
      BY <3>1, <3>2
  <2>3. ASSUME i <= j, NEW k \in A
        PROVE  k \in B
    <3>1. k \in S /\ k \in Nat /\ k <= i
      BY <1>2
    <3>2. k <= j
      BY <1>2, <2>3, <3>1
    <3>3. QED
      BY <3>1, <3>2
  <2>4. i <= j \/ j <= i
    BY <1>2
  <2>5. QED
    BY <2>1, <2>2, <2>3, <2>4
<1>4. Cardinality(A) = Cardinality(B)
  BY <1>1 DEF Rank
<1> HIDE DEF A, B
<1>5. A = B
  <2>1. IsFiniteSet(A) /\ IsFiniteSet(B)
    BY <1>3, FS_Subset
  <2>3. CASE A \subseteq B
    BY <1>4, <2>1, <2>3, FS_Subset
  <2>4. CASE B \subseteq A
    BY <1>4, <2>1, <2>4, FS_Subset
  <2>5. QED
    BY <1>3, <2>3, <2>4
<1>6. i <= j /\ j <= i
  BY <1>3, <1>5
<1>7. QED
  BY <1>2, <1>6 DEF j

\* A position after all others is the last, and moves none of them.
LEMMA NthAfter ==
  ASSUME NEW S \in SUBSET Nat, Enumerated(S), NEW n \in Nat, \A i \in S : i < n
  PROVE  /\ Enumerated(S \cup {n})
         /\ Cardinality(S) \in Nat /\ Cardinality(S \cup {n}) = Cardinality(S) + 1
         /\ Nth(S \cup {n}, Cardinality(S) + 1) = n
         /\ \A k \in 1 .. Cardinality(S) : Nth(S, k) \in S /\ Nth(S \cup {n}, k) = Nth(S, k)
<1> DEFINE T == S \cup {n}
           m == Cardinality(S)
<1>1. IsFiniteSet(S) /\ m \in Nat /\ n \notin S
  BY FS_CardinalityType DEF Enumerated
<1>2. IsFiniteSet(T) /\ Cardinality(T) = m + 1 /\ T \in SUBSET Nat
  BY <1>1, FS_AddElement
<1>3. ASSUME NEW i \in S
      PROVE  Rank(T, i) = Rank(S, i)
  <2>1. {j \in T : j <= i} = {j \in S : j <= i}
    <3>1. ~(n <= i)
      <4>1. i \in Nat /\ i < n
        OBVIOUS
      <4>2. QED
        BY <4>1
    <3>2. QED
      BY <3>1
  <2>2. QED
    BY <2>1 DEF Rank
<1>4. Rank(T, n) = m + 1
  <2>1. \A j \in T : j <= n
    <3>1. \A j \in S : j \in Nat /\ j < n
      OBVIOUS
    <3>2. QED
      BY <3>1
  <2>2. {j \in T : j <= n} = T
    BY <2>1
  <2>3. QED
    BY <1>2, <2>2 DEF Rank
<1>5. ASSUME NEW k \in 1 .. m
      PROVE  Nth(S, k) \in S /\ Nth(T, k) = Nth(S, k) /\ Rank(T, Nth(S, k)) = k
  <2>1. PICK i \in S : Rank(S, i) = k
    BY DEF Enumerated
  <2>2. Nth(S, k) = i /\ Nth(T, k) = i
    BY <1>1, <1>2, <1>3, <2>1, NthIs
  <2>3. QED
    BY <1>3, <2>1, <2>2
<1>6. Nth(T, m + 1) = n
  BY <1>2, <1>4, NthIs
<1>7. Enumerated(T)
  <2> SUFFICES ASSUME NEW k \in 1 .. (m + 1) PROVE \E i \in T : Rank(T, i) = k
    BY <1>2 DEF Enumerated
  <2>1. CASE k \in 1 .. m
    BY <1>5, <2>1
  <2>2. CASE k = m + 1
    BY <1>4, <2>2
  <2>3. QED
    BY <1>1, <2>1, <2>2
<1>8. QED
  BY <1>1, <1>2, <1>5, <1>6, <1>7

\* What a new record is to the ledger's transitions.
LEMMA TransitionsAfter ==
  ASSUME NEW R, NEW l \in Seq(R), NEW r \in R, Enumerated(OfType(l, "transition"))
  PROVE  /\ Enumerated(OfType(Append(l, r), "transition"))
         /\ r.type # "transition" => Transitions(Append(l, r)) = Transitions(l)
         /\ r.type = "transition" => Transitions(Append(l, r)) = Append(Transitions(l), r.event)
<1> DEFINE p == Append(l, r)
           n == Len(l) + 1
           S == OfType(l, "transition")
           T == OfType(p, "transition")
           m == Cardinality(S)
<1>1. /\ n \in Nat /\ n \notin DOMAIN l /\ DOMAIN l \subseteq Nat
      /\ \A i \in DOMAIN l : i < n /\ p[i] = l[i]
      /\ p[n] = r
  BY AppendedRecord
<1>2. T = IF r.type = "transition" THEN S \cup {n} ELSE S
  BY AppendedKinds
<1>3. S \subseteq DOMAIN l /\ S \in SUBSET Nat
  BY <1>1, KindsWithin
<1>4. /\ Transitions(l) = [k \in 1 .. m |-> l[Nth(S, k)].event]
      /\ Transitions(p) = [k \in 1 .. Cardinality(T) |-> p[Nth(T, k)].event]
  BY DEF Transitions
<1> HIDE DEF p, n, S, T
<1>5. /\ Enumerated(S \cup {n})
      /\ m \in Nat /\ Cardinality(S \cup {n}) = m + 1
      /\ Nth(S \cup {n}, m + 1) = n
      /\ \A k \in 1 .. m : Nth(S, k) \in S /\ Nth(S \cup {n}, k) = Nth(S, k)
  <2>1. Enumerated(S) /\ \A i \in S : i < n
    BY <1>1, <1>3 DEF S
  <2>2. QED
    BY <1>1, <1>3, <2>1, NthAfter
<1> HIDE DEF m
<1>6. \A k \in 1 .. m : p[Nth(S, k)] = l[Nth(S, k)]
  BY <1>1, <1>3, <1>5
<1>7. CASE r.type # "transition"
  <2>1. T = S /\ Enumerated(T)
    BY <1>2, <1>7 DEF S
  <2>2. Transitions(p) = Transitions(l)
    BY <1>4, <1>6, <2>1 DEF m
  <2>3. QED
    BY <1>7, <2>1, <2>2 DEF p, T
<1>8. CASE r.type = "transition"
  <2>1. T = S \cup {n} /\ Enumerated(T) /\ Cardinality(T) = m + 1
    BY <1>2, <1>5, <1>8
  <2>2. Transitions(p) = [k \in 1 .. (m + 1) |-> IF k \in 1 .. m THEN l[Nth(S, k)].event ELSE r.event]
    <3>1. ASSUME NEW k \in 1 .. (m + 1)
          PROVE  p[Nth(T, k)].event = IF k \in 1 .. m THEN l[Nth(S, k)].event ELSE r.event
      <4>1. CASE k \in 1 .. m
        BY <1>5, <1>6, <2>1, <4>1
      <4>2. CASE k = m + 1
        BY <1>1, <1>5, <2>1, <4>2
      <4>3. QED
        BY <1>5, <4>1, <4>2
    <3>2. QED
      BY <1>4, <2>1, <3>1
  <2>3. Append(Transitions(l), r.event)
          = [k \in 1 .. (m + 1) |-> IF k \in 1 .. m THEN l[Nth(S, k)].event ELSE r.event]
    <3> DEFINE f == Transitions(l)
               V == {f[k] : k \in 1 .. m}
    <3>1. f = [k \in 1 .. m |-> f[k]]
      BY <1>4
    <3>2. f \in [1 .. m -> V]
      BY <3>1
    <3>3. f \in Seq(V) /\ Len(f) = m
      BY <1>5, <3>2
    <3>4. \A k \in 1 .. m : f[k] = l[Nth(S, k)].event
      BY <1>4
    <3> HIDE DEF f, V
    <3>5. Append(f, r.event) = [k \in 1 .. (m + 1) |-> IF k \in 1 .. m THEN f[k] ELSE r.event]
      BY <1>5, <3>3
    <3>6. QED
      BY <3>4, <3>5 DEF f
  <2>4. QED
    BY <1>8, <2>1, <2>2, <2>3 DEF p, T
<1>9. QED
  BY <1>7, <1>8 DEF p
-----------------------------------------------------------------------------
(* The steps of the harness *)

\* To the white team a step of the harness is a step of its own, or one of the
\* coordinator's two records of it, or a rebuild.
LEMMA WhiteSide ==
  ASSUME [HarnessNext]_harnessVars
  PROVE  \/ UNCHANGED <<whiteVars, registryVars>>
         \/ \E d \in Declarations : declare_scope(d)
         \/ \E c \in Commands : ApplyTransition(c)
         \/ Rebuild /\ C!SystemRegistered /\ UNCHANGED <<ledger, now>>
         \/ Calls \/ Enrollment \/ Tick
<1>1. CASE Intake
  BY <1>1 DEF Intake, Asks, CreateTask, CreateTaskCrash, Rebuilt, C!Reopened
<1>2. CASE Command
  BY <1>2 DEF Command, Asks, TransitionCrash, Rebuilt, C!Reopened
<1>3. CASE Between \/ RestartBoth \/ UNCHANGED harnessVars
  BY <1>3 DEF Between, RestartBoth, Rebuilt, C!Reopened, harnessVars
<1>4. QED
  BY <1>1, <1>2, <1>3 DEF HarnessNext

\* The log gains a creation, a rejection or a transition that was admitted, or
\* nothing.
LEMMA LogSide ==
  ASSUME [HarnessNext]_harnessVars
  PROVE  \/ log' = log
         \/ \E e : /\ log' = Append(log, e)
                   /\ \/ e.trigger = "CREATED"
                      \/ e.outcome = "REJECTED"
                      \/ \E c \in Commands : \E n \in C!NextStates(c) :
                           C!Admitted(c) /\ e = C!SuccessEvent(c, n)
<1>1. ASSUME NEW c \in Intakes,
             \/ C!ReturnExisting(c) \/ C!RefuseIntake(c) \/ C!CreateTaskRaises(c)
             \/ C!CreateTaskFails(c) \/ CreateTask(c) \/ CreateTaskCrash(c)
      PROVE  log' = log \/ log' = Append(log, C!CreatedEvent(c))
  BY <1>1 DEF C!ReturnExisting, C!RefuseIntake, C!CreateTaskRaises, C!CreateTaskFails, C!WriteFails,
              CreateTask, C!Accept, C!Intake, CreateTaskCrash, C!StoreEvent
<1>2. \A c : C!CreatedEvent(c).trigger = "CREATED"
  BY DEF C!CreatedEvent
<1>3. ASSUME NEW c \in Commands,
             \/ C!ReplayCached(c) \/ C!TaskNotFound(c) \/ C!RefuseSecret(c)
             \/ C!RecordRejectionFails(c) \/ C!TransitionFails(c)
      PROVE  log' = log
  BY <1>3 DEF C!ReplayCached, C!TaskNotFound, C!RefuseSecret, C!RecordRejectionFails,
              C!TransitionFails, C!WriteFails
<1>4. ASSUME NEW c \in Commands, C!RecordRejection(c)
      PROVE  \E e : log' = Append(log, e) /\ e.outcome = "REJECTED"
  <2>1. PICK g : log' = Append(log, C!RejectedEvent(c, g))
    BY <1>4 DEF C!RecordRejection, C!AppendEvent, C!StoreEvent
  <2>2. C!RejectedEvent(c, g).outcome = "REJECTED"
    BY DEF C!RejectedEvent
  <2>3. QED
    BY <2>1, <2>2
<1>5. ASSUME NEW c \in Commands, ApplyTransition(c) \/ C!TransitionRaises(c) \/ TransitionCrash(c)
      PROVE  \E n \in C!NextStates(c) : C!Admitted(c) /\ log' = Append(log, C!SuccessEvent(c, n))
  BY <1>5 DEF ApplyTransition, C!TransitionRaises, TransitionCrash, C!Moved, C!Move, C!StoreEvent
<1>6. CASE Between \/ RestartBoth \/ UNCHANGED harnessVars
  BY <1>6 DEF Between, RestartBoth, harnessVars, coordinatorVars
<1>7. CASE Intake
  BY <1>1, <1>2, <1>7 DEF Intake
<1>8. CASE Command
  BY <1>3, <1>4, <1>5, <1>8 DEF Command
<1>9. QED
  BY <1>6, <1>7, <1>8 DEF HarnessNext

\* A sequence is one of whatever set its elements are in.
LEMMA Narrowed ==
  ASSUME NEW W, NEW Z, NEW m \in Seq(W), \A i \in DOMAIN m : m[i] \in Z
  PROVE  m \in Seq(Z)
OBVIOUS

\* The log grows at its end.
LEMMA LongerSequence ==
  ASSUME NEW l, IsASequence(l), NEW e
  PROVE  /\ IsASequence(Append(l, e))
         /\ Len(l) \in Nat /\ DOMAIN l = 1 .. Len(l)
         /\ DOMAIN Append(l, e) \ DOMAIN l = {Len(l) + 1}
         /\ Append(l, e)[Len(l) + 1] = e
         /\ \A i \in DOMAIN l : Append(l, e)[i] = l[i]
<1> DEFINE V == {l[i] : i \in DOMAIN l}
           W == V \cup {e}
           m == Append(l, e)
<1>1. l \in Seq(V)
  BY DEF IsASequence
<1>2. V \subseteq W /\ e \in W
  OBVIOUS
<1> HIDE DEF V, W
<1>3. l \in Seq(W)
  BY <1>1, <1>2
<1>4. /\ Len(l) \in Nat /\ DOMAIN l = 1 .. Len(l)
      /\ m \in Seq(W) /\ DOMAIN m = 1 .. (Len(l) + 1)
      /\ m[Len(l) + 1] = e
      /\ \A i \in DOMAIN l : m[i] = l[i]
  BY <1>2, <1>3
<1>5. DOMAIN m \ DOMAIN l = {Len(l) + 1}
  BY <1>4
<1>6. IsASequence(m)
  <2>1. m \in Seq(W) /\ \A i \in DOMAIN m : m[i] \in {m[j] : j \in DOMAIN m}
    BY <1>4
  <2> HIDE DEF m
  <2>2. QED
    BY <2>1, Narrowed DEF IsASequence
<1>7. QED
  BY <1>4, <1>5, <1>6

\* The coordinator that is built again registers itself, if nobody has.
LEMMA SystemKeepsTypes ==
  ASSUME RegistryType, C!SystemRegistered
  PROVE  RegistryType'
<1>1. SYSTEM_AGENT \in Agents /\ "coordinator" \in Teams
  BY HarnessAssumption DEF C!SystemAssumption, Teams
<1>2. roles' = roles /\ (teamOf' = teamOf \/ teamOf' = [teamOf EXCEPT ![SYSTEM_AGENT] = "coordinator"])
  BY DEF C!SystemRegistered
<1>3. QED
  BY <1>1, <1>2 DEF RegistryType

-----------------------------------------------------------------------------
(* The invariant *)

LEMMA CoordinatorIsForeign == Foreign(HarnessRecords)
BY DEF Foreign, HarnessRecords

\* The calls' tasks and agents.
LEMMA CommandFields ==
  ASSUME NEW c \in Commands
  PROVE  c.task \in Tasks /\ c.actor \in Agents /\ c.trigger \in Trigger
BY HarnessAssumption DEF C!CallsAssumption, C!TransitionCalls, C!Trigger, Trigger, C!OPEN_TRIGGERS,
     OPEN_TRIGGERS, C!RESOLUTION_TRIGGERS, RESOLUTION_TRIGGERS

\* The record of the transition the log gains.
MoveRecord(c) == [type |-> "transition", task |-> c.task, at |-> now, event |-> Len(log) + 1]

LEMMA Recording ==
  ASSUME HarnessInv, NEW c \in Commands
  PROVE  /\ MoveRecord(c) \in HarnessRecords
         /\ ApplyTransition(c) => /\ ledger' = Append(ledger, MoveRecord(c))
                                  /\ UNCHANGED <<memory, registryVars, now>>
<1>1. Len(log) \in Nat /\ now \in Nat /\ c.task \in Tasks
  BY CommandFields, LongerSequence DEF HarnessInv, MemoryInv, TypesWith
<1>2. MoveRecord(c) \in HarnessRecords
  BY <1>1 DEF HarnessRecords, MoveRecord
<1>3. QED
  BY <1>2 DEF ApplyTransition, record_transition, AppendRecord, MoveRecord

\* What a step does to the ledger: nothing, a record of the white team's, or a
\* record of the transition the log has just gained.
LEMMA LedgerSide ==
  ASSUME HarnessInv, [HarnessNext]_harnessVars
  PROVE  /\ MemoryInv(HarnessRecords)'
         /\ \/ ledger' = ledger
            \/ \E r \in RecordType : /\ ledger' = Append(ledger, r)
                                     /\ r.type = "pause" => r.task \in Haltable
            \/ \E c \in Commands : ApplyTransition(c)
<1> DEFINE X == HarnessRecords
<1>1. Foreign(X) /\ MemoryInv(X)
  BY CoordinatorIsForeign DEF HarnessInv
<1>2. CASE UNCHANGED <<whiteVars, registryVars>>
  <2>1. UNCHANGED vars
    BY <1>2 DEF whiteVars, vars
  <2>2. MemoryInv(X)' /\ ledger' = ledger
    BY <1>1, <2>1, MemoryStep DEF vars
  <2>3. QED
    BY <2>2
<1>3. CASE \E d \in Declarations : declare_scope(d)
  <2>1. PICK d \in Declarations : declare_scope(d)
    BY <1>3
  <2>2. MemoryInv(X)'
    BY <1>1, <2>1, DeclareKeeps
  <2> DEFINE r == DeclarationRecord(d.task, d.scope, d.risk)
  <2>3. r \in RecordType /\ r.type # "pause"
    BY <1>1, CallFields, RecordsTyped, Alone DEF MemoryInv, TypesWith, DeclarationRecord
  <2>4. ledger' = Append(ledger, r)
    BY <2>1 DEF declare_scope, AppendRecord
  <2>5. QED
    BY <2>2, <2>3, <2>4
<1>4. CASE \E c \in Commands : ApplyTransition(c)
  <2>1. PICK c \in Commands : ApplyTransition(c)
    BY <1>4
  <2>2. MemoryInv(X)'
    BY <1>1, <2>1, Recording, OthersKeep
  <2>3. QED
    BY <1>4, <2>2
<1>5. CASE Rebuild /\ C!SystemRegistered /\ UNCHANGED <<ledger, now>>
  <2>1. RegistryType'
    BY <1>1, <1>5, SystemKeepsTypes DEF MemoryInv, TypesWith
  <2>2. MemoryInv(X)'
    BY <1>1, <1>5, <2>1, RebuildKeeps
  <2>3. QED
    BY <1>5, <2>2
<1>6. CASE Calls \/ Enrollment \/ Tick
  <2>1. [Next]_vars
    BY <1>6 DEF Next
  <2>2. MemoryInv(X)'
    BY <1>1, <2>1, MemoryStep
  <2>3. QED
    BY <1>1, <2>1, <2>2, OneRecord
<1>7. QED
  BY <1>2, <1>3, <1>4, <1>5, <1>6, WhiteSide

LEMMA HarnessInvStep ==
  ASSUME HarnessInv, [HarnessNext]_harnessVars
  PROVE  HarnessInv'
<1>1. IsASequence(log')
  <2>1. log' = log \/ \E e : log' = Append(log, e)
    BY LogSide
  <2>2. CASE \E e : log' = Append(log, e)
    <3>1. PICK e : log' = Append(log, e)
      BY <2>2
    <3>2. IsASequence(Append(log, e))
      BY LongerSequence DEF HarnessInv
    <3>3. QED
      BY <3>1, <3>2
  <2>3. CASE log' = log
    BY <2>3 DEF HarnessInv, IsASequence
  <2>4. QED
    BY <2>1, <2>2, <2>3
<1>2. ledger \in Seq(RecordsWith(HarnessRecords))
  BY DEF HarnessInv, MemoryInv, TypesWith
<1>3. CASE ledger' = ledger
  BY <1>1, <1>3, LedgerSide DEF HarnessInv, PausesWithin
<1>4. CASE \E r \in RecordsWith(HarnessRecords) :
             ledger' = Append(ledger, r) /\ (r.type = "pause" => r.task \in Haltable)
  <2>1. PICK r \in RecordsWith(HarnessRecords) :
               ledger' = Append(ledger, r) /\ (r.type = "pause" => r.task \in Haltable)
    BY <1>4
  <2>2. Enumerated(OfType(ledger', "transition"))
    BY <1>2, <2>1, TransitionsAfter DEF HarnessInv
  <2>3. PausesWithin'
    <3>1. OfType(ledger', "pause") = IF r.type = "pause" THEN OfType(ledger, "pause") \cup {Len(ledger) + 1}
                                     ELSE OfType(ledger, "pause")
      BY <1>2, <2>1, AppendedKinds
    <3>2. /\ ledger'[Len(ledger) + 1] = r
          /\ \A i \in OfType(ledger, "pause") : ledger'[i] = ledger[i]
      BY <1>2, <2>1, AppendedRecord, KindsWithin
    <3>3. QED
      BY <2>1, <3>1, <3>2 DEF HarnessInv, PausesWithin
  <2>4. QED
    BY <1>1, <2>2, <2>3, LedgerSide DEF HarnessInv
<1>5. CASE \E c \in Commands : ApplyTransition(c)
  <2>1. PICK c \in Commands : ApplyTransition(c)
    BY <1>5
  <2>2. /\ ledger' = Append(ledger, MoveRecord(c))
        /\ MoveRecord(c) \in RecordsWith(HarnessRecords) /\ MoveRecord(c).type # "pause"
    BY <2>1, Recording DEF RecordsWith, MoveRecord
  <2>3. QED
    BY <1>4, <2>2
<1>6. QED
  BY <1>3, <1>4, <1>5, LedgerSide DEF RecordsWith

\* The white team's memory, the ledger and the log stay consistent, whatever
\* calls, restarts and crashes the harness goes through: everything the white
\* team must remember is in the ledger, and the ledger's transitions can be
\* counted off in its order.
THEOREM HarnessInvHolds == HarnessSpec => []HarnessInv
<1>1. HarnessInit => HarnessInv
  <2> SUFFICES ASSUME HarnessInit PROVE HarnessInv
    OBVIOUS
  <2>1. MemoryInv(HarnessRecords)
    BY InitMemory DEF HarnessInit
  <2>2. ledger = <<>> /\ log = <<>>
    BY DEF HarnessInit, Init
  <2>3. \A type : OfType(ledger, type) = {}
    BY <2>2 DEF OfType
  <2>4. Enumerated({})
    BY FS_EmptySet DEF Enumerated
  <2>5. IsASequence(log)
    BY <2>2 DEF IsASequence
  <2>6. QED
    BY <2>1, <2>3, <2>4, <2>5 DEF HarnessInv, PausesWithin
<1>2. HarnessInv /\ [HarnessNext]_harnessVars => HarnessInv'
  BY HarnessInvStep
<1>3. QED
  BY <1>1, <1>2, PTL DEF HarnessSpec

-----------------------------------------------------------------------------
(* Resolutions *)

\* The registry is changed by its owner or by a coordinator that registers
\* itself.
LEMMA RegistrySide ==
  ASSUME [HarnessNext]_harnessVars
  PROVE  UNCHANGED registryVars \/ RegistryStep \/ C!SystemRegistered
<1>1. CASE \E d \in Declarations : declare_scope(d)
  BY <1>1 DEF declare_scope
<1>2. CASE \E c \in Commands : ApplyTransition(c)
  BY <1>2 DEF ApplyTransition, record_transition
<1>3. CASE Calls \/ Enrollment \/ Tick
  BY <1>3 DEF Calls, Enrollment, Tick, expand_scope, raise_risk, record_approval, revoke_approval,
              revoke_approval_Raises, pause, resume, escalate, resume_Raises
<1>4. QED
  BY <1>1, <1>2, <1>3, WhiteSide

\* A role is held only by an agent whose team may hold it, also by the
\* coordinator that registers itself anew.
THEOREM HarnessRolesFit == HarnessSpec => []RolesFitTeams
<1>1. HarnessInit => RolesFitTeams
  BY RegistryAssumption DEF HarnessInit, Init, RegistryInit, RolesFitTeams
<1>2. ASSUME HarnessInv, RolesFitTeams, [HarnessNext]_harnessVars
      PROVE  RolesFitTeams'
  <2>1. RegistryType
    BY <1>2 DEF HarnessInv, MemoryInv, TypesWith
  <2>2. CASE UNCHANGED registryVars
    BY <1>2, <2>2 DEF registryVars, RolesFitTeams
  <2>3. CASE RegistryStep
    BY <1>2, <2>1, <2>3, RolesStep
  <2>4. CASE C!SystemRegistered
    <3>1. CASE teamOf[SYSTEM_AGENT] # None
      BY <1>2, <2>4, <3>1 DEF C!SystemRegistered, C!is_registered, RolesFitTeams
    <3>2. CASE teamOf[SYSTEM_AGENT] = None
      <4>1. SYSTEM_AGENT \in Agents /\ roles[SYSTEM_AGENT] = {}
        BY <1>2, <3>2, HarnessAssumption, StrangersHoldNone DEF C!SystemAssumption
      <4>2. roles' = roles /\ \A a \in Agents \ {SYSTEM_AGENT} : teamOf'[a] = teamOf[a]
        BY <2>1, <2>4 DEF C!SystemRegistered, RegistryType
      <4>3. QED
        BY <1>2, <4>1, <4>2 DEF RolesFitTeams
    <3>3. QED
      BY <3>1, <3>2
  <2>5. QED
    BY <1>2, <2>2, <2>3, <2>4, RegistrySide
<1>3. QED
  BY <1>1, <1>2, HarnessInvHolds, PTL DEF HarnessSpec

\* docs/authority-matrix.md: a hold is resolved by the coordinator or by an agent
\* of a team that may hold a resolver's role, whatever agents left, returned in
\* another team or were granted and refused roles before.
THEOREM OnlyEntitledResolve == HarnessSpec => ResolversAreEntitled
<1>1. ASSUME HarnessInv, RolesFitTeams, [HarnessNext]_harnessVars,
             NEW i \in DOMAIN log' \ DOMAIN log,
             log'[i].outcome = "SUCCESS", log'[i].trigger \in RESOLUTION_TRIGGERS
      PROVE  \/ log'[i].actor = SYSTEM_AGENT
             \/ \E r \in RESOLVER_ROLES : MayHold(teamOf[log'[i].actor], r)
  <2>1. PICK e : /\ log' = Append(log, e)
                 /\ \/ e.trigger = "CREATED" \/ e.outcome = "REJECTED"
                    \/ \E c \in Commands : \E n \in C!NextStates(c) :
                         C!Admitted(c) /\ e = C!SuccessEvent(c, n)
    BY <1>1, LogSide
  <2>2. log'[i] = e
    BY <1>1, <2>1, LongerSequence DEF HarnessInv
  <2>3. PICK c \in Commands : C!Admitted(c) /\ \E n : e = C!SuccessEvent(c, n)
    BY <1>1, <2>1, <2>2 DEF RESOLUTION_TRIGGERS
  <2>4. e.trigger = c.trigger /\ e.actor = c.actor
    BY <2>3 DEF C!SuccessEvent
  <2>5. ~C!Fails(c, "AUTH_INVALID")
    BY <2>3 DEF C!Admitted, C!GuardOrder
  <2>6. c.actor = SYSTEM_AGENT \/ roles[c.actor] \cap RESOLVER_ROLES # {}
    BY <1>1, <2>2, <2>4, <2>5 DEF C!Fails, C!can_resolve, RESOLUTION_TRIGGERS, C!RESOLUTION_TRIGGERS,
                                  RESOLVER_ROLES, C!RESOLVER_ROLES
  <2>7. c.actor \in Agents
    BY CommandFields
  <2>8. QED
    BY <1>1, <2>2, <2>4, <2>6, <2>7 DEF RolesFitTeams
<1>2. HarnessInv /\ RolesFitTeams /\ [HarnessNext]_harnessVars
        => [\A i \in DOMAIN log' \ DOMAIN log :
              (log'[i].outcome = "SUCCESS" /\ log'[i].trigger \in RESOLUTION_TRIGGERS)
                => \/ log'[i].actor = SYSTEM_AGENT
                   \/ \E r \in RESOLVER_ROLES : MayHold(teamOf[log'[i].actor], r)]_harnessVars
  BY <1>1
<1>3. QED
  BY <1>2, HarnessInvHolds, HarnessRolesFit, PTL DEF HarnessSpec, ResolversAreEntitled
-----------------------------------------------------------------------------
(* Warranted moves *)

\* The ledger's transitions are the log's, and each is answered for.
WarrantInv ==
  /\ \A k \in OfType(ledger, "transition") : ledger[k].event \in DOMAIN log
  /\ MovesAreWarranted

\* What answers for a record does so whatever is recorded later.
LEMMA StillAnswers ==
  ASSUME NEW R, ledger \in Seq(R), NEW r \in R, ledger' = Append(ledger, r),
         NEW j \in DOMAIN ledger, NEW k \in DOMAIN ledger, NEW a, Answers(j, k, a)
  PROVE  Answers(j, k, a)'
<1> DEFINE n == Len(ledger) + 1
           t == ledger[k].task
<1>1. /\ n \in Nat /\ DOMAIN ledger \subseteq Nat
      /\ \A i \in DOMAIN ledger : i < n /\ ledger'[i] = ledger[i]
  BY AppendedRecord
<1>2. DeclarationsOf(ledger', t) \ {n} = DeclarationsOf(ledger, t) \ {n}
  BY AppendedKinds
<1>3. Decisions(ledger', "approval_revoked") \ {n} = Decisions(ledger, "approval_revoked") \ {n}
  BY AppendedKinds
<1>4. /\ DeclarationsOf(ledger, t) \subseteq DOMAIN ledger
      /\ Decisions(ledger, "approval_revoked") \subseteq DOMAIN ledger
  BY KindsWithin
<1> HIDE DEF n, t
<1>5. ledger'[j] = ledger[j] /\ ledger'[k] = ledger[k] /\ t = ledger[k].task /\ k < n
  BY <1>1 DEF t
<1>6. DeclaredBefore(t, k)' = DeclaredBefore(t, k)
  <2>1. t' = t
    BY <1>5 DEF t
  <2>2. {i \in DeclarationsOf(ledger', t) : i < k} = {i \in DeclarationsOf(ledger, t) : i < k}
    <3>1. ~(n < k)
      BY <1>1, <1>5
    <3>2. QED
      BY <1>2, <3>1
  <2>3. QED
    BY <2>1, <2>2 DEF DeclaredBefore
<1>7. \A i \in DeclaredBefore(t, k) : ledger'[i] = ledger[i]
  BY <1>1, <1>4 DEF DeclaredBefore
<1>8. ASSUME NEW m \in (j + 1) .. (k - 1), Revokes(m, j)'
      PROVE  FALSE
  <2>1. m # n
    BY <1>1, <1>5
  <2>2. m \in Decisions(ledger, "approval_revoked")
    BY <1>3, <1>8, <2>1 DEF Revokes
  <2>3. Revokes(m, j)
    BY <1>1, <1>4, <1>8, <2>2 DEF Revokes
  <2>4. QED
    BY <1>8, <2>3 DEF Answers
<1>9. QED
  BY <1>5, <1>6, <1>7, <1>8 DEF Answers, t
\* A call the coordinator lets pass has an approval in force for each of its
\* protected actions, over the scope the ledger declared last.
LEMMA MoveIsWarranted ==
  ASSUME HarnessInv, NEW c \in Commands, C!Admitted(c), ApplyTransition(c), NEW a \in ActionsOf(c),
         NEW n, n = Len(ledger) + 1
  PROVE  \E j \in OfType(ledger, "approval") : Answers(j, n, a)'
<1> DEFINE r == MoveRecord(c)
           t == c.task
<1>1. /\ t \in Tasks
      /\ ledger \in Seq(RecordsWith(HarnessRecords)) /\ r \in RecordsWith(HarnessRecords)
      /\ ledger' = Append(ledger, r)
      /\ r.type = "transition" /\ r.task = t /\ r.at = now
  BY CommandFields, Recording DEF HarnessInv, MemoryInv, TypesWith, RecordsWith, MoveRecord
<1>2. /\ n \in Nat /\ DOMAIN ledger \subseteq Nat
      /\ \A i \in DOMAIN ledger : i < n /\ ledger'[i] = ledger[i]
      /\ ledger'[n] = r
  BY <1>1, AppendedRecord
<1>3. /\ DeclarationsOf(ledger', t) = DeclarationsOf(ledger, t)
      /\ Decisions(ledger', "approval_revoked") = Decisions(ledger, "approval_revoked")
      /\ DeclarationsOf(ledger, t) \subseteq DOMAIN ledger
      /\ Decisions(ledger, "approval_revoked") \subseteq DOMAIN ledger
  BY <1>1, AppendedKinds, KindsWithin
<1>4. has_valid_approval(t, a)
  <2>1. ~C!Fails(c, "APPROVAL_MISSING")
    BY DEF C!Admitted, C!GuardOrder
  <2>2. a \in C!GovernedActions(c)
    BY DEF ActionsOf, C!GovernedActions, GOVERNED_ACTIONS, C!GOVERNED_ACTIONS
  <2>3. <<t, a>> \in {p \in Protected : has_valid_approval(p[1], p[2])}
    BY <2>1, <2>2 DEF C!Fails
  <2>4. QED
    BY <2>3
<1> HIDE DEF r, t
<1>5. PICK j \in Counted(t, a, RequestedScope(t)) : TRUE
  <2>1. current_risk(t) \in Risks
    BY <1>1 DEF HarnessInv, MemoryInv, TypesWith, current_risk, ScopeDeclaration, Risks
  <2>2. RISK_AUTHORITY[current_risk(t)] # {}
    BY <2>1 DEF RISK_AUTHORITY, Risks
  <2>3. RISK_AUTHORITY[current_risk(t)] \subseteq {ledger[i].role : i \in Counted(t, a, RequestedScope(t))}
    BY <1>4 DEF has_valid_approval, approval_quorum_met
  <2>4. QED
    BY <2>2, <2>3
<1>6. /\ j \in OfType(ledger, "approval") /\ j \notin RebuiltRevoked(ledger)
      /\ ledger[j].task = t /\ ledger[j].action \in {a, "*"}
      /\ now < ledger[j].expires /\ RequestedScope(t) \subseteq ledger[j].scope
  BY <1>5 DEF Counted, approval_valid, HarnessInv, MemoryInv, TypesWith, RevocationsKept
<1>7. j \in DOMAIN ledger
  BY <1>6 DEF OfType
<1>8. ASSUME NEW m \in (j + 1) .. (n - 1), Revokes(m, j)'
      PROVE  FALSE
  <2>1. m \in Decisions(ledger, "approval_revoked") /\ ledger[m].subject = j
    BY <1>2, <1>3, <1>8 DEF Revokes
  <2>2. QED
    BY <1>6, <2>1 DEF RebuiltRevoked
<1>9. ASSUME NEW i \in DeclaredBefore(t, n)', \A h \in DeclaredBefore(t, n)' : h <= i
      PROVE  ledger'[i].scope \subseteq ledger[j].scope
  <2>1. DeclaredBefore(t, n)' = DeclarationsOf(ledger, t)
    BY <1>2, <1>3 DEF DeclaredBefore, t
  <2>2. i \in DeclarationsOf(ledger, t) /\ ledger'[i] = ledger[i] /\ i \in Nat
    BY <1>2, <1>3, <1>9, <2>1
  <2>3. PICK k : IsLast(ledger, t, k) /\ scopes[t] # None /\ scopes[t].scope = ledger[k].scope
    BY <1>1, <2>2 DEF HarnessInv, MemoryInv, ScopesKept, ScopeMatches
  <2>4. k = i
    <3>1. k \in DeclarationsOf(ledger, t) /\ k \in Nat /\ i <= k /\ k <= i
      BY <1>2, <1>3, <1>9, <2>1, <2>2, <2>3 DEF IsLast
    <3>2. QED
      BY <2>2, <3>1
  <2>5. QED
    BY <1>6, <2>2, <2>3, <2>4 DEF RequestedScope
<1>10. Answers(j, n, a)'
  BY <1>1, <1>2, <1>6, <1>7, <1>8, <1>9 DEF Answers, t
<1>11. QED
  BY <1>6, <1>10

LEMMA WarrantStep ==
  ASSUME HarnessInv, WarrantInv, [HarnessNext]_harnessVars
  PROVE  WarrantInv'
<1> SUFFICES ASSUME NEW k \in OfType(ledger', "transition")
             PROVE  /\ ledger'[k].event \in DOMAIN log'
                    /\ \A a \in ActionsOf(log'[ledger'[k].event].fp) :
                         \E j \in OfType(ledger', "approval") : Answers(j, k, a)'
  BY DEF WarrantInv, MovesAreWarranted
<1> DEFINE P(i) == \A a \in ActionsOf(log'[ledger'[i].event].fp) :
                     \E j \in OfType(ledger', "approval") : Answers(j, i, a)'
<1>1. ledger \in Seq(RecordsWith(HarnessRecords))
  BY DEF HarnessInv, MemoryInv, TypesWith
<1>2. \A i \in DOMAIN log : i \in DOMAIN log' /\ log'[i] = log[i]
  <2>1. log' = log \/ \E e : log' = Append(log, e)
    BY LogSide
  <2>2. CASE \E e : log' = Append(log, e)
    <3>1. PICK e : log' = Append(log, e)
      BY <2>2
    <3>2. DOMAIN log \subseteq DOMAIN Append(log, e) /\ \A i \in DOMAIN log : Append(log, e)[i] = log[i]
      BY LongerSequence DEF HarnessInv
    <3>3. QED
      BY <3>1, <3>2
  <2>3. QED
    BY <2>1, <2>2
<1>3. ASSUME ledger' = ledger
      PROVE  ledger'[k].event \in DOMAIN log' /\ P(k)
  <2>1. \A j, a : Answers(j, k, a) => Answers(j, k, a)'
    BY <1>3 DEF Answers, DeclaredBefore, Revokes
  <2>2. QED
    BY <1>2, <1>3, <2>1 DEF WarrantInv, MovesAreWarranted
<1>4. ASSUME NEW r \in RecordsWith(HarnessRecords), ledger' = Append(ledger, r),
             k \in OfType(ledger, "transition")
      PROVE  ledger'[k].event \in DOMAIN log' /\ P(k)
  <2>1. k \in DOMAIN ledger /\ ledger'[k] = ledger[k]
    BY <1>1, <1>4, AppendedRecord, KindsWithin
  <2>2. ledger[k].event \in DOMAIN log' /\ log'[ledger[k].event] = log[ledger[k].event]
    BY <1>2, <1>4 DEF WarrantInv
  <2>3. OfType(ledger, "approval") \subseteq OfType(ledger', "approval") /\ OfType(ledger, "approval") \subseteq DOMAIN ledger
    BY <1>1, <1>4, AppendedKinds, KindsWithin
  <2>4. \A a, j : j \in DOMAIN ledger /\ Answers(j, k, a) => Answers(j, k, a)'
    BY <1>1, <1>4, <2>1, StillAnswers
  <2>5. QED
    BY <1>4, <2>1, <2>2, <2>3, <2>4 DEF WarrantInv, MovesAreWarranted
<1>5. ASSUME NEW r \in RecordType, ledger' = Append(ledger, r)
      PROVE  ledger'[k].event \in DOMAIN log' /\ P(k)
  <2>1. r.type # "transition" /\ r \in RecordsWith(HarnessRecords)
    BY DEF RecordType, RecordsWith
  <2>2. k \in OfType(ledger, "transition")
    BY <1>1, <1>5, <2>1, AppendedKinds
  <2>3. QED
    BY <1>4, <1>5, <2>1, <2>2
<1>6. ASSUME NEW c \in Commands, ApplyTransition(c)
      PROVE  ledger'[k].event \in DOMAIN log' /\ P(k)
  <2> DEFINE r == MoveRecord(c)
             n == Len(ledger) + 1
             m == Len(log) + 1
  <2>1. r \in RecordsWith(HarnessRecords) /\ ledger' = Append(ledger, r) /\ r.event = m
    BY <1>6, Recording DEF RecordsWith, MoveRecord
  <2>2. CASE k \in OfType(ledger, "transition")
    BY <1>4, <2>1, <2>2
  <2>3. CASE k = n
    <3>1. ledger'[k] = r
      BY <1>1, <2>1, <2>3, AppendedRecord
    <3>2. PICK s : C!Admitted(c) /\ log' = Append(log, C!SuccessEvent(c, s))
      BY <1>6 DEF ApplyTransition, C!Moved, C!Move, C!StoreEvent
    <3> DEFINE e == C!SuccessEvent(c, s)
    <3>3. e.fp = C!Fingerprint(c)
      BY DEF C!SuccessEvent
    <3> HIDE DEF e, r
    <3>4. m \in DOMAIN log' /\ log'[m] = e
      BY <3>2, LongerSequence DEF HarnessInv, e
    <3>5. ActionsOf(log'[ledger'[k].event].fp) = ActionsOf(c)
      <4>1. C!Fingerprint(c).action = c.action /\ C!Fingerprint(c).trigger = c.trigger
        BY DEF C!Fingerprint
      <4>2. QED
        BY <2>1, <3>1, <3>3, <3>4, <4>1 DEF ActionsOf
    <3>6. OfType(ledger, "approval") \subseteq OfType(ledger', "approval")
      BY <1>1, <2>1, AppendedKinds
    <3>7. \A a \in ActionsOf(c) : \E j \in OfType(ledger, "approval") : Answers(j, k, a)'
      BY <1>6, <2>3, <3>2, MoveIsWarranted
    <3>8. QED
      BY <2>1, <2>3, <3>1, <3>4, <3>5, <3>6, <3>7
  <2>4. OfType(ledger', "transition") \subseteq OfType(ledger, "transition") \cup {n}
    BY <1>1, <2>1, AppendedKinds
  <2>5. QED
    BY <2>2, <2>3, <2>4
<1>7. QED
  BY <1>3, <1>5, <1>6, LedgerSide

\* G1: every protected transition the ledger records is preceded, in the ledger,
\* by an approval of its action that was unexpired, unrevoked and covered the
\* scope declared last, whatever was restarted, refused or lost in between.
THEOREM MovesAnswerToApprovals == HarnessSpec => []MovesAreWarranted
<1>1. HarnessInit => WarrantInv
  BY DEF HarnessInit, Init, WarrantInv, MovesAreWarranted, OfType
<1>2. HarnessInv /\ WarrantInv /\ [HarnessNext]_harnessVars => WarrantInv'
  BY WarrantStep
<1>3. WarrantInv => MovesAreWarranted
  BY DEF WarrantInv
<1>4. QED
  BY <1>1, <1>2, <1>3, HarnessInvHolds, PTL DEF HarnessSpec
-----------------------------------------------------------------------------
(* What the coordinator is told *)

\* The tasks the ledger declares, and the actions approved.
Declared == {t \in Tasks : DeclarationsOf(ledger, t) # {}}

Approved == {p \in Protected : has_valid_approval(p[1], p[2])}

\* The answer on an approval stands as long as memory, clock and roles do.
LEMMA SameAnswer ==
  ASSUME NEW t, NEW a, UNCHANGED <<approvals, revoked, now, roles>>, scopes'[t] = scopes[t],
         \A i \in approvals : ledger'[i] = ledger[i]
  PROVE  has_valid_approval(t, a)' <=> has_valid_approval(t, a)
<1>1. RequestedScope(t)' = RequestedScope(t) /\ current_risk(t)' = current_risk(t)
  BY DEF RequestedScope, current_risk
<1>2. Counted(t, a, RequestedScope(t))' = Counted(t, a, RequestedScope(t))
  BY <1>1 DEF Counted, approval_valid, has_role
<1>3. /\ {ledger'[i].role : i \in Counted(t, a, RequestedScope(t))}
           = {ledger[i].role : i \in Counted(t, a, RequestedScope(t))}
      /\ {ledger'[i].approver : i \in Counted(t, a, RequestedScope(t))}
           = {ledger[i].approver : i \in Counted(t, a, RequestedScope(t))}
  BY DEF Counted
<1>4. QED
  BY <1>1, <1>2, <1>3 DEF has_valid_approval, approval_quorum_met

\* A longer ledger, whatever the record.
LEMMA LongerLedger ==
  ASSUME HarnessInv, NEW r, ledger' = Append(ledger, r)
  PROVE  /\ \A i \in approvals : ledger'[i] = ledger[i]
         /\ Declared' = IF r.type = "scope_declaration" THEN Declared \cup ({r.task} \cap Tasks)
                        ELSE Declared
         /\ Transitions(ledger') = IF r.type = "transition" THEN Append(Transitions(ledger), r.event)
                                   ELSE Transitions(ledger)
<1> DEFINE R == RecordsWith(HarnessRecords) \cup {r}
<1>1. /\ ledger \in Seq(RecordsWith(HarnessRecords)) /\ approvals \subseteq DOMAIN ledger
      /\ Enumerated(OfType(ledger, "transition"))
  BY DEF HarnessInv, MemoryInv, TypesWith, OfType
<1>2. ledger \in Seq(R) /\ r \in R
  BY <1>1, Narrowed
<1> HIDE DEF R
<1>3. \A i \in DOMAIN ledger : ledger'[i] = ledger[i]
  BY <1>2, AppendedRecord
<1>4. \A t : DeclarationsOf(ledger', t) = IF r.type = "scope_declaration" /\ r.task = t
                                          THEN DeclarationsOf(ledger, t) \cup {Len(ledger) + 1}
                                          ELSE DeclarationsOf(ledger, t)
  BY <1>2, AppendedKinds
<1>5. Declared' = IF r.type = "scope_declaration" THEN Declared \cup ({r.task} \cap Tasks) ELSE Declared
  BY <1>4 DEF Declared
<1>6. Transitions(ledger') = IF r.type = "transition" THEN Append(Transitions(ledger), r.event)
                             ELSE Transitions(ledger)
  BY <1>1, <1>2, TransitionsAfter
<1>7. QED
  BY <1>1, <1>3, <1>5, <1>6

\* What the ledger does not tell of does not change with it.
LEMMA LedgerStands ==
  ASSUME HarnessInv, \/ ledger' = ledger
                     \/ \E r : /\ ledger' = Append(ledger, r)
                               /\ r.type \notin {"scope_declaration", "transition"}
  PROVE  /\ \A i \in approvals : ledger'[i] = ledger[i]
         /\ Declared' = Declared
         /\ Transitions(ledger') = Transitions(ledger)
<1>1. CASE ledger' = ledger
  BY <1>1 DEF Declared
<1>2. CASE \E r : /\ ledger' = Append(ledger, r)
                  /\ r.type \notin {"scope_declaration", "transition"}
  <2>1. PICK r : ledger' = Append(ledger, r) /\ r.type \notin {"scope_declaration", "transition"}
    BY <1>2
  <2>2. QED
    BY <2>1, LongerLedger
<1>3. QED
  BY <1>1, <1>2

\* The approved actions are the same when the memory they are counted from is.
LEMMA SameApproved ==
  ASSUME UNCHANGED <<approvals, revoked, now, roles, scopes>>,
         \A i \in approvals : ledger'[i] = ledger[i]
  PROVE  Approved' = Approved
<1>1. \A t, a : has_valid_approval(t, a)' <=> has_valid_approval(t, a)
  BY SameAnswer
<1>2. QED
  BY <1>1 DEF Approved

-----------------------------------------------------------------------------
(* The coordinator's governance is the white team *)

\* Whatever else it does, a call that leaves ledger, pauses and registry to the
\* coordinator as they are is a new count of the approvals.
LEMMA Recount ==
  ASSUME Declared' = Declared, Transitions(ledger') = Transitions(ledger), pauses' = pauses,
         UNCHANGED <<coordinatorVars, registryVars>>
  PROVE  C!Next
<1>1. Approved' \in SUBSET Protected
  BY DEF Approved
<1>2. C!CountApprovals
  BY <1>1 DEF C!CountApprovals, Approved
<1>3. C!Governance
  BY <1>2 DEF C!Governance, C!coordinatorVars, C!ledgerVars, C!registryVars, registryVars,
              coordinatorVars, Declared
<1>4. QED
  BY <1>3 DEF C!Next

\* The white team's own calls.
LEMMA CallsRefine ==
  ASSUME HarnessInv, Calls, UNCHANGED coordinatorVars
  PROVE  C!Next
<1>1. CASE \E e \in Expansions, i \in approvals : expand_scope(e[1], e[2], i)
  <2>1. PICK e \in Expansions, i \in approvals : expand_scope(e[1], e[2], i)
    BY <1>1
  <2> DEFINE r == DeclarationRecord(e[1], scopes[e[1]].scope \cup e[2], scopes[e[1]].risk)
  <2>2. /\ scopes[e[1]] # None /\ ledger' = Append(ledger, r)
        /\ pauses' = pauses /\ UNCHANGED registryVars
    BY <2>1 DEF expand_scope, AppendRecord
  <2>3. r.type = "scope_declaration" /\ r.task = e[1]
    BY DEF DeclarationRecord
  <2> HIDE DEF r
  <2>4. e[1] \in Declared
    BY <2>2, CallFields DEF Declared, HarnessInv, MemoryInv, ScopesKept, ScopeMatches, IsLast
  <2>5. /\ Declared' = Declared \cup ({r.task} \cap Tasks)
        /\ Transitions(ledger') = Transitions(ledger)
    BY <2>2, <2>3, LongerLedger
  <2>6. Declared' = Declared
    BY <2>3, <2>4, <2>5
  <2>7. QED
    BY <2>2, <2>5, <2>6, Recount
<1>2. CASE \E t \in Tasks, risk \in RiskTargets : raise_risk(t, risk)
  <2>1. PICK t \in Tasks, risk \in RiskTargets : raise_risk(t, risk)
    BY <1>2
  <2> DEFINE r == DecisionRecord(t, "risk_reclassification", risk)
  <2>2. ledger' = Append(ledger, r) /\ pauses' = pauses /\ UNCHANGED registryVars
    BY <2>1 DEF raise_risk, AppendRecord
  <2>3. r.type \notin {"scope_declaration", "transition"}
    BY DEF DecisionRecord
  <2>4. QED
    BY <2>2, <2>3, LedgerStands, Recount
<1>3. CASE \E c \in Approvals : record_approval(c)
  <2>1. PICK c \in Approvals : record_approval(c)
    BY <1>3
  <2>2. ledger' = Append(ledger, ApprovalRecord(c)) /\ pauses' = pauses /\ UNCHANGED registryVars
    BY <2>1 DEF record_approval, AppendRecord
  <2>3. ApprovalRecord(c).type \notin {"scope_declaration", "transition"}
    BY DEF ApprovalRecord
  <2>4. QED
    BY <2>2, <2>3, LedgerStands, Recount
<1>4. CASE \E i \in approvals : revoke_approval(i) \/ (Rejectable /\ revoke_approval_Raises(i))
  <2>1. PICK i \in approvals : revoke_approval(i) \/ revoke_approval_Raises(i)
    BY <1>4
  <2> DEFINE r == DecisionRecord(ledger[i].task, "approval_revoked", i)
  <2>2. /\ ledger' = Append(ledger, r) \/ ledger' = ledger
        /\ pauses' = pauses /\ UNCHANGED registryVars
    BY <2>1 DEF revoke_approval, revoke_approval_Raises, AppendRecord
  <2>3. r.type \notin {"scope_declaration", "transition"}
    BY DEF DecisionRecord
  <2>4. QED
    BY <2>2, <2>3, LedgerStands, Recount
<1>5. CASE \E t \in Haltable : pause(t) \/ resume(t) \/ resume_Raises(t)
  <2>1. PICK t \in Haltable : pause(t) \/ resume(t) \/ resume_Raises(t)
    BY <1>5
  <2>2. /\ \/ ledger' = ledger \/ ledger' = Append(ledger, PauseRecord(t))
           \/ ledger' = Append(ledger, DecisionRecord(t, "pause_lifted", t))
        /\ UNCHANGED <<approvals, revoked, scopes, now, registryVars, roles>>
        /\ \/ pauses' = pauses \cup {t}
           \/ t \in pauses /\ pauses' = pauses \ {t}
    BY <2>1 DEF pause, resume, resume_Raises, AppendRecord, registryVars
  <2>3. /\ PauseRecord(t).type \notin {"scope_declaration", "transition"}
        /\ DecisionRecord(t, "pause_lifted", t).type \notin {"scope_declaration", "transition"}
    BY DEF PauseRecord, DecisionRecord
  <2>4. /\ \A i \in approvals : ledger'[i] = ledger[i]
        /\ Declared' = Declared /\ Transitions(ledger') = Transitions(ledger)
    BY <2>2, <2>3, LedgerStands
  <2>5. Approved' = Approved
    BY <2>2, <2>4, SameApproved
  <2>6. C!Pause(t) \/ C!Resume(t)
    BY <2>2, <2>5 DEF C!Pause, C!Resume, Approved
  <2>7. C!Governance
    BY <2>2, <2>4, <2>6 DEF C!Governance, C!coordinatorVars, C!ledgerVars, C!registryVars,
                            registryVars, coordinatorVars, Declared
  <2>8. QED
    BY <2>7 DEF C!Next
<1>6. CASE \E t \in Haltable : escalate(t)
  <2>1. PICK t \in Haltable : escalate(t)
    BY <1>6
  <2>2. /\ ledger' = Append(ledger, DecisionRecord(t, "escalation", t))
        /\ pauses' = pauses /\ UNCHANGED registryVars
    BY <2>1 DEF escalate, AppendRecord, memory
  <2>3. DecisionRecord(t, "escalation", t).type \notin {"scope_declaration", "transition"}
    BY DEF DecisionRecord
  <2>4. QED
    BY <2>2, <2>3, LedgerStands, Recount
<1>7. QED
  BY <1>1, <1>2, <1>3, <1>4, <1>5, <1>6 DEF Calls

\* The registry's rules are one text.
LEMMA SameRegistry ==
  RegistryStep => C!RegistryStep
<1>1. \A t, r : C!MayHold(t, r) <=> MayHold(t, r)
  <2>1. C!APPROVER_ROLE_TEAMS = APPROVER_ROLE_TEAMS
    BY DEF C!APPROVER_ROLE_TEAMS, APPROVER_ROLE_TEAMS, C!Roles, Roles
  <2>2. QED
    BY <2>1 DEF C!MayHold, MayHold
<1>2. \A a, x : /\ register(a, x) => C!register(a, x)
                /\ unregister(a) => C!unregister(a)
                /\ grant_role(a, x) => C!grant_role(a, x)
                /\ revoke_role(a, x) => C!revoke_role(a, x)
  BY <1>1 DEF register, C!register, unregister, C!unregister, grant_role, C!grant_role, revoke_role,
              C!revoke_role, is_registered, C!is_registered, has_role, C!has_role
<1>3. QED
  BY <1>2 DEF RegistryStep, C!RegistryStep

\* The white team's calls, the registry's and the clock.
LEMMA BetweenRefines ==
  ASSUME HarnessInv, Between
  PROVE  C!Next
<1>1. CASE Calls
  BY <1>1, CallsRefine DEF Between
<1>2. CASE Enrollment
  <2>1. /\ RegistryStep /\ ledger' = ledger /\ pauses' = pauses
        /\ UNCHANGED coordinatorVars
    BY <1>2 DEF Enrollment, memory, Between
  <2>2. C!RegistryStep /\ Approved' \in SUBSET Protected
    BY <2>1, SameRegistry DEF Approved
  <2>3. C!Enrollment
    BY <2>1, <2>2 DEF C!Enrollment, C!coordinatorVars, C!ledgerVars, coordinatorVars, Approved
  <2>4. QED
    BY <2>3 DEF C!Next
<1>3. CASE Tick
  <2>1. /\ ledger' = ledger /\ pauses' = pauses /\ UNCHANGED <<coordinatorVars, registryVars>>
    BY <1>3 DEF Tick, memory, Between
  <2>2. QED
    BY <2>1, LedgerStands, Recount
<1>4. QED
  BY <1>1, <1>2, <1>3 DEF Between

-----------------------------------------------------------------------------
(* The coordinator's calls *)

\* A declaration reassesses the approvals of its own task alone.
LEMMA CreateRefines ==
  ASSUME HarnessInv, NEW c \in Intakes, CreateTask(c)
  PROVE  C!CreateTask(c)
<1>1. PICK d \in Declarations : d.task = c.task /\ declare_scope(d)
  BY DEF CreateTask
<1> DEFINE r == DeclarationRecord(d.task, d.scope, d.risk)
<1>2. /\ ledger' = Append(ledger, r)
      /\ scopes' = [scopes EXCEPT ![c.task] = [scope |-> d.scope, risk |-> d.risk, version |-> 1]]
      /\ UNCHANGED <<approvals, revoked, pauses, now, registryVars, roles>>
  BY <1>1 DEF declare_scope, AppendRecord, registryVars
<1>3. r.type = "scope_declaration" /\ r.task = c.task /\ c.task \in Tasks
  BY <1>1, CallFields DEF DeclarationRecord
<1> HIDE DEF r
<1>4. /\ \A i \in approvals : ledger'[i] = ledger[i]
      /\ Declared' = Declared \cup {c.task}
      /\ Transitions(ledger') = Transitions(ledger)
  BY <1>2, <1>3, LongerLedger
<1>5. \A p \in Protected : p[1] # c.task =>
        (has_valid_approval(p[1], p[2])' <=> has_valid_approval(p[1], p[2]))
  <2> SUFFICES ASSUME NEW p \in Protected, p[1] # c.task
               PROVE  has_valid_approval(p[1], p[2])' <=> has_valid_approval(p[1], p[2])
    OBVIOUS
  <2>1. p[1] \in Tasks
    BY DEF Protected
  <2>2. scopes'[p[1]] = scopes[p[1]]
    BY <1>2, <2>1 DEF HarnessInv, MemoryInv, TypesWith
  <2>3. QED
    BY <1>2, <1>4, <2>2, SameAnswer
<1>6. /\ Approved' \in SUBSET Protected
      /\ {p \in Approved' : p[1] # c.task} = {p \in Approved : p[1] # c.task}
  BY <1>5 DEF Approved
<1>7. C!Reassessed(c.task)
  BY <1>6 DEF C!Reassessed, Approved
<1>8. QED
  BY <1>2, <1>4, <1>7 DEF CreateTask, C!CreateTask, C!registryVars, registryVars, Declared

\* A transition is the only record it leaves.
LEMMA ApplyRefines ==
  ASSUME HarnessInv, NEW c \in Commands, ApplyTransition(c)
  PROVE  C!ApplyTransition(c)
<1> DEFINE r == MoveRecord(c)
<1>1. ledger' = Append(ledger, r) /\ UNCHANGED <<memory, registryVars, now>>
  BY Recording
<1>2. r.type = "transition" /\ r.event = Len(log) + 1
  BY DEF MoveRecord
<1> HIDE DEF r
<1>3. /\ \A i \in approvals : ledger'[i] = ledger[i]
      /\ Declared' = Declared
      /\ Transitions(ledger') = Append(Transitions(ledger), Len(log) + 1)
  BY <1>1, <1>2, LongerLedger
<1>4. Approved' = Approved
  BY <1>1, <1>3, SameApproved DEF memory, registryVars
<1>5. QED
  BY <1>1, <1>3, <1>4 DEF ApplyTransition, C!ApplyTransition, C!governanceVars, C!registryVars,
                          registryVars, memory, Declared, Approved

\* A rebuild pauses what was paused, and counts the approvals anew.
LEMMA RebuildRefines ==
  ASSUME HarnessInv, Rebuilt
  PROVE  C!Reopened /\ C!GovernanceRebuilt /\ UNCHANGED C!ledgerVars
<1>1. pauses' = RebuiltPauses(ledger) /\ ledger' = ledger /\ C!Reopened
  BY MemoryRebuilt, CoordinatorIsForeign DEF HarnessInv, Rebuilt, Rebuild
<1>2. pauses \subseteq RebuiltPauses(ledger)
  BY DEF HarnessInv, MemoryInv, PausesKept
<1>3. RebuiltPauses(ledger) \in SUBSET Haltable
  BY DEF HarnessInv, PausesWithin, RebuiltPauses
<1>4. pauses' = pauses \cup RebuiltPauses(ledger)
  BY <1>1, <1>2
<1>5. Approved' \in SUBSET Protected
  BY DEF Approved
<1>6. C!GovernanceRebuilt
  BY <1>3, <1>4, <1>5 DEF C!GovernanceRebuilt, Approved
<1>7. QED
  BY <1>1, <1>6 DEF C!ledgerVars

LEMMA HarnessStepRefines ==
  ASSUME HarnessInv, [HarnessNext]_harnessVars
  PROVE  C!Next
<1>1. ASSUME NEW c \in Intakes,
             \/ C!ReturnExisting(c) \/ C!RefuseIntake(c)
             \/ C!CreateTaskRaises(c) \/ C!CreateTaskFails(c)
      PROVE  C!Next
  BY <1>1 DEF C!Next
<1>2. ASSUME NEW c \in Intakes, CreateTask(c)
      PROVE  C!Next
  BY <1>2, CreateRefines DEF C!Next
<1>3. ASSUME NEW c \in Intakes, CreateTaskCrash(c)
      PROVE  C!Next
  <2>1. C!CreateTaskCrash(c)
    BY <1>3, RebuildRefines DEF CreateTaskCrash, C!CreateTaskCrash, C!CrashAfterEvent
  <2>2. QED
    BY <2>1 DEF C!Next
<1>4. ASSUME NEW c \in Commands,
             \/ C!ReplayCached(c) \/ C!TaskNotFound(c) \/ C!RefuseSecret(c)
             \/ C!RecordRejection(c) \/ C!RecordRejectionFails(c)
             \/ C!TransitionFails(c) \/ C!TransitionRaises(c)
      PROVE  C!Next
  BY <1>4 DEF C!Next
<1>5. ASSUME NEW c \in Commands, ApplyTransition(c)
      PROVE  C!Next
  BY <1>5, ApplyRefines DEF C!Next
<1>6. ASSUME NEW c \in Commands, TransitionCrash(c)
      PROVE  C!Next
  <2>1. C!Cardinality(C!Lost) = Cardinality(C!Lost)
    BY DEF C!Cardinality, Cardinality
  <2>2. C!TransitionCrash(c)
    BY <1>6, <2>1, RebuildRefines DEF TransitionCrash, C!TransitionCrash, C!CrashAfterEvent
  <2>3. QED
    BY <2>2 DEF C!Next
<1>7. CASE RestartBoth
  <2>1. C!Restart
    BY <1>7, RebuildRefines DEF RestartBoth, C!Restart
  <2>2. QED
    BY <2>1 DEF C!Next
<1>8. CASE Between
  BY <1>8, BetweenRefines
<1>9. CASE UNCHANGED harnessVars
  BY <1>9, LedgerStands, Recount DEF harnessVars, whiteVars, memory, coordinatorVars, registryVars
<1>10. QED
  BY <1>1, <1>2, <1>3, <1>4, <1>5, <1>6, <1>7, <1>8, <1>9 DEF HarnessNext, Intake, Command

\* The harness implements the coordinator's specification: the white team, over
\* one ledger, registry and clock and rebuilt with the coordinator, gives no
\* answers but those Coordinator allows for, so that every theorem about
\* Coordinator is one about the harness.
THEOREM HarnessImplementsCoordinator == HarnessSpec => CoordinatorSpec
<1>1. HarnessInit => C!Init
  <2> SUFFICES ASSUME HarnessInit PROVE C!Init
    OBVIOUS
  <2>1. /\ ledger = <<>> /\ approvals = {} /\ pauses = {}
        /\ teamOf = TeamAtStart /\ roles = RolesAtStart
        /\ tasks = [t \in Tasks |-> None] /\ log = <<>> /\ unwritten = <<>> /\ reply = None
        /\ scopes = [t \in Tasks |-> None]
    BY DEF HarnessInit, Init, RegistryInit
  <2>2. \A type : OfType(ledger, type) = {}
    BY <2>1 DEF OfType
  <2>3. Declared = {}
    BY <2>2 DEF Declared, DeclarationsOf
  <2>4. Transitions(ledger) = <<>>
    <3>1. Cardinality(OfType(ledger, "transition")) = 0
      BY <2>2, FS_EmptySet
    <3>2. QED
      BY <3>1 DEF Transitions
  <2>5. Approved = {}
    <3> SUFFICES ASSUME NEW p \in Protected, has_valid_approval(p[1], p[2]) PROVE FALSE
      BY DEF Approved
    <3>1. p[1] \in Tasks
      BY DEF Protected
    <3>2. RISK_AUTHORITY[current_risk(p[1])] # {}
      BY <2>1, <3>1 DEF current_risk, RISK_AUTHORITY
    <3>3. Counted(p[1], p[2], RequestedScope(p[1])) = {}
      BY <2>1 DEF Counted
    <3>4. QED
      BY <3>2, <3>3 DEF has_valid_approval, approval_quorum_met
  <2>6. QED
    BY <2>1, <2>3, <2>4, <2>5 DEF C!Init, C!RegistryInit, Declared, Approved
<1>2. HarnessInv /\ [HarnessNext]_harnessVars => [C!Next]_(C!vars)
  BY HarnessStepRefines
<1>3. QED
  BY <1>1, <1>2, HarnessInvHolds, PTL DEF HarnessSpec, CoordinatorSpec, C!Spec

-----------------------------------------------------------------------------
(* What is proved of Coordinator holds of the harness: the theorems of      *)
(* Contract_proofs under the refinement mapping of Harness, by              *)
(* HarnessImplementsCoordinator.                                            *)

Proved == INSTANCE Contract_proofs
            WITH declared      <- {t \in Tasks : DeclarationsOf(ledger, t) # {}},
                 audit         <- Transitions(ledger),
                 paused        <- pauses,
                 approved      <- {p \in Protected : has_valid_approval(p[1], p[2])},
                 evidence      <- {},
                 Offered       <- {},
                 Pausable      <- Haltable,
                 Grantable     <- Protected,
                 quarantined   <- {},
                 Quarantinable <- {}

\* Both are instances of one module, with one meaning.
LEMMA SameSpec == C!Spec => Proved!Spec
<1>1. C!Init => Proved!Init
  BY DEF C!Init, Proved!Init, C!RegistryInit, Proved!RegistryInit
<1>2. C!vars = Proved!vars /\ C!vars' = Proved!vars'
  BY DEF C!registryVars, Proved!registryVars, C!coordinatorVars, Proved!coordinatorVars,
       C!ledgerVars, Proved!ledgerVars, C!governanceVars, Proved!governanceVars, C!vars,
       Proved!vars
<1>3. C!Next <=> Proved!Next
  BY DEF C!Cardinality, Proved!Cardinality,
       C!Teams, Proved!Teams, C!PATH_TRANSITIONS, Proved!PATH_TRANSITIONS, C!ABSORBING,
       Proved!ABSORBING, C!RESUME_HOLDING, Proved!RESUME_HOLDING, C!PathStates,
       Proved!PathStates, C!TaskState, Proved!TaskState, C!OPEN_TRIGGERS,
       Proved!OPEN_TRIGGERS, C!RESOLUTION_TRIGGERS, Proved!RESOLUTION_TRIGGERS,
       C!EVIDENCE_GATED_TRIGGERS, Proved!EVIDENCE_GATED_TRIGGERS, C!GOVERNED_ACTIONS,
       Proved!GOVERNED_ACTIONS, C!can_block, Proved!can_block, C!can_escalate,
       Proved!can_escalate, C!resolve_next_state, Proved!resolve_next_state, C!STATE_OWNERS,
       Proved!STATE_OWNERS, C!Roles, Proved!Roles, C!RESOLVER_ROLES, Proved!RESOLVER_ROLES,
       C!APPROVER_ROLE_TEAMS, Proved!APPROVER_ROLE_TEAMS, C!MayHold, Proved!MayHold,
       C!registryVars, Proved!registryVars, C!is_registered, Proved!is_registered,
       C!has_role, Proved!has_role, C!register, Proved!register, C!unregister,
       Proved!unregister, C!grant_role, Proved!grant_role, C!revoke_role,
       Proved!revoke_role, C!RegistryStep, Proved!RegistryStep, C!coordinatorVars,
       Proved!coordinatorVars, C!ledgerVars, Proved!ledgerVars, C!governanceVars,
       Proved!governanceVars, C!Larger, Proved!Larger, C!resumeAfter, Proved!resumeAfter,
       C!Applied, Proved!Applied, C!NewTask, Proved!NewTask, C!ReplayStep, Proved!ReplayStep,
       C!Replay, Proved!Replay,
       C!IntakeFingerprint, Proved!IntakeFingerprint, C!Fingerprint, Proved!Fingerprint,
       C!RequestId, Proved!RequestId, C!Cached, Proved!Cached, C!Conflicts,
       Proved!Conflicts, C!Reply, Proved!Reply, C!StoreEvent, Proved!StoreEvent,
       C!AppendEvent, Proved!AppendEvent, C!ReturnExisting, Proved!ReturnExisting,
       C!IntakeRefusal, Proved!IntakeRefusal, C!RefuseIntake, Proved!RefuseIntake,
       C!CreatedEvent, Proved!CreatedEvent, C!Intake, Proved!Intake, C!Reassessed,
       Proved!Reassessed, C!Accept, Proved!Accept, C!CreateTask, Proved!CreateTask,
       C!CreateTaskRaises, Proved!CreateTaskRaises, C!State, Proved!State,
       C!GovernedActions, Proved!GovernedActions, C!NextStates, Proved!NextStates,
       C!hasEvidence, Proved!hasEvidence, C!hasTestResult, Proved!hasTestResult,
       C!verification_passing, Proved!verification_passing, C!Halted, Proved!Halted,
       C!can_resolve, Proved!can_resolve, C!GuardOrder, Proved!GuardOrder, C!Fails,
       Proved!Fails, C!CodeOf, Proved!CodeOf, C!Fingerprinted, Proved!Fingerprinted,
       C!CaughtBy, Proved!CaughtBy, C!ReplayCached, Proved!ReplayCached, C!TaskNotFound,
       Proved!TaskNotFound, C!Arrives, Proved!Arrives, C!RefuseSecret, Proved!RefuseSecret,
       C!RejectedEvent, Proved!RejectedEvent, C!Rejections, Proved!Rejections,
       C!RecordRejection, Proved!RecordRejection, C!SuccessEvent, Proved!SuccessEvent,
       C!Admitted, Proved!Admitted, C!Move, Proved!Move, C!ApplyTransition,
       Proved!ApplyTransition, C!GovernanceRebuilt, Proved!GovernanceRebuilt,
       C!SystemRegistered, Proved!SystemRegistered, C!Reopened, Proved!Reopened, C!Restart,
       Proved!Restart, C!CrashAfterEvent, Proved!CrashAfterEvent, C!CreateTaskCrash,
       Proved!CreateTaskCrash, C!Lost, Proved!Lost, C!TransitionCrash,
       Proved!TransitionCrash, C!Pause, Proved!Pause, C!Resume, Proved!Resume,
       C!RecordEvidence, Proved!RecordEvidence, C!CountApprovals, Proved!CountApprovals,
       C!Governance, Proved!Governance, C!Enrollment, Proved!Enrollment, C!Quarantine,
       Proved!Quarantine, C!Unquarantine, Proved!Unquarantine, C!Watchdog, Proved!Watchdog,
       C!Remembered, Proved!Remembered, C!Unanswered, Proved!Unanswered, C!Room, Proved!Room,
       C!MayFail, Proved!MayFail, C!WriteFails, Proved!WriteFails,
       C!Undeclared, Proved!Undeclared, C!CreateTaskFails, Proved!CreateTaskFails,
       C!ReplaysOutcome, Proved!ReplaysOutcome, C!Rejects, Proved!Rejects,
       C!CountsRejection, Proved!CountsRejection,
       C!RecordRejectionFails, Proved!RecordRejectionFails, C!Moved, Proved!Moved,
       C!TransitionRaises, Proved!TransitionRaises, C!TransitionFails, Proved!TransitionFails,
       C!Next, Proved!Next
<1>4. [C!Next]_C!vars => [Proved!Next]_Proved!vars
  BY <1>2, <1>3
<1>5. QED
  BY <1>1, <1>4, PTL DEF C!Spec, Proved!Spec

\* What Coordinator takes for granted, the harness grants.
LEMMA HarnessGrants ==
  /\ Proved!RegistryAssumption /\ Proved!CallsAssumption /\ Proved!GovernanceAssumption
  /\ Proved!KeysAssumption /\ Proved!NoneAssumption /\ Proved!SystemAssumption
  /\ Proved!BoundAssumption /\ Proved!FingerprintAssumption
<1>1. Proved!RegistryAssumption
  BY RegistryAssumption
     DEF RegistryAssumption, Teams, Roles, MayHold, APPROVER_ROLE_TEAMS,
         Proved!RegistryAssumption, Proved!Teams, Proved!Roles, Proved!MayHold,
         Proved!APPROVER_ROLE_TEAMS
<1>2. Proved!CallsAssumption
  BY HarnessAssumption
     DEF C!CallsAssumption, Proved!CallsAssumption, C!IntakeCalls, Proved!IntakeCalls,
         C!TransitionCalls, Proved!TransitionCalls, C!Trigger, Proved!Trigger,
         C!OPEN_TRIGGERS, Proved!OPEN_TRIGGERS, C!RESOLUTION_TRIGGERS,
         Proved!RESOLUTION_TRIGGERS
<1>3. Proved!GovernanceAssumption
  BY HarnessAssumption
     DEF C!GovernanceAssumption, Proved!GovernanceAssumption, C!EvidenceTypes,
         Proved!EvidenceTypes
<1>4. Proved!NoneAssumption
  BY HarnessAssumption
     DEF C!NoneAssumption, Proved!NoneAssumption, C!TaskType, Proved!TaskType, C!TaskState,
         Proved!TaskState, C!PathStates, Proved!PathStates, C!ABSORBING, Proved!ABSORBING,
         C!RESUME_HOLDING, Proved!RESUME_HOLDING, C!RejectionCode, Proved!RejectionCode
<1>5. Proved!FingerprintAssumption
  BY HarnessAssumption
     DEF C!FingerprintAssumption, Proved!FingerprintAssumption, C!Fingerprints,
         Proved!Fingerprints, C!Fingerprint, Proved!Fingerprint, C!IntakeFingerprint,
         Proved!IntakeFingerprint
<1>6. Proved!KeysAssumption /\ Proved!SystemAssumption /\ Proved!BoundAssumption
  BY HarnessAssumption
     DEF C!KeysAssumption, Proved!KeysAssumption, C!SystemAssumption,
         Proved!SystemAssumption, C!BoundAssumption, Proved!BoundAssumption
<1>7. QED
  BY <1>1, <1>2, <1>3, <1>4, <1>5, <1>6

\* The harness keeps the task contract, with the pauses of the real white team and
\* over any restarts and crashes of both: no task moves along its path while paused
\* or held, and none but in the order of the path.
THEOREM HarnessKeepsContract == HarnessSpec => Proved!KeepsContract
<1>1. Proved!Spec => Proved!KeepsContract
  BY HarnessGrants, Proved!KeepsTheContract
<1>2. QED
  BY <1>1, SameSpec, HarnessImplementsCoordinator, PTL DEF CoordinatorSpec

\* The transitions in the white team's ledger are successes of the coordinator's
\* log, in its order and none twice, although the two files are written one after
\* the other and the process may die between them.
THEOREM LedgerTellsTheLog == HarnessSpec => []Proved!AuditFollowsLog
<1>1. Proved!Spec => []Proved!AuditFollowsLog
  BY HarnessGrants, Proved!LedgerFollowsLog
<1>2. QED
  BY <1>1, SameSpec, HarnessImplementsCoordinator, PTL DEF CoordinatorSpec

\* A declared scope in the ledger belongs to a task the log brings back, although
\* create_task writes both.
THEOREM ScopesHaveTasks == HarnessSpec => []Proved!DeclaredTasksExist
<1>1. Proved!Spec => []Proved!DeclaredTasksExist
  BY HarnessGrants, Proved!DeclarationsHaveTasks
<1>2. QED
  BY <1>1, SameSpec, HarnessImplementsCoordinator, PTL DEF CoordinatorSpec

\* The log of the harness is one of requests executed once, of which the successes
\* of each task are a path from its creation, and a hold on it leads back to the
\* work it took the task from; a restart of both sides brings every task back, and
\* no caller is answered with the success of another trigger.
THEOREM HarnessKeepsItsLog ==
  HarnessSpec => [](/\ Proved!OneEventPerRequest /\ Proved!LogIsAPath
                    /\ Proved!ResumeIsOrigin /\ Proved!RestartLosesNothing
                    /\ Proved!SuccessAnswersTheCall)
<1>1. Proved!Spec => []Proved!OneEventPerRequest
  BY HarnessGrants, Proved!RequestsAreIdempotent
<1>2. Proved!Spec => []Proved!LogIsAPath
  BY HarnessGrants, Proved!LogTellsAPath
<1>3. Proved!Spec => []Proved!ResumeIsOrigin
  BY HarnessGrants, Proved!HoldsResumeAtTheOrigin
<1>4. Proved!Spec => []Proved!RestartLosesNothing
  BY HarnessGrants, Proved!RestartIsHarmless
<1>5. Proved!Spec => []Proved!SuccessAnswersTheCall
  BY HarnessGrants, Proved!SuccessesAnswerTheirCalls
<1>6. QED
  BY <1>1, <1>2, <1>3, <1>4, <1>5, SameSpec, HarnessImplementsCoordinator, PTL DEF CoordinatorSpec

\* No step of the harness takes a held task further along its path, or one that the
\* white team has paused, whatever lifts the ledger refused and restarts undid.
THEOREM HarnessHeldTasksStay == HarnessSpec => Proved!ProgressOnlyWhenFree
<1>1. Proved!Spec => Proved!ProgressOnlyWhenFree
  BY HarnessGrants, Proved!HeldTasksStay
<1>2. QED
  BY <1>1, SameSpec, HarnessImplementsCoordinator, PTL DEF CoordinatorSpec

\* The harness uses its event log as the durable log it is, although every crash
\* and restart rebuilds the white team with it.
THEOREM HarnessUsesDurableLog == HarnessSpec => Proved!UsesDurableLog
<1>1. Proved!Spec => Proved!UsesDurableLog
  BY HarnessGrants, Proved!LogIsUsedAsDurable
<1>2. QED
  BY <1>1, SameSpec, HarnessImplementsCoordinator, PTL DEF CoordinatorSpec

-----------------------------------------------------------------------------
(* What is proved of the white team holds of the harness, and without the   *)
(* assumption that tasks are declared once: create_task sees to it.         *)

\* create_task declares a task the log does not have, of which the ledger has no
\* declaration then.
LEMMA DeclaredOnce ==
  ASSUME HarnessInv, Proved!DeclaredTasksExist, [HarnessNext]_harnessVars
  PROVE  \/ UNCHANGED <<ledger, scopes>>
         \/ \E d \in Declarations : scopes[d.task] = None /\ declare_scope(d)
         \/ \E c \in Commands : ApplyTransition(c)
         \/ Rebuild /\ UNCHANGED ledger
         \/ Calls
<1>1. ASSUME NEW c \in Intakes, CreateTask(c)
      PROVE  \E d \in Declarations : scopes[d.task] = None /\ declare_scope(d)
  <2>1. PICK d \in Declarations : d.task = c.task /\ declare_scope(d)
    BY <1>1 DEF CreateTask
  <2>2. d.task \in Tasks /\ tasks[d.task] = None
    BY <1>1, <2>1, CallFields DEF CreateTask, C!Accept, C!Intake
  <2>3. DeclarationsOf(ledger, d.task) = {}
    BY <2>2 DEF Proved!DeclaredTasksExist
  <2>4. ScopeMatches(scopes[d.task], ledger, d.task)
    BY <2>2 DEF HarnessInv, MemoryInv, ScopesKept
  <2>5. scopes[d.task] = None
    BY <2>3, <2>4 DEF ScopeMatches
  <2>6. QED
    BY <2>1, <2>5
<1>2. CASE Intake
  BY <1>1, <1>2 DEF Intake, Asks, CreateTaskCrash, Rebuilt, whiteVars, memory
<1>3. CASE Command
  BY <1>3 DEF Command, Asks, TransitionCrash, Rebuilt, whiteVars, memory
<1>4. CASE Between \/ RestartBoth \/ UNCHANGED harnessVars
  BY <1>4 DEF Between, Enrollment, Tick, RestartBoth, Rebuilt, harnessVars, whiteVars, memory
<1>5. QED
  BY <1>2, <1>3, <1>4 DEF HarnessNext

\* G2 in the harness: of every scope in the ledger that is not its task's first,
\* the ledger shows an approval in force that covered it, whatever the coordinator
\* and the white team went through together.
THEOREM HarnessScopesAreWarranted == HarnessSpec => []ScopeIsWarranted
<1>1. ASSUME HarnessInv, Proved!DeclaredTasksExist, ScopeIsWarranted, [HarnessNext]_harnessVars
      PROVE  ScopeIsWarranted'
  <2>1. MemoryInv(HarnessRecords) /\ Foreign(HarnessRecords)
    BY <1>1, CoordinatorIsForeign DEF HarnessInv
  <2>2. CASE Calls \/ UNCHANGED ledger
    BY <1>1, <2>1, <2>2, CallsKeepScopes
  <2>3. CASE \E d \in Declarations : scopes[d.task] = None /\ declare_scope(d)
    BY <1>1, <2>1, <2>3, DeclareKeepsScopes
  <2>4. CASE \E c \in Commands : ApplyTransition(c)
    BY <1>1, <2>1, <2>4, Recording, OthersKeepScopes
  <2>5. QED
    BY <1>1, <2>2, <2>3, <2>4, DeclaredOnce
<1>2. HarnessInit => ScopeIsWarranted
  BY InitScopes DEF HarnessInit
<1>3. QED
  BY <1>1, <1>2, HarnessInvHolds, ScopesHaveTasks, PTL DEF HarnessSpec

\* Contract section 5, "risk may move only toward higher risk", in the harness: no
\* call of either side that writes to the ledger lowers a declared task's risk.
THEOREM HarnessKeepsRisk == HarnessSpec => NoCallLowersRisk
<1>1. ASSUME HarnessInv, Proved!DeclaredTasksExist, [HarnessNext]_harnessVars, ledger' # ledger
      PROVE  NoRiskLowered
  <2>1. MemoryInv(HarnessRecords)
    BY <1>1 DEF HarnessInv
  <2>2. CASE Calls
    BY <2>1, <2>2, CallsNeverLowerRisk
  <2>3. CASE \E d \in Declarations : scopes[d.task] = None /\ declare_scope(d)
    BY <2>1, <2>3, DeclareKeepsRisk
  <2>4. CASE \E c \in Commands : ApplyTransition(c)
    BY <1>1, <2>1, <2>4, Recording, CallsNeverLowerRisk DEF memory
  <2>5. QED
    BY <1>1, <2>2, <2>3, <2>4, DeclaredOnce
<1>2. HarnessInv /\ Proved!DeclaredTasksExist /\ [HarnessNext]_harnessVars
        => [ledger' # ledger => NoRiskLowered]_vars
  BY <1>1
<1>3. QED
  BY <1>2, HarnessInvHolds, ScopesHaveTasks, PTL DEF HarnessSpec, NoCallLowersRisk, NoRiskLowered

\* A restart of the harness drops no pause, approval or scope and revokes nothing
\* that was not revoked, although the white team's ledger holds the coordinator's
\* records too and either may be missing after a crash.
THEOREM HarnessRebuildsAreOneSided == HarnessSpec => []RebuildIsOneSided
<1>1. HarnessInv => RebuildIsOneSided
  BY MemoryIsOneSided, CoordinatorIsForeign DEF HarnessInv
<1>2. QED
  BY <1>1, HarnessInvHolds, PTL
=============================================================================
