-------------------------- MODULE Coordinator_proofs --------------------------
(***************************************************************************)
(* Proofs about Coordinator, for every set of tasks, agents, keys, calls   *)
(* and every bound.                                                        *)
(***************************************************************************)
EXTENDS Coordinator, WellFoundedInduction, TLAPS

\* Position i holds the last success log l has of task t.
IsLast(l, t, i) == i \in Successes(l, t) /\ \A j \in Successes(l, t) : j <= i

\* What a task in memory owes the log: it exists when the log has events of it,
\* and then it is where its last success left it, no seq of a success ahead.
TaskMatches(tk, l, t) ==
  /\ tk = None <=> Events(l, t) = {}
  /\ tk # None => \E i \in DOMAIN l : /\ IsLast(l, t, i)
                                     /\ tk.state = l[i].to
                                     /\ tk.resume = resumeAfter(l[i])
                                     /\ l[i].seq <= tk.seq

TasksMatch == \A t \in Tasks : TaskMatches(tasks[t], log, t)

SeqsIncrease(l) ==
  \A i, j \in DOMAIN l :
    /\ l[i].task = l[j].task /\ i < j
    /\ l[i].outcome = "SUCCESS" /\ l[j].outcome = "SUCCESS"
    => l[i].seq < l[j].seq

-----------------------------------------------------------------------------
(* Operators *)

\* The largest element of a set of numbers is the one no other exceeds.
LEMMA LatestIs ==
  ASSUME NEW S \in SUBSET Nat, NEW i \in S, \A j \in S : j <= i
  PROVE  Latest(S) = i
<1>1. Latest(S) \in S /\ \A j \in S : j <= Latest(S)
  BY Zenon DEF Latest
<1>2. Latest(S) <= i /\ i <= Latest(S) /\ i \in Nat /\ Latest(S) \in Nat
  BY <1>1
<1>3. QED
  BY <1>2

\* The fields of a logged event.
LEMMA EventFields ==
  ASSUME NEW l \in Seq(EventType), NEW i \in DOMAIN l
  PROVE  /\ l[i] \in EventType
         /\ l[i].task \in Tasks /\ l[i].seq \in Nat /\ l[i].request \in Keys \cup Nat
         /\ l[i].trigger \in Trigger /\ l[i].actor \in Agents
         /\ l[i].outcome \in {"SUCCESS", "REJECTED"}
         /\ l[i].from \in TaskState \cup {None} /\ l[i].to \in TaskState \cup {None}
         /\ l[i].resume \in TaskState \cup {None}
         /\ l[i].code \in RejectionCode \cup {None}
         /\ i \in Nat
<1>1. l[i] \in EventType /\ i \in Nat
  OBVIOUS
<1>2. QED
  BY <1>1 DEF EventType

\* Appending an event adds its position and disturbs no other.
LEMMA AppendedEvent ==
  ASSUME NEW l \in Seq(EventType), NEW e \in EventType
  PROVE  LET l2 == Append(l, e)  n == Len(l) + 1
         IN  /\ l2 \in Seq(EventType)
             /\ n \in Nat /\ n \notin DOMAIN l
             /\ DOMAIN l \subseteq Nat
             /\ DOMAIN l2 = DOMAIN l \cup {n}
             /\ \A i \in DOMAIN l : i < n /\ l2[i] = l[i]
             /\ l2[n] = e
OBVIOUS

\* ... so that it is the newest event, and if successful the newest success,
\* of its own task, and other tasks' events stay as they are.
LEMMA AppendedHistory ==
  ASSUME NEW l \in Seq(EventType), NEW e \in EventType, NEW t
  PROVE  LET l2 == Append(l, e)  n == Len(l) + 1
         IN  /\ Events(l2, t) = IF e.task = t THEN Events(l, t) \cup {n} ELSE Events(l, t)
             /\ Successes(l2, t) = IF e.task = t /\ e.outcome = "SUCCESS"
                                   THEN Successes(l, t) \cup {n} ELSE Successes(l, t)
<1> DEFINE l2 == Append(l, e)
           n == Len(l) + 1
<1>1. /\ DOMAIN l2 = DOMAIN l \cup {n} /\ n \notin DOMAIN l
      /\ \A i \in DOMAIN l : l2[i] = l[i]
      /\ l2[n] = e
  BY AppendedEvent
<1> HIDE DEF l2, n
<1>2. Events(l2, t) = IF e.task = t THEN Events(l, t) \cup {n} ELSE Events(l, t)
  BY <1>1 DEF Events
<1>3. Successes(l2, t) = IF e.task = t /\ e.outcome = "SUCCESS"
                         THEN Successes(l, t) \cup {n} ELSE Successes(l, t)
  BY <1>1, <1>2 DEF Events, Successes
<1>4. QED
  BY <1>2, <1>3 DEF l2, n

-----------------------------------------------------------------------------
(* Replay is a recursive function over the log.  Each task can be read off  *)
(* its last success and its largest seq instead (Rebuilt): what the         *)
(* prefixes of a log give in this way is such a function (RebuiltOneMore is *)
(* its step), and there is no other.                                        *)

\* The tasks a log tells of, read off the successes that matter.
Rebuilt(l) ==
  [t \in Tasks |->
    IF Events(l, t) = {} THEN None
    ELSE IF Successes(l, t) = {} THEN NewTask
    ELSE LET last == l[Latest(Successes(l, t))]
         IN  [state  |-> last.to,
              resume |-> resumeAfter(last),
              seq    |-> Latest({l[i].seq : i \in Successes(l, t)})]]

\* A log whose last success of t is at i is rebuilt, for t, from that event.
LEMMA RebuiltFromLast ==
  ASSUME NEW l \in Seq(EventType), SeqsIncrease(l), NEW t \in Tasks,
         NEW i \in DOMAIN l, IsLast(l, t, i)
  PROVE  Rebuilt(l)[t] = [state |-> l[i].to, resume |-> resumeAfter(l[i]), seq |-> l[i].seq]
<1> DEFINE S == Successes(l, t)
           Q == {l[j].seq : j \in S}
<1>1. i \in S /\ \A j \in S : j <= i
  BY DEF IsLast
<1>2. S \subseteq Events(l, t) /\ S \subseteq DOMAIN l /\ DOMAIN l \subseteq Nat
  BY DEF Successes, Events
<1>3. Latest(S) = i
  <2> HIDE DEF S
  <2> QED BY <1>1, <1>2, LatestIs
<1>4. Latest(Q) = l[i].seq
  <2>1. Q \in SUBSET Nat
    BY <1>2, EventFields
  <2>2. \A j \in S : l[j].seq <= l[i].seq
    <3> SUFFICES ASSUME NEW j \in S PROVE l[j].seq <= l[i].seq
      OBVIOUS
    <3>1. l[j].seq \in Nat /\ l[i].seq \in Nat /\ j \in Nat /\ i \in Nat /\ j \in DOMAIN l
      BY <1>1, <1>2, EventFields
    <3>2. CASE j = i
      BY <3>1, <3>2
    <3>3. CASE j < i
      <4>1. l[j].task = l[i].task /\ l[j].outcome = "SUCCESS" /\ l[i].outcome = "SUCCESS"
        BY <1>1 DEF Successes, Events
      <4>2. l[j].seq < l[i].seq
        BY <4>1, <3>1, <3>3 DEF SeqsIncrease
      <4>3. QED
        BY <4>2, <3>1
    <3>4. QED
      BY <3>1, <3>2, <3>3, <1>1
  <2>3. l[i].seq \in Q
    BY <1>1
  <2>4. \A q \in Q : q <= l[i].seq
    BY <2>2
  <2> HIDE DEF Q
  <2>5. QED
    BY <2>1, <2>3, <2>4, LatestIs
<1>5. Events(l, t) # {} /\ Successes(l, t) # {}
  BY <1>1, <1>2
<1>6. QED
  BY <1>3, <1>4, <1>5 DEF Rebuilt

\* A task the log has no event of is not rebuilt.
LEMMA RebuiltOfNothing ==
  ASSUME NEW l, NEW t \in Tasks, Events(l, t) = {}
  PROVE  Rebuilt(l)[t] = None
BY DEF Rebuilt

\* Every set of naturals that is not empty has a least element.
LEMMA LeastNat ==
  ASSUME NEW S \in SUBSET Nat, S # {}
  PROVE  \E m \in S : \A n \in S : m <= n
<1>1. PICK m \in S : \A n \in S : <<n, m>> \notin OpToRel(<, Nat)
  <2> DEFINE R == OpToRel(<, Nat)
  <2>1. IsWellFoundedOn(R, Nat)
    BY NatLessThanWellFounded
  <2> HIDE DEF R
  <2>2. \E m \in S : \A n \in S : ~(<<n, m>> \in R)
    BY <2>1, WFMin
  <2>3. QED
    BY <2>2 DEF R
<1>2. \A n \in S : ~(n < m)
  BY <1>1 DEF OpToRel
<1>3. QED
  BY <1>2

\* Every set of naturals that is bounded and not empty has a largest element.
LEMMA LargestNat ==
  ASSUME NEW S \in SUBSET Nat, S # {}, NEW b \in Nat, \A i \in S : i <= b
  PROVE  \E i \in S : \A j \in S : j <= i
<1> DEFINE B == {n \in Nat : \A i \in S : i <= n}
<1>1. PICK m \in B : \A n \in B : m <= n
  <2>1. b \in B
    OBVIOUS
  <2> HIDE DEF B
  <2>2. B \in SUBSET Nat
    BY DEF B
  <2>3. QED
    BY <2>1, <2>2, LeastNat
<1>2. m \in Nat /\ \A i \in S : i <= m
  OBVIOUS
<1>3. m \in S
  <2> SUFFICES ASSUME m \notin S PROVE FALSE
    OBVIOUS
  <2>1. \A i \in S : i <= m - 1
    BY <1>2
  <2>2. m - 1 \in Nat
    <3>1. PICK i \in S : i \in Nat /\ i <= m - 1
      BY <2>1
    <3>2. QED
      BY <1>2, <3>1
  <2>3. m - 1 \in B
    BY <2>1, <2>2
  <2>4. QED
    BY <1>1, <1>2, <2>3
<1>4. QED
  BY <1>2, <1>3

\* What is rebuilt of a task is nothing, a new task, or what the last
\* success says.
LEMMA RebuiltCases ==
  ASSUME NEW l \in Seq(EventType), NEW t \in Tasks
  PROVE  \/ Events(l, t) = {}
         \/ Events(l, t) # {} /\ Successes(l, t) = {}
         \/ \E i \in DOMAIN l : IsLast(l, t, i)
<1>1. Successes(l, t) \subseteq DOMAIN l /\ DOMAIN l = 1 .. Len(l) /\ Len(l) \in Nat
  BY DEF Successes, Events
<1>2. ASSUME Successes(l, t) # {}
      PROVE  \E i \in DOMAIN l : IsLast(l, t, i)
  <2>1. PICK i \in Successes(l, t) : \A j \in Successes(l, t) : j <= i
    <3>1. Successes(l, t) \in SUBSET Nat /\ \A i \in Successes(l, t) : i <= Len(l)
      BY <1>1
    <3>2. QED
      BY ONLY <1>1, <1>2, <3>1, LargestNat
  <2>2. QED
    BY <1>1, <2>1 DEF IsLast
<1>3. QED
  BY <1>2

\* One event more is one step more of the loop: the closed form
\* takes the next event as the loop does.
LEMMA RebuiltOneMore ==
  ASSUME NEW l \in Seq(EventType), NEW e \in EventType,
         \A i \in DOMAIN l : WellFormed(l[i]), SeqsIncrease(Append(l, e))
  PROVE  Rebuilt(Append(l, e)) = ReplayStep(Rebuilt(l), e)
<1> DEFINE l2 == Append(l, e)
           n == Len(l) + 1
<1>1. /\ l2 \in Seq(EventType) /\ n \in Nat /\ n \in DOMAIN l2
      /\ DOMAIN l \subseteq DOMAIN l2 /\ DOMAIN l2 \subseteq Nat
      /\ \A i \in DOMAIN l : i < n /\ l2[i] = l[i]
      /\ l2[n] = e
  BY AppendedEvent
<1>2. \A t : /\ Events(l2, t) = IF e.task = t THEN Events(l, t) \cup {n} ELSE Events(l, t)
             /\ Successes(l2, t) = IF e.task = t /\ e.outcome = "SUCCESS"
                                   THEN Successes(l, t) \cup {n} ELSE Successes(l, t)
  BY AppendedHistory
<1> HIDE DEF l2, n
<1>3. SeqsIncrease(l2)
  BY DEF l2
<1>4. SeqsIncrease(l)
  BY <1>1, <1>3 DEF SeqsIncrease
<1>5. e.task \in Tasks /\ e.seq \in Nat /\ e.outcome \in {"SUCCESS", "REJECTED"}
  BY DEF EventType
<1>6. \A t \in Tasks, i \in DOMAIN l : IsLast(l, t, i) =>
        /\ l[i].to \in TaskState /\ l[i].seq \in Nat
        /\ Rebuilt(l)[t] = [state |-> l[i].to, resume |-> resumeAfter(l[i]), seq |-> l[i].seq]
        /\ Rebuilt(l)[t] # None
  <2> SUFFICES ASSUME NEW t \in Tasks, NEW i \in DOMAIN l, IsLast(l, t, i)
               PROVE  /\ l[i].to \in TaskState /\ l[i].seq \in Nat
                      /\ Rebuilt(l)[t] = [state |-> l[i].to, resume |-> resumeAfter(l[i]), seq |-> l[i].seq]
                      /\ Rebuilt(l)[t] # None
    OBVIOUS
  <2>1. Rebuilt(l)[t] = [state |-> l[i].to, resume |-> resumeAfter(l[i]), seq |-> l[i].seq]
    BY <1>4, RebuiltFromLast
  <2>2. l[i].outcome = "SUCCESS"
    BY DEF IsLast, Successes
  <2>3. l[i].to \in TaskState /\ resumeAfter(l[i]) \in TaskState \cup {None} /\ l[i].seq \in Nat
    BY <2>2, EventFields DEF WellFormed, resumeAfter
  <2>4. Rebuilt(l)[t] \in TaskType
    BY <2>1, <2>3 DEF TaskType
  <2>5. QED
    BY <2>1, <2>3, <2>4, NoneAssumption
<1>7. NewTask # None
  <2>1. "INTAKE" \in TaskState
    BY DEF TaskState, PathStates
  <2>2. NewTask \in TaskType
    BY <2>1 DEF NewTask, TaskType
  <2>3. QED
    BY <2>2, NoneAssumption
<1>8. ASSUME NEW t \in Tasks, t # e.task
      PROVE  Rebuilt(l2)[t] = Rebuilt(l)[t]
  <2>1. Events(l2, t) = Events(l, t) /\ Successes(l2, t) = Successes(l, t)
    BY <1>2, <1>8
  <2>2. CASE Successes(l, t) = {}
    BY <2>1, <2>2 DEF Rebuilt
  <2>3. ASSUME NEW i \in DOMAIN l, IsLast(l, t, i)
        PROVE  Rebuilt(l2)[t] = Rebuilt(l)[t]
    <3>1. IsLast(l2, t, i) /\ i \in DOMAIN l2 /\ l2[i] = l[i]
      BY <1>1, <2>1, <2>3 DEF IsLast
    <3>2. Rebuilt(l2)[t] = [state |-> l[i].to, resume |-> resumeAfter(l[i]), seq |-> l[i].seq]
      BY <1>1, <1>3, <3>1, RebuiltFromLast
    <3>3. QED
      BY <1>6, <2>3, <3>2
  <2>4. QED
    BY <2>2, <2>3, RebuiltCases DEF Successes
<1>9. Rebuilt(l2)[e.task] = Applied(e, IF Rebuilt(l)[e.task] = None THEN NewTask ELSE Rebuilt(l)[e.task])
  <2> DEFINE t == e.task
             before == IF Rebuilt(l)[t] = None THEN NewTask ELSE Rebuilt(l)[t]
  <2>1. \/ Successes(l, t) = {} /\ before = NewTask
        \/ \E i \in DOMAIN l : IsLast(l, t, i) /\ before = Rebuilt(l)[t]
    <3>1. CASE Events(l, t) = {}
      BY <1>5, <3>1, RebuiltOfNothing DEF Successes
    <3>2. CASE Events(l, t) # {} /\ Successes(l, t) = {}
      BY <1>5, <1>7, <3>2 DEF Rebuilt
    <3>3. CASE \E i \in DOMAIN l : IsLast(l, t, i)
      BY <1>5, <1>6, <3>3
    <3>4. QED
      BY <1>5, <3>1, <3>2, <3>3, RebuiltCases
  <2>2. Events(l2, t) # {}
    BY <1>2
  <2> HIDE DEF before
  <2>3. CASE e.outcome = "REJECTED"
    <3>1. Successes(l2, t) = Successes(l, t) /\ Applied(e, before) = before
      BY <1>2, <2>3 DEF Applied
    <3>2. CASE Successes(l, t) = {} /\ before = NewTask
      BY <1>5, <2>2, <3>1, <3>2 DEF Rebuilt
    <3>3. ASSUME NEW i \in DOMAIN l, IsLast(l, t, i), before = Rebuilt(l)[t]
          PROVE  Rebuilt(l2)[t] = before
      <4>1. IsLast(l2, t, i) /\ i \in DOMAIN l2 /\ l2[i] = l[i]
        BY <1>1, <3>1, <3>3 DEF IsLast
      <4>2. Rebuilt(l2)[t] = [state |-> l[i].to, resume |-> resumeAfter(l[i]), seq |-> l[i].seq]
        BY <1>1, <1>3, <1>5, <4>1, RebuiltFromLast
      <4>3. QED
        BY <1>5, <1>6, <3>3, <4>2
    <3>4. QED
      BY <2>1, <3>1, <3>2, <3>3 DEF before
  <2>4. CASE e.outcome = "SUCCESS"
    <3>1. Successes(l2, t) = Successes(l, t) \cup {n}
      BY <1>2, <2>4
    <3>2. IsLast(l2, t, n)
      BY <1>1, <3>1 DEF IsLast, Successes, Events
    <3>3. Rebuilt(l2)[t] = [state |-> e.to, resume |-> resumeAfter(e), seq |-> e.seq]
      BY <1>1, <1>3, <1>5, <3>2, RebuiltFromLast
    <3>4. before.seq \in Nat /\ before.seq <= e.seq
      <4>1. CASE Successes(l, t) = {} /\ before = NewTask
        BY <1>5, <4>1 DEF NewTask
      <4>2. ASSUME NEW i \in DOMAIN l, IsLast(l, t, i), before = Rebuilt(l)[t]
            PROVE  before.seq \in Nat /\ before.seq <= e.seq
        <5>1. before.seq = l[i].seq /\ l[i].seq \in Nat
          <6>1. /\ l[i].seq \in Nat
                /\ before = [state |-> l[i].to, resume |-> resumeAfter(l[i]), seq |-> l[i].seq]
            BY <1>5, <1>6, <4>2
          <6>2. QED
            BY <6>1
        <5>2. l2[i] = l[i] /\ i \in DOMAIN l2 /\ i < n /\ l[i].task = e.task /\ l[i].outcome = "SUCCESS"
          BY <1>1, <4>2 DEF IsLast, Successes, Events
        <5>3. l2[i].seq < l2[n].seq
          BY <1>1, <1>3, <2>4, <5>2 DEF SeqsIncrease
        <5>4. QED
          BY <1>1, <1>5, <5>1, <5>2, <5>3
      <4>3. QED
        BY <2>1, <4>1, <4>2
    <3>5. Larger(before.seq, e.seq) = e.seq
      BY <1>5, <3>4 DEF Larger
    <3>6. QED
      BY <2>4, <3>3, <3>5 DEF Applied, before
  <2>5. QED
    BY <1>5, <2>3, <2>4 DEF before
<1>10. Rebuilt(l2) = ReplayStep(Rebuilt(l), e)
  BY <1>5, <1>8, <1>9 DEF ReplayStep, Rebuilt
<1>11. QED
  BY <1>10 DEF l2

\* The first n events of a log are a log, whose n-th event is the last.
LEMMA LogPrefix ==
  ASSUME NEW l \in Seq(EventType), NEW n \in 0 .. Len(l)
  PROVE  LET p == SubSeq(l, 1, n)
         IN  /\ p \in Seq(EventType) /\ Len(p) = n /\ DOMAIN p \subseteq DOMAIN l
             /\ \A i \in DOMAIN p : p[i] = l[i]
             /\ n = 0 => p = <<>>
             /\ n # 0 => /\ l[n] \in EventType /\ n - 1 \in 0 .. Len(l)
                         /\ p = Append(SubSeq(l, 1, n - 1), l[n])
             /\ n = Len(l) => p = l
OBVIOUS

\* The tasks rebuilt from each prefix are what the loop asks
\* for: the definition of the loop has a function that meets it.
LEMMA PrefixesAreALoop ==
  ASSUME NEW l \in Seq(EventType), \A i \in DOMAIN l : WellFormed(l[i]), SeqsIncrease(l),
         NEW n \in 0 .. Len(l)
  PROVE  Rebuilt(SubSeq(l, 1, n)) =
           IF n = 0 THEN [t \in Tasks |-> None] ELSE ReplayStep(Rebuilt(SubSeq(l, 1, n - 1)), l[n])
<1> DEFINE p(k) == SubSeq(l, 1, k)
<1>1. \A k \in 0 .. Len(l) : /\ p(k) \in Seq(EventType)
                             /\ \A i \in DOMAIN p(k) : WellFormed(p(k)[i])
                             /\ SeqsIncrease(p(k))
  <2> SUFFICES ASSUME NEW k \in 0 .. Len(l)
               PROVE  /\ p(k) \in Seq(EventType)
                      /\ \A i \in DOMAIN p(k) : WellFormed(p(k)[i])
                      /\ SeqsIncrease(p(k))
    OBVIOUS
  <2>1. /\ p(k) \in Seq(EventType) /\ DOMAIN p(k) \subseteq DOMAIN l
        /\ \A i \in DOMAIN p(k) : p(k)[i] = l[i]
    BY LogPrefix
  <2> HIDE DEF p
  <2>2. QED
    BY <2>1 DEF SeqsIncrease
<1>2. CASE n = 0
  <2>1. p(n) = <<>>
    BY <1>2, LogPrefix
  <2>2. \A t \in Tasks : Events(p(n), t) = {}
    BY <2>1 DEF Events
  <2>3. QED
    BY <1>2, <2>2 DEF Rebuilt
<1>3. CASE n # 0
  <2>1. l[n] \in EventType /\ n - 1 \in 0 .. Len(l) /\ p(n) = Append(p(n - 1), l[n])
    BY <1>3, LogPrefix
  <2> HIDE DEF p
  <2>2. Rebuilt(p(n)) = ReplayStep(Rebuilt(p(n - 1)), l[n])
    BY <1>1, <2>1, RebuiltOneMore
  <2>3. QED
    BY <1>3, <2>2 DEF p
<1>4. QED
  BY <1>2, <1>3

\* Function f meets the definition of the loop over l.
IsLoop(l, f) == f = [n \in 0 .. Len(l) |-> IF n = 0 THEN [t \in Tasks |-> None]
                                           ELSE ReplayStep(f[n - 1], l[n])]

\* Two functions that meet the definition of a loop are equal: the first place
\* where they differ cannot be the first.
LEMMA LoopIsUnique ==
  ASSUME NEW l \in Seq(EventType), NEW f, NEW g, IsLoop(l, f), IsLoop(l, g)
  PROVE  f = g
<1> DEFINE D == {n \in 0 .. Len(l) : f[n] # g[n]}
<1>1. DOMAIN f = 0 .. Len(l) /\ DOMAIN g = 0 .. Len(l) /\ Len(l) \in Nat
  BY DEF IsLoop
<1>2. D = {}
  <2> SUFFICES ASSUME D # {} PROVE FALSE
    OBVIOUS
  <2>1. D \in SUBSET Nat
    BY <1>1
  <2>2. PICK m \in D : \A n \in D : m <= n
    BY ONLY <2>1, D # {}, LeastNat
  <2>3. m \in 0 .. Len(l) /\ f[m] # g[m]
    OBVIOUS
  <2>4. m # 0
    BY <2>3 DEF IsLoop
  <2>5. m - 1 \in 0 .. Len(l) /\ ~(m <= m - 1)
    BY <1>1, <2>3, <2>4
  <2>6. f[m - 1] = g[m - 1]
    BY <2>2, <2>5
  <2>7. f[m] = ReplayStep(f[m - 1], l[m]) /\ g[m] = ReplayStep(g[m - 1], l[m])
    BY <2>3, <2>4 DEF IsLoop
  <2>8. QED
    BY <2>3, <2>6, <2>7
<1>3. \A n \in 0 .. Len(l) : f[n] = g[n]
  BY <1>2
<1>4. QED
  BY <1>1, <1>3 DEF IsLoop

\* A replay of a log whose seqs are in order, one event after the other, may be
\* read off each task's last success.
LEMMA ReplayIsRebuilt ==
  ASSUME NEW l \in Seq(EventType), \A i \in DOMAIN l : WellFormed(l[i]), SeqsIncrease(l)
  PROVE  Replay(l) = Rebuilt(l)
<1> DEFINE g == [n \in 0 .. Len(l) |-> Rebuilt(SubSeq(l, 1, n))]
           h == CHOOSE f : IsLoop(l, f)
<1>1. IsLoop(l, g)
  <2>1. \A n \in 0 .. Len(l) :
          g[n] = IF n = 0 THEN [t \in Tasks |-> None] ELSE ReplayStep(g[n - 1], l[n])
    <3> SUFFICES ASSUME NEW n \in 0 .. Len(l)
                 PROVE  g[n] = IF n = 0 THEN [t \in Tasks |-> None] ELSE ReplayStep(g[n - 1], l[n])
      OBVIOUS
    <3>1. g[n] = Rebuilt(SubSeq(l, 1, n))
      OBVIOUS
    <3>2. n # 0 => g[n - 1] = Rebuilt(SubSeq(l, 1, n - 1))
      <4>1. n # 0 => n - 1 \in 0 .. Len(l)
        BY LogPrefix
      <4>2. QED
        BY <4>1
    <3>3. QED
      BY ONLY <3>1, <3>2, n \in 0 .. Len(l), l \in Seq(EventType), SeqsIncrease(l),
              \A i \in DOMAIN l : WellFormed(l[i]), PrefixesAreALoop
  <2>2. g = [n \in 0 .. Len(l) |-> g[n]]
    OBVIOUS
  <2> HIDE DEF g
  <2>3. QED
    BY <2>1, <2>2 DEF IsLoop
<1>2. g[Len(l)] = Rebuilt(l)
  <2>1. Len(l) \in 0 .. Len(l)
    OBVIOUS
  <2>2. QED
    BY <2>1, LogPrefix
<1>3. Replay(l) = h[Len(l)]
  BY DEF Replay, IsLoop
<1> HIDE DEF g
<1>4. IsLoop(l, h)
  BY Zenon, <1>1
<1> HIDE DEF h
<1>5. h = g
  BY <1>1, <1>4, LoopIsUnique
<1>6. QED
  BY <1>2, <1>3, <1>5

-----------------------------------------------------------------------------
(* What a success or a rejection appended to a log changes *)

\* A success newer than all of its task's, with a greater seq, becomes the last.
LEMMA NewSuccess ==
  ASSUME NEW l \in Seq(EventType), NEW e \in EventType, SeqsIncrease(l),
         e.outcome = "SUCCESS", \A i \in Successes(l, e.task) : l[i].seq < e.seq
  PROVE  /\ SeqsIncrease(Append(l, e))
         /\ IsLast(Append(l, e), e.task, Len(l) + 1)
<1> DEFINE l2 == Append(l, e)
           n == Len(l) + 1
<1>1. /\ l2 \in Seq(EventType) /\ n \in Nat /\ DOMAIN l \subseteq Nat
      /\ DOMAIN l2 = DOMAIN l \cup {n} /\ n \notin DOMAIN l
      /\ \A i \in DOMAIN l : i < n /\ l2[i] = l[i]
      /\ l2[n] = e
  BY AppendedEvent
<1>2. Successes(l2, e.task) = Successes(l, e.task) \cup {n}
  BY AppendedHistory
<1> HIDE DEF l2, n
<1>3. Successes(l, e.task) \subseteq DOMAIN l
  BY DEF Successes, Events
<1>4. IsLast(l2, e.task, n)
  BY <1>1, <1>2, <1>3 DEF IsLast
<1>5. SeqsIncrease(l2)
  <2> SUFFICES ASSUME NEW i \in DOMAIN l2, NEW j \in DOMAIN l2,
                      l2[i].task = l2[j].task, i < j,
                      l2[i].outcome = "SUCCESS", l2[j].outcome = "SUCCESS"
               PROVE  l2[i].seq < l2[j].seq
    BY DEF SeqsIncrease
  <2>1. CASE i \in DOMAIN l /\ j \in DOMAIN l
    BY <2>1, <1>1 DEF SeqsIncrease
  <2>2. CASE i \in DOMAIN l /\ j = n
    <3>1. i \in Successes(l, e.task)
      BY <2>2, <1>1 DEF Successes, Events
    <3>2. QED
      BY <3>1, <2>2, <1>1
  <2>3. CASE i = n
    <3>1. ~(i < j)
      BY <2>3, <1>1
    <3>2. QED
      BY <3>1
  <2>4. QED
    BY <2>1, <2>2, <2>3, <1>1
<1>6. QED
  BY <1>4, <1>5 DEF l2, n

\* An event that is no success leaves the seqs of the successes in order.
LEMMA NewRejection ==
  ASSUME NEW l \in Seq(EventType), NEW e \in EventType, SeqsIncrease(l), e.outcome = "REJECTED"
  PROVE  SeqsIncrease(Append(l, e))
<1> DEFINE l2 == Append(l, e)
           n == Len(l) + 1
<1>1. /\ DOMAIN l2 = DOMAIN l \cup {n}
      /\ \A i \in DOMAIN l : l2[i] = l[i]
      /\ l2[n] = e
  BY AppendedEvent
<1> HIDE DEF l2, n
<1>2. SeqsIncrease(l2)
  BY <1>1 DEF SeqsIncrease
<1>3. QED
  BY <1>2 DEF l2

\* An event that is not a success of task t leaves what t owes the log as it is,
\* for a task that exists and for one the event is not about.
LEMMA StillMatches ==
  ASSUME NEW l \in Seq(EventType), NEW e \in EventType, NEW t \in Tasks, NEW tk,
         TaskMatches(tk, l, t), e.task = t => e.outcome = "REJECTED" /\ tk # None
  PROVE  TaskMatches(tk, Append(l, e), t)
<1> DEFINE l2 == Append(l, e)
           n == Len(l) + 1
<1>1. /\ DOMAIN l2 = DOMAIN l \cup {n} /\ n \notin DOMAIN l
      /\ \A i \in DOMAIN l : l2[i] = l[i]
  BY AppendedEvent
<1>2. /\ Events(l2, t) = IF e.task = t THEN Events(l, t) \cup {n} ELSE Events(l, t)
      /\ Successes(l2, t) = Successes(l, t)
  BY AppendedHistory
<1> HIDE DEF l2, n
<1>3. tk = None <=> Events(l2, t) = {}
  BY <1>2 DEF TaskMatches
<1>4. ASSUME tk # None
      PROVE  \E i \in DOMAIN l2 : /\ IsLast(l2, t, i) /\ tk.state = l2[i].to
                                  /\ tk.resume = resumeAfter(l2[i]) /\ l2[i].seq <= tk.seq
  <2>1. PICK i \in DOMAIN l : /\ IsLast(l, t, i) /\ tk.state = l[i].to
                              /\ tk.resume = resumeAfter(l[i]) /\ l[i].seq <= tk.seq
    BY <1>4 DEF TaskMatches
  <2>2. i \in DOMAIN l2 /\ IsLast(l2, t, i) /\ l2[i] = l[i]
    BY <2>1, <1>1, <1>2 DEF IsLast
  <2>3. QED
    BY <2>1, <2>2
<1>5. TaskMatches(tk, l2, t)
  BY <1>3, <1>4 DEF TaskMatches
<1>6. QED
  BY <1>5 DEF l2

\* What a success logged last makes of its task is what the task owes the log.
LEMMA NowMatches ==
  ASSUME NEW l \in Seq(EventType), NEW i \in DOMAIN l, NEW t \in Tasks, NEW tk \in TaskType,
         IsLast(l, t, i), tk.state = l[i].to, tk.resume = resumeAfter(l[i]), l[i].seq <= tk.seq
  PROVE  TaskMatches(tk, l, t)
<1>1. tk # None
  BY NoneAssumption
<1>2. Events(l, t) # {}
  BY DEF IsLast, Successes
<1>3. QED
  BY <1>1, <1>2 DEF TaskMatches

\* Every task the log tells of has a last success.
HasLasts(l) == \A t \in Tasks : Events(l, t) = {} \/ \E i \in DOMAIN l : IsLast(l, t, i)

\* The tasks replayed from such a log owe it nothing.
LEMMA ReplayMatches ==
  ASSUME NEW l \in Seq(EventType), \A i \in DOMAIN l : WellFormed(l[i]),
         SeqsIncrease(l), HasLasts(l)
  PROVE  /\ Replay(l) \in [Tasks -> TaskType \cup {None}]
         /\ \A t \in Tasks : TaskMatches(Replay(l)[t], l, t)
<1>1. SUFFICES ASSUME NEW t \in Tasks
               PROVE  Rebuilt(l)[t] \in TaskType \cup {None} /\ TaskMatches(Rebuilt(l)[t], l, t)
  <2>1. Rebuilt(l) = [t \in Tasks |-> Rebuilt(l)[t]]
    BY DEF Rebuilt
  <2>2. QED
    BY <1>1, <2>1, ReplayIsRebuilt
<1>2. CASE Events(l, t) = {}
  <2>1. Rebuilt(l)[t] = None
    BY <1>2, RebuiltOfNothing
  <2>2. QED
    BY <1>2, <2>1 DEF TaskMatches
<1>3. CASE \E i \in DOMAIN l : IsLast(l, t, i)
  <2>1. PICK i \in DOMAIN l : IsLast(l, t, i)
    BY <1>3
  <2> DEFINE tk == [state |-> l[i].to, resume |-> resumeAfter(l[i]), seq |-> l[i].seq]
  <2>2. Rebuilt(l)[t] = tk
    BY <2>1, RebuiltFromLast
  <2>3. l[i].outcome = "SUCCESS"
    BY <2>1 DEF IsLast, Successes
  <2>4. l[i].to \in TaskState /\ resumeAfter(l[i]) \in TaskState \cup {None} /\ l[i].seq \in Nat
    BY <2>3, EventFields DEF WellFormed, resumeAfter
  <2>5. tk \in TaskType
    BY <2>4 DEF TaskType
  <2>6. /\ tk.state = l[i].to /\ tk.resume = resumeAfter(l[i]) /\ l[i].seq <= tk.seq
    BY <2>4
  <2> HIDE DEF tk
  <2>7. QED
    BY <2>1, <2>2, <2>5, <2>6, NowMatches
<1>4. QED
  BY <1>2, <1>3 DEF HasLasts

-----------------------------------------------------------------------------
(* The inductive invariant.  A restart takes a task from its last success,  *)
(* so the types of tasks need that success to exist and to be the one that  *)
(* set the task's state; that it carries the largest seq needs the seqs in  *)
(* order, and they stay so because a task in memory is never behind them.   *)

StoreInv == TypeOK /\ TasksMatch /\ SeqsIncrease(log)

\* The next seq of a task is above those of all its successes.
LEMMA NextSeqIsNew ==
  ASSUME StoreInv, NEW t \in Tasks, tasks[t] # None
  PROVE  /\ tasks[t] \in TaskType
         /\ \A i \in Successes(log, t) : log[i].seq < tasks[t].seq + 1
<1>1. tasks[t] \in TaskType /\ log \in Seq(EventType) /\ SeqsIncrease(log)
  BY DEF StoreInv, TypeOK
<1>2. PICK i \in DOMAIN log : IsLast(log, t, i) /\ log[i].seq <= tasks[t].seq
  BY DEF StoreInv, TasksMatch, TaskMatches
<1>3. ASSUME NEW j \in Successes(log, t)
      PROVE  log[j].seq < tasks[t].seq + 1
  <2>1. j \in DOMAIN log /\ j <= i /\ log[j].task = t /\ log[j].outcome = "SUCCESS"
    BY <1>2 DEF IsLast, Successes, Events
  <2>2. log[i].task = t /\ log[i].outcome = "SUCCESS"
    BY <1>2 DEF IsLast, Successes, Events
  <2>3. /\ log[i].seq \in Nat /\ log[j].seq \in Nat /\ i \in Nat /\ j \in Nat
        /\ tasks[t].seq \in Nat
    BY <1>1, <2>1, EventFields DEF TaskType
  <2>4. j = i \/ log[j].seq < log[i].seq
    BY <1>1, <2>1, <2>2, <2>3 DEF SeqsIncrease
  <2>5. QED
    BY <1>2, <2>3, <2>4
<1>4. QED
  BY <1>1, <1>3

\* What logging a success with a new seq gives, before any task is updated,
\* and when its own task is updated from it.
LEMMA LoggedSuccess ==
  ASSUME StoreInv, NEW e \in EventType, WellFormed(e), e.outcome = "SUCCESS",
         \A i \in Successes(log, e.task) : log[i].seq < e.seq
  PROVE  LET l2 == Append(log, e)
         IN  /\ l2 \in Seq(EventType) /\ SeqsIncrease(l2)
             /\ \A i \in DOMAIN l2 : WellFormed(l2[i])
             /\ HasLasts(l2)
             /\ \A t \in Tasks \ {e.task} : TaskMatches(tasks[t], l2, t)
             /\ \A tk \in TaskType :
                  (tk.state = e.to /\ tk.resume = resumeAfter(e) /\ e.seq <= tk.seq)
                    => TaskMatches(tk, l2, e.task)
<1> DEFINE l2 == Append(log, e)
           n == Len(log) + 1
<1>1. /\ log \in Seq(EventType) /\ SeqsIncrease(log)
      /\ \A i \in DOMAIN log : WellFormed(log[i])
      /\ \A t \in Tasks : TaskMatches(tasks[t], log, t)
      /\ e.task \in Tasks
  BY DEF StoreInv, TypeOK, TasksMatch, EventType
<1>2. /\ l2 \in Seq(EventType) /\ DOMAIN l2 = DOMAIN log \cup {n}
      /\ \A i \in DOMAIN log : l2[i] = log[i]
      /\ l2[n] = e
  BY <1>1, AppendedEvent
<1>3. SeqsIncrease(l2) /\ IsLast(l2, e.task, n)
  BY <1>1, NewSuccess
<1>4. \A t \in Tasks \ {e.task} : TaskMatches(tasks[t], l2, t)
  BY <1>1, StillMatches
<1> HIDE DEF l2, n
<1>5. \A i \in DOMAIN l2 : WellFormed(l2[i])
  BY <1>1, <1>2
<1>6. ASSUME NEW tk \in TaskType, tk.state = e.to, tk.resume = resumeAfter(e), e.seq <= tk.seq
      PROVE  TaskMatches(tk, l2, e.task)
  <2>1. n \in DOMAIN l2 /\ l2[n] = e
    BY <1>2
  <2>2. QED
    BY <1>1, <1>2, <1>3, <1>6, <2>1, NowMatches
<1>7. HasLasts(l2)
  <2> SUFFICES ASSUME NEW t \in Tasks
               PROVE  Events(l2, t) = {} \/ \E i \in DOMAIN l2 : IsLast(l2, t, i)
    BY DEF HasLasts
  <2>1. CASE t = e.task
    BY <2>1, <1>2, <1>3
  <2>2. CASE t # e.task
    BY <2>2, <1>4 DEF TaskMatches
  <2>3. QED
    BY <2>1, <2>2
<1>8. QED
  BY <1>2, <1>3, <1>4, <1>5, <1>6, <1>7 DEF l2

\* A request id is a key, or a number no key equals.
LEMMA RequestIdType ==
  ASSUME TypeOK, NEW c, c.key \in Keys \cup {None}
  PROVE  RequestId(c) \in Keys \cup Nat
<1>1. Len(log) + 1 \in Nat
  BY DEF TypeOK
<1>2. QED
  BY <1>1 DEF RequestId

\* The event of an accepted task is well formed.
LEMMA CreatedEventType ==
  ASSUME TypeOK, NEW c \in Intakes
  PROVE  /\ CreatedEvent(c) \in EventType /\ WellFormed(CreatedEvent(c))
         /\ CreatedEvent(c).outcome = "SUCCESS" /\ CreatedEvent(c).task = c.task
         /\ CreatedEvent(c).seq = 1 /\ CreatedEvent(c).to = "INTAKE"
         /\ resumeAfter(CreatedEvent(c)) = None
         /\ c.task \in Tasks /\ c.actor \in Agents /\ c.key \in Keys \cup {None}
         /\ CreatedEvent(c).fp \in Fingerprints /\ CreatedEvent(c).code = None
<1>1. c \in IntakeCalls
  BY CallsAssumption
<1>2. c.task \in Tasks /\ c.actor \in Agents /\ c.key \in Keys \cup {None}
  BY <1>1 DEF IntakeCalls
<1>3. RequestId(c) \in Keys \cup Nat /\ IntakeFingerprint(c) \in Fingerprints
  BY <1>2, RequestIdType DEF Fingerprints
<1>4. CreatedEvent(c) \in EventType
  BY <1>2, <1>3 DEF CreatedEvent, EventType, Trigger, TaskState, PathStates
<1>5. WellFormed(CreatedEvent(c)) /\ resumeAfter(CreatedEvent(c)) = None
  BY DEF WellFormed, CreatedEvent, TaskState, PathStates, RESUME_HOLDING, resumeAfter
<1>6. QED
  BY <1>2, <1>3, <1>4, <1>5 DEF CreatedEvent

\* The fields of a transition call.
LEMMA CommandFields ==
  ASSUME NEW c \in Commands
  PROVE  /\ c.task \in Tasks /\ c.trigger \in Trigger /\ c.actor \in Agents
         /\ c.key \in Keys \cup {None}
         /\ Fingerprint(c) \in Fingerprints
<1>1. c \in TransitionCalls
  BY CallsAssumption
<1>2. QED
  BY <1>1 DEF TransitionCalls, Fingerprints

\* So is the event of a transition that leads somewhere.
LEMMA SuccessEventType ==
  ASSUME TypeOK, NEW c \in Commands, tasks[c.task] # None, NEW n \in NextStates(c)
  PROVE  LET e == SuccessEvent(c, n)
         IN  /\ e \in EventType /\ WellFormed(e)
             /\ e.outcome = "SUCCESS" /\ e.task = c.task /\ e.seq = tasks[c.task].seq + 1
             /\ e.to \in TaskState /\ resumeAfter(e) \in TaskState \cup {None}
<1>1. tasks[c.task] \in TaskType
  BY CommandFields DEF TypeOK
<1>2. tasks[c.task].seq + 1 \in Nat /\ State(c) \in TaskState /\ n \in TaskState
  BY <1>1 DEF TaskType, State, NextStates
<1>3. RequestId(c) \in Keys \cup Nat
  BY CommandFields, RequestIdType
<1>4. SuccessEvent(c, n) \in EventType
  BY <1>2, <1>3, CommandFields DEF SuccessEvent, EventType
<1>5. WellFormed(SuccessEvent(c, n))
  BY <1>2 DEF WellFormed, SuccessEvent
<1>6. resumeAfter(SuccessEvent(c, n)) \in TaskState \cup {None}
  BY <1>2 DEF resumeAfter, SuccessEvent
<1>7. QED
  BY <1>2, <1>4, <1>5, <1>6 DEF SuccessEvent

\* Every recorded guard has a rejection code.
LEMMA GuardCodes ==
  ASSUME NEW i \in DOMAIN GuardOrder
  PROVE  CodeOf(GuardOrder[i]) \in RejectionCode
BY DEF GuardOrder, CodeOf, RejectionCode

\* The event of a rejection is well formed.
LEMMA RejectedEventType ==
  ASSUME TypeOK, NEW c \in Commands, tasks[c.task] # None, NEW i \in DOMAIN GuardOrder
  PROVE  LET e == RejectedEvent(c, GuardOrder[i])
         IN  /\ e \in EventType /\ WellFormed(e)
             /\ e.outcome = "REJECTED" /\ e.task = c.task
<1>1. tasks[c.task] \in TaskType
  BY CommandFields DEF TypeOK
<1>2. tasks[c.task].seq + 1 \in Nat /\ State(c) \in TaskState
  BY <1>1 DEF TaskType, State
<1>3. RequestId(c) \in Keys \cup Nat
  BY CommandFields, RequestIdType
<1> DEFINE g == GuardOrder[i]
<1>4. CodeOf(g) \in RejectionCode
  BY GuardCodes
<1> HIDE DEF g
<1>5. RejectedEvent(c, g) \in EventType
  BY <1>2, <1>3, <1>4, CommandFields DEF RejectedEvent, EventType
<1>6. WellFormed(RejectedEvent(c, g)) /\ RejectedEvent(c, g).outcome = "REJECTED"
      /\ RejectedEvent(c, g).task = c.task
  BY DEF WellFormed, RejectedEvent
<1>7. QED
  BY <1>5, <1>6 DEF g

-----------------------------------------------------------------------------
(* One lemma for each way the tasks and the log change together *)

\* What the steps below have to show of the coordinator's own state.
StoreOK ==
  /\ tasks \in [Tasks -> TaskType \cup {None}]
  /\ log \in Seq(EventType)
  /\ \A i \in DOMAIN log : WellFormed(log[i])
  /\ TasksMatch
  /\ SeqsIncrease(log)

\* A task accepted at intake, whether or not its scope could be declared.
LEMMA IntakeKeepsStore ==
  ASSUME StoreInv, NEW c \in Intakes, Intake(c)
  PROVE  StoreOK'
<1> DEFINE e == CreatedEvent(c)
           tk == Applied(e, NewTask)
<1>1. /\ e \in EventType /\ WellFormed(e) /\ e.outcome = "SUCCESS" /\ e.task = c.task
      /\ e.seq = 1 /\ e.to = "INTAKE" /\ resumeAfter(e) = None /\ c.task \in Tasks
  BY CreatedEventType DEF StoreInv
<1>2. /\ tasks[c.task] = None /\ log' = Append(log, e)
      /\ tasks' = [tasks EXCEPT ![c.task] = tk]
  BY DEF Intake, StoreEvent
<1>3. Successes(log, c.task) = {}
  BY <1>1, <1>2 DEF StoreInv, TasksMatch, TaskMatches, Successes
<1>4. tk = [state |-> "INTAKE", resume |-> None, seq |-> 1]
  <2>1. tk = [state |-> e.to, resume |-> resumeAfter(e), seq |-> Larger(NewTask.seq, e.seq)]
    BY <1>1 DEF Applied
  <2>2. Larger(NewTask.seq, e.seq) = 1
    BY <1>1 DEF Larger, NewTask
  <2>3. QED
    BY <1>1, <2>1, <2>2
<1> HIDE DEF e, tk
<1>5. /\ log' \in Seq(EventType) /\ SeqsIncrease(log') /\ \A i \in DOMAIN log' : WellFormed(log'[i])
      /\ \A t \in Tasks \ {c.task} : TaskMatches(tasks[t], log', t)
      /\ \A k \in TaskType :
           (k.state = e.to /\ k.resume = resumeAfter(e) /\ e.seq <= k.seq)
             => TaskMatches(k, log', c.task)
  BY <1>1, <1>2, <1>3, LoggedSuccess
<1>6. tk \in TaskType
  BY <1>4 DEF TaskType, TaskState, PathStates
<1>7. TaskMatches(tk, log', c.task)
  BY <1>1, <1>4, <1>5, <1>6
<1>8. tasks \in [Tasks -> TaskType \cup {None}]
  BY DEF StoreInv, TypeOK
<1>9. \A t \in Tasks : TaskMatches(tasks'[t], log', t)
  BY <1>1, <1>2, <1>5, <1>7, <1>8
<1>10. QED
  BY <1>2, <1>5, <1>6, <1>8, <1>9 DEF StoreOK, TasksMatch

\* A transition applied.
LEMMA ApplyKeepsStore ==
  ASSUME StoreInv, NEW c \in Commands, Move(c)
  PROVE  StoreOK'
<1>1. PICK n \in NextStates(c) : /\ StoreEvent(SuccessEvent(c, n))
                                 /\ tasks' = [tasks EXCEPT ![c.task] = Applied(SuccessEvent(c, n), @)]
  BY DEF Move
<1> DEFINE e == SuccessEvent(c, n)
           tk == Applied(e, tasks[c.task])
<1>2. tasks[c.task] # None /\ c.task \in Tasks
  BY CommandFields DEF Move, Admitted, Arrives
<1>3. /\ e \in EventType /\ WellFormed(e) /\ e.outcome = "SUCCESS" /\ e.task = c.task
      /\ e.seq = tasks[c.task].seq + 1 /\ e.to \in TaskState
      /\ resumeAfter(e) \in TaskState \cup {None}
  BY <1>2, SuccessEventType DEF StoreInv
<1>4. /\ log' = Append(log, e)
      /\ tasks' = [tasks EXCEPT ![c.task] = tk]
  BY <1>1 DEF StoreEvent
<1>5. tasks[c.task] \in TaskType /\ \A i \in Successes(log, c.task) : log[i].seq < e.seq
  BY <1>2, <1>3, NextSeqIsNew
<1>6. tk = [state |-> e.to, resume |-> resumeAfter(e), seq |-> e.seq]
  <2>1. tk = [state |-> e.to, resume |-> resumeAfter(e), seq |-> Larger(tasks[c.task].seq, e.seq)]
    BY <1>3 DEF Applied
  <2>2. Larger(tasks[c.task].seq, e.seq) = e.seq
    BY <1>3, <1>5 DEF Larger, TaskType
  <2>3. QED
    BY <2>1, <2>2
<1> HIDE DEF e, tk
<1>7. /\ log' \in Seq(EventType) /\ SeqsIncrease(log') /\ \A i \in DOMAIN log' : WellFormed(log'[i])
      /\ \A t \in Tasks \ {c.task} : TaskMatches(tasks[t], log', t)
      /\ \A k \in TaskType :
           (k.state = e.to /\ k.resume = resumeAfter(e) /\ e.seq <= k.seq)
             => TaskMatches(k, log', c.task)
  BY <1>3, <1>4, <1>5, LoggedSuccess
<1>8. tk \in TaskType /\ tk.seq \in Nat
  BY <1>3, <1>5, <1>6 DEF TaskType
<1>9. TaskMatches(tk, log', c.task)
  BY <1>6, <1>7, <1>8
<1>10. tasks \in [Tasks -> TaskType \cup {None}]
  BY DEF StoreInv, TypeOK
<1>11. \A t \in Tasks : TaskMatches(tasks'[t], log', t)
  BY <1>2, <1>4, <1>7, <1>9, <1>10
<1>12. QED
  BY <1>4, <1>7, <1>8, <1>10, <1>11 DEF StoreOK, TasksMatch

\* A task's next sequence number taken: the task is still where the log has it.
LEMMA CountKeepsMatch ==
  ASSUME StoreInv, NEW c \in Commands, tasks[c.task] # None, CountsRejection(c)
  PROVE  /\ tasks' \in [Tasks -> TaskType \cup {None}] /\ tasks'[c.task] # None
         /\ \A t \in Tasks : TaskMatches(tasks'[t], log, t)
<1> DEFINE tk == [tasks[c.task] EXCEPT !.seq = @ + 1]
<1>1. c.task \in Tasks /\ tasks' = [tasks EXCEPT ![c.task] = tk]
  BY CommandFields DEF CountsRejection
<1>2. /\ log \in Seq(EventType) /\ tasks \in [Tasks -> TaskType \cup {None}]
      /\ \A t \in Tasks : TaskMatches(tasks[t], log, t)
  BY DEF StoreInv, TypeOK, TasksMatch
<1>3. tasks[c.task] \in TaskType
  BY <1>1, <1>2
<1>4. /\ tk \in TaskType /\ tk.state = tasks[c.task].state /\ tk.resume = tasks[c.task].resume
      /\ tk.seq = tasks[c.task].seq + 1
  BY <1>3 DEF TaskType
<1>5. TaskMatches(tk, log, c.task)
  <2>1. PICK k \in DOMAIN log : /\ IsLast(log, c.task, k) /\ tasks[c.task].state = log[k].to
                                /\ tasks[c.task].resume = resumeAfter(log[k])
                                /\ log[k].seq <= tasks[c.task].seq
    BY <1>1, <1>2 DEF TaskMatches
  <2>2. log[k].seq \in Nat /\ tasks[c.task].seq \in Nat
    BY <1>2, <1>3, EventFields DEF TaskType
  <2>3. log[k].seq <= tk.seq
    BY <1>4, <2>1, <2>2
  <2> HIDE DEF tk
  <2>4. QED
    BY <1>1, <1>2, <1>4, <2>1, <2>3, NowMatches
<1> HIDE DEF tk
<1>6. QED
  BY <1>1, <1>2, <1>4, <1>5, NoneAssumption

\* A rejection recorded: the task keeps its state and moves its seq ahead.
LEMMA RejectKeepsStore ==
  ASSUME StoreInv, NEW c \in Commands, RecordRejection(c)
  PROVE  StoreOK'
<1>1. PICK i \in DOMAIN GuardOrder : AppendEvent(RejectedEvent(c, GuardOrder[i]))
  BY DEF RecordRejection
<1> DEFINE e == RejectedEvent(c, GuardOrder[i])
<1>2. tasks[c.task] # None /\ c.task \in Tasks
  BY CommandFields DEF RecordRejection, Arrives
<1>3. e \in EventType /\ WellFormed(e) /\ e.outcome = "REJECTED" /\ e.task = c.task
  BY <1>2, RejectedEventType DEF StoreInv
<1>4. log' = Append(log, e)
  BY <1>1 DEF AppendEvent, StoreEvent
<1> HIDE DEF e
<1>5. /\ tasks' \in [Tasks -> TaskType \cup {None}] /\ tasks'[c.task] # None
      /\ \A t \in Tasks : TaskMatches(tasks'[t], log, t)
  BY <1>2, CountKeepsMatch DEF RecordRejection
<1>6. log \in Seq(EventType) /\ SeqsIncrease(log) /\ \A k \in DOMAIN log : WellFormed(log[k])
  BY DEF StoreInv, TypeOK
<1>7. \A t \in Tasks : TaskMatches(tasks'[t], log', t)
  BY <1>3, <1>4, <1>5, <1>6, StillMatches
<1>8. log' \in Seq(EventType) /\ SeqsIncrease(log')
  BY <1>3, <1>4, <1>6, NewRejection
<1>9. \A k \in DOMAIN log' : WellFormed(log'[k])
  BY <1>3, <1>4, <1>6, AppendedEvent
<1>10. QED
  BY <1>5, <1>7, <1>8, <1>9 DEF StoreOK, TasksMatch

\* ... also when its event could not be written.
LEMMA UnwrittenRejectKeepsStore ==
  ASSUME StoreInv, NEW c \in Commands, RecordRejectionFails(c)
  PROVE  StoreOK'
<1>1. tasks[c.task] # None /\ log' = log /\ CountsRejection(c)
  BY DEF RecordRejectionFails, Arrives, WriteFails
<1>2. tasks' \in [Tasks -> TaskType \cup {None}] /\ \A t \in Tasks : TaskMatches(tasks'[t], log, t)
  BY <1>1, CountKeepsMatch
<1>3. QED
  BY <1>1, <1>2 DEF StoreInv, TypeOK, StoreOK, TasksMatch

\* A restart replays the log as it stands.
LEMMA RestartKeepsStore ==
  ASSUME StoreInv, log' = log, tasks' = Replay(log)
  PROVE  StoreOK'
<1>1. /\ log \in Seq(EventType) /\ SeqsIncrease(log) /\ \A k \in DOMAIN log : WellFormed(log[k])
  BY DEF StoreInv, TypeOK
<1>2. HasLasts(log)
  BY DEF StoreInv, TasksMatch, TaskMatches, HasLasts
<1>3. Replay(log) \in [Tasks -> TaskType \cup {None}] /\ \A t \in Tasks : TaskMatches(Replay(log)[t], log, t)
  BY <1>1, <1>2, ReplayMatches
<1>4. QED
  BY <1>1, <1>3 DEF StoreOK, TasksMatch

\* A crash leaves the new event in the log the restart replays.
LEMMA CrashKeepsStore ==
  ASSUME StoreInv, NEW e \in EventType, WellFormed(e), e.outcome = "SUCCESS",
         \A i \in Successes(log, e.task) : log[i].seq < e.seq,
         CrashAfterEvent(e)
  PROVE  StoreOK'
<1>1. log' = Append(log, e) /\ tasks' = Replay(log')
  BY DEF CrashAfterEvent, Reopened, StoreEvent
<1>2. /\ log' \in Seq(EventType) /\ SeqsIncrease(log') /\ HasLasts(log')
      /\ \A i \in DOMAIN log' : WellFormed(log'[i])
  BY <1>1, LoggedSuccess
<1>3. Replay(log') \in [Tasks -> TaskType \cup {None}]
      /\ \A t \in Tasks : TaskMatches(Replay(log')[t], log', t)
  BY <1>2, ReplayMatches
<1>4. QED
  BY <1>1, <1>2, <1>3 DEF StoreOK, TasksMatch

-----------------------------------------------------------------------------
(* The steps of the specification *)

\* Nothing logged and no task changed: nothing is owed anew.
LEMMA QuietKeepsStore ==
  ASSUME StoreInv, UNCHANGED <<tasks, log>>
  PROVE  StoreOK'
BY DEF StoreInv, StoreOK, TypeOK, TasksMatch

\* The initial state has nothing to replay.
LEMMA InitStoreInv == Init => StoreInv
<1> SUFFICES ASSUME Init PROVE StoreInv
  OBVIOUS
<1>1. TypeOK
  <2>1. RegistryType
    BY RegistryAssumption DEF Init, RegistryInit, RegistryType
  <2>2. QED
    BY <2>1 DEF Init, TypeOK
<1>2. TasksMatch
  BY DEF Init, TasksMatch, TaskMatches, Events
<1>3. SeqsIncrease(log)
  BY DEF Init, SeqsIncrease
<1>4. QED
  BY <1>1, <1>2, <1>3 DEF StoreInv

\* The answers to a call on a task are replies.
LEMMA ReplyTyped ==
  ASSUME NEW t \in Tasks, NEW tr \in Trigger, NEW i \in Nat, NEW code \in RejectionCode \cup {None}
  PROVE  Reply(t, tr, i, code) \in ReplyType
BY DEF Reply, ReplyType

\* What the white team, the registry and the watchdog keep.
PartiesTyped == /\ paused \subseteq Tasks /\ evidence \subseteq Tasks \X EvidenceTypes
                /\ approved \subseteq Tasks \X Actions
                /\ RegistryType
                /\ quarantined \subseteq Agents

\* They keep it in a call of the coordinator, even when a declared scope has
\* its approvals counted anew, ...
LEMMA QuietParties ==
  ASSUME TypeOK, UNCHANGED <<paused, evidence, registryVars, quarantined>>,
         approved' = approved \/ approved' \in SUBSET Grantable
  PROVE  PartiesTyped'
BY GovernanceAssumption DEF TypeOK, PartiesTyped, registryVars, RegistryType

\* ... and when the process is lost.
LEMMA LostParties ==
  ASSUME TypeOK, Reopened, GovernanceRebuilt
  PROVE  PartiesTyped' /\ reply' = None /\ unwritten' \in Seq(UnwrittenType)
<1>1. paused' \subseteq Tasks /\ evidence' \subseteq Tasks \X EvidenceTypes /\ approved' \subseteq Tasks \X Actions
  BY GovernanceAssumption DEF TypeOK, Reopened, GovernanceRebuilt
<1>2. RegistryType'
  <2>1. roles' = roles /\ teamOf \in [Agents -> Teams \cup {None}] /\ roles \in [Agents -> SUBSET Roles]
    BY DEF TypeOK, RegistryType, Reopened, SystemRegistered
  <2>2. teamOf' = teamOf \/ teamOf' = [teamOf EXCEPT ![SYSTEM_AGENT] = "coordinator"]
    BY DEF Reopened, SystemRegistered
  <2>3. "coordinator" \in Teams
    BY DEF Teams
  <2>4. teamOf' \in [Agents -> Teams \cup {None}]
    BY <2>1, <2>2, <2>3
  <2>5. QED
    BY <2>1, <2>4 DEF RegistryType
<1>3. QED
  BY <1>1, <1>2 DEF PartiesTyped, Reopened

\* What the log keeps of an event it could not write has its type, and the
\* caller has no answer.
LEMMA FailureTyped ==
  ASSUME TypeOK, NEW c, NEW e, c.actor \in Agents, c.key \in Keys \cup {None},
         e.fp \in Fingerprints \cup {None}, e.code \in RejectionCode \cup {None},
         WriteFails(c, e)
  PROVE  unwritten' \in Seq(UnwrittenType) /\ reply' = None
<1> DEFINE u == [actor |-> c.actor, request |-> c.key, fp |-> e.fp, code |-> e.code]
<1>1. u \in UnwrittenType
  BY DEF UnwrittenType
<1>2. unwritten' = Append(unwritten, u) /\ reply' = None /\ unwritten \in Seq(UnwrittenType)
  BY DEF WriteFails, TypeOK
<1> HIDE DEF u
<1>3. QED
  BY <1>1, <1>2

\* Agents registered, gone, or with roles granted and revoked stay agents.
LEMMA RegistryStepTyped ==
  ASSUME RegistryType, RegistryStep
  PROVE  RegistryType'
<1>1. CASE \E e \in Enrollments : register(e[1], e[2]) \/ unregister(e[1])
  BY <1>1, RegistryAssumption DEF RegistryType, register, unregister
<1>2. CASE \E g \in Grants : grant_role(g[1], g[2]) \/ revoke_role(g[1], g[2])
  BY <1>2, RegistryAssumption DEF RegistryType, grant_role, revoke_role
<1>3. QED
  BY <1>1, <1>2 DEF RegistryStep

\* No call of create_task disturbs the invariant.
LEMMA IntakeKeepsInv ==
  ASSUME StoreInv, NEW c \in Intakes,
         \/ ReturnExisting(c) \/ RefuseIntake(c)
         \/ CreateTask(c) \/ CreateTaskRaises(c) \/ CreateTaskFails(c) \/ CreateTaskCrash(c)
  PROVE  StoreInv'
<1>1. c.task \in Tasks /\ "CREATED" \in Trigger /\ TypeOK /\ Len(log) + 1 \in Nat
  BY CreatedEventType DEF StoreInv, TypeOK, Trigger
<1>2. ASSUME StoreOK', unwritten' \in Seq(UnwrittenType), reply' \in ReplyType \cup {None},
             declared' \subseteq Tasks, audit' = audit, PartiesTyped'
      PROVE  StoreInv'
  BY <1>1, <1>2 DEF StoreInv, StoreOK, TypeOK, PartiesTyped
<1>3. CASE ReturnExisting(c)
  <2>1. StoreOK' /\ PartiesTyped'
    BY <1>1, <1>3, QuietKeepsStore, QuietParties DEF ReturnExisting, governanceVars
  <2>2. reply' \in ReplyType
    BY <1>1, <1>3, ReplyTyped DEF ReturnExisting
  <2>3. QED
    BY <1>1, <1>2, <1>3, <2>1, <2>2 DEF ReturnExisting, ledgerVars, TypeOK
<1>4. CASE RefuseIntake(c)
  <2>1. StoreOK' /\ PartiesTyped'
    BY <1>1, <1>4, QuietKeepsStore, QuietParties DEF RefuseIntake, governanceVars
  <2>2. IntakeRefusal(c) \in RejectionCode \cup {None}
    BY DEF IntakeRefusal, RejectionCode
  <2>3. reply' \in ReplyType
    BY <1>1, <1>4, <2>2, ReplyTyped DEF RefuseIntake
  <2>4. QED
    BY <1>1, <1>2, <1>4, <2>1, <2>3 DEF RefuseIntake, ledgerVars, TypeOK
<1>5. CASE CreateTask(c)
  <2>1. StoreOK' /\ PartiesTyped' /\ unwritten' = unwritten
    BY <1>1, <1>5, IntakeKeepsStore, QuietParties DEF CreateTask, Accept, Intake, Reassessed
  <2>2. reply' \in ReplyType
    BY <1>1, <1>5, ReplyTyped DEF CreateTask, Accept
  <2>3. QED
    BY <1>1, <1>2, <1>5, <2>1, <2>2 DEF CreateTask, TypeOK
<1>6. CASE CreateTaskRaises(c)
  <2>1. StoreOK' /\ PartiesTyped' /\ unwritten' = unwritten
    BY <1>1, <1>6, IntakeKeepsStore, QuietParties DEF CreateTaskRaises, Intake, governanceVars
  <2>2. QED
    BY <1>1, <1>2, <1>6, <2>1 DEF CreateTaskRaises, ledgerVars, TypeOK
<1>7. CASE CreateTaskFails(c)
  <2>1. WriteFails(c, CreatedEvent(c)) /\ UNCHANGED tasks
    BY <1>7 DEF CreateTaskFails
  <2>2. StoreOK' /\ PartiesTyped'
    BY <1>1, <2>1, QuietKeepsStore, QuietParties DEF WriteFails, governanceVars
  <2>3. unwritten' \in Seq(UnwrittenType) /\ reply' = None
    BY <1>1, <2>1, CreatedEventType, FailureTyped
  <2>4. QED
    BY <1>1, <1>2, <2>1, <2>2, <2>3 DEF WriteFails, ledgerVars, TypeOK
<1>8. CASE CreateTaskCrash(c)
  <2>1. Successes(log, c.task) = {}
    BY <1>1, <1>8 DEF CreateTaskCrash, StoreInv, TasksMatch, TaskMatches, Successes
  <2>2. StoreOK'
    BY <1>1, <1>8, <2>1, CreatedEventType, CrashKeepsStore DEF CreateTaskCrash
  <2>3. PartiesTyped' /\ reply' = None /\ unwritten' \in Seq(UnwrittenType)
    BY <1>1, <1>8, LostParties DEF CreateTaskCrash, CrashAfterEvent
  <2>4. QED
    BY <1>1, <1>2, <1>8, <2>2, <2>3 DEF CreateTaskCrash, CrashAfterEvent, ledgerVars, TypeOK
<1>9. QED
  BY <1>3, <1>4, <1>5, <1>6, <1>7, <1>8

\* No call of apply_transition does.
LEMMA CommandKeepsInv ==
  ASSUME StoreInv, NEW c \in Commands,
         \/ ReplayCached(c) \/ TaskNotFound(c) \/ RefuseSecret(c)
         \/ RecordRejection(c) \/ RecordRejectionFails(c)
         \/ ApplyTransition(c) \/ TransitionRaises(c) \/ TransitionFails(c) \/ TransitionCrash(c)
  PROVE  StoreInv'
<1>1. c.task \in Tasks /\ c.trigger \in Trigger /\ TypeOK /\ Len(log) + 1 \in Nat
  BY CommandFields DEF StoreInv, TypeOK
<1>2. ASSUME StoreOK', unwritten' \in Seq(UnwrittenType), reply' \in ReplyType \cup {None},
             declared' = declared, audit' \in Seq(Nat), PartiesTyped'
      PROVE  StoreInv'
  BY <1>1, <1>2 DEF StoreInv, StoreOK, TypeOK, PartiesTyped
<1>3. ASSUME reply' \in ReplyType,
             UNCHANGED <<tasks, log, unwritten, ledgerVars, governanceVars, registryVars, quarantined>>
      PROVE  StoreInv'
  <2>1. StoreOK' /\ PartiesTyped'
    BY <1>1, <1>3, QuietKeepsStore, QuietParties DEF governanceVars
  <2>2. QED
    BY <1>1, <1>2, <1>3, <2>1 DEF ledgerVars, TypeOK
<1>4. CASE ReplayCached(c)
  <2>0. UNCHANGED <<tasks, log, unwritten, ledgerVars, governanceVars, registryVars, quarantined>>
    BY <1>4 DEF ReplayCached
  <2>1. ASSUME NEW e, NEW n \in Nat, e.code \in RejectionCode \cup {None}, ReplaysOutcome(c, e, n)
        PROVE  reply' \in ReplyType
    BY <1>1, <2>1, ReplyTyped DEF ReplaysOutcome, RejectionCode
  <2>2. CASE \E i \in Cached(c) : ReplaysOutcome(c, log[i], i)
    <3>1. PICK i \in Cached(c) : ReplaysOutcome(c, log[i], i)
      BY <2>2
    <3>2. log[i].code \in RejectionCode \cup {None} /\ i \in Nat
      BY <1>1, EventFields DEF Cached, TypeOK
    <3>3. reply' \in ReplyType
      BY <2>1, <3>1, <3>2
    <3>4. QED
      BY <1>3, <2>0, <3>3
  <2>3. CASE \E u \in Remembered(c) : ReplaysOutcome(c, unwritten[u], 0)
    <3>1. PICK u \in Remembered(c) : ReplaysOutcome(c, unwritten[u], 0)
      BY <2>3
    <3>2. unwritten[u] \in UnwrittenType
      BY <1>1 DEF Remembered, TypeOK
    <3>3. unwritten[u].code \in RejectionCode \cup {None}
      BY <3>2 DEF UnwrittenType
    <3>4. reply' \in ReplyType
      BY <2>1, <3>1, <3>3
    <3>5. QED
      BY <1>3, <2>0, <3>4
  <2>4. QED
    BY <1>4, <2>2, <2>3 DEF ReplayCached
<1>5. CASE TaskNotFound(c)
  <2>1. reply' \in ReplyType
    BY <1>1, <1>5, ReplyTyped DEF TaskNotFound, RejectionCode
  <2>2. QED
    BY <1>3, <1>5, <2>1 DEF TaskNotFound
<1>6. CASE RefuseSecret(c)
  <2>1. reply' \in ReplyType
    BY <1>1, <1>6, ReplyTyped DEF RefuseSecret, RejectionCode
  <2>2. QED
    BY <1>3, <1>6, <2>1 DEF RefuseSecret
<1>7. CASE RecordRejection(c)
  <2>1. StoreOK' /\ PartiesTyped'
    BY <1>1, <1>7, RejectKeepsStore, QuietParties DEF RecordRejection, governanceVars
  <2>2. PICK i \in DOMAIN GuardOrder : AppendEvent(RejectedEvent(c, GuardOrder[i]))
    BY <1>7 DEF RecordRejection
  <2>3. CodeOf(GuardOrder[i]) \in RejectionCode
    BY GuardCodes
  <2>4. reply' = Reply(c.task, c.trigger, Len(log) + 1, CodeOf(GuardOrder[i])) /\ unwritten' = unwritten
    BY <2>2 DEF AppendEvent, RejectedEvent
  <2>5. reply' \in ReplyType
    BY <1>1, <2>3, <2>4, ReplyTyped
  <2>6. QED
    BY <1>1, <1>2, <1>7, <2>1, <2>4, <2>5 DEF RecordRejection, ledgerVars, TypeOK
<1>8. CASE RecordRejectionFails(c)
  <2>1. PICK i \in DOMAIN GuardOrder : WriteFails(c, RejectedEvent(c, GuardOrder[i]))
    BY <1>8 DEF RecordRejectionFails
  <2>2. StoreOK' /\ PartiesTyped'
    BY <1>1, <1>8, <2>1, UnwrittenRejectKeepsStore, QuietParties DEF WriteFails, governanceVars
  <2> DEFINE e == RejectedEvent(c, GuardOrder[i])
  <2>3. tasks[c.task] # None
    BY <1>8 DEF RecordRejectionFails, Arrives
  <2>4. e \in EventType
    BY <1>1, <2>3, RejectedEventType
  <2>5. e.fp \in Fingerprints \cup {None} /\ e.code \in RejectionCode \cup {None} /\ WriteFails(c, e)
    BY <2>1, <2>4 DEF EventType
  <2> HIDE DEF e
  <2>6. unwritten' \in Seq(UnwrittenType) /\ reply' = None
    BY <1>1, <2>5, CommandFields, FailureTyped
  <2>7. QED
    BY <1>1, <1>2, <2>2, <2>5, <2>6 DEF WriteFails, ledgerVars, TypeOK
<1>9. CASE ApplyTransition(c) \/ TransitionRaises(c)
  <2>1. /\ Move(c) /\ declared' = declared
        /\ UNCHANGED <<paused, evidence, approved, registryVars, quarantined>>
    BY <1>9 DEF ApplyTransition, Moved, TransitionRaises, governanceVars, ledgerVars
  <2>2. StoreOK' /\ PartiesTyped' /\ unwritten' = unwritten
    BY <1>1, <2>1, ApplyKeepsStore, QuietParties DEF Move
  <2>3. reply' \in ReplyType \cup {None}
    BY <1>1, <1>9, ReplyTyped DEF ApplyTransition, Moved, TransitionRaises
  <2>4. audit' \in Seq(Nat)
    <3>1. audit \in Seq(Nat)
      BY <1>1 DEF TypeOK
    <3>2. audit' = audit \/ audit' = Append(audit, Len(log) + 1)
      BY <1>9 DEF ApplyTransition, TransitionRaises, ledgerVars
    <3>3. QED
      BY <1>1, <3>1, <3>2
  <2>5. QED
    BY <1>1, <1>2, <2>1, <2>2, <2>3, <2>4 DEF TypeOK
<1>10. CASE TransitionFails(c)
  <2>1. PICK n \in NextStates(c) : WriteFails(c, SuccessEvent(c, n))
    BY <1>10 DEF TransitionFails
  <2>2. StoreOK' /\ PartiesTyped'
    BY <1>1, <1>10, <2>1, QuietKeepsStore, QuietParties DEF TransitionFails, WriteFails, governanceVars
  <2> DEFINE e == SuccessEvent(c, n)
  <2>3. tasks[c.task] # None
    BY <1>10 DEF TransitionFails, Admitted, Arrives
  <2>4. e \in EventType
    BY <1>1, <2>3, SuccessEventType
  <2>5. e.fp \in Fingerprints \cup {None} /\ e.code \in RejectionCode \cup {None} /\ WriteFails(c, e)
    BY <2>1, <2>4 DEF EventType
  <2> HIDE DEF e
  <2>6. unwritten' \in Seq(UnwrittenType) /\ reply' = None
    BY <1>1, <2>5, CommandFields, FailureTyped
  <2>7. QED
    BY <1>1, <1>2, <2>2, <2>5, <2>6 DEF WriteFails, ledgerVars, TypeOK
<1>11. CASE TransitionCrash(c)
  <2>1. PICK n \in NextStates(c) : CrashAfterEvent(SuccessEvent(c, n))
    BY <1>11 DEF TransitionCrash
  <2>2. tasks[c.task] # None
    BY <1>11 DEF TransitionCrash, Admitted, Arrives
  <2>3. StoreOK'
    BY <1>1, <2>1, <2>2, SuccessEventType, NextSeqIsNew, CrashKeepsStore
  <2>4. PartiesTyped' /\ reply' = None /\ unwritten' \in Seq(UnwrittenType)
    BY <1>1, <2>1, LostParties DEF CrashAfterEvent
  <2>5. QED
    BY <1>1, <1>2, <2>1, <2>3, <2>4 DEF CrashAfterEvent, ledgerVars, TypeOK
<1>12. QED
  BY <1>4, <1>5, <1>6, <1>7, <1>8, <1>9, <1>10, <1>11

\* Neither do the other parties, a restart or a stuttering step.
LEMMA OthersKeepInv ==
  ASSUME StoreInv, Restart \/ Governance \/ Enrollment \/ Watchdog \/ UNCHANGED vars
  PROVE  StoreInv'
<1>1. TypeOK
  BY DEF StoreInv
<1>2. ASSUME StoreOK', unwritten' \in Seq(UnwrittenType), reply' \in ReplyType \cup {None},
             UNCHANGED ledgerVars, PartiesTyped'
      PROVE  StoreInv'
  BY <1>1, <1>2 DEF StoreInv, StoreOK, TypeOK, ledgerVars, PartiesTyped
<1>3. CASE Restart
  <2>1. StoreOK' /\ PartiesTyped' /\ reply' = None /\ unwritten' \in Seq(UnwrittenType)
    BY <1>1, <1>3, RestartKeepsStore, LostParties DEF Restart, Reopened
  <2>2. QED
    BY <1>2, <1>3, <2>1 DEF Restart
<1>4. CASE Governance
  <2>1. /\ StoreOK' /\ UNCHANGED <<unwritten, reply, quarantined>>
        /\ UNCHANGED <<ledgerVars, registryVars>>
    BY <1>4, QuietKeepsStore DEF Governance, coordinatorVars
  <2>2. /\ paused' \subseteq Tasks /\ evidence' \subseteq Tasks \X EvidenceTypes
        /\ approved' \subseteq Tasks \X Actions
    <3>1. CASE \E t \in Pausable : Pause(t) \/ Resume(t)
      BY <3>1, <1>1, GovernanceAssumption DEF Pause, Resume, TypeOK
    <3>2. CASE \E r \in Offered : RecordEvidence(r)
      BY <3>2, <1>1, GovernanceAssumption DEF RecordEvidence, TypeOK
    <3>3. CASE CountApprovals
      BY <3>3, <1>1, GovernanceAssumption DEF CountApprovals, TypeOK
    <3>4. QED
      BY <1>4, <3>1, <3>2, <3>3 DEF Governance
  <2>3. PartiesTyped'
    BY <1>1, <2>1, <2>2 DEF TypeOK, PartiesTyped, RegistryType, registryVars
  <2>4. QED
    BY <1>1, <1>2, <2>1, <2>3 DEF TypeOK
<1>5. CASE Enrollment
  <2>1. StoreOK' /\ UNCHANGED <<unwritten, reply, ledgerVars, paused, evidence, quarantined>>
    BY <1>5, QuietKeepsStore DEF Enrollment, coordinatorVars
  <2>2. RegistryType' /\ approved' \subseteq Tasks \X Actions
    BY <1>1, <1>5, RegistryStepTyped, GovernanceAssumption DEF Enrollment, TypeOK
  <2>3. PartiesTyped'
    BY <1>1, <2>1, <2>2 DEF TypeOK, PartiesTyped
  <2>4. QED
    BY <1>1, <1>2, <2>1, <2>3 DEF TypeOK
<1>6. CASE Watchdog
  <2>1. StoreOK' /\ UNCHANGED <<unwritten, reply, ledgerVars, governanceVars, registryVars>>
    BY <1>6, QuietKeepsStore DEF Watchdog, coordinatorVars
  <2>2. quarantined' \subseteq Agents
    BY <1>1, <1>6, GovernanceAssumption DEF Watchdog, Quarantine, Unquarantine, TypeOK
  <2>3. PartiesTyped'
    BY <1>1, <2>1, <2>2 DEF TypeOK, PartiesTyped, governanceVars, registryVars, RegistryType
  <2>4. QED
    BY <1>1, <1>2, <2>1, <2>3 DEF TypeOK
<1>7. CASE UNCHANGED vars
  <2>1. StoreOK' /\ PartiesTyped'
    BY <1>1, <1>7, QuietKeepsStore, QuietParties DEF vars, coordinatorVars, governanceVars
  <2>2. QED
    BY <1>1, <1>2, <1>7, <2>1 DEF vars, coordinatorVars, TypeOK
<1>8. QED
  BY <1>3, <1>4, <1>5, <1>6, <1>7

\* The invariant is inductive.
THEOREM StoreInvariant == Spec => []StoreInv
<1>1. Init => StoreInv
  BY InitStoreInv
<1>2. StoreInv /\ [Next]_vars => StoreInv'
  BY IntakeKeepsInv, CommandKeepsInv, OthersKeepInv DEF Next
<1>3. QED
  BY <1>1, <1>2, PTL DEF Spec

\* Every variable always holds a value of its kind: in particular every success
\* in the log leads to a state, and a restart always finds one to replay.
THEOREM TypeCorrect == Spec => []TypeOK
<1>1. StoreInv => TypeOK
  BY DEF StoreInv
<1>2. QED
  BY <1>1, StoreInvariant, PTL

\* However rejections, crashes and restarts are mixed, the successes of a task
\* carry increasing sequence numbers along the log.
THEOREM SeqsAlwaysIncrease == Spec => []SuccessSeqIncreases
<1>1. StoreInv => SuccessSeqIncreases
  BY DEF StoreInv, SeqsIncrease, SuccessSeqIncreases
<1>2. QED
  BY <1>1, StoreInvariant, PTL

\* At any moment a restart would give back every task as it is.
THEOREM RestartIsHarmless == Spec => []RestartLosesNothing
<1>1. StoreInv => RestartLosesNothing
  <2> SUFFICES ASSUME StoreInv, NEW t \in Tasks
               PROVE  /\ tasks[t] = None <=> Replay(log)[t] = None
                      /\ tasks[t] # None => /\ tasks[t].state = Replay(log)[t].state
                                            /\ tasks[t].resume = Replay(log)[t].resume
    BY DEF RestartLosesNothing
  <2>1. /\ log \in Seq(EventType) /\ SeqsIncrease(log) /\ TaskMatches(tasks[t], log, t)
        /\ Replay(log) = Rebuilt(log)
    BY ReplayIsRebuilt DEF StoreInv, TypeOK, TasksMatch
  <2>2. CASE tasks[t] = None
    BY <2>1, <2>2, RebuiltOfNothing DEF TaskMatches
  <2>3. CASE tasks[t] # None
    <3>1. PICK i \in DOMAIN log : /\ IsLast(log, t, i) /\ tasks[t].state = log[i].to
                                  /\ tasks[t].resume = resumeAfter(log[i])
      BY <2>1, <2>3 DEF TaskMatches
    <3>2. Replay(log)[t] = [state |-> log[i].to, resume |-> resumeAfter(log[i]), seq |-> log[i].seq]
      BY <2>1, <3>1, RebuiltFromLast
    <3>3. HasLasts(log) /\ \A k \in DOMAIN log : WellFormed(log[k])
      BY DEF StoreInv, TypeOK, TasksMatch, TaskMatches, HasLasts
    <3>4. TaskMatches(Replay(log)[t], log, t)
      BY <2>1, <3>3, ReplayMatches
    <3>5. Replay(log)[t] # None
      BY <2>1, <2>3, <3>4 DEF TaskMatches
    <3>6. QED
      BY <2>3, <3>1, <3>2, <3>5
  <2>4. QED
    BY <2>2, <2>3
<1>2. QED
  BY <1>1, StoreInvariant, PTL

-----------------------------------------------------------------------------
(* Idempotency.  The invariant is inductive as it stands, given types: the  *)
(* one fact it needs is that every event is logged under a request id that  *)
(* the cache, the log itself, does not know of its actor.                    *)

\* Event e is new to the log: no event has its actor and request id.
IsNew(e) == \A i \in DOMAIN log : ~(log[i].actor = e.actor /\ log[i].request = e.request)

\* A success carries the fingerprint of its own call.
Printed(e) ==
  e.outcome = "SUCCESS" =>
    \/ e.trigger = "CREATED" /\ \E c \in Intakes : e.fp = IntakeFingerprint(c)
    \/ \E c \in Commands : e.fp = Fingerprint(c) /\ e.trigger = c.trigger

\* Every step logs nothing, or one event under a key that is new, a success with
\* its call's fingerprint.
LEMMA LogStep ==
  ASSUME TypeOK, [Next]_vars
  PROVE  log' = log \/ \E e \in EventType : IsNew(e) /\ Printed(e) /\ log' = Append(log, e)
<1>1. ASSUME NEW c \in Intakes, StoreEvent(CreatedEvent(c)), IntakeRefusal(c) = None
      PROVE  \E e \in EventType : IsNew(e) /\ Printed(e) /\ log' = Append(log, e)
  <2>1. Cached(c) = {}
    BY <1>1, NoneAssumption DEF IntakeRefusal, Unanswered, RejectionCode
  <2>2. IsNew(CreatedEvent(c))
    BY <2>1 DEF IsNew, Cached, CreatedEvent
  <2>3. Printed(CreatedEvent(c))
    BY DEF Printed, CreatedEvent
  <2>4. QED
    BY <1>1, <2>2, <2>3, CreatedEventType DEF StoreEvent
<1>2. ASSUME NEW c \in Commands, Arrives(c), NEW n \in NextStates(c), StoreEvent(SuccessEvent(c, n))
      PROVE  \E e \in EventType : IsNew(e) /\ Printed(e) /\ log' = Append(log, e)
  <2>1. IsNew(SuccessEvent(c, n))
    BY <1>2 DEF IsNew, Arrives, Unanswered, Cached, SuccessEvent
  <2>2. SuccessEvent(c, n) \in EventType
    BY <1>2, SuccessEventType DEF Arrives
  <2>3. Printed(SuccessEvent(c, n))
    BY DEF Printed, SuccessEvent
  <2>4. QED
    BY <1>2, <2>1, <2>2, <2>3 DEF StoreEvent
<1>3. ASSUME NEW c \in Commands, Arrives(c), NEW i \in DOMAIN GuardOrder,
             StoreEvent(RejectedEvent(c, GuardOrder[i]))
      PROVE  \E e \in EventType : IsNew(e) /\ Printed(e) /\ log' = Append(log, e)
  <2> DEFINE e == RejectedEvent(c, GuardOrder[i])
  <2>1. IsNew(e)
    BY <1>3 DEF IsNew, Arrives, Unanswered, Cached, RejectedEvent
  <2>2. e \in EventType
    BY <1>3, RejectedEventType DEF Arrives
  <2>3. log' = Append(log, e) /\ Printed(e)
    BY <1>3 DEF StoreEvent, Printed, RejectedEvent
  <2> HIDE DEF e
  <2>4. QED
    BY <2>1, <2>2, <2>3
<1>4. ASSUME NEW c \in Intakes,
             \/ ReturnExisting(c) \/ RefuseIntake(c)
             \/ CreateTask(c) \/ CreateTaskRaises(c) \/ CreateTaskFails(c) \/ CreateTaskCrash(c)
      PROVE  log' = log \/ \E e \in EventType : IsNew(e) /\ Printed(e) /\ log' = Append(log, e)
  BY <1>1, <1>4 DEF ReturnExisting, RefuseIntake, CreateTask, Accept, CreateTaskRaises,
                    CreateTaskFails, WriteFails, CreateTaskCrash, Intake, CrashAfterEvent
<1>5. ASSUME NEW c \in Commands,
             \/ ReplayCached(c) \/ TaskNotFound(c) \/ RefuseSecret(c)
             \/ RecordRejection(c) \/ RecordRejectionFails(c)
             \/ ApplyTransition(c) \/ TransitionRaises(c) \/ TransitionFails(c) \/ TransitionCrash(c)
      PROVE  log' = log \/ \E e \in EventType : IsNew(e) /\ Printed(e) /\ log' = Append(log, e)
  <2>1. CASE ReplayCached(c) \/ TaskNotFound(c) \/ RefuseSecret(c)
    BY <2>1 DEF ReplayCached, TaskNotFound, RefuseSecret
  <2>2. CASE RecordRejection(c)
    BY <2>2, <1>3 DEF RecordRejection, AppendEvent
  <2>3. CASE RecordRejectionFails(c) \/ TransitionFails(c)
    BY <2>3 DEF RecordRejectionFails, TransitionFails, WriteFails
  <2>4. CASE ApplyTransition(c) \/ TransitionRaises(c)
    BY <2>4, <1>2 DEF ApplyTransition, TransitionRaises, Moved, Move, Admitted
  <2>5. CASE TransitionCrash(c)
    BY <2>5, <1>2 DEF TransitionCrash, CrashAfterEvent, Admitted
  <2>6. QED
    BY <1>5, <2>1, <2>2, <2>3, <2>4, <2>5
<1>6. CASE Restart \/ Governance \/ Enrollment \/ Watchdog \/ UNCHANGED vars
  BY <1>6 DEF Restart, Governance, Enrollment, Watchdog, vars, coordinatorVars
<1>7. QED
  BY <1>4, <1>5, <1>6 DEF Next

\* No request of an actor is ever logged twice, in whatever state a resend
\* finds the task and however often the process died in between.
THEOREM RequestsAreIdempotent == Spec => []OneEventPerRequest
<1>1. Init => OneEventPerRequest
  BY DEF Init, OneEventPerRequest
<1>2. ASSUME TypeOK, OneEventPerRequest, [Next]_vars
      PROVE  OneEventPerRequest'
  <2>1. CASE log' = log
    BY <1>2, <2>1 DEF OneEventPerRequest
  <2>2. CASE \E e \in EventType : IsNew(e) /\ log' = Append(log, e)
    <3>1. PICK e \in EventType : IsNew(e) /\ log' = Append(log, e)
      BY <2>2
    <3> DEFINE n == Len(log) + 1
    <3>2. /\ DOMAIN log' = DOMAIN log \cup {n}
          /\ \A i \in DOMAIN log : log'[i] = log[i]
          /\ log'[n] = e
      BY <1>2, <3>1, AppendedEvent DEF TypeOK
    <3> HIDE DEF n
    <3>3. QED
      BY <1>2, <3>1, <3>2 DEF OneEventPerRequest, IsNew
  <2>3. QED
    BY <1>2, <2>1, <2>2, LogStep
<1>3. QED
  BY <1>1, <1>2, TypeCorrect, PTL DEF Spec

-----------------------------------------------------------------------------
(* Answers.  A cached success answers a call only when the fingerprints     *)
(* agree, and the fingerprint of a transition names its trigger.            *)

\* Every success carries the fingerprint of its own call, and one that was
\* replied is of the trigger asked for.
AnswerInv ==
  /\ \A i \in DOMAIN log : Printed(log[i])
  /\ (reply # None /\ reply.event # 0) =>
       reply.event \in DOMAIN log /\
         (log[reply.event].outcome = "SUCCESS" => log[reply.event].trigger = reply.trigger)

\* The fingerprint of a task's intake is never that of a transition.
LEMMA FingerprintsDiffer ==
  ASSUME NEW b, NEW c
  PROVE  IntakeFingerprint(b) # Fingerprint(c)
<1>1. "trigger" \notin DOMAIN IntakeFingerprint(b) /\ "trigger" \in DOMAIN Fingerprint(c)
  BY DEF IntakeFingerprint, Fingerprint
<1>2. QED
  BY <1>1

\* A success the cache answers a call with is of the call's own trigger.
LEMMA CachedAnswer ==
  ASSUME AnswerInv, NEW c \in Commands, NEW i \in DOMAIN log,
         ~Conflicts(Fingerprint(c), log[i].fp), log[i].outcome = "SUCCESS"
  PROVE  log[i].trigger = c.trigger
<1>1. Printed(log[i])
  BY DEF AnswerInv
<1>2. log[i].fp \in Fingerprints
  BY <1>1 DEF Printed, Fingerprints
<1>3. log[i].fp = Fingerprint(c)
  BY <1>2, FingerprintAssumption DEF Conflicts
<1>4. PICK d \in Commands : log[i].fp = Fingerprint(d) /\ log[i].trigger = d.trigger
  BY <1>1, <1>3, FingerprintsDiffer DEF Printed
<1>5. QED
  BY <1>3, <1>4 DEF Fingerprint

\* What a step makes of the reply: none, one that names no event, the old one, one
\* from the cache, or one that names the event just logged.
LEMMA ReplyStep ==
  ASSUME TypeOK, AnswerInv, [Next]_vars
  PROVE  \/ reply' = None \/ reply'.event = 0 \/ reply' = reply
         \/ /\ log' = log
            /\ \E i \in DOMAIN log :
                 /\ reply'.event = i
                 /\ log[i].outcome = "SUCCESS" => log[i].trigger = reply'.trigger
         \/ \E e \in EventType :
              log' = Append(log, e) /\ reply'.event = Len(log) + 1 /\ reply'.trigger = e.trigger
<1>1. ASSUME NEW c \in Intakes,
             \/ ReturnExisting(c) \/ RefuseIntake(c) \/ CreateTaskRaises(c)
             \/ CreateTaskFails(c) \/ CreateTaskCrash(c)
      PROVE  reply' = None \/ reply'.event = 0
  BY <1>1 DEF ReturnExisting, RefuseIntake, CreateTaskRaises, CreateTaskFails, WriteFails,
              CreateTaskCrash, CrashAfterEvent, Reopened, Reply
<1>2. ASSUME NEW c \in Intakes, CreateTask(c)
      PROVE  \E e \in EventType :
               log' = Append(log, e) /\ reply'.event = Len(log) + 1 /\ reply'.trigger = e.trigger
  <2>1. /\ log' = Append(log, CreatedEvent(c))
        /\ reply' = Reply(c.task, "CREATED", Len(log) + 1, None)
    BY <1>2 DEF CreateTask, Accept, Intake, StoreEvent
  <2>2. CreatedEvent(c) \in EventType /\ CreatedEvent(c).trigger = "CREATED"
    BY CreatedEventType DEF CreatedEvent
  <2>3. QED
    BY <2>1, <2>2 DEF Reply
<1>3. ASSUME NEW c \in Commands,
             \/ TaskNotFound(c) \/ RefuseSecret(c) \/ RecordRejectionFails(c)
             \/ TransitionRaises(c) \/ TransitionFails(c) \/ TransitionCrash(c)
      PROVE  reply' = None \/ reply'.event = 0
  <2>1. CASE TaskNotFound(c) \/ RefuseSecret(c)
    BY <2>1 DEF TaskNotFound, RefuseSecret, Reply
  <2>2. CASE RecordRejectionFails(c) \/ TransitionFails(c)
    BY <2>2 DEF RecordRejectionFails, TransitionFails, WriteFails
  <2>3. CASE TransitionRaises(c) \/ TransitionCrash(c)
    BY <2>3 DEF TransitionRaises, TransitionCrash, CrashAfterEvent, Reopened
  <2>4. QED
    BY <1>3, <2>1, <2>2, <2>3
<1>4. ASSUME NEW c \in Commands, ReplayCached(c)
      PROVE  \/ reply'.event = 0
             \/ /\ log' = log
                /\ \E i \in DOMAIN log :
                     /\ reply'.event = i
                     /\ log[i].outcome = "SUCCESS" => log[i].trigger = reply'.trigger
  <2>1. log' = log
    BY <1>4 DEF ReplayCached
  <2>2. CASE \E u \in Remembered(c) : ReplaysOutcome(c, unwritten[u], 0)
    BY <2>2 DEF ReplaysOutcome, Reply
  <2>3. CASE \E i \in Cached(c) : ReplaysOutcome(c, log[i], i)
    <3>1. PICK i \in Cached(c) : ReplaysOutcome(c, log[i], i)
      BY <2>3
    <3>2. CASE Conflicts(Fingerprint(c), log[i].fp)
      BY <3>1, <3>2 DEF ReplaysOutcome, Reply
    <3>3. CASE ~Conflicts(Fingerprint(c), log[i].fp)
      <4>1. reply'.event = i /\ reply'.trigger = c.trigger
        BY <3>1, <3>3 DEF ReplaysOutcome, Reply
      <4>2. i \in DOMAIN log
        BY DEF Cached
      <4>3. log[i].outcome = "SUCCESS" => log[i].trigger = c.trigger
        BY <3>3, <4>2, CachedAnswer
      <4>4. QED
        BY <2>1, <4>1, <4>2, <4>3
    <3>4. QED
      BY <3>2, <3>3
  <2>4. QED
    BY <1>4, <2>2, <2>3 DEF ReplayCached
<1>5. ASSUME NEW c \in Commands, RecordRejection(c)
      PROVE  \E e \in EventType :
               log' = Append(log, e) /\ reply'.event = Len(log) + 1 /\ reply'.trigger = e.trigger
  <2>1. PICK i \in DOMAIN GuardOrder : AppendEvent(RejectedEvent(c, GuardOrder[i]))
    BY <1>5 DEF RecordRejection
  <2> DEFINE e == RejectedEvent(c, GuardOrder[i])
  <2>2. e \in EventType
    BY <1>5, RejectedEventType DEF RecordRejection, Arrives
  <2>3. AppendEvent(e)
    BY <2>1
  <2> HIDE DEF e
  <2>4. QED
    BY <2>2, <2>3 DEF AppendEvent, StoreEvent, Reply
<1>6. ASSUME NEW c \in Commands, ApplyTransition(c)
      PROVE  \E e \in EventType :
               log' = Append(log, e) /\ reply'.event = Len(log) + 1 /\ reply'.trigger = e.trigger
  <2>1. PICK n \in NextStates(c) : StoreEvent(SuccessEvent(c, n))
    BY <1>6 DEF ApplyTransition, Moved, Move
  <2> DEFINE e == SuccessEvent(c, n)
  <2>2. e \in EventType
    BY <1>6, SuccessEventType DEF ApplyTransition, Moved, Move, Admitted, Arrives
  <2>3. log' = Append(log, e) /\ e.trigger = c.trigger
    BY <2>1 DEF StoreEvent, SuccessEvent
  <2> HIDE DEF e
  <2>4. reply'.event = Len(log) + 1 /\ reply'.trigger = c.trigger
    BY <1>6 DEF ApplyTransition, Moved, Reply
  <2>5. QED
    BY <2>2, <2>3, <2>4
<1>7. CASE Restart \/ Governance \/ Enrollment \/ Watchdog \/ UNCHANGED vars
  BY <1>7 DEF Restart, Reopened, Governance, Enrollment, Watchdog, vars, coordinatorVars
<1>8. QED
  BY <1>1, <1>2, <1>3, <1>4, <1>5, <1>6, <1>7 DEF Next

\* The answers' invariant is inductive, given types.
LEMMA AnswerInvariant == Spec => []AnswerInv
<1>1. Init => AnswerInv
  BY DEF Init, AnswerInv
<1>2. ASSUME TypeOK, AnswerInv, [Next]_vars
      PROVE  AnswerInv'
  <2>1. log' = log \/ \E e \in EventType : Printed(e) /\ log' = Append(log, e)
    BY <1>2, LogStep
  <2>2. \A e \in EventType : log' = Append(log, e) =>
          /\ DOMAIN log' = DOMAIN log \cup {Len(log) + 1}
          /\ \A i \in DOMAIN log : log'[i] = log[i]
          /\ log'[Len(log) + 1] = e
    BY <1>2, AppendedEvent DEF TypeOK
  <2>3. \A i \in DOMAIN log : i \in DOMAIN log' /\ log'[i] = log[i]
    BY <2>1, <2>2
  <2>4. \A i \in DOMAIN log' : Printed(log'[i])
    BY <1>2, <2>1, <2>2 DEF AnswerInv
  <2>5. (reply' # None /\ reply'.event # 0) =>
          reply'.event \in DOMAIN log' /\
            (log'[reply'.event].outcome = "SUCCESS" => log'[reply'.event].trigger = reply'.trigger)
    BY <1>2, <2>2, <2>3, ReplyStep DEF AnswerInv
  <2>6. QED
    BY <2>4, <2>5 DEF AnswerInv, Printed
<1>3. QED
  BY <1>1, <1>2, TypeCorrect, PTL DEF Spec

\* Whatever keys callers reuse, for whatever tasks and triggers, and across
\* restarts: an answer that reports a success is about the caller's own trigger.
THEOREM SuccessesAnswerTheirCalls == Spec => []SuccessAnswersTheCall
<1>1. AnswerInv => SuccessAnswersTheCall
  BY DEF AnswerInv, SuccessAnswersTheCall
<1>2. QED
  BY <1>1, AnswerInvariant, PTL

-----------------------------------------------------------------------------
(* The log as a durable one. *)

\* The entries of a log, and one more for one more event.
EntriesOf(l) == [i \in DOMAIN l |-> [key |-> <<l[i].actor, l[i].request>>, id |-> i]]

LEMMA EntryAdded ==
  ASSUME NEW l \in Seq(EventType), NEW e \in EventType
  PROVE  EntriesOf(Append(l, e)) =
           Append(EntriesOf(l), [key |-> <<e.actor, e.request>>, id |-> Len(l) + 1])
<1> DEFINE l2 == Append(l, e)
           n == Len(l)
           x == [key |-> <<e.actor, e.request>>, id |-> n + 1]
           S == EntriesOf(l)
           T == EntriesOf(l2)
           U == [key : Agents \X (Keys \cup Nat), id : Nat]
<1>1. /\ n \in Nat /\ DOMAIN l = 1 .. n /\ DOMAIN l2 = 1 .. (n + 1)
      /\ \A i \in 1 .. n : l2[i] = l[i]
      /\ l2[n + 1] = e
      /\ l2 \in Seq(EventType)
  OBVIOUS
<1>2. \A i \in 1 .. (n + 1) : [key |-> <<l2[i].actor, l2[i].request>>, id |-> i] \in U
  <2> SUFFICES ASSUME NEW i \in 1 .. (n + 1)
               PROVE  [key |-> <<l2[i].actor, l2[i].request>>, id |-> i] \in U
    OBVIOUS
  <2> HIDE DEF l2
  <2>1. l2[i].actor \in Agents /\ l2[i].request \in Keys \cup Nat /\ i \in Nat
    BY <1>1, EventFields
  <2>2. QED
    BY <2>1
<1> HIDE DEF l2, n, U
<1>3. T \in Seq(U) /\ Len(T) = n + 1
  BY <1>1, <1>2 DEF EntriesOf
<1>4. S \in Seq(U) /\ Len(S) = n
  BY <1>1, <1>2 DEF EntriesOf
<1>5. \A i \in 1 .. n : T[i] = S[i]
  BY <1>1 DEF EntriesOf
<1>6. T[n + 1] = x /\ x \in U
  <2>1. n + 1 \in DOMAIN l2
    BY <1>1
  <2>2. T[n + 1] = [key |-> <<l2[n + 1].actor, l2[n + 1].request>>, id |-> n + 1]
    BY <2>1 DEF EntriesOf
  <2>3. T[n + 1] = x
    BY <1>1, <2>2
  <2>4. QED
    BY <1>1, <1>2, <2>2, <2>3
<1> HIDE DEF S, T, x
<1>7. T = Append(S, x)
  BY <1>1, <1>3, <1>4, <1>5, <1>6
<1>8. QED
  BY <1>7 DEF S, T, x, l2, n

\* The coordinator uses its log as a durable one: it never rewrites an entry, adds
\* under new keys only, and answers from what is there, however often it is
\* restarted or dies, as long as no event of its process could not be written.
THEOREM LogIsUsedAsDurable == Spec => UsesDurableLog
<1>1. Init => Durable!DurableInit
  <2> SUFFICES ASSUME Init PROVE Durable!DurableInit
    OBVIOUS
  <2>1. log = <<>> /\ reply = None /\ DOMAIN log = {} /\ DOMAIN unwritten = {}
    BY DEF Init
  <2>2. QED
    BY <2>1 DEF Durable!DurableInit, LogEntries, Told, Served
<1>2. ASSUME TypeOK, AnswerInv', [Next]_vars, unwritten' = <<>>
      PROVE  Durable!DurableNext
  <2>1. LogEntries = EntriesOf(log) /\ LogEntries' = EntriesOf(log') /\ log \in Seq(EventType)
    BY <1>2 DEF LogEntries, EntriesOf, TypeOK
  <2>2. Served' = Durable!EntriesOf(LogEntries')
    <3>1. DOMAIN unwritten' = {}
      BY <1>2
    <3>2. QED
      BY <3>1 DEF Served, Durable!EntriesOf, LogEntries
  <2>3. Told' \subseteq Durable!EntriesOf(LogEntries')
    <3>1. (reply' # None /\ reply'.event # 0) => reply'.event \in DOMAIN log'
      BY <1>2 DEF AnswerInv
    <3>2. QED
      BY <3>1 DEF Told, Durable!EntriesOf, LogEntries
  <2>4. CASE log' = log
    <3>1. LogEntries' = LogEntries
      BY <2>4 DEF LogEntries
    <3>2. QED
      BY <2>2, <2>3, <3>1 DEF Durable!DurableNext, Durable!Serves
  <2>5. ASSUME NEW e \in EventType, IsNew(e), log' = Append(log, e)
        PROVE  Durable!Store
    <3> DEFINE x == [key |-> <<e.actor, e.request>>, id |-> Len(log) + 1]
    <3>1. LogEntries' = Append(LogEntries, x)
      BY <2>1, <2>5, EntryAdded
    <3>2. x \in Durable!EntriesOf(LogEntries')
      <4>1. Len(log) + 1 \in DOMAIN log' /\ log'[Len(log) + 1] = e
        BY <2>1, <2>5
      <4>2. LogEntries'[Len(log) + 1] = x /\ Len(log) + 1 \in DOMAIN LogEntries'
        BY <4>1 DEF LogEntries
      <4>3. QED
        BY <4>2 DEF Durable!EntriesOf
    <3>3. \A d \in Durable!EntriesOf(LogEntries) : d.key # x.key /\ d.id < x.id
      <4> SUFFICES ASSUME NEW i \in DOMAIN log
                   PROVE  LogEntries[i].key # x.key /\ LogEntries[i].id < x.id
        BY DEF Durable!EntriesOf, LogEntries
      <4>1. LogEntries[i].key = <<log[i].actor, log[i].request>> /\ LogEntries[i].id = i
        BY DEF LogEntries
      <4>2. i < Len(log) + 1
        BY <2>1
      <4>3. <<log[i].actor, log[i].request>> # <<e.actor, e.request>>
        BY <2>5 DEF IsNew
      <4>4. QED
        BY <4>1, <4>2, <4>3
    <3> HIDE DEF x
    <3>4. QED
      BY <3>1, <3>2, <3>3 DEF Durable!Store
  <2>6. QED
    BY <1>2, <2>2, <2>3, <2>4, <2>5, LogStep DEF Durable!DurableNext, Durable!Serves
<1>3. QED
  <2>1. TypeOK /\ AnswerInv' /\ [Next]_vars => [unwritten' = <<>> => Durable!DurableNext]_vars
    BY <1>2
  <2>2. QED
    BY <1>1, <2>1, TypeCorrect, AnswerInvariant, PTL DEF Spec, UsesDurableLog
=============================================================================
