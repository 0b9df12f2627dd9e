--------------------------- MODULE WhiteTeam_proofs ---------------------------
(***************************************************************************)
(* Proofs about WhiteTeam, for every set of tasks, agents, scopes and      *)
(* calls: what a rebuild of its memory from the ledger changes, and what   *)
(* the ledger shows of every widening of a scope.                          *)
(***************************************************************************)
EXTENDS WhiteTeam, TLAPS, FiniteSetTheorems, WellFoundedInduction

\* Record i is the last declaration ledger l has of task t.
IsLast(l, t, i) == i \in DeclarationsOf(l, t) /\ \A j \in DeclarationsOf(l, t) : j <= i

\* A task has a scope when the ledger has one for it, and then the last one.
ScopeMatches(d, l, t) ==
  \/ d = None /\ DeclarationsOf(l, t) = {}
  \/ d # None /\ \E i \in DeclarationsOf(l, t) : IsLast(l, t, i) /\ d.scope = l[i].scope

\* The largest element of a set of numbers.
Latest(S) == CHOOSE i \in S : \A j \in S : j <= i

\* What a rebuild makes of ledger l, read off the records that matter.
RebuiltScopes(l) ==
  [t \in Tasks |->
     IF DeclarationsOf(l, t) = {} THEN None
     ELSE LET last == l[Latest(DeclarationsOf(l, t))]
          IN  [scope |-> last.scope, risk |-> last.risk,
               version |-> Cardinality(DeclarationsOf(l, t))]]

RebuiltApprovals(l) == OfType(l, "approval")

RebuiltRevoked(l) == {l[i].subject : i \in Decisions(l, "approval_revoked")}

RebuiltPauses(l) ==
  {t \in Tasks : \E i \in OfType(l, "pause") :
     /\ l[i].task = t
     /\ \A j \in Decisions(l, "pause_lifted") : l[j].task = t => j < i}

Restored(l) == [scopes |-> RebuiltScopes(l), approvals |-> RebuiltApprovals(l),
                revoked |-> RebuiltRevoked(l), pauses |-> RebuiltPauses(l)]

\* What memory owes the ledger, piece by piece.
PausesKept == pauses \subseteq RebuiltPauses(ledger)
ApprovalsKept == approvals = RebuiltApprovals(ledger)
RevocationsKept == RebuiltRevoked(ledger) \subseteq revoked
ScopesKept == \A t \in Tasks : ScopeMatches(scopes[t], ledger, t)

\* The ledger has other writers too (green, the coordinator): X is the set of
\* their records, of other types than the white team's.
Foreign(X) ==
  \A r \in X : r.type \notin {"scope_declaration", "approval", "decision", "pause"}

RecordsWith(X) == RecordType \cup X

\* TypeOK of a ledger that holds such records.
TypesWith(X) ==
  /\ ledger \in Seq(RecordsWith(X))
  /\ scopes \in [Tasks -> ScopeDeclaration \cup {None}]
  /\ approvals \subseteq OfType(ledger, "approval")
  /\ revoked \subseteq approvals
  /\ pauses \subseteq Tasks
  /\ RegistryType
  /\ now \in Nat

MemoryInv(X) == TypesWith(X) /\ PausesKept /\ ApprovalsKept /\ RevocationsKept /\ ScopesKept

-----------------------------------------------------------------------------
(* Operators *)

\* The largest element of a set of numbers is the one no other exceeds.
LEMMA LatestIs ==
  ASSUME NEW S \in SUBSET Nat, NEW i \in S, \A j \in S : j <= i
  PROVE  Latest(S) = i
<1>1. Latest(S) \in S /\ \A j \in S : j <= Latest(S)
  BY Zenon DEF Latest
<1>2. Latest(S) <= i /\ i <= Latest(S) /\ i \in Nat /\ Latest(S) \in Nat
  BY <1>1
<1>3. QED
  BY <1>2

\* A ledger one record longer.
LEMMA AppendedRecord ==
  ASSUME NEW R, NEW l \in Seq(R), NEW r \in R
  PROVE  LET m == Append(l, r)  n == Len(l) + 1
         IN  /\ m \in Seq(R)
             /\ n \in Nat /\ n \notin DOMAIN l
             /\ DOMAIN l \subseteq Nat
             /\ DOMAIN m = DOMAIN l \cup {n}
             /\ \A i \in DOMAIN l : i < n /\ m[i] = l[i]
             /\ m[n] = r
  OBVIOUS

\* ... and what it tells of each kind of record.
LEMMA AppendedKinds ==
  ASSUME NEW R, NEW l \in Seq(R), NEW r \in R
  PROVE  LET m == Append(l, r)  n == Len(l) + 1
         IN  /\ \A type : OfType(m, type) = IF r.type = type THEN OfType(l, type) \cup {n}
                                            ELSE OfType(l, type)
             /\ \A t : DeclarationsOf(m, t) = IF r.type = "scope_declaration" /\ r.task = t
                                              THEN DeclarationsOf(l, t) \cup {n}
                                              ELSE DeclarationsOf(l, t)
             /\ \A d : Decisions(m, d) = IF r.type = "decision" /\ r.decision = d
                                         THEN Decisions(l, d) \cup {n} ELSE Decisions(l, d)
<1> DEFINE m == Append(l, r)
           n == Len(l) + 1
<1>1. /\ n \notin DOMAIN l /\ DOMAIN m = DOMAIN l \cup {n}
      /\ \A i \in DOMAIN l : m[i] = l[i]
      /\ m[n] = r
  BY AppendedRecord
<1> HIDE DEF m, n
<1>2. \A type : OfType(m, type) = IF r.type = type THEN OfType(l, type) \cup {n}
                                  ELSE OfType(l, type)
  BY <1>1 DEF OfType
<1>3. \A type : OfType(l, type) \subseteq DOMAIN l
  BY DEF OfType
<1>4. \A t : DeclarationsOf(m, t) = IF r.type = "scope_declaration" /\ r.task = t
                                    THEN DeclarationsOf(l, t) \cup {n}
                                    ELSE DeclarationsOf(l, t)
  BY <1>1, <1>2, <1>3 DEF DeclarationsOf
<1>5. \A d : Decisions(m, d) = IF r.type = "decision" /\ r.decision = d
                               THEN Decisions(l, d) \cup {n} ELSE Decisions(l, d)
  BY <1>1, <1>2, <1>3 DEF Decisions
<1>6. QED
  BY <1>2, <1>4, <1>5 DEF m, n

\* The sets of records of a ledger lie within it.
LEMMA KindsWithin ==
  ASSUME NEW R, NEW l \in Seq(R)
  PROVE  /\ \A type : OfType(l, type) \subseteq DOMAIN l
         /\ \A t : DeclarationsOf(l, t) \subseteq DOMAIN l
         /\ \A d : Decisions(l, d) \subseteq DOMAIN l
         /\ DOMAIN l \subseteq Nat
BY DEF OfType, DeclarationsOf, Decisions

\* A record of the white team's types is one of its own.
LEMMA OwnRecord ==
  ASSUME NEW X, Foreign(X), NEW r \in RecordsWith(X),
         r.type \in {"scope_declaration", "approval", "decision", "pause"}
  PROVE  r \in RecordType
BY DEF Foreign, RecordsWith

\* Without other writers the invariant is about the ledger TypeOK describes.
LEMMA Alone ==
  /\ RecordsWith({}) = RecordType
  /\ Foreign({})
  /\ MemoryInv({}) => TypeOK
BY DEF RecordsWith, Foreign, MemoryInv, TypesWith, TypeOK

\* Every record the calls write has its type.
LEMMA RecordsTyped ==
  ASSUME NEW X, now \in Nat
  PROVE  /\ \A t \in Tasks, scope \in SUBSET Entries, risk \in Risks :
              DeclarationRecord(t, scope, risk) \in RecordsWith(X)
         /\ \A c \in ApprovalCall : ApprovalRecord(c) \in RecordsWith(X)
         /\ \A t \in Tasks, i \in Nat : DecisionRecord(t, "approval_revoked", i) \in RecordsWith(X)
         /\ \A t \in Tasks : /\ DecisionRecord(t, "pause_lifted", t) \in RecordsWith(X)
                             /\ DecisionRecord(t, "escalation", t) \in RecordsWith(X)
                             /\ PauseRecord(t) \in RecordsWith(X)
         /\ \A t \in Tasks, risk \in Risks :
              DecisionRecord(t, "risk_reclassification", risk) \in RecordsWith(X)
<1>2. \A t \in Tasks, scope \in SUBSET Entries, risk \in Risks :
        DeclarationRecord(t, scope, risk) \in RecordsWith(X)
  BY DEF DeclarationRecord, RecordsWith, RecordType
<1>3. \A c \in ApprovalCall : ApprovalRecord(c) \in RecordsWith(X)
  BY DEF ApprovalRecord, ApprovalCall, RecordsWith, RecordType
<1>4. \A t \in Tasks, i \in Nat : DecisionRecord(t, "approval_revoked", i) \in RecordsWith(X)
  BY DEF DecisionRecord, RecordsWith, RecordType
<1>5. \A t \in Tasks : /\ DecisionRecord(t, "pause_lifted", t) \in RecordsWith(X)
                       /\ DecisionRecord(t, "escalation", t) \in RecordsWith(X)
                       /\ PauseRecord(t) \in RecordsWith(X)
  BY DEF DecisionRecord, PauseRecord, RecordsWith, RecordType
<1>6. \A t \in Tasks, risk \in Risks :
        DecisionRecord(t, "risk_reclassification", risk) \in RecordsWith(X)
  BY DEF DecisionRecord, RecordsWith, RecordType
<1>7. QED
  BY <1>2, <1>3, <1>4, <1>5, <1>6

-----------------------------------------------------------------------------
(* What a new record changes in the rebuild *)

LEMMA RebuiltAfter ==
  ASSUME NEW R, NEW l \in Seq(R), NEW r \in R
  PROVE  LET m == Append(l, r)  n == Len(l) + 1
             Is(d) == r.type = "decision" /\ r.decision = d
         IN  /\ RebuiltApprovals(m) = IF r.type = "approval" THEN RebuiltApprovals(l) \cup {n}
                                      ELSE RebuiltApprovals(l)
             /\ RebuiltRevoked(m) = IF Is("approval_revoked") THEN RebuiltRevoked(l) \cup {r.subject}
                                    ELSE RebuiltRevoked(l)
             /\ RebuiltPauses(l) \ (IF Is("pause_lifted") THEN {r.task} ELSE {}) \subseteq RebuiltPauses(m)
             /\ r.type = "pause" /\ r.task \in Tasks => r.task \in RebuiltPauses(m)
<1> DEFINE m == Append(l, r)
           n == Len(l) + 1
           Is(d) == r.type = "decision" /\ r.decision = d
<1>1. /\ n \in Nat /\ n \notin DOMAIN l /\ DOMAIN l \subseteq Nat /\ DOMAIN m = DOMAIN l \cup {n}
      /\ \A i \in DOMAIN l : i < n /\ m[i] = l[i]
      /\ m[n] = r
  BY AppendedRecord
<1>2. /\ \A type : OfType(m, type) = IF r.type = type THEN OfType(l, type) \cup {n}
                                      ELSE OfType(l, type)
      /\ \A d : Decisions(m, d) = IF Is(d) THEN Decisions(l, d) \cup {n} ELSE Decisions(l, d)
  BY AppendedKinds
<1>3. /\ \A type : OfType(l, type) \subseteq DOMAIN l
      /\ \A d : Decisions(l, d) \subseteq DOMAIN l
  BY KindsWithin
<1> HIDE DEF m, n
<1>4. RebuiltApprovals(m) = IF r.type = "approval" THEN RebuiltApprovals(l) \cup {n}
                            ELSE RebuiltApprovals(l)
  BY <1>2 DEF RebuiltApprovals
<1>5. RebuiltRevoked(m) = IF Is("approval_revoked") THEN RebuiltRevoked(l) \cup {r.subject}
                          ELSE RebuiltRevoked(l)
  <2>1. \A i \in Decisions(l, "approval_revoked") : m[i] = l[i]
    BY <1>1, <1>3
  <2>2. CASE Is("approval_revoked")
    <3>1. Decisions(m, "approval_revoked") = Decisions(l, "approval_revoked") \cup {n}
      BY <1>2, <2>2
    <3>2. QED
      BY <1>1, <2>1, <2>2, <3>1 DEF RebuiltRevoked
  <2>3. CASE ~Is("approval_revoked")
    <3>1. Decisions(m, "approval_revoked") = Decisions(l, "approval_revoked")
      BY <1>2, <2>3
    <3>2. QED
      BY <2>1, <2>3, <3>1 DEF RebuiltRevoked
  <2>4. QED
    BY <2>2, <2>3
<1>6. ASSUME NEW t \in RebuiltPauses(l), Is("pause_lifted") => t # r.task
      PROVE  t \in RebuiltPauses(m)
  <2>1. PICK i \in OfType(l, "pause") :
               /\ l[i].task = t
               /\ \A j \in Decisions(l, "pause_lifted") : l[j].task = t => j < i
    BY DEF RebuiltPauses
  <2>2. i \in OfType(m, "pause") /\ m[i].task = t
    BY <1>1, <1>2, <1>3, <2>1
  <2>3. ASSUME NEW j \in Decisions(m, "pause_lifted"), m[j].task = t
        PROVE  j < i
    <3>1. CASE j \in Decisions(l, "pause_lifted")
      BY <1>1, <1>3, <2>1, <2>3, <3>1
    <3>2. CASE j = n /\ Is("pause_lifted")
      BY <1>1, <1>6, <2>3, <3>2
    <3>3. QED
      BY <1>2, <2>3, <3>1, <3>2
  <2>4. QED
    BY <2>2, <2>3 DEF RebuiltPauses
<1>7. ASSUME r.type = "pause", r.task \in Tasks
      PROVE  r.task \in RebuiltPauses(m)
  <2>1. n \in OfType(m, "pause") /\ m[n].task = r.task
    BY <1>1, <1>2, <1>7
  <2>2. \A j \in Decisions(m, "pause_lifted") : j < n
    <3>1. Decisions(m, "pause_lifted") = Decisions(l, "pause_lifted")
      BY <1>2, <1>7
    <3>2. QED
      BY <1>1, <1>3, <3>1
  <2>3. QED
    BY <1>7, <2>1, <2>2 DEF RebuiltPauses
<1>8. QED
  BY <1>4, <1>5, <1>6, <1>7 DEF m, n

\* A record that declares no scope leaves the scopes what they were.
LEMMA ScopesStand ==
  ASSUME NEW X, MemoryInv(X), NEW r \in RecordsWith(X), r.type # "scope_declaration",
         ledger' = Append(ledger, r) \/ ledger' = ledger,
         \A t \in Tasks : /\ scopes'[t] = None <=> scopes[t] = None
                          /\ scopes[t] # None => scopes'[t].scope = scopes[t].scope
  PROVE  ScopesKept'
<1> SUFFICES ASSUME NEW t \in Tasks PROVE ScopeMatches(scopes'[t], ledger', t)
  BY DEF ScopesKept
<1>1. ledger \in Seq(RecordsWith(X)) /\ ScopeMatches(scopes[t], ledger, t)
  BY DEF MemoryInv, TypesWith, ScopesKept
<1>2. DeclarationsOf(ledger', t) = DeclarationsOf(ledger, t)
  <2>1. DeclarationsOf(Append(ledger, r), t) = DeclarationsOf(ledger, t)
    BY <1>1, AppendedKinds
  <2>2. QED
    BY <2>1
<1>3. \A i \in DeclarationsOf(ledger, t) : ledger'[i] = ledger[i]
  BY <1>1, AppendedRecord, KindsWithin
<1>4. QED
  BY <1>1, <1>2, <1>3 DEF ScopeMatches, IsLast

\* A declaration is the last of its task, and no other task's.
LEMMA ScopeDeclared ==
  ASSUME NEW X, MemoryInv(X), NEW r \in RecordsWith(X), r.type = "scope_declaration",
         ledger' = Append(ledger, r), NEW d \in ScopeDeclaration, d.scope = r.scope,
         scopes' = [scopes EXCEPT ![r.task] = d]
  PROVE  ScopesKept'
<1> SUFFICES ASSUME NEW t \in Tasks PROVE ScopeMatches(scopes'[t], ledger', t)
  BY DEF ScopesKept
<1> DEFINE n == Len(ledger) + 1
<1>1. /\ ledger \in Seq(RecordsWith(X)) /\ ScopeMatches(scopes[t], ledger, t)
      /\ scopes \in [Tasks -> ScopeDeclaration \cup {None}]
  BY DEF MemoryInv, TypesWith, ScopesKept
<1>2. DeclarationsOf(ledger', t) = IF r.task = t THEN DeclarationsOf(ledger, t) \cup {n}
                                   ELSE DeclarationsOf(ledger, t)
  BY <1>1, AppendedKinds
<1>3. /\ n \in Nat /\ ledger'[n] = r
      /\ \A i \in DeclarationsOf(ledger, t) : i < n /\ ledger'[i] = ledger[i]
      /\ DeclarationsOf(ledger, t) \subseteq Nat
  BY <1>1, AppendedRecord, KindsWithin
<1> HIDE DEF n
<1>4. CASE r.task = t
  <2>1. IsLast(ledger', t, n)
    BY <1>2, <1>3, <1>4 DEF IsLast
  <2>2. scopes'[t] = d /\ d # None
    BY <1>1, <1>4, NoneAssumption
  <2>3. QED
    BY <1>3, <2>1, <2>2 DEF ScopeMatches, IsLast
<1>5. CASE r.task # t
  <2>1. scopes'[t] = scopes[t]
    BY <1>1, <1>5
  <2>2. QED
    BY <1>1, <1>2, <1>3, <1>5, <2>1 DEF ScopeMatches, IsLast
<1>6. QED
  BY <1>4, <1>5

-----------------------------------------------------------------------------
(* RebuiltMemory is a recursive function over the ledger.  Its four parts   *)
(* can be read off the records that matter instead (Restored): what the     *)
(* prefixes of a ledger give in this way is such a function                 *)
(* (RestoredOneMore is its step), and there is no other.                    *)

\* Every set of naturals that is not empty has a least element.
LEMMA LeastNat ==
  ASSUME NEW S \in SUBSET Nat, S # {}
  PROVE  \E m \in S : \A n \in S : m <= n
<1>1. PICK m \in S : \A n \in S : <<n, m>> \notin OpToRel(<, Nat)
  <2> DEFINE R == OpToRel(<, Nat)
  <2>1. IsWellFoundedOn(R, Nat)
    BY NatLessThanWellFounded
  <2> HIDE DEF R
  <2>2. \E m \in S : \A n \in S : ~(<<n, m>> \in R)
    BY <2>1, WFMin
  <2>3. QED
    BY <2>2 DEF R
<1>2. \A n \in S : ~(n < m)
  BY <1>1 DEF OpToRel
<1>3. QED
  BY <1>2

\* Every set of naturals that is bounded and not empty has a largest element.
LEMMA LargestNat ==
  ASSUME NEW S \in SUBSET Nat, S # {}, NEW b \in Nat, \A i \in S : i <= b
  PROVE  \E i \in S : \A j \in S : j <= i
<1> DEFINE B == {n \in Nat : \A i \in S : i <= n}
<1>1. PICK m \in B : \A n \in B : m <= n
  <2>1. b \in B
    OBVIOUS
  <2> HIDE DEF B
  <2>2. B \in SUBSET Nat
    BY DEF B
  <2>3. QED
    BY <2>1, <2>2, LeastNat
<1>2. m \in Nat /\ \A i \in S : i <= m
  OBVIOUS
<1>3. m \in S
  <2> SUFFICES ASSUME m \notin S PROVE FALSE
    OBVIOUS
  <2>1. \A i \in S : i <= m - 1
    BY <1>2
  <2>2. m - 1 \in Nat
    <3>1. PICK i \in S : i \in Nat /\ i <= m - 1
      BY <2>1
    <3>2. QED
      BY <1>2, <3>1
  <2>3. m - 1 \in B
    BY <2>1, <2>2
  <2>4. QED
    BY <1>1, <1>2, <2>3
<1>4. QED
  BY <1>2, <1>3

\* The declarations of a task are finitely many, and if any, one is the last.
LEMMA LastDeclaration ==
  ASSUME NEW R, NEW l \in Seq(R), NEW t
  PROVE  /\ IsFiniteSet(DeclarationsOf(l, t)) /\ Cardinality(DeclarationsOf(l, t)) \in Nat
         /\ DeclarationsOf(l, t) # {} => /\ Latest(DeclarationsOf(l, t)) \in DeclarationsOf(l, t)
                                         /\ IsLast(l, t, Latest(DeclarationsOf(l, t)))
<1> DEFINE D == DeclarationsOf(l, t)
<1>1. Len(l) \in Nat /\ D \subseteq 1 .. Len(l)
  BY KindsWithin
<1> HIDE DEF D
<1>2. IsFiniteSet(D) /\ Cardinality(D) \in Nat
  <2>1. IsFiniteSet(1 .. Len(l))
    BY <1>1, FS_Interval
  <2>2. QED
    BY <1>1, <2>1, FS_Subset, FS_CardinalityType
<1>3. ASSUME D # {}
      PROVE  Latest(D) \in D /\ \A j \in D : j <= Latest(D)
  <2>1. D \in SUBSET Nat /\ \A i \in D : i <= Len(l)
    BY <1>1
  <2>2. \E i \in D : \A j \in D : j <= i
    BY ONLY <1>1, <1>3, <2>1, LargestNat
  <2>3. QED
    BY <2>2, Zenon DEF Latest
<1>4. QED
  BY <1>2, <1>3 DEF D, IsLast

\* A declaration as a rebuild holds it.
Held(r, k) == [scope |-> r.scope, risk |-> r.risk, version |-> k]

LEMMA HeldTyped ==
  ASSUME NEW X, Foreign(X), NEW r \in RecordsWith(X), r.type = "scope_declaration", NEW k \in Nat
  PROVE  r.task \in Tasks /\ Held(r, k) \in ScopeDeclaration /\ Held(r, k) # None
<1>1. r \in RecordType
  BY OwnRecord
<1>2. r.task \in Tasks /\ r.scope \in SUBSET Entries /\ r.risk \in Risks
  BY <1>1 DEF RecordType
<1>3. Held(r, k) \in ScopeDeclaration
  BY <1>2 DEF Held, ScopeDeclaration
<1>4. QED
  BY <1>2, <1>3, NoneAssumption

\* The scope a rebuild takes from a ledger.
LEMMA ScopeFromLast ==
  ASSUME NEW X, Foreign(X), NEW l \in Seq(RecordsWith(X)), NEW t \in Tasks,
         DeclarationsOf(l, t) # {}
  PROVE  LET i == Latest(DeclarationsOf(l, t))
             k == Cardinality(DeclarationsOf(l, t))
         IN  /\ i \in DOMAIN l /\ k \in Nat /\ RebuiltScopes(l)[t] = Held(l[i], k)
             /\ RebuiltScopes(l)[t] # None /\ RebuiltScopes(l)[t].version = k
<1> DEFINE i == Latest(DeclarationsOf(l, t))
           k == Cardinality(DeclarationsOf(l, t))
<1>1. i \in DeclarationsOf(l, t) /\ k \in Nat
  BY LastDeclaration
<1>2. i \in DOMAIN l /\ l[i].type = "scope_declaration"
  BY <1>1 DEF DeclarationsOf, OfType
<1>3. l[i] \in RecordsWith(X)
  BY <1>2
<1>4. RebuiltScopes(l)[t] = Held(l[i], k)
  BY DEF RebuiltScopes, Held
<1>5. Held(l[i], k).version = k
  BY DEF Held
<1> HIDE DEF i, k
<1>6. Held(l[i], k) # None
  BY <1>1, <1>2, <1>3, HeldTyped
<1>7. QED
  BY <1>1, <1>2, <1>4, <1>5, <1>6 DEF i, k

\* One record more: the scopes.
LEMMA ScopesOneMore ==
  ASSUME NEW X, Foreign(X), NEW l \in Seq(RecordsWith(X)), NEW r \in RecordsWith(X),
         NEW t \in Tasks
  PROVE  RebuiltScopes(Append(l, r))[t] =
           IF r.type = "scope_declaration" /\ r.task = t
           THEN Held(r, IF RebuiltScopes(l)[t] = None THEN 1 ELSE RebuiltScopes(l)[t].version + 1)
           ELSE RebuiltScopes(l)[t]
<1> DEFINE m == Append(l, r)
           n == Len(l) + 1
           D == DeclarationsOf(l, t)
<1>1. /\ n \in Nat /\ n \notin DOMAIN l /\ DOMAIN l \subseteq Nat /\ DOMAIN m = DOMAIN l \cup {n}
      /\ \A i \in DOMAIN l : i < n /\ m[i] = l[i]
      /\ m[n] = r
      /\ m \in Seq(RecordsWith(X))
  BY AppendedRecord
<1>2. DeclarationsOf(m, t) = IF r.type = "scope_declaration" /\ r.task = t THEN D \cup {n} ELSE D
  BY AppendedKinds
<1>3. D \subseteq DOMAIN l /\ IsFiniteSet(D) /\ Cardinality(D) \in Nat
  BY KindsWithin, LastDeclaration
<1>4. D = {} => RebuiltScopes(l)[t] = None
  BY DEF RebuiltScopes
<1>5. D # {} => /\ Latest(D) \in DOMAIN l
                /\ RebuiltScopes(l)[t] = Held(l[Latest(D)], Cardinality(D))
                /\ RebuiltScopes(l)[t] # None /\ RebuiltScopes(l)[t].version = Cardinality(D)
  BY ScopeFromLast
<1> HIDE DEF m, n, D
<1>6. CASE r.type = "scope_declaration" /\ r.task = t
  <2>1. DeclarationsOf(m, t) = D \cup {n} /\ D \cup {n} \in SUBSET Nat
    BY <1>1, <1>2, <1>3, <1>6
  <2>2. Latest(D \cup {n}) = n
    <3>1. n \in D \cup {n} /\ \A j \in D \cup {n} : j <= n
      BY <1>1, <1>3
    <3>2. QED
      BY ONLY <2>1, <3>1, LatestIs
  <2>3. Cardinality(D \cup {n}) = Cardinality(D) + 1
    <3>1. n \notin D
      BY <1>1, <1>3
    <3>2. QED
      BY <1>3, <3>1, FS_AddElement
  <2>4. RebuiltScopes(m)[t] = Held(r, Cardinality(D) + 1)
    BY <1>1, <2>1, <2>2, <2>3 DEF RebuiltScopes, Held
  <2>5. Cardinality(D) + 1 = IF RebuiltScopes(l)[t] = None THEN 1 ELSE RebuiltScopes(l)[t].version + 1
    <3>1. D = {} => Cardinality(D) = 0
      BY FS_EmptySet
    <3>2. QED
      BY <1>3, <1>4, <1>5, <3>1
  <2>6. QED
    BY <1>6, <2>4, <2>5 DEF m
<1>7. CASE ~(r.type = "scope_declaration" /\ r.task = t)
  <2>1. DeclarationsOf(m, t) = D
    BY <1>2, <1>7
  <2>2. CASE D = {}
    <3>1. RebuiltScopes(m)[t] = None
      BY <2>1, <2>2 DEF RebuiltScopes
    <3>2. QED
      BY <1>4, <1>7, <2>2, <3>1 DEF m
  <2>3. CASE D # {}
    <3>1. RebuiltScopes(m)[t] = Held(m[Latest(D)], Cardinality(D))
      BY <2>1, <2>3 DEF RebuiltScopes, Held
    <3>2. m[Latest(D)] = l[Latest(D)]
      BY <1>1, <1>5, <2>3
    <3>3. QED
      BY <1>5, <1>7, <2>3, <3>1, <3>2 DEF m
  <2>4. QED
    BY <2>2, <2>3
<1>8. QED
  BY <1>6, <1>7

\* ... and the pauses.
LEMMA PausesOneMore ==
  ASSUME NEW R, NEW l \in Seq(R), NEW r \in R, r.type = "pause" => r.task \in Tasks
  PROVE  RebuiltPauses(Append(l, r)) =
           (RebuiltPauses(l)
              \ (IF r.type = "decision" /\ r.decision = "pause_lifted" THEN {r.task} ELSE {}))
           \cup (IF r.type = "pause" THEN {r.task} ELSE {})
<1> DEFINE m == Append(l, r)
           n == Len(l) + 1
           lifted == r.type = "decision" /\ r.decision = "pause_lifted"
<1>1. /\ n \in Nat /\ n \notin DOMAIN l /\ DOMAIN l \subseteq Nat
      /\ \A i \in DOMAIN l : i < n /\ m[i] = l[i]
      /\ m[n] = r
  BY AppendedRecord
<1>2. /\ OfType(m, "pause") = IF r.type = "pause" THEN OfType(l, "pause") \cup {n} ELSE OfType(l, "pause")
      /\ Decisions(m, "pause_lifted") = IF lifted THEN Decisions(l, "pause_lifted") \cup {n}
                                        ELSE Decisions(l, "pause_lifted")
  BY AppendedKinds
<1>3. OfType(l, "pause") \subseteq DOMAIN l /\ Decisions(l, "pause_lifted") \subseteq DOMAIN l
  BY KindsWithin
<1>4. /\ RebuiltPauses(l) \ (IF lifted THEN {r.task} ELSE {}) \subseteq RebuiltPauses(m)
      /\ r.type = "pause" => r.task \in RebuiltPauses(m)
  BY RebuiltAfter
<1> HIDE DEF m, n
<1>5. ASSUME NEW t \in RebuiltPauses(m), ~(r.type = "pause" /\ t = r.task)
      PROVE  t \in RebuiltPauses(l) /\ ~(lifted /\ t = r.task)
  <2>1. PICK i \in OfType(m, "pause") :
               /\ m[i].task = t
               /\ \A j \in Decisions(m, "pause_lifted") : m[j].task = t => j < i
    BY DEF RebuiltPauses
  <2>2. i \in OfType(l, "pause") /\ i \in DOMAIN l
    BY <1>1, <1>2, <1>3, <1>5, <2>1
  <2>3. ASSUME NEW j \in Decisions(l, "pause_lifted"), l[j].task = t
        PROVE  j < i
    BY <1>1, <1>2, <1>3, <2>1, <2>3
  <2>4. t \in RebuiltPauses(l)
    BY <1>1, <2>1, <2>2, <2>3 DEF RebuiltPauses
  <2>5. ASSUME lifted, t = r.task
        PROVE  FALSE
    <3>1. n < i /\ i < n
      BY <1>1, <1>2, <2>1, <2>2, <2>5
    <3>2. QED
      BY <1>1, <2>2, <3>1
  <2>6. QED
    BY <2>4, <2>5
<1> HIDE DEF lifted
<1>6. QED
  BY <1>4, <1>5 DEF m, lifted

\* One record more is one step more of the loop.
LEMMA RestoredOneMore ==
  ASSUME NEW X, Foreign(X), NEW l \in Seq(RecordsWith(X)), NEW r \in RecordsWith(X)
  PROVE  Restored(Append(l, r)) = RebuildStep(Restored(l), r, Len(l) + 1)
<1> DEFINE m == Append(l, r)
           n == Len(l) + 1
           s == RebuiltScopes(l)
           d == Held(r, IF s[r.task] = None THEN 1 ELSE s[r.task].version + 1)
<1>1. RebuiltScopes(m) = IF r.type # "scope_declaration" THEN s ELSE [s EXCEPT ![r.task] = d]
  <2>1. \A t \in Tasks : RebuiltScopes(m)[t] = IF r.type = "scope_declaration" /\ r.task = t THEN d ELSE s[t]
    BY ScopesOneMore
  <2>2. s = [t \in Tasks |-> s[t]] /\ RebuiltScopes(m) = [t \in Tasks |-> RebuiltScopes(m)[t]]
    BY DEF RebuiltScopes
  <2> HIDE DEF m, s, d
  <2>3. QED
    BY <2>1, <2>2
<1>2. /\ RebuiltApprovals(m) = IF r.type = "approval" THEN RebuiltApprovals(l) \cup {n} ELSE RebuiltApprovals(l)
      /\ RebuiltRevoked(m) = IF r.type = "decision" /\ r.decision = "approval_revoked"
                             THEN RebuiltRevoked(l) \cup {r.subject} ELSE RebuiltRevoked(l)
  BY RebuiltAfter
<1>3. RebuiltPauses(m) =
        (RebuiltPauses(l)
           \ (IF r.type = "decision" /\ r.decision = "pause_lifted" THEN {r.task} ELSE {}))
        \cup (IF r.type = "pause" THEN {r.task} ELSE {})
  <2>1. r.type = "pause" => r.task \in Tasks
    BY OwnRecord DEF RecordType
  <2>2. QED
    BY <2>1, PausesOneMore
<1>4. RebuildStep(Restored(l), r, n) =
        [scopes    |-> IF r.type # "scope_declaration" THEN s ELSE [s EXCEPT ![r.task] = d],
         approvals |-> IF r.type = "approval" THEN RebuiltApprovals(l) \cup {n} ELSE RebuiltApprovals(l),
         revoked   |-> IF r.type = "decision" /\ r.decision = "approval_revoked"
                       THEN RebuiltRevoked(l) \cup {r.subject} ELSE RebuiltRevoked(l),
         pauses    |-> (RebuiltPauses(l)
                          \ (IF r.type = "decision" /\ r.decision = "pause_lifted" THEN {r.task} ELSE {}))
                       \cup (IF r.type = "pause" THEN {r.task} ELSE {})]
  BY DEF RebuildStep, Restored, Held, Lifts
<1> HIDE DEF m, n, s, d
<1>5. QED
  BY <1>1, <1>2, <1>3, <1>4 DEF Restored, m, n

\* The first n records of a ledger are a ledger, whose n-th record is the last.
LEMMA LedgerPrefix ==
  ASSUME NEW R, NEW l \in Seq(R), NEW n \in 0 .. Len(l)
  PROVE  LET p == SubSeq(l, 1, n)
         IN  /\ p \in Seq(R) /\ Len(p) = n
             /\ n = 0 => p = <<>>
             /\ n # 0 => /\ l[n] \in R /\ n - 1 \in 0 .. Len(l)
                         /\ p = Append(SubSeq(l, 1, n - 1), l[n])
             /\ n = Len(l) => p = l
OBVIOUS

\* The memory rebuilt from each prefix, in closed form, is what the loop asks for.
LEMMA PrefixesAreALoop ==
  ASSUME NEW X, Foreign(X), NEW l \in Seq(RecordsWith(X)), NEW n \in 0 .. Len(l)
  PROVE  Restored(SubSeq(l, 1, n)) =
           IF n = 0 THEN EmptyMemory ELSE RebuildStep(Restored(SubSeq(l, 1, n - 1)), l[n], n)
<1> DEFINE p(k) == SubSeq(l, 1, k)
<1>1. CASE n = 0
  <2>1. p(n) = <<>>
    BY <1>1, LedgerPrefix
  <2>2. /\ \A type : OfType(p(n), type) = {} /\ \A t : DeclarationsOf(p(n), t) = {}
        /\ \A d : Decisions(p(n), d) = {}
    BY <2>1 DEF OfType, DeclarationsOf, Decisions
  <2>3. Restored(p(n)) = EmptyMemory
    BY <2>2 DEF Restored, EmptyMemory, RebuiltScopes, RebuiltApprovals, RebuiltRevoked, RebuiltPauses
  <2>4. QED
    BY <1>1, <2>3
<1>2. CASE n # 0
  <2>1. /\ l[n] \in RecordsWith(X) /\ n - 1 \in 0 .. Len(l) /\ p(n) = Append(p(n - 1), l[n])
        /\ n \in Nat
    BY <1>2, LedgerPrefix
  <2>2. p(n - 1) \in Seq(RecordsWith(X)) /\ Len(p(n - 1)) = n - 1
    BY <2>1, LedgerPrefix
  <2> HIDE DEF p
  <2>3. Restored(p(n)) = RebuildStep(Restored(p(n - 1)), l[n], Len(p(n - 1)) + 1)
    BY <2>1, <2>2, RestoredOneMore
  <2>4. Len(p(n - 1)) + 1 = n
    BY <2>1, <2>2
  <2>5. QED
    BY <1>2, <2>3, <2>4 DEF p
<1>3. QED
  BY <1>1, <1>2

\* Function f meets the definition of the loop over l.
IsLoop(l, f) == f = [n \in 0 .. Len(l) |-> IF n = 0 THEN EmptyMemory ELSE RebuildStep(f[n - 1], l[n], n)]

\* No two functions do: the first place where they differ cannot be the first.
LEMMA LoopIsUnique ==
  ASSUME NEW R, NEW l \in Seq(R), NEW f, NEW g, IsLoop(l, f), IsLoop(l, g)
  PROVE  f = g
<1> DEFINE D == {n \in 0 .. Len(l) : f[n] # g[n]}
<1>1. DOMAIN f = 0 .. Len(l) /\ DOMAIN g = 0 .. Len(l) /\ Len(l) \in Nat
  BY DEF IsLoop
<1>2. D = {}
  <2> SUFFICES ASSUME D # {} PROVE FALSE
    OBVIOUS
  <2>1. D \in SUBSET Nat
    BY <1>1
  <2>2. PICK m \in D : \A n \in D : m <= n
    BY ONLY <2>1, D # {}, LeastNat
  <2>3. m \in 0 .. Len(l) /\ f[m] # g[m]
    OBVIOUS
  <2>4. m # 0
    BY <2>3 DEF IsLoop
  <2>5. m - 1 \in 0 .. Len(l) /\ ~(m <= m - 1)
    BY <1>1, <2>3, <2>4
  <2>6. f[m - 1] = g[m - 1]
    BY <2>2, <2>5
  <2>7. f[m] = RebuildStep(f[m - 1], l[m], m) /\ g[m] = RebuildStep(g[m - 1], l[m], m)
    BY <2>3, <2>4 DEF IsLoop
  <2>8. QED
    BY <2>3, <2>6, <2>7
<1>3. \A n \in 0 .. Len(l) : f[n] = g[n]
  BY <1>2
<1>4. QED
  BY <1>1, <1>3 DEF IsLoop

\* A rebuild, record by record, may be read off the last declarations and the
\* last lifts.
LEMMA RebuiltIsRestored ==
  ASSUME NEW X, Foreign(X), NEW l \in Seq(RecordsWith(X))
  PROVE  RebuiltMemory(l) = Restored(l)
<1> DEFINE g == [n \in 0 .. Len(l) |-> Restored(SubSeq(l, 1, n))]
           h == CHOOSE f : IsLoop(l, f)
<1>1. IsLoop(l, g)
  <2>1. \A n \in 0 .. Len(l) : g[n] = IF n = 0 THEN EmptyMemory ELSE RebuildStep(g[n - 1], l[n], n)
    <3> SUFFICES ASSUME NEW n \in 0 .. Len(l)
                 PROVE  g[n] = IF n = 0 THEN EmptyMemory ELSE RebuildStep(g[n - 1], l[n], n)
      OBVIOUS
    <3>1. g[n] = Restored(SubSeq(l, 1, n))
      OBVIOUS
    <3>2. n # 0 => g[n - 1] = Restored(SubSeq(l, 1, n - 1))
      <4>1. n # 0 => n - 1 \in 0 .. Len(l)
        BY LedgerPrefix
      <4>2. QED
        BY <4>1
    <3>3. QED
      BY ONLY <3>1, <3>2, n \in 0 .. Len(l), l \in Seq(RecordsWith(X)), Foreign(X), PrefixesAreALoop
  <2>2. g = [n \in 0 .. Len(l) |-> g[n]]
    OBVIOUS
  <2> HIDE DEF g
  <2>3. QED
    BY <2>1, <2>2 DEF IsLoop
<1>2. g[Len(l)] = Restored(l)
  <2>1. Len(l) \in 0 .. Len(l)
    OBVIOUS
  <2>2. QED
    BY <2>1, LedgerPrefix
<1>3. RebuiltMemory(l) = h[Len(l)]
  BY DEF RebuiltMemory, IsLoop
<1> HIDE DEF g
<1>4. IsLoop(l, h)
  BY Zenon, <1>1
<1> HIDE DEF h
<1>5. h = g
  BY <1>1, <1>4, LoopIsUnique
<1>6. QED
  BY <1>2, <1>3, <1>5

\* ... and so may what the white team, whoever else writes to its ledger, makes of it.
LEMMA MemoryRebuilt ==
  ASSUME NEW X, Foreign(X), MemoryInv(X)
  PROVE  LET m == RebuiltMemory(ledger)
         IN  /\ m.scopes = RebuiltScopes(ledger) /\ m.approvals = RebuiltApprovals(ledger)
             /\ m.revoked = RebuiltRevoked(ledger) /\ m.pauses = RebuiltPauses(ledger)
<1>1. RebuiltMemory(ledger) = Restored(ledger)
  BY RebuiltIsRestored DEF MemoryInv, TypesWith
<1>2. QED
  BY <1>1 DEF Restored

-----------------------------------------------------------------------------
(* Every action keeps the invariant *)

\* What a new record leaves of the pauses, approvals and revocations it is not
\* about.
LEMMA RestStands ==
  ASSUME NEW X, MemoryInv(X), NEW r \in RecordsWith(X), ledger' = Append(ledger, r)
  PROVE  /\ ledger' \in Seq(RecordsWith(X))
         /\ r.type \notin {"decision"} /\ pauses' = pauses => PausesKept'
         /\ r.type = "decision" /\ r.decision # "pause_lifted" /\ pauses' = pauses => PausesKept'
         /\ r.type # "approval" /\ approvals' = approvals => ApprovalsKept'
         /\ r.type # "decision" /\ revoked' = revoked => RevocationsKept'
         /\ r.type = "decision" /\ r.decision # "approval_revoked" /\ revoked' = revoked
              => RevocationsKept'
<1>1. ledger \in Seq(RecordsWith(X)) /\ PausesKept /\ ApprovalsKept /\ RevocationsKept
  BY DEF MemoryInv, TypesWith
<1>2. ledger' \in Seq(RecordsWith(X))
  BY <1>1
<1>3. /\ RebuiltApprovals(ledger') = IF r.type = "approval"
                                     THEN RebuiltApprovals(ledger) \cup {Len(ledger) + 1}
                                     ELSE RebuiltApprovals(ledger)
      /\ RebuiltRevoked(ledger') = IF r.type = "decision" /\ r.decision = "approval_revoked"
                                   THEN RebuiltRevoked(ledger) \cup {r.subject}
                                   ELSE RebuiltRevoked(ledger)
      /\ RebuiltPauses(ledger) \ (IF r.type = "decision" /\ r.decision = "pause_lifted"
                                  THEN {r.task} ELSE {}) \subseteq RebuiltPauses(ledger')
  BY <1>1, RebuiltAfter
<1>4. QED
  BY <1>1, <1>2, <1>3 DEF PausesKept, ApprovalsKept, RevocationsKept

\* The calls' arguments.
LEMMA CallFields ==
  /\ \A d \in Declarations : d.task \in Tasks /\ d.scope \in SUBSET Entries /\ d.risk \in Risks
  /\ \A e \in Expansions : e[1] \in Tasks /\ e[2] \in SUBSET Entries
  /\ \A c \in Approvals : c \in ApprovalCall
BY CallsAssumption

LEMMA DeclareKeeps ==
  ASSUME NEW X, MemoryInv(X), NEW d \in Declarations, declare_scope(d)
  PROVE  MemoryInv(X)'
<1> DEFINE r == DeclarationRecord(d.task, d.scope, d.risk)
           s == [scope |-> d.scope, risk |-> d.risk, version |-> 1]
<1>1. r \in RecordsWith(X) /\ r.type = "scope_declaration" /\ r.task = d.task /\ r.scope = d.scope
  BY CallFields, RecordsTyped DEF MemoryInv, TypesWith, DeclarationRecord
<1>2. s \in ScopeDeclaration /\ s.scope = d.scope /\ d.task \in Tasks
  BY CallFields DEF ScopeDeclaration
<1>3. /\ ledger' = Append(ledger, r) /\ scopes' = [scopes EXCEPT ![d.task] = s]
      /\ UNCHANGED <<approvals, revoked, pauses, registryVars, now>>
  BY DEF declare_scope, AppendRecord
<1> HIDE DEF r, s
<1>4. ScopesKept'
  BY <1>1, <1>2, <1>3, ScopeDeclared
<1>5. PausesKept' /\ ApprovalsKept' /\ RevocationsKept' /\ ledger' \in Seq(RecordsWith(X))
  BY <1>1, <1>3, RestStands
<1>6. TypesWith(X)'
  BY <1>2, <1>3, <1>5 DEF MemoryInv, TypesWith, RegistryType, registryVars, ApprovalsKept, RebuiltApprovals
<1>7. QED
  BY <1>4, <1>5, <1>6 DEF MemoryInv

LEMMA ExpandKeeps ==
  ASSUME NEW X, MemoryInv(X), NEW e \in Expansions, NEW i \in approvals,
         expand_scope(e[1], e[2], i)
  PROVE  MemoryInv(X)'
<1> DEFINE t == e[1]
           merged == scopes[t].scope \cup e[2]
           r == DeclarationRecord(t, merged, scopes[t].risk)
           s == [scope |-> merged, risk |-> scopes[t].risk, version |-> scopes[t].version + 1]
<1>1. t \in Tasks /\ e[2] \in SUBSET Entries /\ scopes[t] \in ScopeDeclaration
  BY CallFields DEF expand_scope, MemoryInv, TypesWith
<1>2. merged \in SUBSET Entries /\ scopes[t].risk \in Risks
  BY <1>1 DEF ScopeDeclaration
<1>3. r \in RecordsWith(X) /\ r.type = "scope_declaration" /\ r.task = t /\ r.scope = merged
  BY <1>1, <1>2, RecordsTyped DEF MemoryInv, TypesWith, DeclarationRecord
<1>4. s \in ScopeDeclaration /\ s.scope = merged
  BY <1>1, <1>2 DEF ScopeDeclaration
<1>5. /\ ledger' = Append(ledger, r) /\ scopes' = [scopes EXCEPT ![t] = s]
      /\ UNCHANGED <<approvals, revoked, pauses, registryVars, now>>
  BY DEF expand_scope, AppendRecord
<1> HIDE DEF r, s, t
<1>6. ScopesKept'
  BY <1>3, <1>4, <1>5, ScopeDeclared
<1>7. PausesKept' /\ ApprovalsKept' /\ RevocationsKept' /\ ledger' \in Seq(RecordsWith(X))
  BY <1>3, <1>5, RestStands
<1>8. TypesWith(X)'
  BY <1>1, <1>4, <1>5, <1>7 DEF MemoryInv, TypesWith, RegistryType, registryVars, ApprovalsKept, RebuiltApprovals
<1>9. QED
  BY <1>6, <1>7, <1>8 DEF MemoryInv

LEMMA RaiseKeeps ==
  ASSUME NEW X, MemoryInv(X), NEW t \in Tasks, NEW risk \in RiskTargets, raise_risk(t, risk)
  PROVE  MemoryInv(X)'
<1> DEFINE r == DecisionRecord(t, "risk_reclassification", risk)
<1>1. risk \in Risks
  BY CallsAssumption
<1>2. r \in RecordsWith(X) /\ r.type = "decision" /\ r.decision = "risk_reclassification"
  BY <1>1, RecordsTyped DEF MemoryInv, TypesWith, DecisionRecord
<1>3. /\ ledger' = Append(ledger, r)
      /\ scopes' = IF scopes[t] = None THEN scopes ELSE [scopes EXCEPT ![t].risk = risk]
      /\ UNCHANGED <<approvals, revoked, pauses, registryVars, now>>
  BY DEF raise_risk, AppendRecord
<1> HIDE DEF r
<1>4. scopes \in [Tasks -> ScopeDeclaration \cup {None}]
  BY DEF MemoryInv, TypesWith
<1>5. \A u \in Tasks : /\ scopes'[u] \in ScopeDeclaration \cup {None}
                       /\ scopes'[u] = None <=> scopes[u] = None
                       /\ scopes[u] # None => scopes'[u].scope = scopes[u].scope
  <2>1. CASE scopes[t] = None
    BY <1>3, <1>4, <2>1
  <2>2. CASE scopes[t] # None
    <3>1. scopes[t] \in ScopeDeclaration
      BY <1>4, <2>2
    <3> DEFINE d == [scopes[t] EXCEPT !.risk = risk]
    <3>2. d \in ScopeDeclaration /\ d.scope = scopes[t].scope
      BY <1>1, <3>1 DEF ScopeDeclaration
    <3>3. scopes' = [scopes EXCEPT ![t] = d]
      BY <1>3, <2>2
    <3> HIDE DEF d
    <3>4. QED
      BY <1>4, <2>2, <3>2, <3>3, NoneAssumption
  <2>3. QED
    BY <2>1, <2>2
<1>6. scopes' \in [Tasks -> ScopeDeclaration \cup {None}]
  BY <1>3, <1>4, <1>5
<1>7. ScopesKept'
  BY <1>2, <1>3, <1>5, ScopesStand
<1>8. PausesKept' /\ ApprovalsKept' /\ RevocationsKept' /\ ledger' \in Seq(RecordsWith(X))
  BY <1>2, <1>3, RestStands
<1>9. TypesWith(X)'
  BY <1>3, <1>6, <1>8 DEF MemoryInv, TypesWith, RegistryType, registryVars, ApprovalsKept, RebuiltApprovals
<1>10. QED
  BY <1>7, <1>8, <1>9 DEF MemoryInv

LEMMA ApproveKeeps ==
  ASSUME NEW X, MemoryInv(X), NEW c \in Approvals, record_approval(c)
  PROVE  MemoryInv(X)'
<1> DEFINE r == ApprovalRecord(c)
<1>1. r \in RecordsWith(X) /\ r.type = "approval"
  BY CallFields, RecordsTyped DEF MemoryInv, TypesWith, ApprovalRecord
<1>2. /\ ledger' = Append(ledger, r) /\ approvals' = approvals \cup {Len(ledger) + 1}
      /\ UNCHANGED <<scopes, revoked, pauses, registryVars, now>>
  BY DEF record_approval, AppendRecord
<1> HIDE DEF r
<1>3. ScopesKept'
  BY <1>1, <1>2, ScopesStand
<1>4. PausesKept' /\ RevocationsKept' /\ ledger' \in Seq(RecordsWith(X))
  BY <1>1, <1>2, RestStands
<1>5. ApprovalsKept'
  <2>1. RebuiltApprovals(Append(ledger, r)) = RebuiltApprovals(ledger) \cup {Len(ledger) + 1}
    BY <1>1, RebuiltAfter DEF MemoryInv, TypesWith
  <2>2. QED
    BY <1>2, <2>1 DEF MemoryInv, ApprovalsKept
<1>6. TypesWith(X)'
  BY <1>2, <1>4, <1>5 DEF MemoryInv, TypesWith, RegistryType, registryVars, ApprovalsKept, RebuiltApprovals
<1>7. QED
  BY <1>3, <1>4, <1>5, <1>6 DEF MemoryInv

LEMMA RevokeKeeps ==
  ASSUME NEW X, Foreign(X), MemoryInv(X), NEW i \in approvals,
         revoke_approval(i) \/ revoke_approval_Raises(i)
  PROVE  MemoryInv(X)'
<1>1. CASE revoke_approval(i)
  <2> DEFINE r == DecisionRecord(ledger[i].task, "approval_revoked", i)
  <2>1. i \in DOMAIN ledger /\ i \in Nat /\ ledger[i] \in RecordType
    <3>1. /\ i \in DOMAIN ledger /\ i \in Nat /\ ledger[i] \in RecordsWith(X)
          /\ ledger[i].type = "approval"
      BY DEF MemoryInv, TypesWith, OfType
    <3>2. QED
      BY <3>1, OwnRecord
  <2>2. ledger[i].task \in Tasks
    BY <2>1 DEF RecordType
  <2>3. r \in RecordsWith(X) /\ r.type = "decision" /\ r.decision = "approval_revoked" /\ r.subject = i
    BY <2>1, <2>2, RecordsTyped DEF MemoryInv, TypesWith, DecisionRecord
  <2>4. /\ ledger' = Append(ledger, r) /\ revoked' = revoked \cup {i}
        /\ UNCHANGED <<scopes, approvals, pauses, registryVars, now>>
    BY <1>1 DEF revoke_approval, AppendRecord
  <2> HIDE DEF r
  <2>5. ScopesKept'
    BY <2>3, <2>4, ScopesStand
  <2>6. PausesKept' /\ ApprovalsKept' /\ ledger' \in Seq(RecordsWith(X))
    BY <2>3, <2>4, RestStands
  <2>7. RevocationsKept'
    <3>1. RebuiltRevoked(Append(ledger, r)) = RebuiltRevoked(ledger) \cup {i}
      BY <2>3, RebuiltAfter DEF MemoryInv, TypesWith
    <3>2. QED
      BY <2>4, <3>1 DEF MemoryInv, RevocationsKept
  <2>8. TypesWith(X)'
    BY <2>4, <2>6 DEF MemoryInv, TypesWith, RegistryType, registryVars, ApprovalsKept, RebuiltApprovals
  <2>9. QED
    BY <2>5, <2>6, <2>7, <2>8 DEF MemoryInv
<1>2. CASE revoke_approval_Raises(i)
  BY <1>2 DEF revoke_approval_Raises, MemoryInv, TypesWith, RegistryType, registryVars, PausesKept,
              ApprovalsKept, RevocationsKept, ScopesKept
<1>3. QED
  BY <1>1, <1>2

LEMMA HaltKeeps ==
  ASSUME NEW X, MemoryInv(X), NEW t \in Haltable,
         pause(t) \/ resume(t) \/ escalate(t) \/ resume_Raises(t)
  PROVE  MemoryInv(X)'
<1>0. t \in Tasks
  BY CallsAssumption
<1>1. CASE pause(t)
  <2> DEFINE r == PauseRecord(t)
  <2>1. r \in RecordsWith(X) /\ r.type = "pause" /\ r.task = t
    BY <1>0, RecordsTyped DEF MemoryInv, TypesWith, PauseRecord
  <2>2. /\ ledger' = Append(ledger, r) /\ pauses' = pauses \cup {t}
        /\ UNCHANGED <<scopes, approvals, revoked, registryVars, now>>
    BY <1>1 DEF pause, AppendRecord
  <2> HIDE DEF r
  <2>3. ScopesKept'
    BY <2>1, <2>2, ScopesStand
  <2>4. RevocationsKept' /\ ApprovalsKept' /\ ledger' \in Seq(RecordsWith(X))
    BY <2>1, <2>2, RestStands
  <2>5. PausesKept'
    <3>1. t \in RebuiltPauses(Append(ledger, r)) /\ RebuiltPauses(ledger) \subseteq RebuiltPauses(Append(ledger, r))
      BY <1>0, <2>1, RebuiltAfter DEF MemoryInv, TypesWith
    <3>2. QED
      BY <2>2, <3>1 DEF MemoryInv, PausesKept
  <2>6. TypesWith(X)'
    BY <1>0, <2>2, <2>4 DEF MemoryInv, TypesWith, RegistryType, registryVars, ApprovalsKept, RebuiltApprovals
  <2>7. QED
    BY <2>3, <2>4, <2>5, <2>6 DEF MemoryInv
<1>2. CASE resume(t)
  <2> DEFINE r == DecisionRecord(t, "pause_lifted", t)
  <2>1. r \in RecordsWith(X) /\ r.type = "decision" /\ r.decision = "pause_lifted" /\ r.task = t
    BY <1>0, RecordsTyped DEF MemoryInv, TypesWith, DecisionRecord
  <2>2. /\ ledger' = Append(ledger, r) /\ pauses' = pauses \ {t}
        /\ UNCHANGED <<scopes, approvals, revoked, registryVars, now>>
    BY <1>2 DEF resume, AppendRecord
  <2> HIDE DEF r
  <2>3. ScopesKept'
    BY <2>1, <2>2, ScopesStand
  <2>4. RevocationsKept' /\ ApprovalsKept' /\ ledger' \in Seq(RecordsWith(X))
    BY <2>1, <2>2, RestStands
  <2>5. PausesKept'
    <3>1. RebuiltPauses(ledger) \ {t} \subseteq RebuiltPauses(Append(ledger, r))
      BY <2>1, RebuiltAfter DEF MemoryInv, TypesWith
    <3>2. QED
      BY <2>2, <3>1 DEF MemoryInv, PausesKept
  <2>6. TypesWith(X)'
    BY <2>2, <2>4 DEF MemoryInv, TypesWith, RegistryType, registryVars, ApprovalsKept, RebuiltApprovals
  <2>7. QED
    BY <2>3, <2>4, <2>5, <2>6 DEF MemoryInv
<1>3. CASE escalate(t)
  <2> DEFINE r == DecisionRecord(t, "escalation", t)
  <2>1. r \in RecordsWith(X) /\ r.type = "decision" /\ r.decision = "escalation"
    BY <1>0, RecordsTyped DEF MemoryInv, TypesWith, DecisionRecord
  <2>2. ledger' = Append(ledger, r) /\ UNCHANGED <<memory, registryVars, now>>
    BY <1>3 DEF escalate, AppendRecord
  <2> HIDE DEF r
  <2>3. ScopesKept'
    BY <2>1, <2>2, ScopesStand DEF memory
  <2>4. PausesKept' /\ RevocationsKept' /\ ApprovalsKept' /\ ledger' \in Seq(RecordsWith(X))
    BY <2>1, <2>2, RestStands DEF memory
  <2>5. TypesWith(X)'
    BY <2>2, <2>4 DEF memory, MemoryInv, TypesWith, RegistryType, registryVars, ApprovalsKept, RebuiltApprovals
  <2>6. QED
    BY <2>3, <2>4, <2>5 DEF MemoryInv
<1>4. CASE resume_Raises(t)
  BY <1>4 DEF resume_Raises, MemoryInv, TypesWith, RegistryType, registryVars, PausesKept,
              ApprovalsKept, RevocationsKept, ScopesKept
<1>5. QED
  BY <1>1, <1>2, <1>3, <1>4

\* The scope rebuilt for a task is that of its last declaration.
LEMMA RebuiltScope ==
  ASSUME NEW X, Foreign(X), MemoryInv(X), NEW t \in Tasks
  PROVE  /\ RebuiltScopes(ledger)[t] \in ScopeDeclaration \cup {None}
         /\ ScopeMatches(RebuiltScopes(ledger)[t], ledger, t)
<1>0. ledger \in Seq(RecordsWith(X))
  BY DEF MemoryInv, TypesWith
<1>1. CASE DeclarationsOf(ledger, t) = {}
  BY <1>1 DEF RebuiltScopes, ScopeMatches
<1>2. CASE DeclarationsOf(ledger, t) # {}
  <2>1. PICK i \in DeclarationsOf(ledger, t) : IsLast(ledger, t, i)
    BY <1>2 DEF MemoryInv, ScopesKept, ScopeMatches
  <2>2. DeclarationsOf(ledger, t) \in SUBSET Nat
    BY <1>0, KindsWithin
  <2>3. Latest(DeclarationsOf(ledger, t)) = i
    BY <2>1, <2>2, LatestIs DEF IsLast
  <2> DEFINE d == [scope |-> ledger[i].scope, risk |-> ledger[i].risk,
                   version |-> Cardinality(DeclarationsOf(ledger, t))]
  <2>4. RebuiltScopes(ledger)[t] = d
    BY <1>2, <2>3 DEF RebuiltScopes
  <2>5. Cardinality(DeclarationsOf(ledger, t)) \in Nat
    <3>1. DeclarationsOf(ledger, t) \subseteq 1 .. Len(ledger) /\ Len(ledger) \in Nat
      BY <1>0, KindsWithin
    <3>2. IsFiniteSet(1 .. Len(ledger))
      BY <3>1, FS_Interval
    <3>3. QED
      BY <3>1, <3>2, FS_Subset, FS_CardinalityType
  <2>6. ledger[i] \in RecordType /\ ledger[i].type = "scope_declaration"
    <3>1. ledger[i] \in RecordsWith(X) /\ ledger[i].type = "scope_declaration"
      BY <1>0, <2>1 DEF IsLast, DeclarationsOf, OfType
    <3>2. QED
      BY <3>1, OwnRecord
  <2>7. ledger[i].scope \in SUBSET Entries /\ ledger[i].risk \in Risks
    BY <2>6 DEF RecordType
  <2>8. d \in ScopeDeclaration /\ d.scope = ledger[i].scope
    BY <2>5, <2>7 DEF ScopeDeclaration
  <2> HIDE DEF d
  <2>9. QED
    BY <2>1, <2>4, <2>8, NoneAssumption DEF ScopeMatches
<1>3. QED
  BY <1>1, <1>2

\* A rebuild from the ledger gives memory of the right kind, owing it nothing.
LEMMA RebuildKeeps ==
  ASSUME NEW X, Foreign(X), MemoryInv(X),
         Rebuild, UNCHANGED <<ledger, now>>, RegistryType'
  PROVE  MemoryInv(X)'
<1>1. /\ scopes' = RebuiltScopes(ledger) /\ approvals' = RebuiltApprovals(ledger)
      /\ revoked' = RebuiltRevoked(ledger) /\ pauses' = RebuiltPauses(ledger)
  BY MemoryRebuilt DEF Rebuild
<1>2. ledger \in Seq(RecordsWith(X))
  BY DEF MemoryInv, TypesWith
<1>3. \A t \in Tasks : /\ RebuiltScopes(ledger)[t] \in ScopeDeclaration \cup {None}
                       /\ ScopeMatches(RebuiltScopes(ledger)[t], ledger, t)
  BY RebuiltScope
<1>4. RebuiltScopes(ledger) \in [Tasks -> ScopeDeclaration \cup {None}]
  <2>1. RebuiltScopes(ledger) = [t \in Tasks |-> RebuiltScopes(ledger)[t]]
    BY DEF RebuiltScopes
  <2>2. QED
    BY <1>3, <2>1
<1>5. RebuiltRevoked(ledger) \subseteq RebuiltApprovals(ledger)
  BY DEF MemoryInv, TypesWith, RevocationsKept, ApprovalsKept
<1>6. RebuiltPauses(ledger) \subseteq Tasks
  BY DEF RebuiltPauses
<1>7. TypesWith(X)'
  BY <1>1, <1>4, <1>5, <1>6 DEF MemoryInv, TypesWith, RebuiltApprovals
<1>8. ScopesKept'
  BY <1>1, <1>3 DEF ScopesKept
<1>9. PausesKept' /\ ApprovalsKept' /\ RevocationsKept'
  BY <1>1 DEF PausesKept, ApprovalsKept, RevocationsKept
<1>10. QED
  BY <1>7, <1>8, <1>9 DEF MemoryInv

\* The registry keeps its types.
LEMMA RegistryStepTyped ==
  ASSUME RegistryType, RegistryStep
  PROVE  RegistryType'
<1>1. CASE \E e \in Enrollments : register(e[1], e[2]) \/ unregister(e[1])
  BY <1>1, RegistryAssumption DEF RegistryType, register, unregister
<1>2. CASE \E g \in Grants : grant_role(g[1], g[2]) \/ revoke_role(g[1], g[2])
  BY <1>2, RegistryAssumption DEF RegistryType, grant_role, revoke_role
<1>3. QED
  BY <1>1, <1>2 DEF RegistryStep

LEMMA MemoryStep ==
  ASSUME NEW X, Foreign(X), MemoryInv(X), [Next]_vars
  PROVE  MemoryInv(X)'
<1>1. CASE Declare
  BY <1>1, DeclareKeeps DEF Declare
<1>2. CASE \E e \in Expansions, i \in approvals : expand_scope(e[1], e[2], i)
  BY <1>2, ExpandKeeps
<1>3. CASE \E t \in Tasks, risk \in RiskTargets : raise_risk(t, risk)
  BY <1>3, RaiseKeeps
<1>4. CASE \E c \in Approvals : record_approval(c)
  BY <1>4, ApproveKeeps
<1>5. CASE \E i \in approvals : revoke_approval(i) \/ (Rejectable /\ revoke_approval_Raises(i))
  BY <1>5, RevokeKeeps
<1>6. CASE \E t \in Haltable : \/ pause(t) \/ resume(t) \/ escalate(t)
                               \/ Rejectable /\ resume_Raises(t)
  BY <1>6, HaltKeeps
<1>7. CASE Enrollment
  <2>1. RegistryType' /\ UNCHANGED <<ledger, memory, now>>
    BY <1>7, RegistryStepTyped DEF Enrollment, MemoryInv, TypesWith
  <2>2. QED
    BY <2>1 DEF memory, MemoryInv, TypesWith, PausesKept, ApprovalsKept, RevocationsKept, ScopesKept
<1>8. CASE Tick
  BY <1>8 DEF Tick, memory, MemoryInv, TypesWith, RegistryType, registryVars, PausesKept, ApprovalsKept,
              RevocationsKept, ScopesKept
<1>9. CASE Restart
  <2>1. RegistryType' /\ Rebuild /\ UNCHANGED <<ledger, now>>
    BY <1>9 DEF Restart, RegistryType, registryVars, MemoryInv, TypesWith
  <2>2. QED
    BY <2>1, RebuildKeeps
<1>10. CASE UNCHANGED vars
  BY <1>10 DEF vars, memory, MemoryInv, TypesWith, RegistryType, registryVars, PausesKept, ApprovalsKept,
               RevocationsKept, ScopesKept
<1>11. QED
  BY <1>1, <1>2, <1>3, <1>4, <1>5, <1>6, <1>7, <1>8, <1>9, <1>10 DEF Next, Calls

\* A step of the white team adds one record of its own to the ledger, or none,
\* and pauses none but the tasks it is asked to.
LEMMA OneRecord ==
  ASSUME NEW X, Foreign(X), MemoryInv(X), [Next]_vars
  PROVE  \/ ledger' = ledger
         \/ \E r \in RecordType : /\ ledger' = Append(ledger, r)
                                  /\ r.type = "pause" => r.task \in Haltable
<1>0. now \in Nat
  BY DEF MemoryInv, TypesWith
<1>1. CASE Declare
  <2>1. PICK d \in Declarations : ledger' = Append(ledger, DeclarationRecord(d.task, d.scope, d.risk))
    BY <1>1 DEF Declare, declare_scope, AppendRecord
  <2> DEFINE r == DeclarationRecord(d.task, d.scope, d.risk)
  <2>2. r \in RecordType /\ r.type # "pause"
    BY <1>0, CallFields, RecordsTyped, Alone DEF DeclarationRecord
  <2>3. QED
    BY <2>1, <2>2
<1>2. CASE \E e \in Expansions, i \in approvals : expand_scope(e[1], e[2], i)
  <2>1. PICK e \in Expansions :
          /\ scopes[e[1]] # None
          /\ ledger' = Append(ledger, DeclarationRecord(e[1], scopes[e[1]].scope \cup e[2], scopes[e[1]].risk))
    BY <1>2 DEF expand_scope, AppendRecord
  <2>2. e[1] \in Tasks /\ e[2] \in SUBSET Entries /\ scopes[e[1]] \in ScopeDeclaration
    BY <2>1, CallFields DEF MemoryInv, TypesWith
  <2>3. scopes[e[1]].scope \cup e[2] \in SUBSET Entries /\ scopes[e[1]].risk \in Risks
    BY <2>2 DEF ScopeDeclaration
  <2> DEFINE r == DeclarationRecord(e[1], scopes[e[1]].scope \cup e[2], scopes[e[1]].risk)
  <2>4. r \in RecordType /\ r.type # "pause"
    BY <1>0, <2>2, <2>3, RecordsTyped, Alone DEF DeclarationRecord
  <2>5. QED
    BY <2>1, <2>4
<1>3. CASE \E t \in Tasks, risk \in RiskTargets : raise_risk(t, risk)
  <2>1. PICK t \in Tasks, risk \in RiskTargets :
          ledger' = Append(ledger, DecisionRecord(t, "risk_reclassification", risk))
    BY <1>3 DEF raise_risk, AppendRecord
  <2>2. QED
    BY <1>0, <2>1, CallsAssumption, RecordsTyped, Alone DEF DecisionRecord
<1>4. CASE \E c \in Approvals : record_approval(c)
  <2>1. PICK c \in Approvals : ledger' = Append(ledger, ApprovalRecord(c))
    BY <1>4 DEF record_approval, AppendRecord
  <2>2. QED
    BY <1>0, <2>1, CallFields, RecordsTyped, Alone DEF ApprovalRecord
<1>5. CASE \E i \in approvals : revoke_approval(i) \/ (Rejectable /\ revoke_approval_Raises(i))
  <2>1. PICK i \in approvals :
          \/ ledger' = ledger
          \/ ledger' = Append(ledger, DecisionRecord(ledger[i].task, "approval_revoked", i))
    BY <1>5 DEF revoke_approval, revoke_approval_Raises, AppendRecord
  <2>2. ledger[i] \in RecordsWith(X) /\ ledger[i].type = "approval" /\ i \in Nat
    BY DEF MemoryInv, TypesWith, OfType
  <2>3. ledger[i].task \in Tasks
    BY <2>2, OwnRecord DEF RecordType
  <2>4. QED
    BY <1>0, <2>1, <2>2, <2>3, RecordsTyped, Alone DEF DecisionRecord
<1>6. CASE \E t \in Haltable : \/ pause(t) \/ resume(t) \/ escalate(t)
                               \/ Rejectable /\ resume_Raises(t)
  <2>1. PICK t \in Haltable : \/ ledger' = ledger \/ ledger' = Append(ledger, PauseRecord(t))
                              \/ ledger' = Append(ledger, DecisionRecord(t, "pause_lifted", t))
                              \/ ledger' = Append(ledger, DecisionRecord(t, "escalation", t))
    BY <1>6 DEF pause, resume, escalate, resume_Raises, AppendRecord
  <2>2. QED
    BY <1>0, <2>1, CallsAssumption, RecordsTyped, Alone DEF DecisionRecord, PauseRecord
<1>7. CASE Enrollment \/ Tick \/ Restart \/ UNCHANGED vars
  BY <1>7 DEF Enrollment, Tick, Restart, vars
<1>8. QED
  BY <1>1, <1>2, <1>3, <1>4, <1>5, <1>6, <1>7 DEF Next, Calls

\* Another writer's record leaves memory right.
LEMMA OthersKeep ==
  ASSUME NEW X, Foreign(X), MemoryInv(X), NEW r \in X, ledger' = Append(ledger, r),
         UNCHANGED <<memory, registryVars, now>>
  PROVE  MemoryInv(X)'
<1>1. r \in RecordsWith(X) /\ r.type \notin {"scope_declaration", "approval", "decision"}
  BY DEF RecordsWith, Foreign
<1>2. ScopesKept'
  BY <1>1, ScopesStand DEF memory
<1>3. PausesKept' /\ ApprovalsKept' /\ RevocationsKept' /\ ledger' \in Seq(RecordsWith(X))
  BY <1>1, RestStands DEF memory
<1>4. TypesWith(X)'
  BY <1>3 DEF memory, MemoryInv, TypesWith, RegistryType, registryVars, ApprovalsKept, RebuiltApprovals
<1>5. QED
  BY <1>2, <1>3, <1>4 DEF MemoryInv

LEMMA InitMemory ==
  ASSUME NEW X, Init
  PROVE  MemoryInv(X)
<1>1. ledger = <<>> /\ ledger \in Seq(RecordsWith(X))
  BY DEF Init
<1>2. RegistryType
  BY RegistryAssumption DEF Init, RegistryInit, RegistryType
<1>3. /\ \A type : OfType(ledger, type) = {}
      /\ \A t : DeclarationsOf(ledger, t) = {}
      /\ \A d : Decisions(ledger, d) = {}
  BY <1>1 DEF OfType, DeclarationsOf, Decisions
<1>4. TypesWith(X)
  BY <1>1, <1>2 DEF Init, TypesWith
<1>5. PausesKept /\ ApprovalsKept /\ RevocationsKept
  BY <1>3 DEF Init, PausesKept, ApprovalsKept, RevocationsKept, RebuiltApprovals, RebuiltRevoked
<1>6. ScopesKept
  BY <1>3 DEF Init, ScopesKept, ScopeMatches
<1>7. QED
  BY <1>4, <1>5, <1>6 DEF MemoryInv

\* The invariant is inductive.
THEOREM MemoryInvariant == Spec => [](MemoryInv({}))
<1>1. MemoryInv({}) /\ [Next]_vars => MemoryInv({})'
  BY MemoryStep, Alone
<1>2. Init => MemoryInv({})
  BY InitMemory
<1>3. QED
  BY <1>1, <1>2, PTL DEF Spec

\* Every variable of the white team keeps its kind, and every approval it holds
\* in memory is an approval record of the ledger.
THEOREM WhiteTeamTypes == Spec => []TypeOK
BY MemoryInvariant, Alone, PTL

\* Memory that is right differs from a rebuilt one on one side only, whoever else
\* writes to the ledger.
LEMMA MemoryIsOneSided ==
  ASSUME NEW X, Foreign(X), MemoryInv(X)
  PROVE  RebuildIsOneSided
<1>1. ASSUME NEW t \in Tasks
      PROVE  /\ scopes[t] = None <=> RebuiltScopes(ledger)[t] = None
             /\ scopes[t] # None => scopes[t].scope = RebuiltScopes(ledger)[t].scope
  <2>1. /\ ScopeMatches(scopes[t], ledger, t) /\ ScopeMatches(RebuiltScopes(ledger)[t], ledger, t)
        /\ DeclarationsOf(ledger, t) \subseteq Nat
    BY RebuiltScope, KindsWithin DEF MemoryInv, TypesWith, ScopesKept
  <2>2. ASSUME NEW i \in DeclarationsOf(ledger, t), NEW j \in DeclarationsOf(ledger, t),
               IsLast(ledger, t, i), IsLast(ledger, t, j)
        PROVE  i = j
    <3>1. i <= j /\ j <= i /\ i \in Nat /\ j \in Nat
      BY <2>1, <2>2 DEF IsLast
    <3>2. QED
      BY <3>1
  <2>3. QED
    BY <2>1, <2>2 DEF ScopeMatches
<1>2. LET m == RebuiltMemory(ledger)
      IN  /\ m.scopes = RebuiltScopes(ledger) /\ m.approvals = RebuiltApprovals(ledger)
          /\ m.revoked = RebuiltRevoked(ledger) /\ m.pauses = RebuiltPauses(ledger)
  BY MemoryRebuilt
<1>3. QED
  BY <1>1, <1>2 DEF MemoryInv, PausesKept, ApprovalsKept, RevocationsKept, RebuildIsOneSided

\* A restart drops no pause, approval or scope and revokes nothing that was not
\* revoked, whatever records the ledger refused.
THEOREM RebuildsAreOneSided == Spec => []RebuildIsOneSided
<1>1. MemoryInv({}) => RebuildIsOneSided
  BY MemoryIsOneSided, Alone
<1>2. QED
  BY <1>1, MemoryInvariant, PTL

-----------------------------------------------------------------------------
(* Scopes widen on approvals only *)

\* What the ledger shows of a declaration, records after it do not change.
LEMMA StillWarrants ==
  ASSUME NEW R, ledger \in Seq(R), NEW r \in R, ledger' = Append(ledger, r),
         NEW i \in DOMAIN ledger, NEW j \in OfType(ledger, "approval"), Warrants(j, i)
  PROVE  j \in OfType(ledger', "approval") /\ Warrants(j, i)'
<1>1. /\ DOMAIN ledger' = DOMAIN ledger \cup {Len(ledger) + 1} /\ DOMAIN ledger \subseteq Nat
      /\ \A k \in DOMAIN ledger : k < Len(ledger) + 1 /\ ledger'[k] = ledger[k]
  BY AppendedRecord
<1>2. j \in DOMAIN ledger /\ j \in OfType(ledger', "approval")
  BY <1>1 DEF OfType
<1>3. ASSUME NEW k \in (j + 1) .. (i - 1), Revokes(k, j)'
      PROVE  Revokes(k, j)
  <2>1. Decisions(ledger', "approval_revoked") \subseteq
          Decisions(ledger, "approval_revoked") \cup {Len(ledger) + 1}
    BY AppendedKinds
  <2>2. k < Len(ledger) + 1 /\ k \in Nat
    BY <1>1, <1>2
  <2>3. k \in Decisions(ledger, "approval_revoked")
    BY <1>1, <1>3, <2>1, <2>2 DEF Revokes
  <2>4. ledger'[k] = ledger[k]
    BY <1>1, <2>3 DEF Decisions, OfType
  <2>5. QED
    BY <1>3, <2>3, <2>4 DEF Revokes
<1>4. QED
  BY <1>1, <1>2, <1>3 DEF Warrants

\* A record that declares no scope keeps every scope warranted.
LEMMA NoNewScope ==
  ASSUME NEW R, ledger \in Seq(R), ScopeIsWarranted, NEW r \in R, r.type # "scope_declaration",
         ledger' = Append(ledger, r)
  PROVE  ScopeIsWarranted'
<1> SUFFICES ASSUME NEW t \in Tasks, NEW i \in DeclarationsOf(ledger', t),
                    NEW f \in DeclarationsOf(ledger', t), f < i
             PROVE  \E j \in OfType(ledger', "approval") : Warrants(j, i)'
  BY DEF ScopeIsWarranted
<1>1. DeclarationsOf(Append(ledger, r), t) = DeclarationsOf(ledger, t)
  BY AppendedKinds
<1>2. i \in DeclarationsOf(ledger, t) /\ f \in DeclarationsOf(ledger, t) /\ i \in DOMAIN ledger
  BY <1>1, KindsWithin
<1>3. PICK j \in OfType(ledger, "approval") : Warrants(j, i)
  BY <1>2 DEF ScopeIsWarranted
<1>4. QED
  BY <1>2, <1>3, StillWarrants

\* A declaration keeps every scope warranted when it is its task's first or
\* an approval in force covers it.
LEMMA NewScope ==
  ASSUME NEW R, ledger \in Seq(R), ScopeIsWarranted, NEW r \in R, r.type = "scope_declaration",
         ledger' = Append(ledger, r),
         \/ DeclarationsOf(ledger, r.task) = {}
         \/ \E j \in OfType(ledger, "approval") :
              /\ ledger[j].task = r.task /\ ledger[j].action \in {"scope_expansion", "*"}
              /\ r.scope \subseteq ledger[j].scope /\ r.at < ledger[j].expires
              /\ j \notin RebuiltRevoked(ledger)
  PROVE  ScopeIsWarranted'
<1> DEFINE n == Len(ledger) + 1
<1> SUFFICES ASSUME NEW t \in Tasks, NEW i \in DeclarationsOf(ledger', t),
                    NEW f \in DeclarationsOf(ledger', t), f < i
             PROVE  \E j \in OfType(ledger', "approval") : Warrants(j, i)'
  BY DEF ScopeIsWarranted
<1>1. /\ n \in Nat /\ DOMAIN ledger' = DOMAIN ledger \cup {n} /\ DOMAIN ledger \subseteq Nat
      /\ \A k \in DOMAIN ledger : k < n /\ ledger'[k] = ledger[k]
      /\ ledger'[n] = r
  BY AppendedRecord
<1>2. DeclarationsOf(ledger', t) = IF r.task = t THEN DeclarationsOf(ledger, t) \cup {n}
                                   ELSE DeclarationsOf(ledger, t)
  BY AppendedKinds
<1>3. DeclarationsOf(ledger, t) \subseteq DOMAIN ledger
  BY KindsWithin
<1> HIDE DEF n
<1>4. CASE i \in DeclarationsOf(ledger, t)
  <2>1. f \in DeclarationsOf(ledger, t) /\ i \in DOMAIN ledger
    <3>1. f # n
      BY <1>1, <1>3, <1>4
    <3>2. QED
      BY <1>2, <1>3, <1>4, <3>1
  <2>2. PICK j \in OfType(ledger, "approval") : Warrants(j, i)
    BY <1>4, <2>1 DEF ScopeIsWarranted
  <2>3. QED
    BY <2>1, <2>2, StillWarrants
<1>5. CASE i = n /\ r.task = t
  <2>1. DeclarationsOf(ledger, r.task) # {}
    BY <1>1, <1>2, <1>5
  <2>2. PICK j \in OfType(ledger, "approval") :
               /\ ledger[j].task = r.task /\ ledger[j].action \in {"scope_expansion", "*"}
               /\ r.scope \subseteq ledger[j].scope /\ r.at < ledger[j].expires
               /\ j \notin RebuiltRevoked(ledger)
    BY <2>1
  <2>3. j \in DOMAIN ledger /\ j \in OfType(ledger', "approval")
    BY <1>1, <2>2 DEF OfType
  <2>4. ASSUME NEW k \in (j + 1) .. (n - 1), Revokes(k, j)'
        PROVE  FALSE
    <3>1. Decisions(ledger', "approval_revoked") = Decisions(ledger, "approval_revoked")
      BY AppendedKinds
    <3>2. k \in Decisions(ledger, "approval_revoked") /\ k \in DOMAIN ledger
      BY <2>4, <3>1 DEF Revokes, Decisions, OfType
    <3>3. ledger[k].subject = j
      BY <1>1, <2>4, <3>2 DEF Revokes
    <3>4. QED
      BY <2>2, <3>2, <3>3 DEF RebuiltRevoked
  <2>5. Warrants(j, i)'
    BY <1>1, <1>5, <2>2, <2>3, <2>4 DEF Warrants
  <2>6. QED
    BY <2>3, <2>5
<1>6. QED
  BY <1>2, <1>4, <1>5

\* Another writer's record declares no scope.
LEMMA OthersKeepScopes ==
  ASSUME NEW X, Foreign(X), MemoryInv(X), ScopeIsWarranted, NEW r \in X, ledger' = Append(ledger, r)
  PROVE  ScopeIsWarranted'
<1>1. ledger \in Seq(RecordsWith(X)) /\ r \in RecordsWith(X) /\ r.type # "scope_declaration"
  BY DEF MemoryInv, TypesWith, RecordsWith, Foreign
<1>2. QED
  BY <1>1, NoNewScope

\* The declaration of a task that has none is its first in the ledger.
LEMMA DeclareKeepsScopes ==
  ASSUME NEW X, MemoryInv(X), ScopeIsWarranted, NEW d \in Declarations, scopes[d.task] = None,
         declare_scope(d)
  PROVE  ScopeIsWarranted'
<1> DEFINE r == DeclarationRecord(d.task, d.scope, d.risk)
<1>1. ledger \in Seq(RecordsWith(X)) /\ now \in Nat
  BY DEF MemoryInv, TypesWith
<1>2. r \in RecordsWith(X) /\ r.type = "scope_declaration" /\ r.task = d.task /\ d.task \in Tasks
  BY <1>1, CallFields, RecordsTyped DEF DeclarationRecord
<1>3. ledger' = Append(ledger, r)
  BY DEF declare_scope, AppendRecord
<1> HIDE DEF r
<1>4. DeclarationsOf(ledger, r.task) = {}
  BY <1>2 DEF MemoryInv, ScopesKept, ScopeMatches
<1>5. QED
  BY <1>1, <1>2, <1>3, <1>4, NewScope

\* An expansion is covered by an approval that memory, which has forgotten no
\* revocation, has in force.
LEMMA ExpandKeepsScopes ==
  ASSUME NEW X, MemoryInv(X), ScopeIsWarranted, NEW e \in Expansions, NEW i \in approvals,
         expand_scope(e[1], e[2], i)
  PROVE  ScopeIsWarranted'
<1> DEFINE t == e[1]
           merged == scopes[t].scope \cup e[2]
           r == DeclarationRecord(t, merged, scopes[t].risk)
<1>0. /\ ledger \in Seq(RecordsWith(X)) /\ now \in Nat /\ RevocationsKept
      /\ approvals \subseteq OfType(ledger, "approval")
  BY DEF MemoryInv, TypesWith
<1>1. t \in Tasks /\ e[2] \in SUBSET Entries /\ scopes[t] \in ScopeDeclaration
  BY CallFields DEF expand_scope, MemoryInv, TypesWith
<1>2. merged \in SUBSET Entries /\ scopes[t].risk \in Risks
  BY <1>1 DEF ScopeDeclaration
<1>3. /\ r \in RecordsWith(X) /\ r.type = "scope_declaration"
      /\ r.task = t /\ r.scope = merged /\ r.at = now
  BY <1>0, <1>1, <1>2, RecordsTyped DEF DeclarationRecord
<1>4. ledger' = Append(ledger, r) /\ approval_valid(i, t, "scope_expansion", merged)
  BY DEF expand_scope, AppendRecord, Covering
<1> HIDE DEF r
<1>5. /\ i \in OfType(ledger, "approval") /\ i \notin RebuiltRevoked(ledger)
      /\ ledger[i].task = t /\ ledger[i].action \in {"scope_expansion", "*"}
      /\ merged \subseteq ledger[i].scope /\ now < ledger[i].expires
  BY <1>0, <1>4 DEF approval_valid, RevocationsKept
<1> HIDE DEF t, merged
<1>6. QED
  BY <1>0, <1>3, <1>4, <1>5, NewScope

\* No other call, no change of the registry, no passing of time and no rebuild
\* declares a scope.
LEMMA CallsKeepScopes ==
  ASSUME NEW X, Foreign(X), MemoryInv(X), ScopeIsWarranted,
         Calls \/ UNCHANGED ledger
  PROVE  ScopeIsWarranted'
<1>0. ledger \in Seq(RecordsWith(X)) /\ now \in Nat
  BY DEF MemoryInv, TypesWith
<1>1. CASE ledger' = ledger
  BY <1>1 DEF ScopeIsWarranted, DeclarationsOf, OfType, Warrants, Revokes, Decisions
<1>2. CASE \E r \in RecordsWith(X) : r.type # "scope_declaration" /\ ledger' = Append(ledger, r)
  BY <1>0, <1>2, NoNewScope
<1>3. CASE \E e \in Expansions, i \in approvals : expand_scope(e[1], e[2], i)
  BY <1>3, ExpandKeepsScopes
<1>4. CASE \E t \in Tasks, risk \in RiskTargets : raise_risk(t, risk)
  <2>1. PICK t \in Tasks, risk \in RiskTargets : raise_risk(t, risk)
    BY <1>4
  <2>2. ledger' = Append(ledger, DecisionRecord(t, "risk_reclassification", risk))
    BY <2>1 DEF raise_risk, AppendRecord
  <2>3. DecisionRecord(t, "risk_reclassification", risk) \in RecordsWith(X)
    BY <1>0, CallsAssumption, RecordsTyped
  <2>4. DecisionRecord(t, "risk_reclassification", risk).type # "scope_declaration"
    BY DEF DecisionRecord
  <2>5. QED
    BY <1>2, <2>2, <2>3, <2>4
<1>5. CASE \E c \in Approvals : record_approval(c)
  <2>1. PICK c \in Approvals : ledger' = Append(ledger, ApprovalRecord(c))
    BY <1>5 DEF record_approval, AppendRecord
  <2>2. ApprovalRecord(c) \in RecordsWith(X) /\ ApprovalRecord(c).type # "scope_declaration"
    BY <1>0, CallFields, RecordsTyped DEF ApprovalRecord
  <2>3. QED
    BY <1>2, <2>1, <2>2
<1>6. CASE \E i \in approvals : revoke_approval(i) \/ (Rejectable /\ revoke_approval_Raises(i))
  <2>1. PICK i \in approvals : \/ ledger' = ledger
                               \/ ledger' = Append(ledger, DecisionRecord(ledger[i].task, "approval_revoked", i))
    BY <1>6 DEF revoke_approval, revoke_approval_Raises, AppendRecord
  <2>2. ledger[i] \in RecordsWith(X) /\ ledger[i].type = "approval" /\ i \in Nat
    BY <1>0 DEF MemoryInv, TypesWith, OfType
  <2>3. ledger[i].task \in Tasks
    BY <2>2, OwnRecord DEF RecordType
  <2> DEFINE r == DecisionRecord(ledger[i].task, "approval_revoked", i)
  <2>4. r \in RecordsWith(X) /\ r.type # "scope_declaration"
    BY <1>0, <2>2, <2>3, RecordsTyped DEF DecisionRecord
  <2>5. QED
    BY <1>1, <1>2, <2>1, <2>4
<1>7. CASE \E t \in Haltable : \/ pause(t) \/ resume(t) \/ escalate(t)
                               \/ Rejectable /\ resume_Raises(t)
  <2>1. PICK t \in Haltable : \/ ledger' = ledger \/ ledger' = Append(ledger, PauseRecord(t))
                              \/ ledger' = Append(ledger, DecisionRecord(t, "pause_lifted", t))
                              \/ ledger' = Append(ledger, DecisionRecord(t, "escalation", t))
    BY <1>7 DEF pause, resume, escalate, resume_Raises, AppendRecord
  <2>2. /\ PauseRecord(t) \in RecordsWith(X)
        /\ DecisionRecord(t, "pause_lifted", t) \in RecordsWith(X)
        /\ DecisionRecord(t, "escalation", t) \in RecordsWith(X)
    BY <1>0, CallsAssumption, RecordsTyped
  <2>3. /\ PauseRecord(t).type # "scope_declaration"
        /\ DecisionRecord(t, "pause_lifted", t).type # "scope_declaration"
        /\ DecisionRecord(t, "escalation", t).type # "scope_declaration"
    BY DEF PauseRecord, DecisionRecord
  <2>4. QED
    BY <1>1, <1>2, <2>1, <2>2, <2>3
<1>8. QED
  BY <1>1, <1>3, <1>4, <1>5, <1>6, <1>7 DEF Calls

\* A step of the white team whose tasks are declared once.
LEMMA ScopesStep ==
  ASSUME ~Redeclares, NEW X, Foreign(X), MemoryInv(X), ScopeIsWarranted, [Next]_vars
  PROVE  ScopeIsWarranted'
<1>1. CASE Declare
  BY <1>1, DeclareKeepsScopes DEF Declare
<1>2. CASE Calls \/ Enrollment \/ Tick \/ Restart \/ UNCHANGED vars
  BY <1>2, CallsKeepScopes DEF Enrollment, Tick, Restart, vars
<1>3. QED
  BY <1>1, <1>2 DEF Next

LEMMA InitScopes == Init => ScopeIsWarranted
BY DEF Init, ScopeIsWarranted, DeclarationsOf, OfType

\* Of every scope in the ledger that is not its task's first, the ledger shows an
\* approval that covered it when it was written: no task is silently broadened,
\* when declared tasks are not declared again.
THEOREM ScopesAreWarranted == ASSUME ~Redeclares PROVE Spec => []ScopeIsWarranted
<1>1. MemoryInv({}) /\ ScopeIsWarranted /\ [Next]_vars => ScopeIsWarranted'
  BY ScopesStep, Alone
<1>2. QED
  BY <1>1, InitScopes, MemoryInvariant, PTL DEF Spec

-----------------------------------------------------------------------------
(* Risk *)

\* No declared task's risk is lower after the step.
NoRiskLowered ==
  \A t \in Tasks : scopes[t] # None => ~is_higher(current_risk(t), current_risk(t)')

\* A declaration with the risk of the old one, or a higher, lowers none.
LEMMA RiskNotLowered ==
  ASSUME NEW X, MemoryInv(X), NEW t \in Tasks, scopes[t] # None,
         \/ scopes'[t] = scopes[t]
         \/ /\ scopes'[t] # None /\ scopes'[t].risk \in Risks
            /\ scopes'[t].risk = scopes[t].risk \/ is_higher(scopes'[t].risk, scopes[t].risk)
  PROVE  ~is_higher(current_risk(t), current_risk(t)')
<1>1. scopes[t] \in ScopeDeclaration
  BY DEF MemoryInv, TypesWith
<1>2. scopes[t].risk \in Risks /\ current_risk(t) = scopes[t].risk
  BY <1>1 DEF ScopeDeclaration, current_risk
<1>3. current_risk(t)' = scopes'[t].risk
  BY DEF current_risk
<1>4. \A a, b \in Risks : ~(is_higher(a, b) /\ is_higher(b, a)) /\ ~is_higher(a, a)
  BY DEF is_higher, rank, Risks
<1>5. QED
  BY <1>2, <1>3, <1>4

\* A first declaration is no other task's.
LEMMA DeclareKeepsRisk ==
  ASSUME NEW X, MemoryInv(X), NEW d \in Declarations, scopes[d.task] = None, declare_scope(d)
  PROVE  NoRiskLowered
<1> SUFFICES ASSUME NEW t \in Tasks, scopes[t] # None
             PROVE  ~is_higher(current_risk(t), current_risk(t)')
  BY DEF NoRiskLowered
<1>1. scopes'[t] = scopes[t]
  BY DEF declare_scope, MemoryInv, TypesWith
<1>2. QED
  BY <1>1, RiskNotLowered

LEMMA ExpandKeepsRisk ==
  ASSUME NEW X, MemoryInv(X), NEW e \in Expansions, NEW i \in approvals,
         expand_scope(e[1], e[2], i)
  PROVE  NoRiskLowered
<1> SUFFICES ASSUME NEW t \in Tasks, scopes[t] # None
             PROVE  ~is_higher(current_risk(t), current_risk(t)')
  BY DEF NoRiskLowered
<1> DEFINE d == [scope |-> scopes[e[1]].scope \cup e[2], risk |-> scopes[e[1]].risk,
                 version |-> scopes[e[1]].version + 1]
<1>1. scopes \in [Tasks -> ScopeDeclaration \cup {None}] /\ scopes[t] \in ScopeDeclaration
  BY DEF MemoryInv, TypesWith
<1>2. scopes' = [scopes EXCEPT ![e[1]] = d]
  BY DEF expand_scope
<1>3. e[1] = t => d \in ScopeDeclaration /\ d.risk = scopes[t].risk /\ d.risk \in Risks
  BY <1>1, CallFields DEF ScopeDeclaration
<1> HIDE DEF d
<1>4. scopes'[t] = IF e[1] = t THEN d ELSE scopes[t]
  BY <1>1, <1>2
<1>5. QED
  BY <1>3, <1>4, NoneAssumption, RiskNotLowered

LEMMA RaiseKeepsRisk ==
  ASSUME NEW X, MemoryInv(X), NEW u \in Tasks, NEW risk \in RiskTargets, raise_risk(u, risk)
  PROVE  NoRiskLowered
<1> SUFFICES ASSUME NEW t \in Tasks, scopes[t] # None
             PROVE  ~is_higher(current_risk(t), current_risk(t)')
  BY DEF NoRiskLowered
<1>1. scopes \in [Tasks -> ScopeDeclaration \cup {None}] /\ scopes[t] \in ScopeDeclaration
  BY DEF MemoryInv, TypesWith
<1>2. CASE u = t
  <2> DEFINE d == [scopes[t] EXCEPT !.risk = risk]
  <2>1. risk \in Risks
    BY CallsAssumption
  <2>2. d \in ScopeDeclaration /\ d.risk = risk
    BY <1>1, <2>1 DEF ScopeDeclaration
  <2>3. scopes' = [scopes EXCEPT ![t] = d]
    BY <1>2 DEF raise_risk
  <2>4. is_higher(risk, scopes[t].risk)
    BY <1>2 DEF raise_risk, MayReclassify, current_risk
  <2> HIDE DEF d
  <2>5. scopes'[t] = d
    BY <1>1, <2>3
  <2>6. QED
    BY <2>1, <2>2, <2>4, <2>5, NoneAssumption, RiskNotLowered
<1>3. CASE u # t
  <2>1. scopes'[t] = scopes[t]
    BY <1>1, <1>3 DEF raise_risk
  <2>2. QED
    BY <2>1, RiskNotLowered
<1>4. QED
  BY <1>2, <1>3

\* No call but a second declaration lowers a risk, nor does a step that leaves the
\* scopes alone.
LEMMA CallsNeverLowerRisk ==
  ASSUME NEW X, MemoryInv(X), Calls \/ UNCHANGED scopes
  PROVE  NoRiskLowered
<1>1. CASE UNCHANGED scopes
  BY <1>1, RiskNotLowered DEF NoRiskLowered
<1>2. CASE \E e \in Expansions, i \in approvals : expand_scope(e[1], e[2], i)
  BY <1>2, ExpandKeepsRisk
<1>3. CASE \E t \in Tasks, risk \in RiskTargets : raise_risk(t, risk)
  BY <1>3, RaiseKeepsRisk
<1>4. CASE \E c \in Approvals : record_approval(c)
  BY <1>1, <1>4 DEF record_approval
<1>5. CASE \E i \in approvals : revoke_approval(i) \/ (Rejectable /\ revoke_approval_Raises(i))
  BY <1>1, <1>5 DEF revoke_approval, revoke_approval_Raises
<1>6. CASE \E t \in Haltable : \/ pause(t) \/ resume(t) \/ escalate(t)
                               \/ Rejectable /\ resume_Raises(t)
  BY <1>1, <1>6 DEF pause, resume, escalate, resume_Raises, memory
<1>7. QED
  BY <1>1, <1>2, <1>3, <1>4, <1>5, <1>6 DEF Calls

\* A step of the white team whose tasks are declared once.
LEMMA RiskStep ==
  ASSUME ~Redeclares, NEW X, MemoryInv(X), [Next]_vars, ledger' # ledger
  PROVE  NoRiskLowered
<1>1. CASE Declare
  BY <1>1, DeclareKeepsRisk DEF Declare
<1>2. CASE Calls
  BY <1>2, CallsNeverLowerRisk
<1>3. QED
  BY <1>1, <1>2 DEF Next, Enrollment, Tick, Restart, vars

\* No call that writes to the ledger lowers a declared task's risk, when declared
\* tasks are not declared again.
THEOREM CallsKeepRisk == ASSUME ~Redeclares PROVE Spec => NoCallLowersRisk
<1>1. MemoryInv({}) /\ [Next]_vars => [ledger' # ledger => NoRiskLowered]_vars
  BY RiskStep
<1>2. QED
  BY <1>1, MemoryInvariant, PTL DEF Spec, NoCallLowersRisk, NoRiskLowered

-----------------------------------------------------------------------------
(* Quorum *)

\* Two approvers who between them have both roles are, one of them, one's and the
\* other the other's, when they have no further roles.
LEMMA RedNeedsBoth == RedIsJoint
<1> SUFFICES ASSUME NEW t \in Tasks, NEW a \in Actions,
                    current_risk(t) = "red", has_valid_approval(t, a),
                    \A i \in Counted(t, a, RequestedScope(t)) : ledger[i].role \in RISK_AUTHORITY["red"]
             PROVE  \E i, j \in Counted(t, a, RequestedScope(t)) :
                      /\ ledger[i].role = "security-lead" /\ ledger[j].role = "platform-owner"
                      /\ ledger[i].approver # ledger[j].approver
  BY DEF RedIsJoint
<1> DEFINE K == Counted(t, a, RequestedScope(t))
           P == {ledger[i].approver : i \in K}
<1>1. /\ RISK_AUTHORITY["red"] = {"security-lead", "platform-owner"}
      /\ RISK_AUTHORITY["red"] \subseteq {ledger[i].role : i \in K}
      /\ Cardinality(P) >= 2
  BY DEF has_valid_approval, approval_quorum_met, RISK_AUTHORITY, QUORUM_COUNT
<1> HIDE DEF K
<1>2. PICK i \in K : ledger[i].role = "security-lead"
  BY <1>1
<1>3. PICK j \in K : ledger[j].role = "platform-owner"
  BY <1>1
<1>4. CASE ledger[i].approver # ledger[j].approver
  BY <1>2, <1>3, <1>4 DEF K
<1>5. CASE ledger[i].approver = ledger[j].approver
  <2> HIDE DEF P
  <2>1. P # {ledger[i].approver}
    <3>1. Cardinality({ledger[i].approver}) = 1
      BY FS_Singleton
    <3>2. ~(1 >= 2)
      OBVIOUS
    <3>3. QED
      BY <1>1, <3>1, <3>2
  <2>2. PICK k \in K : ledger[k].approver # ledger[i].approver
    BY <1>2, <2>1 DEF P
  <2>3. ledger[k].role = "security-lead" \/ ledger[k].role = "platform-owner"
    BY <1>1 DEF K
  <2>4. QED
    BY <1>2, <1>3, <1>5, <2>2, <2>3 DEF K
<1>6. QED
  BY <1>4, <1>5

\* A Red gate is cleared only jointly, by a security lead and a platform owner
\* who are two people, when its counted approvals carry roles over Red.
THEOREM RedGatesAreJoint == Spec => []RedIsJoint
BY RedNeedsBoth, PTL

-----------------------------------------------------------------------------
(* Roles *)

\* An agent the registry does not know holds no role.
LEMMA StrangersHoldNone ==
  ASSUME RolesFitTeams, NEW a \in Agents, teamOf[a] = None
  PROVE  roles[a] = {}
BY DEF RolesFitTeams, MayHold

\* No change of the registry leaves a role with a team that may not hold it.
LEMMA RolesStep ==
  ASSUME RegistryType, RolesFitTeams, RegistryStep
  PROVE  RolesFitTeams'
<1>1. teamOf \in [Agents -> Teams \cup {None}] /\ roles \in [Agents -> SUBSET Roles]
  BY DEF RegistryType
<1>2. CASE \E e \in Enrollments : register(e[1], e[2])
  <2>1. PICK e \in Enrollments : register(e[1], e[2])
    BY <1>2
  <2>2. roles[e[1]] = {}
    BY <2>1, RegistryAssumption, StrangersHoldNone DEF register, is_registered
  <2>3. QED
    BY <1>1, <2>1, <2>2 DEF register, RolesFitTeams
<1>3. CASE \E e \in Enrollments : unregister(e[1])
  BY <1>1, <1>3 DEF unregister, RolesFitTeams
<1>4. CASE \E g \in Grants : grant_role(g[1], g[2])
  BY <1>1, <1>4 DEF grant_role, RolesFitTeams
<1>5. CASE \E g \in Grants : revoke_role(g[1], g[2])
  BY <1>1, <1>5 DEF revoke_role, RolesFitTeams
<1>6. QED
  BY <1>2, <1>3, <1>4, <1>5 DEF RegistryStep

\* A role is held only by an agent whose team may hold it, through departures
\* and returns in another team.
THEOREM RolesAlwaysFit == Spec => []RolesFitTeams
<1>1. Init => RolesFitTeams
  BY RegistryAssumption DEF Init, RegistryInit, RolesFitTeams
<1>2. ASSUME TypeOK, RolesFitTeams, [Next]_vars
      PROVE  RolesFitTeams'
  <2>1. CASE RegistryStep
    BY <1>2, <2>1, RolesStep DEF TypeOK
  <2>2. CASE UNCHANGED registryVars
    BY <1>2, <2>2 DEF registryVars, RolesFitTeams
  <2>3. RegistryStep \/ UNCHANGED registryVars
    BY <1>2 DEF Next, Calls, Declare, Enrollment, Tick, Restart, vars, declare_scope, expand_scope,
                raise_risk, record_approval, revoke_approval, revoke_approval_Raises,
                pause, resume, escalate, resume_Raises
  <2>4. QED
    BY <2>1, <2>2, <2>3
<1>3. QED
  BY <1>1, <1>2, WhiteTeamTypes, PTL DEF Spec
=============================================================================
