----------------------------- MODULE Green_proofs -----------------------------
(***************************************************************************)
(* Proofs about Green, for every set of tasks, agents, scopes and calls:   *)
(* the white team's memory keeps what it owes the ledger when green writes *)
(* to that ledger too, and of every release the ledger shows approvals in  *)
(* force.                                                                  *)
(***************************************************************************)
EXTENDS Green, WhiteTeam_proofs

ReleaseType == [task : Tasks, cited : SUBSET Nat, at : Nat, seen : Nat]

\* What green has put in the ledger.
GreenRecords ==
  [type : {"release"}, task : Tasks, at : Nat, release : ReleaseType]
  \cup [type : {"rollback"}, task : Tasks, at : Nat]

\* Of release r the ledger shows approvals in force when it was executed.
Warranted(r) ==
  /\ r.cited # {}
  /\ \A j \in r.cited :
       /\ j \in OfType(ledger, "approval") /\ j <= r.seen
       /\ ledger[j].task = r.task /\ ledger[j].action \in {"release", "*"}
       /\ r.at < ledger[j].expires
       /\ ~\E k \in (j + 1) .. r.seen : Revokes(k, j)

\* A release saw no more of the ledger than there is.
ReleasesWarranted == \A r \in releases : r.seen <= Len(ledger) /\ Warranted(r)

\* The ledger has no releases but those executed.
ReleasesRecorded == \A k \in OfType(ledger, "release") : ledger[k].release \in releases

GreenInv ==
  /\ MemoryInv(GreenRecords)
  /\ releases \subseteq ReleaseType /\ rollbacks \subseteq Tasks
  /\ ReleasesWarranted
  /\ ReleasesRecorded

-----------------------------------------------------------------------------
LEMMA GreenIsForeign == Foreign(GreenRecords)
BY DEF Foreign, GreenRecords

\* What the ledger shows of a release, records after it do not change.
LEMMA StillWarranted ==
  ASSUME NEW R, ledger \in Seq(R), NEW x \in R, ledger' = Append(ledger, x),
         NEW r \in ReleaseType, r.seen <= Len(ledger), Warranted(r)
  PROVE  r.seen <= Len(ledger') /\ Warranted(r)'
<1>1. /\ DOMAIN ledger \subseteq Nat /\ Len(ledger) \in Nat /\ Len(ledger') = Len(ledger) + 1
      /\ DOMAIN ledger' = DOMAIN ledger \cup {Len(ledger) + 1}
      /\ \A k \in DOMAIN ledger : ledger'[k] = ledger[k]
  BY AppendedRecord
<1>2. r.seen \in Nat
  BY DEF ReleaseType
<1>3. ASSUME NEW j \in r.cited
      PROVE  /\ j \in DOMAIN ledger /\ j \in OfType(ledger', "approval")
             /\ ledger'[j] = ledger[j]
  BY <1>1 DEF Warranted, OfType
<1>4. ASSUME NEW j \in r.cited, NEW k \in (j + 1) .. r.seen, Revokes(k, j)'
      PROVE  Revokes(k, j)
  <2>1. k \in Decisions(ledger', "approval_revoked") /\ ledger'[k].subject = j
    BY <1>4 DEF Revokes
  <2>2. k \in Decisions(ledger, "approval_revoked")
    <3>1. Decisions(ledger', "approval_revoked") \subseteq
            Decisions(ledger, "approval_revoked") \cup {Len(ledger) + 1}
      BY AppendedKinds
    <3>2. k # Len(ledger) + 1
      BY <1>1, <1>2, <1>3
    <3>3. QED
      BY <2>1, <3>1, <3>2
  <2>3. k \in DOMAIN ledger
    BY <2>2 DEF Decisions, OfType
  <2>4. QED
    BY <1>1, <2>1, <2>2, <2>3 DEF Revokes
<1>5. r.seen <= Len(ledger')
  BY <1>1, <1>2
<1>6. QED
  BY <1>3, <1>4, <1>5 DEF Warranted

\* A step that executes no release keeps every one warranted.
LEMMA NoNewRelease ==
  ASSUME GreenInv, releases' = releases,
         \/ ledger' = ledger
         \/ \E x \in RecordsWith(GreenRecords) :
              /\ ledger' = Append(ledger, x)
              /\ x.type = "release" => x.release \in releases
  PROVE  ReleasesWarranted' /\ ReleasesRecorded'
<1>0. ledger \in Seq(RecordsWith(GreenRecords)) /\ releases \subseteq ReleaseType
  BY DEF GreenInv, MemoryInv, TypesWith
<1>1. CASE ledger' = ledger
  BY <1>1 DEF GreenInv, ReleasesWarranted, ReleasesRecorded, Warranted, Revokes
<1>2. CASE \E x \in RecordsWith(GreenRecords) :
             /\ ledger' = Append(ledger, x)
             /\ x.type = "release" => x.release \in releases
  <2>1. PICK x \in RecordsWith(GreenRecords) : /\ ledger' = Append(ledger, x)
                                               /\ x.type = "release" => x.release \in releases
    BY <1>2
  <2>2. ReleasesWarranted'
    BY <1>0, <2>1, StillWarranted DEF GreenInv, ReleasesWarranted
  <2>3. ReleasesRecorded'
    <3>1. OfType(ledger', "release") = IF x.type = "release"
                                       THEN OfType(ledger, "release") \cup {Len(ledger) + 1}
                                       ELSE OfType(ledger, "release")
      BY <1>0, <2>1, AppendedKinds
    <3>2. /\ OfType(ledger, "release") \subseteq DOMAIN ledger
          /\ \A k \in DOMAIN ledger : ledger'[k] = ledger[k]
          /\ ledger'[Len(ledger) + 1] = x
      BY <1>0, <2>1, KindsWithin, AppendedRecord
    <3>3. QED
      BY <2>1, <3>1, <3>2 DEF GreenInv, ReleasesRecorded
  <2>4. QED
    BY <2>2, <2>3
<1>3. QED
  BY <1>1, <1>2

\* Green's calls that write nothing leave the memory right.
LEMMA AskingKeeps ==
  ASSUME MemoryInv(GreenRecords), Asks
  PROVE  MemoryInv(GreenRecords)' /\ ledger' = ledger
BY DEF Asks, memory, MemoryInv, TypesWith, RegistryType, registryVars, PausesKept, ApprovalsKept,
       RevocationsKept, ScopesKept

\* A release is warranted when it is executed: what it cites is in force in memory,
\* which has not forgotten a revocation.
LEMMA ReleaseStep ==
  ASSUME GreenInv, NEW t \in Tasks, NEW a \in GreenAgents, NEW cited \in SUBSET approvals,
         execute_release(t, a, cited)
  PROVE  GreenInv'
<1> DEFINE r == [task |-> t, cited |-> cited, at |-> now, seen |-> Len(ledger)]
<1>1. /\ MemoryInv(GreenRecords)' /\ ledger' = ledger
      /\ releases' = releases \cup {r} /\ rollbacks' = rollbacks
  BY AskingKeeps DEF GreenInv, execute_release
<1>2. /\ ledger \in Seq(RecordsWith(GreenRecords)) /\ now \in Nat
      /\ approvals \subseteq OfType(ledger, "approval") /\ RebuiltRevoked(ledger) \subseteq revoked
  BY DEF GreenInv, MemoryInv, TypesWith, RevocationsKept
<1>3. OfType(ledger, "approval") \subseteq 1 .. Len(ledger) /\ Len(ledger) \in Nat
  BY <1>2, KindsWithin
<1>4. r \in ReleaseType
  BY <1>2, <1>3 DEF ReleaseType
<1>5. Warranted(r)
  <2>1. cited # {} /\ \A j \in cited : j \in approvals /\ approval_valid(j, t, "release", {})
    BY DEF execute_release, Cites, valid_approval_refs
  <2>2. ASSUME NEW j \in cited
        PROVE  /\ j \in OfType(ledger, "approval") /\ j <= Len(ledger)
               /\ ledger[j].task = t /\ ledger[j].action \in {"release", "*"}
               /\ now < ledger[j].expires
               /\ j \notin RebuiltRevoked(ledger)
    BY <1>2, <1>3, <2>1 DEF approval_valid
  <2>3. ASSUME NEW j \in cited, NEW k \in (j + 1) .. Len(ledger), Revokes(k, j)
        PROVE  FALSE
    BY <2>2, <2>3 DEF Revokes, RebuiltRevoked
  <2>4. QED
    BY <2>1, <2>2, <2>3 DEF Warranted
<1>6. r.seen <= Len(ledger)
  BY <1>3
<1> HIDE DEF r
<1>7. ReleasesWarranted' /\ ReleasesRecorded'
  BY <1>1, <1>5, <1>6 DEF GreenInv, ReleasesWarranted, ReleasesRecorded, Warranted, Revokes
<1>8. QED
  BY <1>1, <1>4, <1>7 DEF GreenInv

LEMMA RecordStep ==
  ASSUME GreenInv, NEW t \in Tasks,
         \/ \E r \in releases : record_release(t, r)
         \/ t \in rollbacks /\ record_rollback(t)
  PROVE  GreenInv'
<1>1. PICK x \in GreenRecords : /\ ledger' = Append(ledger, x)
                                /\ x.type = "release" => x.release \in releases
                                /\ UNCHANGED <<memory, registryVars, now, greenVars>>
  <2>0. now \in Nat /\ releases \subseteq ReleaseType
    BY DEF GreenInv, MemoryInv, TypesWith
  <2>1. CASE \E r \in releases : record_release(t, r)
    <3>1. PICK r \in releases : record_release(t, r)
      BY <2>1
    <3> DEFINE x == [type |-> "release", task |-> t, at |-> now, release |-> r]
    <3>2. x \in GreenRecords /\ x.release = r
      BY <2>0 DEF GreenRecords
    <3>3. QED
      BY <3>1, <3>2 DEF record_release, AppendRecord
  <2>2. CASE record_rollback(t)
    <3> DEFINE x == [type |-> "rollback", task |-> t, at |-> now]
    <3>1. x \in GreenRecords /\ x.type # "release"
      BY <2>0 DEF GreenRecords
    <3>2. QED
      BY <2>2, <3>1 DEF record_rollback, AppendRecord
  <2>3. QED
    BY <2>1, <2>2
<1>2. MemoryInv(GreenRecords)'
  BY <1>1, OthersKeep, GreenIsForeign DEF GreenInv
<1>3. UNCHANGED <<releases, rollbacks>>
  BY <1>1 DEF greenVars
<1>4. ReleasesWarranted' /\ ReleasesRecorded'
  BY <1>1, <1>3, NoNewRelease DEF RecordsWith
<1>5. QED
  BY <1>2, <1>3, <1>4 DEF GreenInv

LEMMA WhiteStep ==
  ASSUME GreenInv, [Next]_vars, UNCHANGED greenVars
  PROVE  GreenInv'
<1>1. MemoryInv(GreenRecords)'
  BY MemoryStep, GreenIsForeign DEF GreenInv
<1>2. UNCHANGED <<releases, rollbacks>>
  BY DEF greenVars
<1>3. \/ ledger' = ledger
      \/ \E x \in RecordType : /\ ledger' = Append(ledger, x)
                               /\ x.type = "pause" => x.task \in Haltable
  BY OneRecord, GreenIsForeign DEF GreenInv
<1>4. \A x \in RecordType : x \in RecordsWith(GreenRecords) /\ x.type # "release"
  BY DEF RecordsWith, RecordType
<1>5. ReleasesWarranted' /\ ReleasesRecorded'
  <2>1. CASE ledger' = ledger
    BY <1>2, <2>1, NoNewRelease
  <2>2. CASE \E x \in RecordType : /\ ledger' = Append(ledger, x)
                                   /\ x.type = "pause" => x.task \in Haltable
    <3>1. PICK x \in RecordType : ledger' = Append(ledger, x)
      BY <2>2
    <3>2. x \in RecordsWith(GreenRecords) /\ x.type # "release"
      BY <1>4
    <3>3. QED
      BY <1>2, <3>1, <3>2, NoNewRelease
  <2>3. QED
    BY <1>3, <2>1, <2>2
<1>6. QED
  BY <1>1, <1>2, <1>5 DEF GreenInv

-----------------------------------------------------------------------------
\* The invariant is inductive: green's records and the white team's, appended to
\* one ledger in any order, leave the white team's memory right and every release
\* warranted.
THEOREM GreenInvHolds == GreenSpec => []GreenInv
<1>1. GreenInit => GreenInv
  <2> SUFFICES ASSUME GreenInit PROVE GreenInv
    OBVIOUS
  <2>1. MemoryInv(GreenRecords)
    BY InitMemory DEF GreenInit
  <2>2. QED
    BY <2>1 DEF GreenInit, Init, GreenInv, ReleasesWarranted, ReleasesRecorded, OfType
<1>2. ASSUME GreenInv, [GreenNext]_<<vars, greenVars>>
      PROVE  GreenInv'
  <2>1. CASE \E t \in Tasks, a \in GreenAgents : release_plan(t, a) \/ rollback(t, a)
    <3>1. PICK t \in Tasks, a \in GreenAgents : release_plan(t, a) \/ rollback(t, a)
      BY <2>1
    <3>2. Asks /\ releases' = releases /\ rollbacks' \subseteq Tasks
      BY <1>2, <3>1 DEF release_plan, rollback, GreenInv
    <3>3. MemoryInv(GreenRecords)' /\ ledger' = ledger
      BY <1>2, <3>2, AskingKeeps DEF GreenInv
    <3>4. ReleasesWarranted' /\ ReleasesRecorded'
      BY <1>2, <3>2, <3>3, NoNewRelease
    <3>5. QED
      BY <1>2, <3>2, <3>3, <3>4 DEF GreenInv
  <2>2. CASE \E t \in Tasks, a \in GreenAgents : \E cited \in SUBSET approvals : execute_release(t, a, cited)
    BY <1>2, <2>2, ReleaseStep
  <2>3. CASE \/ \E t \in Tasks, r \in releases : record_release(t, r)
             \/ \E t \in rollbacks : record_rollback(t)
    BY <1>2, <2>3, RecordStep DEF GreenInv
  <2>4. CASE (Next /\ UNCHANGED greenVars) \/ UNCHANGED <<vars, greenVars>>
    BY <1>2, <2>4, WhiteStep
  <2>5. QED
    BY <1>2, <2>1, <2>2, <2>3, <2>4 DEF GreenNext, GreenCalls
<1>3. QED
  BY <1>1, <1>2, PTL DEF GreenSpec

\* Every release, recorded or not, cites approvals of its own task for releasing,
\* in the ledger before it, unexpired and unrevoked when it was executed.
THEOREM ReleasesAreWarranted == GreenSpec => []ReleaseIsWarranted
<1>1. GreenInv => ReleaseIsWarranted
  BY DEF GreenInv, ReleasesWarranted, ReleasesRecorded, Warranted, ReleaseIsWarranted
<1>2. QED
  BY <1>1, GreenInvHolds, PTL

-----------------------------------------------------------------------------
(* What is proved of the white team holds with green beside it. *)

\* A restart drops no pause, approval or scope and revokes nothing that was not
\* revoked, with releases and rollbacks in the same ledger.
THEOREM GreenRebuildsAreOneSided == GreenSpec => []RebuildIsOneSided
<1>1. GreenInv => RebuildIsOneSided
  BY MemoryIsOneSided, GreenIsForeign DEF GreenInv
<1>2. QED
  BY <1>1, GreenInvHolds, PTL

\* Green's steps are the white team's, or its own, which write their own records
\* and leave the scopes alone.
LEMMA GreenOrWhite ==
  ASSUME GreenInv, [GreenNext]_<<vars, greenVars>>
  PROVE  \/ [Next]_vars
         \/ /\ \E x \in GreenRecords : ledger' = Append(ledger, x)
            /\ UNCHANGED scopes
<1>0. now \in Nat /\ releases \subseteq ReleaseType /\ rollbacks \subseteq Tasks
  BY DEF GreenInv, MemoryInv, TypesWith
<1>1. ASSUME NEW t \in Tasks, NEW r \in releases, record_release(t, r)
      PROVE  /\ \E x \in GreenRecords : ledger' = Append(ledger, x)
             /\ UNCHANGED scopes
  <2> DEFINE x == [type |-> "release", task |-> t, at |-> now, release |-> r]
  <2>1. x \in GreenRecords
    BY <1>0 DEF GreenRecords
  <2>2. QED
    BY <1>1, <2>1 DEF record_release, AppendRecord, memory
<1>2. ASSUME NEW t \in rollbacks, record_rollback(t)
      PROVE  /\ \E x \in GreenRecords : ledger' = Append(ledger, x)
             /\ UNCHANGED scopes
  <2> DEFINE x == [type |-> "rollback", task |-> t, at |-> now]
  <2>1. x \in GreenRecords
    BY <1>0 DEF GreenRecords
  <2>2. QED
    BY <1>2, <2>1 DEF record_rollback, AppendRecord, memory
<1>3. CASE \E t \in Tasks, a \in GreenAgents :
             \/ release_plan(t, a) \/ rollback(t, a)
             \/ \E cited \in SUBSET approvals : execute_release(t, a, cited)
  BY <1>3 DEF release_plan, rollback, execute_release, Asks, vars
<1>4. QED
  BY <1>1, <1>2, <1>3 DEF GreenNext, GreenCalls

\* Of every scope in the ledger that is not its task's first, the ledger shows an
\* approval in force that covered it, with green's records in between, when declared
\* tasks are not declared again.
THEOREM GreenScopesAreWarranted == ASSUME ~Redeclares PROVE GreenSpec => []ScopeIsWarranted
<1>1. ASSUME GreenInv, ScopeIsWarranted, [GreenNext]_<<vars, greenVars>>
      PROVE  ScopeIsWarranted'
  <2>1. MemoryInv(GreenRecords) /\ Foreign(GreenRecords)
    BY <1>1, GreenIsForeign DEF GreenInv
  <2>2. CASE [Next]_vars
    BY <1>1, <2>1, <2>2, ScopesStep
  <2>3. CASE \E x \in GreenRecords : ledger' = Append(ledger, x)
    BY <1>1, <2>1, <2>3, OthersKeepScopes
  <2>4. QED
    BY <1>1, <2>2, <2>3, GreenOrWhite
<1>2. GreenInit => ScopeIsWarranted
  BY InitScopes DEF GreenInit
<1>3. QED
  BY <1>1, <1>2, GreenInvHolds, PTL DEF GreenSpec

\* No call of green's or the white team's that writes to the ledger lowers a
\* declared task's risk, when declared tasks are not declared again.
THEOREM GreenKeepsRisk == ASSUME ~Redeclares PROVE GreenSpec => NoCallLowersRisk
<1>1. ASSUME GreenInv, [GreenNext]_<<vars, greenVars>>, ledger' # ledger
      PROVE  NoRiskLowered
  <2>1. MemoryInv(GreenRecords)
    BY <1>1 DEF GreenInv
  <2>2. CASE [Next]_vars
    BY <1>1, <2>1, <2>2, RiskStep
  <2>3. CASE UNCHANGED scopes
    BY <2>1, <2>3, CallsNeverLowerRisk
  <2>4. QED
    BY <1>1, <2>2, <2>3, GreenOrWhite
<1>2. GreenInv /\ [GreenNext]_<<vars, greenVars>> => [ledger' # ledger => NoRiskLowered]_vars
  BY <1>1
<1>3. QED
  BY <1>2, GreenInvHolds, PTL DEF GreenSpec, NoCallLowersRisk, NoRiskLowered
=============================================================================
