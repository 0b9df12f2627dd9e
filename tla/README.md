# A verification development of color-harness

TLA+ models of the core of color-harness, the TLC runs that check them, and
TLAPS proofs of what matters most. Paths are relative to the repository; the
Python code is under `src/colorharness/`, the documents it answers to under
`src/docs/`.

## 1. Inventory

color-harness coordinates "colour teams" of agents that take a task from intake
to release. It is one Python process without threads; every call runs to its
end unless the process dies in it. What is hard about it is therefore not
preemption but sequences of calls by many actors: requests that are resent,
rejected and replayed, holds that nest, approvals that expire, are revoked or
lose their role between two calls, two files that are written one after the
other, and memory that is rebuilt from them.

| Component | State it keeps | Operations that change it | What makes it correct |
| --- | --- | --- | --- |
| Task state machine `_common.py` | none | - | a frozen table of transitions, holds that remember where to resume |
| Coordinator `coordinator.py` | `_tasks`: state, resume state, seq | `create_task`, `apply_transition`, `_replay` | only legal, authorised, evidenced moves; no request done twice; a restart changes nothing |
| Event log `eventlog.py` | `events`, `_seen` (idempotency cache), a JSON lines file | `append`, `_load` | append only; one event per (actor, request id); a replayed request gets its outcome, another one a conflict |
| White team `governance.py` | `_scopes`, `_approvals`, `_revoked`, `_paused` | `declare_scope`, `expand_scope`, `raise_risk`, `record_approval`, `revoke_approval`, `pause`, `resume`, `escalate`, `record_*` | no silent broadening, quorum by role and risk, risk only rises, the ledger warrants all of it |
| Registry `registry.py` | agents, teams, reviewer roles | `register`, `unregister`, `grant_role`, `revoke_role` | roles only for the teams that may hold them |
| Evidence ledger `ledger.py` | records, drafts, a JSON lines file, a hash chain | `append`, `mark_complete`, `complete_evidence`, `_load` | append only, complete records only, one supersession, tampering noticed |
| Watchdog `watchdog.py` | heartbeats, quarantines | `heartbeat`, `quarantine`, `unquarantine`, `escalate_stale_blocks` | an agent is stale when it should be and not before, a hold escalated only past its window, a quarantined agent moves nothing |
| Scope, secrets, risk `scope.py`, `secrets.py`, `risk.py` | none | - | verdicts other components act on |
| Teams `observer.py` ... `green.py` | almost none; gold keeps policy versions | build records, plans and policies, hand them to the white team | validated output, releases only under approval |

How they interact: the coordinator asks the event log first (is this request
known?), then the white team (`is_paused`, `has_valid_approval`,
`has_evidence`, `verification_passing`), the watchdog (`is_quarantined`) and
the registry (team, roles), all synchronously; if nothing objects it appends an
event to the log, updates the task and has the white team append a
`transition` record to the ledger, in this order. The white team reads the
registry whenever it counts approvals. A restart makes a new event log from its
file, a new coordinator by replaying it, and a new white team from the ledger;
the watchdog's quarantines and the registry are memory only. Of the watchdog the
coordinator asks `is_quarantined` and nothing in the repository calls the rest:
whether anybody asks `is_stale`, quarantines or sweeps for stale holds is up to
who runs the harness.

The hazards of this code, each at its line and with the properties that would
catch it going wrong, are listed in `PROJECT.json`.

## 2. Modules

| Module | Models | State and actions against the code |
| --- | --- | --- |
| `Lifecycle` | `_common.py` | Definitions only. `resolve_next_state(s, tr, r, n)` is the function of that name as a relation. |
| `Registry` | `registry.py` | `teamOf` and `roles` are `_agents`; `register`, `unregister`, `grant_role`, `revoke_role`. Every module that asks for a team or a role extends it, and its owner acts between any two calls. |
| `Coordinator` | `coordinator.py`, `eventlog.py` | `tasks` is `_tasks`; `log` is `EventLog.events` and its file; `reply` what the last call returned. One action per outcome of `create_task` and `apply_transition`, `Restart` for `__init__` and `_replay` (`Replay`, event by event), two crash actions for a process that dies between the log and the ledger, and the `...Fails` and `...Raises` actions for a write to the log or the ledger that raises in a process that lives on; `unwritten` is what `_seen` then knows of events the file has not got. The guards of `apply_transition` are `Fails`, in the order of `GuardOrder`; `CaughtBy` is the early return. |
| `TaskContract` | what `coordinator.py` promises | The abstract specification: a stage per task, the tasks held, paused and evidenced, and nothing of logs, requests or resume states. `Coordinator` implements it (`KeepsContract`), with the last path state of the log for the stage. |
| `WhiteTeam` | `governance.py`, order of `risk.py` | Variables are the fields of `WhiteTeam`, the ledger and the clock; one action per method, a second one where the ledger's refusal leaves memory changed, `Restart` for `_rebuild_from_ledger` (`RebuiltMemory`, record by record). |
| `Harness` | coordinator and white team together | `WhiteTeam`'s variables and `Coordinator`'s `tasks`, `log`, `unwritten`, `reply` over one registry, ledger and clock; `create_task` calls `declare_scope`, a transition `record_transition`, a lost process loses both memories. `Coordinator`'s `paused`, `approved`, `declared` and `audit` are a refinement mapping: what the real white team answers, what the real ledger holds. |
| `Green` | `green.py`, `valid_approval_refs`, `record_green_output` | Over `WhiteTeam`. Plans, releases and rollbacks are objects in callers' hands; a release remembers what the clock and the ledger said when it was executed. |
| `Watchdog` | `watchdog.py` | `_heartbeats` and hold times as ages in ticks, of which a second has any number, and `_quarantined`; `heartbeat`, `quarantine`, `unquarantine`, and `escalate_stale_blocks` with two endings, all callers' to call or not. |
| `Gold` | `gold.py` | `_standards` and `_pipelines` as sets of versions, compared as the texts they are. |
| `JsonLines` | the files of `eventlog.py` and `ledger.py` | Definitions only: a file as lines of the pieces writes left on them, what a write makes of it when it returns and when it does not, and which lines can be read. |
| `EventStore` | `eventlog.py` as a store | `events` is the list and `_seen`, `file` what is on disk; `append` with its three endings (return, OSError, death), the cached answer, `Open` for `_load`. |
| `DurableLog` | what `eventlog.py` promises | The abstract specification of a log that loses nothing: entries added under new keys, a process that serves all of them or is not there, callers told of stored entries only. `Coordinator` asks no more of its log (`UsesDurableLog`), `EventStore` provides it until a write fails or tears (`IsDurable`). |
| `Evidence` | `ledger.py`, the `record_*_output` calls and evidence questions of `governance.py` | `records` is `_records`; `record_output` appends what a team hands in record by record until one is refused; `append_draft` and `complete_evidence`, which may change whether a test passed; `Open` for the strict `_load`; `has_evidence` and `verification_passing` are the coordinator's questions. |
| `MCCoordinator`, `MCWhiteTeam`, `MCHarness`, `MCGreen`, `MCGold`, `MCEvidence` | - | The calls, agents, scopes and outputs of each run. |
| `Coordinator_proofs`, `Contract_proofs`, `WhiteTeam_proofs`, `Green_proofs`, `Harness_proofs`, `EventStore_proofs`, `Evidence_proofs`, `Watchdog_proofs` | - | The proofs. `Contract_proofs` builds on `Coordinator_proofs`, `Green_proofs` and `Harness_proofs` on `WhiteTeam_proofs`; `Harness_proofs` also takes the theorems of `Contract_proofs` under its refinement mapping. |

Abstractions. Ids, timestamps, titles, reasons and details are data: a caller's
text is a `Note`, of which some hold secrets; an event is named by its place in
the log, a fresh uuid by a number no caller's key equals; a fingerprint is the
record of what it hashes. The scope of a task is the set of its entries and
`scope_covers` is inclusion; an expansion adds entries to lists, as the calls of
the repository do. In `Coordinator` the white team and the watchdog are what
the coordinator asks of them, free to change between any two calls (`Governance`,
`Watchdog`); evidence only grows, because the ledger is append only. After a
restart approvals are counted anew and pauses may have come back
(`GovernanceRebuilt`), because the white team is rebuilt too; that the real one
does nothing else is what `Harness` shows. The model has governance and
watchdog configured; without them the code skips their guards. The agent the
coordinator registers for the watchdog makes no calls of the coordinator's, and
is left out. The transitions `Harness` tells from the ledger
(`Transitions`) are in closed form, by counting: the k-th is the one with k
transition records up to it. A ledger that loads in `Evidence` has a record on
every line, and `Loaded` takes them line by line.

A write that raises in a process that lives on is modelled where the code would
go on from it. In `Coordinator`, when the log's write raises, the event is in
`unwritten`: the task has not moved, the caller has an exception, and a resend
under the same key is answered with the outcome that never happened, until a
restart forgets it. When the ledger raises, the task has moved or exists, and the
ledger does not know. `Harness` has the same actions over the real white team. In
these modules a failed write leaves nothing on file that a later load reads, and
what a torn one may leave is the matter of `EventStore` and `Evidence`, which have
the files as they are and say what that assumption costs: an event a caller was
told of is lost only beside a failed or torn write, two for one at most, and a
record never silently. In these two modules a write that does not return may have left any
prefix of its bytes, none or all of them included, and may end inside a
character, because neither writer escapes; the manifest, and records altered by
others, are left out.

`Watchdog` keeps times as ages in ticks. The code compares fractions of seconds,
so a second has `Second` ticks, any positive number of them, and the boundaries
are said in ticks. An age stops growing once it is past every threshold: time
itself has no bound. Intervals and thresholds are arguments of each call; what an
agent never heard of has missed is a constant of the module (watchdog.py:57). The
holds handed to the sweep are those of tasks that are in one. It composes with
`Coordinator` by its quarantines only, of which `Coordinator` takes any history.

The teams other than gold keep no state: what they build is validated by its
constructor and handed to the white team. `Evidence` has the handing in
(`record_output`), with the verdict of the constructors and of the ledger as
`sound`; `Green` has green's own.

`..._Bug` definitions are plausible slips of the definition that follows them.
No specification uses them: each is put in its place to see that the property
named in `PROJECT.json` notices.

## 3. Runs

Every run bounds the log or the ledger by its length (`MaxEvents`,
`MaxRecords`), the rejected events (`MaxRejections`), the transitions and
declarations a crash or a refusal keeps from the ledger (`MaxLost`), the events a
process remembers and could not write (`MaxFailed`) and the clock (`MaxTime`). A bounded log
fills up, so the runs do not ask for deadlock freedom.

| Run | Checks | Bounds and why they are enough |
| --- | --- | --- |
| `path` | `EvidenceTrail` | One task, eleven events: the whole path from creation to closure is ten, and a block with its resolution fits in before every evidence gate, the last gate being the seventh event. All five kinds of evidence in any order. No crash and no escalation here: `holds` has both around the first gate, and `EvidenceComesFirst` around every one. |
| `holds` | `EvidenceTrail`, `LogIsAPath`, `ResumeIsOrigin`, `RestartLosesNothing`, `ProgressOnlyWhenFree`, `KeepsContract`, `MovedByAuthority` | Eight events: three states of the path with holds nested three deep and resolved, with pauses, one crash and restarts anywhere; the one who unblocks loses and regains the role, and the observation the second step needs comes at any time or never. |
| `requests` | `TypeOK`, `OneEventPerRequest`, `SuccessAnswersTheCall`, `SuccessSeqIncreases`, `AuditFollowsLog`, `DeclaredTasksExist`, `RestartLosesNothing`, `MovedByAuthority`, `UsesDurableLog` | Two tasks, two keys, four events of which one may be a rejection: enough to reuse a key for another task, another trigger and another actor, after a success and after a rejection, and to log again after a restart. One event at a time may be remembered and not written, of a creation, a rejection or a transition, and one declaration or transition missing from the ledger, by a crash or because the ledger refused it. Among the callers are the wrong team, an agent whose quarantine comes and goes, a caller who may not resolve a hold and calls with secrets (the caller who may resolve and a stranger are in `holds`, a call without references in `path`; there the guards are tried and the rejections not logged). No pause, which `holds` has. |
| `governance` | `TypeOK`, `ScopeIsWarranted`, `RebuildIsOneSided`, `NoCallLowersRisk` | Four records: a declaration, two approvals or an approval and its revocation, and an expansion, in every order, with approvals that live one and two ticks and a ledger that may refuse; or a pause, its lift, refused or not, and a pause again; or a reclassification, of a declared task and of one that is not. |
| `green` | `RedIsJoint`, `ReleaseIsWarranted` | Two people, one of whom may hold both Red roles, granted and revoked freely; a declared Red task and one never declared; one release, recorded or not, under either task. Four records: a declaration, two approvals and a revocation or a release, in every order; approvals live one tick of a clock that goes to one, so that all expire, or none has yet. |
| `harness` | `MovesAreWarranted`, `RolesFitTeams`, `ScopeIsWarranted`, `CoordinatorSpec`, `ResolversAreEntitled` | One Orange task, three events, four records: a declaration, an approval, then a protected move, a revocation, a pause or its lift in every order, or a block and its resolution, each event and record perhaps lost to a crash or a refusal; a security lead who leaves and returns as a blue agent. No rejected events and no failed writes to the log: they write nothing to the ledger, the coordinator's own run `requests` has them, and the theorems about `Harness` hold with them. The protected action is one a caller names on the first step of the path, which the code checks like a release, so that the run need not walk to RELEASE. No expansions here, which `governance` has: that scopes stay warranted is whether `create_task` declares a task once, resent, refused and crashed calls included. |
| `store` | `TypeOK`, `OneLinePerKey`, `LossIsBounded`, `IsDurable` | Three keys, five events, two failed or torn writes (`MaxTorn`), and deaths before or after a write as often as there are events to make: a torn line, one glued to it, a load after each, a line that is torn again, a resend of everything lost. The bound of `LossIsBounded` is reached; `IsDurable` is about the runs, 2112 states of them, on which no write has been interrupted yet: every order of appends, resends, deaths around a write and starts. |
| `ledger` | `TypeOK`, `ReturnedSurvives`, `GateAnswersStand`, `ChainBreaksAtALoss` | Four records, two interrupted writes: outputs of two records, one refused at its second, a draft of a test result completed twice and with either outcome, a tear and what is glued to it, two losses in a row before a restart. |
| `watchdog` | `StaleWithinASecond`, `EscalatedOutstayed` | Two agents and two tasks in half seconds, intervals of one and two seconds, thresholds of one, three and five, on either side of what an agent never heard of has missed: every silence up to half a second past the last boundary, every age of a hold on, before and behind the window of two seconds. Nothing else is bounded. `Watchdog_proofs` has every interval, threshold and fraction of a second. |

The runs named `doc_*` each state what a document, comment or test says and the
code does not do; TLC finds the behaviour, and `PROJECT.json` quotes the line:

| Run | Statement refuted |
| --- | --- |
| `doc_resume` | UNBLOCK leads where BLOCK recorded, DECISION_RESUME where ESCALATE did: a decision that leads back to a block overwrites what the block recorded, and the unblock leads to ESCALATED; from there the two resolutions lead to each other |
| `doc_red` | a Red gate needs two authorities: approvals of lower roles count toward the two |
| `doc_gold` | versions strictly increase: texts are compared, and 1.9 sorts after 1.10 |

The models show more of this kind, for which no run is kept:

- an answer may be about another task: the fingerprint leaves the task out
  (coordinator.py:175), where eventlog.py:39 has it identify "an operation's
  intent"; `SuccessAnswersTheCall` is what remains;
- a caller that names another protected action on RELEASE_APPROVED is asked for
  an approval of that action instead of a release approval (coordinator.py:272),
  beside docs/agent-contract.md:258; `MovesAreWarranted` is what remains;
- a rebuild ignores risk reclassifications (governance.py:196), so a restart puts
  a raised risk back to the declared one, where docs/agent-contract.md:372 lets
  risk move up only; `NoCallLowersRisk` is what remains;
- green asks that the approvals it cites be valid and not that they cover the
  task's scope, make its quorum, or come from someone who still holds the role,
  nor whether the task is paused (green.py:176, governance.py:1146);
  `ReleaseIsWarranted` is what remains;
- a restart forgets the sequence numbers rejections took, so a number may name
  a rejection and a later success of its task (`_apply`, coordinator.py:384);
- a rejection logged without fingerprint answers every later call under its key
  (coordinator.py:237 and its siblings), where the contract has a conflict;
- a process that dies between the event and the ledger leaves a transition out
  of the ledger for good (coordinator.py:338); `AuditFollowsLog` is what remains;
- granting a revoked role again makes the approvals recorded under it count
  again (governance.py:568), where the authority matrix has them voided;
- one valid approval, even of somebody who lost the role, expands a scope
  (governance.py:278); `ScopeIsWarranted` is what remains;
- an event a caller was told of may not survive a torn write beside it
  (eventlog.py:112), where eventlog.py:1 says "durable"; `LossIsBounded` is what
  remains, and one tear with two writes after it leaves a file that no longer
  loads. Without a failed or torn write the word holds: `IsDurable`;
- a draft may be completed more than once (ledger.py:248), where
  docs/agent-contract.md:246 speaks of at-most-once supersession;
- a passing test result stays on record when the next one of the same output is
  refused (governance.py:710 and its siblings);
- a call whose event could not be written is answered, when it is resent, with the
  success or rejection that never took effect (eventlog.py:186 before 187,
  coordinator.py:178), where coordinator.py:339 would have moved the task;
- docs/agent-contract.md:293-295 (G14), docs/authority-matrix.md:122-124 and
  README.md:158 have the watchdog quarantine agents that miss their heartbeats and
  escalate stale blocks; in the repository nothing calls `is_stale`, `quarantine`
  or `escalate_stale_blocks`, so that nothing of the kind happens unless a caller
  sees to it;
- an agent never heard of has missed a number of heartbeats fixed in
  watchdog.py:57, and is not stale to a caller whose threshold is larger;
- each sweep escalates every stale hold again, escalated before or not
  (watchdog.py:118), and one that the ledger refuses half way leaves the later
  ones out (watchdog.py:119); times handed in of holds that are over, which
  `state_entered_at` keeps (coordinator.py:393), it would escalate too.

Fairness. None is assumed. The coordinator, the white team, the teams and the
watchdog are called by agents who may as well not call: nothing in the code
schedules an action, starts a thread or sets a timer, and every specification is
`Init /\ [][Next]_vars`. For this reason no liveness property is stated, not
even of the watchdog, for which the documents claim some (see above).

## 4. Proofs

Every safety property that a passing run checks is a theorem. The theorems hold
for every set of tasks, agents, keys, scopes and calls and for every bound; the
few that assume more (`~Redeclares`, `MaxTorn = 0`) say so in their statement, and
below why.

### The coordinator

`Coordinator_proofs`:

- `StoreInvariant`: `Spec => []StoreInv`, the inductive invariant;
- `TypeCorrect`: `Spec => []TypeOK`;
- `SeqsAlwaysIncrease`: `Spec => []SuccessSeqIncreases`;
- `RestartIsHarmless`: `Spec => []RestartLosesNothing`;
- `RequestsAreIdempotent`: `Spec => []OneEventPerRequest`;
- `SuccessesAnswerTheirCalls`: `Spec => []SuccessAnswersTheCall`;
- `LogIsUsedAsDurable`: `Spec => UsesDurableLog`, the refinement of `DurableLog`
  by the coordinator's log and answers.

`TypeOK` alone is not inductive: a restart takes a task from the last success
the log has of it, so the type of `tasks` after a restart depends on there
being one, and that `Replay`'s largest seq is the last one's depends on the
seqs being in order. `StoreInv` therefore adds `TasksMatch` (a task exists when
the log has events of it, and then it is in the state and with the resume state
its last success set, its seq not behind) and `SeqsIncrease` (the seqs of
successes increase). Each needs the others: the next success's seq is above all
earlier ones because the task in memory is not behind them. The proof has one
lemma for each way tasks and log change together (intake, transition, rejection,
restart, crash), one that says what appending an event does to the events and
the successes of each task, and one that says what a replay of such a log gives.
`RequestsAreIdempotent` needs types only: every event is logged under a key the
cache does not know (`LogStep`). `SuccessesAnswerTheirCalls` needs `AnswerInv`
besides: every success in the log carries the fingerprint of a call with its own
trigger, or of an intake if it is a creation. That an intake's fingerprint is never a
transition's follows from their fields.

`Replay` is the loop of the code, a recursive function over a log of any length.
The proofs read it off the last success of each task instead (`Rebuilt`), which
`ReplayIsRebuilt` shows to be the same. The library's induction theorems take an
operator and cannot be used here; its theorem that the natural numbers are well
founded has none, and says that a set of them that is not empty has a least
element. What is read off the log's prefixes satisfies the loop's own equation
(one event more is one step more, which is where the order of the seqs is
needed), and two functions that satisfy it agree, because there is no least
number at which they differ.

`Contract_proofs`:

- `OriginInvariant`: `Spec => [](StoreInv /\ OriginInv)`, where `OriginInv` says
  that a task at work is in the last path state the log has of it (its origin)
  and a hold that is to end at work ends there. `ResumeIsOrigin` alone says
  nothing of a task at work, from where the next hold takes its resume state;
- `HoldsResumeAtTheOrigin`, `HeldTasksStay`, `EvidenceComesFirst`:
  `ResumeIsOrigin`, `ProgressOnlyWhenFree`, `EvidenceTrail`;
- `KeepsTheContract`: `Spec => KeepsContract`, the refinement of `TaskContract`.
  One lemma (`LoggedStep`) says what a step may append to the log, the others
  what each of these does to the origin; a crash is then a transition like
  another, and a restart a stutter;
- `LogTellsAPath` (`LogIsAPath`), `LedgerFollowsLog` (`AuditFollowsLog`),
  `DeclarationsHaveTasks` (`DeclaredTasksExist`) and `OnlyAuthorityMoves`
  (`MovedByAuthority`), by the same case split on what a step logs.

### The white team, and what is built over it

`WhiteTeam_proofs`:

- `MemoryInvariant`, of `MemoryInv`: the types, and for each piece of memory on
  which side of the rebuilt one it stands. It is inductive because every call
  either writes what it changes or changes only in the direction a rebuild
  undoes; `WhiteTeamTypes` and `RebuildsAreOneSided` follow. What a rebuild makes of
  a ledger, record by record, is read off its last declarations and lifts, as the
  coordinator's replay is off its successes (`RebuiltIsRestored`);
- `ScopesAreWarranted` and `CallsKeepRisk`, under the assumption `~Redeclares`,
  that a task is declared once: the harness declares a task in `create_task`
  only, which refuses an existing id, and a second `declare_scope` of a caller's
  own may broaden a scope and lower a risk without any approval;
- `RedGatesAreJoint`: `RedIsJoint`, by counting two distinct approvers among the
  counted approvals and splitting on which role each gave. The lemma,
  `RedNeedsBoth`, is about any state, and so holds of the composed modules too;
- `RolesAlwaysFit`: `RolesFitTeams`, of the registry under the white team.

In the composed modules others write to the same ledger. `MemoryInv(X)` therefore
takes the set `X` of the records they write, of which it asks only that they are
of none of the types a rebuild reads (`Foreign(X)`), and the lemma of each call
is stated for every such `X`: `X = {}` for the white team alone, releases and
rollbacks for `Green`, transitions for `Harness`.

`Green_proofs`: `GreenInvHolds`, of `GreenInv`, and from it `ReleasesAreWarranted`
(`ReleaseIsWarranted`). A release remembers how much of the ledger it saw;
`GreenInv` keeps that within the ledger, so that records appended later cannot
change what warranted it. `GreenRebuildsAreOneSided`,
`GreenScopesAreWarranted` and `GreenKeepsRisk` are
the white team's theorems with green's records in between, the last two under
`~Redeclares` again.

`Harness_proofs`:

- `HarnessInvHolds`, of `HarnessInv`: `MemoryInv` for a ledger with transitions,
  pauses only of tasks somebody may pause, and transition records that can be
  counted off, so that appending one appends to `Transitions`;
- `HarnessRolesFit` (`RolesFitTeams`) and `OnlyEntitledResolve`
  (`ResolversAreEntitled`), the first of which the second needs;
- `MovesAnswerToApprovals` (`MovesAreWarranted`). `WarrantInv` adds that the
  events of the ledger's transitions are in the log, which the next event
  therefore is not one of; what answers for a record does so whatever is
  recorded later (`StillAnswers`), and the white team gives `has_valid_approval`
  only on approvals that the ledger has (`MemoryInv`);
- `HarnessImplementsCoordinator`: `HarnessSpec => CoordinatorSpec`, the
  refinement, with one lemma for each kind of step. A declaration's record
  declares its task and no other, a transition's record is one entry more of
  `Transitions`, and a record of the white team is none of either. An approval,
  an expiry or a change of risk is a recount of approvals (`CountApprovals`,
  `Reassessed`); a rebuild brings back only pauses of tasks that may be paused
  (`GovernanceRebuilt`);
- `HarnessKeepsContract`, `LedgerTellsTheLog`, `ScopesHaveTasks`,
  `HarnessKeepsItsLog` (requests executed once, a log that tells a path, holds that
  lead back, restarts that lose nothing, answers of the trigger asked for),
  `HarnessHeldTasksStay`, `HarnessUsesDurableLog`: with the refinement, the theorems
  about `Coordinator` hold of the harness, its `paused`, `approved`, `declared` and
  `audit` being those of the real white team and its ledger. `SameSpec` says that
  the two instances of `Coordinator`, the one in `Harness` and the one below the
  instance of `Contract_proofs`, mean the same, and `HarnessGrants` that the harness
  meets the coordinator's assumptions;
- `HarnessScopesAreWarranted` and `HarnessKeepsRisk`, the white team's theorems
  without the assumption `~Redeclares`: `DeclaredOnce` derives from
  `ScopesHaveTasks` that `create_task` declares only what has no declaration yet, a
  task it does not find in the log having none in the ledger, although the process
  may die between the two files;
- `HarnessRebuildsAreOneSided`, of a ledger that holds the coordinator's records
  too.

### The files

`EventStore_proofs`:

- `StoreTypeCorrect`: `Spec => []TypeOK`, which includes that a running event
  log knows every event that can be read from its file;
- `FileIsIdempotent`: `Spec => []OneLinePerKey`;
- `LossStaysBounded`: `Spec => []LossIsBounded`;
- `StoreIsDurable`: `Spec => IsDurable`, the refinement of `DurableLog` up to the
  first failed or torn write, and `StoreImplementsDurableLog`, that with
  `MaxTorn = 0`, where there is none, it is a refinement throughout.

For the first two the inductive invariant is `TypeOK /\ OneLinePerKey`: a key is
appended only when memory does not know it, and memory knows all that can be
read. The lemma that carries it, `WriteOutcome`, says that however a write ends,
every readable line of the file is one that was readable before or the new event
on a line of its own behind them: a line once broken is never mended. The bound
of two lost events per interrupted write is not inductive: a line without its end
has cost nothing yet, or one event, and takes the next write with it. `LossInv`
counts what a file still owes in this way (`Owed`: two for a whole line without
its end, one for a broken one) along with what is lost.

Both rest on `WholeInv`, which holds until the first interrupted write: every line
of the file is a whole event with its end, so that the file is the list of the
events and a load of it refuses nothing. A death before or after a write is no
interruption. `LogIsUsedAsDurable` and these two meet in `DurableLog`: without
failed and torn writes, what the coordinator asks of its log is what the file
gives it.

`Evidence_proofs`: `LedgerInvHolds`, of `LedgerInv`, and from it `EvidenceTypes`
(`TypeOK`), `RecordsSurvive` (`ReturnedSurvives`), `GateAnswersHold`
(`GateAnswersStand`) and `ChainBreaksOnlyAtALoss` (`ChainBreaksAtALoss`). The
properties speak of the memory of a running process; a restart makes it from the
file. `LedgerInv` therefore says the same of the file, as long as it loads at all
(`FileKeeps`, `FileLinked`), and that memory carries the chain on where the file
ends or at a record that was not written (`EndsMatch`).

`Watchdog_proofs`: `StaleOnTime` (`StaleWithinASecond`) for every interval and
threshold callers pass and every fraction of a second, the division in
`missed_heartbeats` against a product; and `EscalationsAreDue`
(`EscalatedOutstayed`), for which ages have to be known to be ages
(`AgesStayAges`).

### Assumptions

The assumptions are the named ones of the modules: the calls and the other
parties' acts are of their types, keys are not numbers, `None` is none of the
values it stands beside (a missing fingerprint is no fingerprint), the roles held
at the start fit their teams, thresholds are positive; `HarnessAssumption` asks
the coordinator's of the harness. TLC evaluates them in every run. Finite sets of
tasks or calls are not assumed. Before they were proved, TLC checked the parts of
the invariants it can evaluate as invariants of the runs' instances.

### Only model-checked

Every property of a passing run is a theorem too.

The statements the `doc_*` runs refute are not theorems, of course.

## 5. What is left

`Evidence` under `Harness`: the evidence gates over the real records, drafts
included. `Coordinator` and `Evidence` each have their half, and `GateAnswersStand`
is what the first assumes of the second.

## 6. Not modelled

The text of messages, the allowlist of domains, the secret patterns, hashes and
canonical JSON, the manifest, timestamps as text, a clock that is set back,
exports (`__init__.py`, `write_audit`), and inside the teams' constructors
(`observer.py`, `blue.py`, `black.py`, `silver.py`, `yellow.py`, `red.py`,
`purple.py`, the exceptions of `gold.py`) what they ask of their own arguments:
they keep no state, and a refusal leaves none behind.
