----------------------------- MODULE TaskContract -----------------------------
(***************************************************************************)
(* What the coordinator promises of a task, whatever calls, resends, holds, *)
(* crashes and restarts there are: a stage that only moves along the path  *)
(* of _common.py, only while the task is neither held nor paused, and past *)
(* an evidence gate only with its evidence.  Logs, requests, sequence      *)
(* numbers, resume states and replay do not occur here: the Coordinator    *)
(* module shows that with all of them it keeps this contract.              *)
(***************************************************************************)
EXTENDS Lifecycle

CONSTANTS Tasks, None

VARIABLES
  stage,     \* task -> how far it has come along the path, None before intake
  held,      \* the tasks blocked or escalated
  paused,    \* the tasks the white team has paused
  evidence   \* <<task, type>>: what the ledger has records of

contractVars == <<stage, held, paused, evidence>>

\* The evidence a trigger is gated by.
Evidenced(t, trigger) ==
  /\ \A g \in EVIDENCE_GATED_TRIGGERS : g[1] = trigger => <<t, g[2]>> \in evidence
  /\ trigger = "VERIFICATION_PASSED" => /\ <<t, "passed_test">> \in evidence
                                        /\ <<t, "failed_test">> \notin evidence

Create(t) ==
  /\ stage[t] = None
  /\ stage' = [stage EXCEPT ![t] = "INTAKE"]
  /\ UNCHANGED held

Advance(t) ==
  /\ t \notin held \cup paused
  /\ \E s \in PATH_TRANSITIONS : /\ stage[t] = s[1]
                                 /\ Evidenced(t, s[2])
                                 /\ stage' = [stage EXCEPT ![t] = s[3]]
  /\ UNCHANGED held

Hold(t) ==
  /\ stage[t] \notin ABSORBING \cup {None}
  /\ t \notin paused
  /\ held' = held \cup {t}
  /\ UNCHANGED stage

\* A hold that ends leaves the task where it was.
Release(t) ==
  /\ t \in held
  /\ held' = held \ {t}
  /\ UNCHANGED stage

\* The white team pauses and resumes; its ledger only grows.
WhiteTeamActs == paused' \subseteq Tasks /\ evidence \subseteq evidence'

Init ==
  /\ stage = [t \in Tasks |-> None]
  /\ held = {} /\ paused = {} /\ evidence = {}

Next ==
  /\ \/ \E t \in Tasks : Create(t) \/ Advance(t) \/ Hold(t) \/ Release(t)
     \/ UNCHANGED <<stage, held>>
  /\ WhiteTeamActs

Spec == Init /\ [][Next]_contractVars
=============================================================================
