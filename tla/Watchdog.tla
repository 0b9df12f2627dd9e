------------------------------- MODULE Watchdog -------------------------------
(***************************************************************************)
(* The watchdog of colorharness/watchdog.py: heartbeats, quarantine and    *)
(* the escalation of stale holds.  The harness itself calls none of it but *)
(* is_quarantined, so every call is free: whoever runs the harness decides *)
(* when to ask is_stale, whom to quarantine, and when to hand              *)
(* escalate_stale_blocks the times at which tasks entered their hold.      *)
(*                                                                         *)
(* The code compares times as fractions of seconds.  Here times are ages   *)
(* in ticks, of which a second has Second.  An age past every threshold    *)
(* grows no further, so that time itself has no bound.  A clock set back,  *)
(* and hold times that do not parse (the code passes over them), are left  *)
(* out.                                                                    *)
(***************************************************************************)
EXTENDS Naturals

CONSTANTS
  Agents, Tasks,
  Second,                        \* ticks in a second
  HEARTBEAT_MISSES_THRESHOLD,    \* what an agent never seen has missed, less one
  Intervals, Thresholds,         \* the interval_seconds and thresholds callers pass
  DEFAULT_STALE_BLOCK_SECONDS,
  LongSilence, LongHold,         \* ages, in ticks, past every threshold
  None

ASSUME ThresholdAssumption ==
  /\ Intervals \cup Thresholds \cup {Second} \subseteq Nat \ {0}
  /\ {HEARTBEAT_MISSES_THRESHOLD, DEFAULT_STALE_BLOCK_SECONDS} \subseteq Nat
  /\ None \notin Nat

ASSUME LongAssumption ==
  /\ LongSilence \in Nat /\ LongHold \in Nat
  /\ \A i \in Intervals, h \in Thresholds : LongSilence > (h * i + 1) * Second
  /\ LongHold > DEFAULT_STALE_BLOCK_SECONDS * Second

VARIABLES
  silence,      \* _heartbeats: agent -> age of its last heartbeat, None if never seen
  quarantined,  \* _quarantined
  holds,        \* task -> age of the holding state it is in, or None
  paused,       \* governance.is_paused
  escalated     \* tasks with an escalation by the watchdog in the ledger since their hold began

vars == <<silence, quarantined, holds, paused, escalated>>

-----------------------------------------------------------------------------
\* Faulty variant: the second of grace forgotten.
missed_heartbeats_NoGraceBug(a, interval) ==
  IF silence[a] = None THEN HEARTBEAT_MISSES_THRESHOLD + 1
  ELSE silence[a] \div (interval * Second)

\* int((elapsed - 1) // interval_seconds): a second of grace on every silence that
\* is longer than an interval.  An agent never seen has missed a number of its own.
missed_heartbeats(a, interval) ==
  IF silence[a] = None THEN HEARTBEAT_MISSES_THRESHOLD + 1
  ELSE IF silence[a] <= interval * Second THEN 0
  ELSE (silence[a] - Second) \div (interval * Second)

is_stale(a, interval, threshold) == missed_heartbeats(a, interval) >= threshold

Aged(age, limit) == IF age = None \/ age = limit THEN age ELSE age + 1

Init ==
  /\ silence = [a \in Agents |-> None] /\ quarantined = {}
  /\ holds = [t \in Tasks |-> None] /\ paused = {} /\ escalated = {}

heartbeat(a) ==
  /\ silence' = [silence EXCEPT ![a] = 0]
  /\ UNCHANGED <<quarantined, holds, paused, escalated>>

quarantine(a) ==
  /\ quarantined' = quarantined \cup {a}
  /\ UNCHANGED <<silence, holds, paused, escalated>>

unquarantine(a) ==
  /\ quarantined' = quarantined \ {a}
  /\ UNCHANGED <<silence, holds, paused, escalated>>

\* Faulty variant: a hold as old as the window is taken for older.
StaleHolds_BoundaryBug(D) ==
  {t \in D \ paused : holds[t] >= DEFAULT_STALE_BLOCK_SECONDS * Second}

\* The holds of task_states D that the sweep is to escalate.
StaleHolds(D) == {t \in D \ paused : holds[t] > DEFAULT_STALE_BLOCK_SECONDS * Second}

\* Callers hand in tasks in a hold, as escalate_stale_blocks asks of them.
Held == {t \in Tasks : holds[t] # None}

\* A decision for every stale hold handed in, escalated before or not; the
\* tasks stay as they are.
escalate_stale_blocks(D) ==
  /\ escalated' = escalated \cup StaleHolds(D)
  /\ UNCHANGED <<silence, quarantined, holds, paused>>

\* The ledger refuses a decision half way: those before it stand, the others are
\* not made, and the caller has an exception for the list of what was escalated.
escalate_stale_blocks_Raises(D) ==
  /\ \E done \in SUBSET StaleHolds(D) :
       done # StaleHolds(D) /\ escalated' = escalated \cup done
  /\ UNCHANGED <<silence, quarantined, holds, paused>>

Tick ==
  /\ silence' = [a \in Agents |-> Aged(silence[a], LongSilence)]
  /\ holds' = [t \in Tasks |-> Aged(holds[t], LongHold)]
  /\ UNCHANGED <<quarantined, paused, escalated>>

\* A task enters a hold, or goes from one holding state to the other: the age is
\* that of its current state.  Or it leaves the hold.
Hold(t) ==
  /\ holds' = [holds EXCEPT ![t] = 0]
  /\ escalated' = escalated \ {t}
  /\ UNCHANGED <<silence, quarantined, paused>>

Release(t) ==
  /\ holds' = [holds EXCEPT ![t] = None]
  /\ escalated' = escalated \ {t}
  /\ UNCHANGED <<silence, quarantined, paused>>

Pause(t) == paused' = paused \cup {t} /\ UNCHANGED <<silence, quarantined, holds, escalated>>

Resume(t) == paused' = paused \ {t} /\ UNCHANGED <<silence, quarantined, holds, escalated>>

\* A new Watchdog knows no heartbeat and no quarantine.
Restart ==
  /\ silence' = [a \in Agents |-> None] /\ quarantined' = {}
  /\ UNCHANGED <<holds, paused, escalated>>

Next ==
  \/ \E a \in Agents : heartbeat(a) \/ quarantine(a) \/ unquarantine(a)
  \/ \E D \in SUBSET Held : escalate_stale_blocks(D) \/ escalate_stale_blocks_Raises(D)
  \/ \E t \in Tasks : Hold(t) \/ Release(t) \/ Pause(t) \/ Resume(t)
  \/ Tick
  \/ Restart

Spec == Init /\ [][Next]_vars

-----------------------------------------------------------------------------
(* Properties *)

\* docs/authority-matrix.md, "3 misses by default", for whatever interval and
\* threshold a caller passes: an agent heard of is never stale within that many
\* intervals, and is stale from one second after them, not before; one never
\* heard of is stale to every caller whose threshold is not larger than what the
\* watchdog says such an agent has missed.
StaleWithinASecond ==
  \A a \in Agents, i \in Intervals, h \in Thresholds :
    is_stale(a, i, h) <=>
      IF silence[a] = None THEN h <= HEARTBEAT_MISSES_THRESHOLD + 1
      ELSE silence[a] >= (h * i + 1) * Second

\* G14, "escalates tasks held in BLOCKED/ESCALATED past the stale-block window":
\* a hold has a decision of the watchdog only when it has outstayed the window in
\* the state it is now in, through sweeps that fail half way and are repeated,
\* pauses, holds that nest or begin anew, and restarts.
EscalatedOutstayed ==
  \A t \in escalated : t \in Held /\ holds[t] > DEFAULT_STALE_BLOCK_SECONDS * Second
=============================================================================
