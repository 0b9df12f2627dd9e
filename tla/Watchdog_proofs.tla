---------------------------- MODULE Watchdog_proofs ----------------------------
(***************************************************************************)
(* Proofs about Watchdog, for every interval, threshold, window and        *)
(* resolution of time: what the misses it counts say of the time an agent  *)
(* has been silent, and what an escalation says of a hold.                 *)
(***************************************************************************)
EXTENDS Watchdog, TLAPS

Positive == Nat \ {0}

\* What a quotient says of its dividend.
LEMMA Quotient ==
  ASSUME NEW n \in Nat, NEW h \in Positive
  PROVE  /\ n \div h \in Nat
         /\ h * (n \div h) <= n /\ n < h * (n \div h) + h
BY DEF Positive

\* A product grows with its factor.
LEMMA Grows ==
  ASSUME NEW a \in Nat, NEW b \in Nat, NEW h \in Positive, a <= b
  PROVE  h * a <= h * b
BY DEF Positive

\* What the clock makes older are ages.
AgesOK == /\ silence \in [Agents -> Nat \cup {None}]
          /\ holds \in [Tasks -> Nat \cup {None}]

\* The misses counted reach the threshold a second after that many intervals.
LEMMA MissesCountIntervals ==
  ASSUME NEW n \in Nat, NEW s \in Positive, NEW h \in Positive, NEW m \in Positive
  PROVE  (IF n <= h * s THEN 0 ELSE (n - s) \div (h * s)) >= m <=> n >= (m * h + 1) * s
<1> DEFINE w == h * s
<1>1. w \in Positive /\ w \in Nat /\ w >= 1
  BY DEF Positive
<1>2. (m * h + 1) * s = w * m + s
  BY DEF Positive
<1>3. w * m \in Nat /\ w * 1 <= w * m
  BY <1>1, Grows DEF Positive
<1>4. s \in Nat /\ s >= 1 /\ m \in Nat /\ m >= 1
  BY DEF Positive
<1> HIDE DEF w
<1>5. (IF n <= w THEN 0 ELSE (n - s) \div w) >= m <=> n >= w * m + s
  <2>1. CASE n <= w
    BY <1>1, <1>3, <1>4, <2>1
  <2>2. CASE n > w
    <3>1. w >= s
      <4>1. s * 1 <= s * h
        BY <1>4, Grows DEF Positive
      <4>2. s * h = w
        BY DEF w, Positive
      <4>3. QED
        BY <1>1, <1>4, <4>1, <4>2
    <3> DEFINE q == (n - s) \div w
    <3>2. n - s \in Nat
      BY <1>1, <1>4, <2>2, <3>1
    <3>3. q \in Nat /\ w * q <= n - s /\ n - s < w * q + w /\ w * q \in Nat
      BY <1>1, <3>2, Quotient
    <3> HIDE DEF q
    <3>4. ASSUME q >= m PROVE n >= w * m + s
      <4>1. w * m <= w * q
        BY <1>1, <1>4, <3>3, <3>4, Grows
      <4>2. QED
        BY <1>1, <1>3, <1>4, <3>3, <4>1
    <3>5. ASSUME q < m PROVE n < w * m + s
      <4>1. q + 1 \in Nat /\ q + 1 <= m
        BY <1>4, <3>3, <3>5
      <4>2. w * (q + 1) <= w * m
        BY <1>1, <1>4, <4>1, Grows
      <4>3. w * (q + 1) = w * q + w
        BY <1>1, <3>3
      <4>4. QED
        BY <1>1, <1>3, <1>4, <3>3, <4>2, <4>3
    <3>6. q >= m <=> n >= w * m + s
      BY <1>3, <1>4, <3>3, <3>4, <3>5
    <3>7. QED
      BY <1>1, <2>2, <3>6 DEF q
  <2>3. QED
    BY <1>1, <2>1, <2>2
<1>6. QED
  BY <1>2, <1>5 DEF w

\* Ages stay ages.
LEMMA AgesStayAges == Spec => []AgesOK
<1>1. Init => AgesOK
  BY DEF Init, AgesOK
<1>2. AgesOK /\ [Next]_vars => AgesOK'
  <2> SUFFICES ASSUME AgesOK, [Next]_vars PROVE AgesOK'
    OBVIOUS
  <2>1. CASE Tick
    <3>1. \A age \in Nat \cup {None}, limit \in Nat : Aged(age, limit) \in Nat \cup {None}
      BY DEF Aged
    <3>2. QED
      BY <2>1, <3>1, LongAssumption DEF Tick, AgesOK
  <2>2. CASE \E a \in Agents : heartbeat(a) \/ quarantine(a) \/ unquarantine(a)
    BY <2>2 DEF heartbeat, quarantine, unquarantine, AgesOK
  <2>3. CASE \E D \in SUBSET Held : escalate_stale_blocks(D) \/ escalate_stale_blocks_Raises(D)
    BY <2>3 DEF escalate_stale_blocks, escalate_stale_blocks_Raises, AgesOK
  <2>4. CASE \E t \in Tasks : Hold(t) \/ Release(t) \/ Pause(t) \/ Resume(t)
    BY <2>4 DEF Hold, Release, Pause, Resume, AgesOK
  <2>5. CASE Restart
    BY <2>5 DEF Restart, AgesOK
  <2>6. CASE UNCHANGED vars
    BY <2>6 DEF vars, AgesOK
  <2>7. QED
    BY <2>1, <2>2, <2>3, <2>4, <2>5, <2>6 DEF Next
<1>3. QED
  BY <1>1, <1>2, PTL DEF Spec

\* An agent heard of is stale from one second after its last allowed interval on
\* and not before, whatever interval and threshold a caller passes and however
\* finely time is told; one never heard of is stale to the callers whose
\* threshold is not above the watchdog's own by more than one.
THEOREM StaleOnTime == Spec => []StaleWithinASecond
<1>1. AgesOK => StaleWithinASecond
  <2> SUFFICES ASSUME AgesOK, NEW a \in Agents, NEW i \in Intervals, NEW h \in Thresholds
               PROVE  is_stale(a, i, h) <=>
                        IF silence[a] = None THEN h <= HEARTBEAT_MISSES_THRESHOLD + 1
                        ELSE silence[a] >= (h * i + 1) * Second
    BY DEF StaleWithinASecond
  <2>1. i \in Positive /\ h \in Positive /\ Second \in Positive
        /\ HEARTBEAT_MISSES_THRESHOLD \in Nat
    BY ThresholdAssumption DEF Positive
  <2>2. CASE silence[a] = None
    BY <2>1, <2>2 DEF is_stale, missed_heartbeats, Positive
  <2>3. CASE silence[a] \in Nat
    <3>1. silence[a] # None
      BY <2>3, ThresholdAssumption
    <3>2. missed_heartbeats(a, i) >= h <=> silence[a] >= (h * i + 1) * Second
      BY <2>1, <2>3, <3>1, MissesCountIntervals DEF missed_heartbeats
    <3>3. QED
      BY <3>1, <3>2 DEF is_stale
  <2>4. QED
    BY <2>2, <2>3 DEF AgesOK
<1>2. QED
  BY <1>1, AgesStayAges, PTL

\* No hold is escalated before it has outstayed the window in the state it is in,
\* whatever sweeps fail half way and whatever pauses, nestings and restarts come
\* between.
THEOREM EscalationsAreDue == Spec => []EscalatedOutstayed
<1>1. Init => EscalatedOutstayed
  BY DEF Init, EscalatedOutstayed
<1>2. AgesOK /\ EscalatedOutstayed /\ [Next]_vars => EscalatedOutstayed'
  <2> SUFFICES ASSUME AgesOK, EscalatedOutstayed, [Next]_vars PROVE EscalatedOutstayed'
    OBVIOUS
  <2> DEFINE Window == DEFAULT_STALE_BLOCK_SECONDS * Second
  <2>1. Window \in Nat /\ LongHold \in Nat /\ LongHold > Window
    BY ThresholdAssumption, LongAssumption
  <2> HIDE DEF Window
  <2>2. \A t \in escalated : t \in Tasks /\ holds[t] \in Nat /\ holds[t] > Window
    BY DEF EscalatedOutstayed, Held, AgesOK, Window
  <2>3. SUFFICES \A t \in escalated' : t \in Tasks /\ holds'[t] \in Nat /\ holds'[t] > Window
    BY ThresholdAssumption DEF EscalatedOutstayed, Held, Window
  <2>4. CASE Tick
    <3> SUFFICES ASSUME NEW t \in escalated
                 PROVE  Aged(holds[t], LongHold) \in Nat /\ Aged(holds[t], LongHold) > Window
      BY <2>2, <2>4 DEF Tick
    <3>1. QED
      BY <2>1, <2>2 DEF Aged
  <2>5. CASE \E D \in SUBSET Held : escalate_stale_blocks(D) \/ escalate_stale_blocks_Raises(D)
    <3>1. PICK D \in SUBSET Held : escalated' \subseteq escalated \cup StaleHolds(D)
      BY <2>5 DEF escalate_stale_blocks, escalate_stale_blocks_Raises
    <3>2. holds' = holds
      BY <2>5 DEF escalate_stale_blocks, escalate_stale_blocks_Raises
    <3>3. \A t \in StaleHolds(D) : t \in Tasks /\ holds[t] \in Nat /\ holds[t] > Window
      BY <3>1 DEF StaleHolds, Held, AgesOK, Window
    <3>4. QED
      BY <2>2, <3>1, <3>2, <3>3
  <2>6. CASE \E t \in Tasks : Hold(t) \/ Release(t) \/ Pause(t) \/ Resume(t)
    <3>1. PICK t \in Tasks : Hold(t) \/ Release(t) \/ Pause(t) \/ Resume(t)
      BY <2>6
    <3>2. CASE Hold(t) \/ Release(t)
      <4>1. escalated' = escalated \ {t} /\ \A u \in Tasks \ {t} : holds'[u] = holds[u]
        BY <3>2 DEF Hold, Release, AgesOK
      <4>2. QED
        BY <2>2, <4>1
    <3>3. CASE Pause(t) \/ Resume(t)
      BY <2>2, <3>3 DEF Pause, Resume
    <3>4. QED
      BY <3>1, <3>2, <3>3
  <2>7. CASE \E a \in Agents : heartbeat(a) \/ quarantine(a) \/ unquarantine(a)
    BY <2>2, <2>7 DEF heartbeat, quarantine, unquarantine
  <2>8. CASE Restart
    BY <2>2, <2>8 DEF Restart
  <2>9. CASE UNCHANGED vars
    BY <2>2, <2>9 DEF vars
  <2>10. QED
    BY <2>4, <2>5, <2>6, <2>7, <2>8, <2>9 DEF Next
<1>3. QED
  BY <1>1, <1>2, AgesStayAges, PTL DEF Spec
=============================================================================
