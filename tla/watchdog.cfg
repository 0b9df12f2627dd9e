\* Heartbeats, quarantine and stale holds in half seconds, with sweeps that fail, and restarts.
SPECIFICATION Spec
CONSTANTS
  Agents = {"ann", "bob"}
  Tasks = {"t1", "t2"}
  Second = 2
  HEARTBEAT_MISSES_THRESHOLD = 3
  Intervals = {1, 2}
  Thresholds = {1, 3, 5}
  DEFAULT_STALE_BLOCK_SECONDS = 2
  LongSilence = 23
  LongHold = 5
  None = None
INVARIANTS StaleWithinASecond 
