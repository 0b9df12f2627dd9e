\* The event log's file under deaths, failed writes, torn writes and restarts.
SPECIFICATION Spec
CONSTANTS
  Keys = {"k1", "k2", "k3"}
  Uncoded = {"k1"}
  MaxEvents = 5
  MaxTorn = 2
INVARIANTS TypeOK OneLinePerKey LossIsBounded
PROPERTY IsDurable
CHECK_DEADLOCK FALSE
