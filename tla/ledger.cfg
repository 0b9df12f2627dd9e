\* The evidence ledger's file and chain under outputs refused half way, failed and torn writes, and restarts.
SPECIFICATION Spec
CONSTANTS
  Tasks = {"t1", "t2"}
  Outputs <- MCOutputs
  Drafts <- MCDrafts
  Encoded = TRUE
  None = None
  MaxRecords = 4
  MaxTorn = 2
INVARIANTS TypeOK ReturnedSurvives GateAnswersStand ChainBreaksAtALoss
CHECK_DEADLOCK FALSE
