SPECIFICATION Spec
CONSTANTS
  Requests = {r1, r2}
  Datasets = {d1, d2}
  Keys = {k1, k2}
  Jobs = {j1, j2}
  NoDataset = NoDataset
  NoKey = NoKey
  NoJob = NoJob
  NoRequest = NoRequest
  Idle = Idle
  Gone = Gone
  ApiOps = {"dbt", "multi", "multi_generate"}
  MaxAttempts = 2
  MaxLosses = 1
  MaxDeletes = 1
CHECK_DEADLOCK FALSE
INVARIANTS TypeOK InputsAccounted ChargedOnce ShownExplained
PROPERTIES PollingEnds
