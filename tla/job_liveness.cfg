SPECIFICATION FairSpec
CONSTANTS
  j1 = j1  j2 = j2  d1 = d1  w1 = w1  w2 = w2  c1 = c1  k1 = k1  k2 = k2  k3 = k3
  Jobs = {j1, j2}
  Datasets = {d1}
  DatasetOf <- OneDataset
  Kind <- SingleAndMulti
  Workers = {w1, w2}
  Cleaners = {c1}
  Keys = {k1, k2}
  NoKey = NoKey
  NoMsg = NoMsg
  MaxRetries = 2
  Budget <- LivenessBudget
CHECK_DEADLOCK FALSE
PROPERTIES JobsSettle ExpiredReclaimed
