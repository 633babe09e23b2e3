\* Two drains, two operations under one key and a third under another.
SPECIFICATION FairSpec
CONSTANTS
  o1 = o1
  o2 = o2
  o3 = o3
  k1 = k1
  k2 = k2
  Ops = {o1, o2, o3}
  Keys = {k1, k2}
  KeyOf <- MCKeyOf
  Drains = {d1, d2}
  None = None
  Limit = 2
  MaxRetries = 1
  MaxWaits = 1
  MaxFaults = 2
INVARIANTS TypeOK RecordsTruth OneHolder AttemptBudget
PROPERTIES Settles ImplementsPromise
