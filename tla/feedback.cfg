\* Two comments for one batch, one notice, one drain.
SPECIFICATION FeedbackSpec
CONSTANTS
  t1 = t1
  t2 = t2
  n1 = n1
  batch_key = batch_key
  notice_key = notice_key
  Ops = {t1, t2, n1}
  Turns = {t1, t2}
  Keys = {batch_key, notice_key}
  KeyOf <- MCKeyOf
  Items = {a, b}
  Drains = {d1}
  None = None
  Limit = 2
  MaxRetries = 1
  MaxWaits = 1
  MaxFaults = 1
INVARIANTS FeedbackTypeOK KeptUnlessRaced
PROPERTIES NoticesTrue
\* A notice may use up the bound on waits and leave its drain without a step.
CHECK_DEADLOCK FALSE
