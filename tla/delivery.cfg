\* Three attempts, two retries; the service ends twice, two calls raise.
SPECIFICATION FairSpec
CONSTANTS
  MaxAttempts = 3
  MaxRetries = 2
  MaxCrashes = 2
  MaxFaults = 2
INVARIANTS TypeOK OneSender CopiesPaidFor FailuresBounded
PROPERTIES EndedStays ImplementsOneReply Settles
\* The delivery ends and nobody has anything left to do.
CHECK_DEADLOCK FALSE
