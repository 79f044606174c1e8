SPECIFICATION FairSpec
CONSTANTS
  Pods = {p1, p2}
  Unknown = Unknown
  MaxRestarts = 1
  MaxDeletions = 1
CHECK_DEADLOCK FALSE
INVARIANTS TypeOK QuotaSeen
PROPERTIES UsageTrue GetsReady
