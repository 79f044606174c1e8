SPECIFICATION FairSpec
CONSTANTS
  Namespaces = {n1}
  MaxUsed = 1
  Limits = {0, 1}
  Unlimited = Unlimited
  Faults = {"sync", "racing", "apierror"}
  MaxRv = 0
  Requests = {r1, r2}
  NoRequest = NoRequest
  Objects = {o1, o2}
  NoObject = NoObject
  MaxAttempts = 2
PROPERTY Answered
PROPERTY CacheRepaired
