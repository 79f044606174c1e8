SPECIFICATION Spec
CONSTANTS
  Namespaces = {n1, n2}
  MaxUsed = 1
  Limits = {1}
  Unlimited = Unlimited
  Faults = {"sync", "lifecycle"}
  MaxRv = 1
  Requests = {r1, r2}
  NoRequest = NoRequest
  Objects = {o1, o2}
  NoObject = NoObject
  MaxAttempts = 2
SYMMETRY CallSymmetry
INVARIANT LockExclusive
PROPERTY OthersKept
CONSTRAINT YoungAndApart
