SPECIFICATION Spec
CONSTANTS
  Namespaces = {n1, n2}
  MaxUsed = 2
  Limits = {2}
  Unlimited = Unlimited
  Faults = {}
  MaxRv = 0
  Requests = {r1, r2, r3}
  NoRequest = NoRequest
  Objects = {o1}
  NoObject = NoObject
  MaxAttempts = 3
SYMMETRY CallSymmetry
INVARIANT TypeOK
INVARIANT PublishedWithinHard
INVARIANT StatusMatchesCache
PROPERTY ImplementsLedger
