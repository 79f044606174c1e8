SPECIFICATION Spec
CONSTANTS
  Namespaces = {n1, n2}
  MaxUsed = 1
  Limits = {1}
  Unlimited = Unlimited
  Faults = {"sync"}
  MaxRv = 0
  Requests = {r1, r2}
  NoRequest = NoRequest
  Objects = {o1}
  NoObject = NoObject
  MaxAttempts = 2
SYMMETRY CallSymmetry
INVARIANT QuotasGuarded
