SPECIFICATION Spec
CONSTANTS
  Namespaces = {n1, n2}
  MaxUsed = 1
  Limits = {0, 1}
  Unlimited = Unlimited
  Faults = {"crash", "timeout", "racing", "privileged", "apierror", "respec"}
  MaxRv = 1
  Requests = {r1, r2}
  NoRequest = NoRequest
  Objects = {o1}
  NoObject = NoObject
  MaxAttempts = 2
SYMMETRY CallSymmetry
INVARIANT VersionsNameContents
INVARIANT SumIsOfTheCache
PROPERTY AdmittedWithinHard
