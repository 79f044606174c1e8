SPECIFICATION QuotaSpec
CONSTANTS
  Terms = {"a"}
  Unparsable = Unparsable
  Natives = {"Terminating"}
  Tracked = {"pods"}
  Namespaces = {"n1"}
  Pods = {p1, p2, p3}
  Quotas <- StandardQuotas
  Hards = {1, 2}
SYMMETRY PodSymmetry
PROPERTY StandardScopeEnforced
