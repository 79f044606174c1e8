SPECIFICATION MCSpec
CONSTANTS
  Terms = {"a"}
  Unparsable = Unparsable
  Natives = {}
  Tracked = {"pods"}
  Namespaces = {"n1", "n2"}
  Pods = {"p1", "p2"}
  Quotas <- NodeQuotas
  Hards = {1}
  MaxTries = 2
  MaxUsed = 2
  LimitedResources <- PodsLimited
  Faults = {"sync", "restart", "notfound", "apierror", "lostanswer"}
INVARIANT TypeOK
PROPERTY ImplementsPodQuota
PROPERTY CreatedWithinHard
PROPERTY ClusterWithinHard
PROPERTY UsageSettles
ACTION_CONSTRAINT LostInOneNamespace
CHECK_DEADLOCK FALSE
