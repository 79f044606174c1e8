SPECIFICATION FairSpec
CONSTANTS
  Namespaces = {n1, n2}
  MaxUsed = 1
  Limits = {1, 2}
  Unlimited = Unlimited
  Labels = {"team", "other"}
  Selectors = {{"team"}}
  Edits = {"delete", "label", "terminate", "fault", "spec", "usage", "tamper"}
  MaxEdits = 3
INVARIANT RestsStatusPropagated
PROPERTY ReconciledFromCurrentSpec
PROPERTY Converges
PROPERTY EventuallyTidy
