SPECIFICATION Spec
CONSTANTS
  Namespaces = {n1}
  MaxUsed = 0
  Limits = {1, 2}
  Unlimited = Unlimited
  Labels = {"team"}
  Selectors = {{"team"}}
  Edits = {"spec"}
  MaxEdits = 3
INVARIANT QuotaNotLarger
