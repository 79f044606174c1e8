SPECIFICATION Spec
CONSTANTS
  Namespaces = {n1, n2}
  MaxUsed = 0
  Limits = {1}
  Unlimited = Unlimited
  Labels = {"team", "other"}
  Selectors = {{"team"}, {"other"}}
  Edits = {"delete", "spec", "label", "user", "fault"}
  MaxEdits = 4
SYMMETRY NamespaceSymmetry
INVARIANT TypeOK
INVARIANT RestsPropagated
PROPERTY OwnedQuotaKept
