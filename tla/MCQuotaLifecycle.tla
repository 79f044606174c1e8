-------------------------- MODULE MCQuotaLifecycle --------------------------
(* QuotaLifecycle for TLC: the namespaces are interchangeable. *)
EXTENDS QuotaLifecycle, TLC

NamespaceSymmetry == Permutations(Namespaces)
=============================================================================
