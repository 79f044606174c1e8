--------------------------- MODULE MCPodAdmission ---------------------------
(* PodAdmission for TLC: two namespaces and two pods, which are both in n1, or
   one in each.  p1 is in the scope of the quota, p2 in it or not.  Initially
   there are any of the pods; both are more than the quota allows. *)
EXTENDS PodAdmission, TLC

NodeQuotas == {{NodeRequirement("In", <<{t}>>)} : t \in Terms}

(* A configuration file that limits the pods of the core group. *)
PodsLimited == {[group |-> "", resource |-> "pods"]}

MCInit ==
  /\ Init
  /\ home["p2"] = "n1"
  /\ kinds["p1"].node = Terms

(* A bound: while the pods are in different namespaces no answer to a charge
   that has been stored is lost. *)
LostInOneNamespace ==
  home["p1"] # home["p2"] =>
    \A p \in Pods : pc[p] = "store" /\ pc'[p] # "allowed" => UNCHANGED version

MCSpec == MCInit /\ [][Next]_vars /\ Fairness
=============================================================================
