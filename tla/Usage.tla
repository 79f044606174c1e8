------------------------------- MODULE Usage -------------------------------
(***************************************************************************)
(* Quantities of one resource used by the namespaces of one                *)
(* ClusterResourceQuota, and their sum.                                    *)
(*                                                                         *)
(* The code adds resource lists key by key (quota.Add), so a model of one  *)
(* resource follows every resource.  The sum over the namespaces is        *)
(* written as the number of units in use, and not as a fold, so that the   *)
(* facts of FiniteSetTheorems about cardinalities are the facts about sums *)
(* that the proofs need.                                                   *)
(***************************************************************************)
EXTENDS Integers, FiniteSets

CONSTANTS
  Namespaces,   \* the namespaces that hold a ResourceQuota of the cluster quota
  MaxUsed,      \* the largest usage one namespace reports (a bound of the model)
  Limits,       \* the values spec.hard takes
  Unlimited     \* a status.hard that does not name the resource

ASSUME NamespacesAssumption == IsFiniteSet(Namespaces) /\ Namespaces # {}
ASSUME MaxUsedAssumption    == MaxUsed \in Nat
ASSUME LimitsAssumption     == Limits \subseteq Nat /\ Unlimited \notin Nat

Amounts == 0 .. MaxUsed

(* The units of resource that a usage map u \in [Namespaces -> Amounts] takes *)
Units(u) == {x \in Namespaces \X (1 .. MaxUsed) : x[2] <= u[x[1]]}

(* oldtotal: quota.Add over the usages of all the namespaces *)
Total(u) == Cardinality(Units(u))

(* quota.LessThanOrEqual: a key that hard does not name is never exceeded *)
Exceeds(amount, hard) == hard # Unlimited /\ amount > hard
=============================================================================
