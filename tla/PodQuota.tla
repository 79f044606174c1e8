------------------------------ MODULE PodQuota ------------------------------
(***************************************************************************)
(* What the ResourceQuotas of a cluster quota promise about pods.  The     *)
(* namespaces hold copies of one quota; a pod is charged when it is        *)
(* created, by the admission plugin, and the usage is recalculated, when   *)
(* pods go away and every ten minutes, by the quota controller.  The two   *)
(* parts of Kubernetes' quota system that this repository runs             *)
(* (resourcequota.go) ask one evaluator.  Here a creation and a            *)
(* recalculation are one step each; PodAdmission takes them apart.         *)
(***************************************************************************)
EXTENDS PodEvaluator

CONSTANTS
  Namespaces,   \* the namespaces that hold the quota
  Pods,         \* names of pods
  Quotas,       \* the sets of scope requirements a quota may have
  Hards         \* the values hard takes

ASSUME PodsAssumption  == IsFiniteSet(Pods)
ASSUME HardsAssumption == Hards \subseteq Nat

VARIABLES
  quota,   \* the requirements of the quotas' spec
  hard,    \* their limit
  home,    \* the namespace of each pod
  kinds,   \* what each pod is like
  pods,    \* the pods that have been admitted and not deleted
  used,    \* status.used of the quota of each namespace
  exact    \* history: no recalculation has missed a pod

specVars == <<quota, hard, home, kinds>>
quotaVars == <<quota, hard, home, kinds, pods, used, exact>>

SpecTypeOK ==
  /\ quota \in Quotas /\ hard \in Hards
  /\ home \in [Pods -> Namespaces] /\ kinds \in [Pods -> PodKinds]

QuotaTypeOK ==
  /\ SpecTypeOK
  /\ pods \subseteq Pods
  /\ used \in [Namespaces -> Nat]
  /\ exact \in BOOLEAN

Of(n, S) == {p \in S : home[p] = n}

(* New quotas: the usage has been calculated from the pods there are. *)
QuotaInit ==
  /\ quota \in Quotas /\ hard \in Hards
  /\ home \in [Pods -> Namespaces] /\ kinds \in [Pods -> PodKinds]
  /\ pods \in SUBSET Pods
  /\ used \in [Namespaces -> 0 .. Cardinality(Pods)]
  /\ \A n \in Namespaces : used[n] \in UsageStats(quota, kinds, Of(n, pods))
  /\ exact = TRUE

(* The plugin: an error, or a limit that would be passed, refuses the pod. *)
Create(p) ==
  /\ p \notin pods
  /\ \/ /\ Matches(quota, kinds[p]) = "yes"
        /\ used[home[p]] + 1 =< hard
        /\ used' = [used EXCEPT ![home[p]] = @ + 1]
     \/ /\ Matches(quota, kinds[p]) = "no"
        /\ UNCHANGED used
  /\ pods' = pods \cup {p}
  /\ UNCHANGED <<specVars, exact>>

(* A charge whose answer is lost: the plugin does not know of it, and lets the
   pod in by another charge or not at all. *)
ChargeLost(n) ==
  /\ used[n] + 1 =< hard
  /\ used' = [used EXCEPT ![n] = @ + 1]
  /\ UNCHANGED <<specVars, pods, exact>>

Delete(p) ==
  /\ p \in pods
  /\ pods' = pods \ {p}
  /\ UNCHANGED <<specVars, used, exact>>

(* The quota controller recalculates from the pods S that it knows of. *)
Recalculate(n, S) ==
  /\ \E count \in UsageStats(quota, kinds, S) : used' = [used EXCEPT ![n] = count]
  /\ exact' = (exact /\ Of(n, pods) \subseteq S)
  /\ UNCHANGED <<specVars, pods>>

QuotaNext ==
  \/ \E p \in Pods : Create(p) \/ Delete(p)
  \/ \E n \in Namespaces :
       ChargeLost(n) \/ \E S \in SUBSET Of(n, Pods) : Recalculate(n, S)

QuotaSpec == QuotaInit /\ [][QuotaNext]_quotaVars
-----------------------------------------------------------------------------
(* PROPERTIES *)

(* What a requirement says of a pod, value by value. *)
Meets(pod, requirement) ==
  LET some == \E i \in DOMAIN requirement.values : requirement.values[i] \subseteq pod.node
  IN  CASE requirement.scope # "NodeSelector" -> requirement.scope \in pod.native
        [] requirement.op = "In" -> some
        [] requirement.op = "NotIn" -> ~ some
        [] requirement.op = "Exists" -> pod.node # {}
        [] requirement.op = "DoesNotExist" -> pod.node = {}

InScope(p) == \A requirement \in quota : Meets(kinds[p], requirement)

Scoped(S) == {p \in S : InScope(p)}

(* A pod in the quota's scopes is admitted only while the pods in them are
   within the limit, through any sequence of creations, deletions and complete
   recalculations: the pods that the admission charges and those that the
   recalculation counts are the same, and they are the pods the scopes name. *)
CreatedWithinHard ==
  [][exact' => \A p \in pods' \ pods :
       InScope(p) => Cardinality(Scoped(Of(home[p], pods'))) =< hard]_quotaVars

(* README:9: a quota with a scope of Kubernetes is enforced as there. *)
StandardScopeEnforced == CreatedWithinHard
=============================================================================
