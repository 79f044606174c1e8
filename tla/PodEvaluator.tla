---------------------------- MODULE PodEvaluator ----------------------------
(***************************************************************************)
(* The pod evaluator (resourcequota-evaluator.go): which pods a            *)
(* ResourceQuota counts, by the NodeSelector scope that this repository    *)
(* adds and by the scopes of Kubernetes, for the admission of one pod      *)
(* (Matches) and for a recalculation over all of them (UsageStats).        *)
(*                                                                         *)
(* A pod is the set of terms of its nodeSelector and the set of Kubernetes *)
(* scopes it is in; it uses one unit of each resource.  A value of a       *)
(* NodeSelector requirement parses to a set of terms, or does not parse.   *)
(***************************************************************************)
EXTENDS Integers, FiniteSets, Sequences

CONSTANTS
  Terms,         \* key=value terms of node selectors
  Unparsable,    \* a value that labels.Parse refuses
  Natives,       \* scopes of Kubernetes, such as Terminating
  Tracked        \* resources of pods that the quota's hard names

ASSUME NativesAssumption == "NodeSelector" \notin Natives

PodKinds == [node: SUBSET Terms, native: SUBSET Natives]

(* A Kubernetes scope is asked for by its name (Exists). *)
NodeRequirement(op, values) == [scope |-> "NodeSelector", op |-> op, values |-> values]
NativeRequirement(scope) == [scope |-> scope, op |-> "Exists", values |-> <<>>]

Answer(b) == IF b THEN "yes" ELSE "no"
-----------------------------------------------------------------------------
(* The loop over values answers b at the first that matches and fails at the
   first that does not parse, whichever comes first; else it answers ~b. *)
Listed(values, pod, b) ==
  LET stops == {i \in DOMAIN values : values[i] = Unparsable \/ values[i] \subseteq pod.node}
  IN  IF stops = {} THEN Answer(~ b)
      ELSE IF \E i \in stops : values[i] = Unparsable /\ \A j \in stops : i =< j
           THEN "error" ELSE Answer(b)

PodNodeSelectorMatch(pod, requirement) ==
  CASE requirement.op = "In" -> Listed(requirement.values, pod, TRUE)
    [] requirement.op = "NotIn" -> Listed(requirement.values, pod, FALSE)
    [] requirement.op = "Exists" -> Answer(pod.node # {})
    [] requirement.op = "DoesNotExist" -> Answer(pod.node = {})
    [] OTHER -> "error"

ConditionalPodMatchesScopeFunc(requirement, pod) ==
  IF requirement.scope = "NodeSelector" THEN PodNodeSelectorMatch(pod, requirement) ELSE "no"

(* The scope function of Kubernetes' own pod evaluator. *)
PodMatchesScopeFunc(requirement, pod) == Answer(requirement.scope \in pod.native)

(* generic.Matches over the answers to the quota's requirements: each is asked,
   and an error is returned. *)
GenericMatches(answers) ==
  IF "error" \in answers THEN "error" ELSE Answer("no" \notin answers)

ConditionalMatches(quota, pod) ==
  GenericMatches({ConditionalPodMatchesScopeFunc(requirement, pod) : requirement \in quota})

UnderlyingMatches(quota, pod) ==
  GenericMatches({PodMatchesScopeFunc(requirement, pod) : requirement \in quota})

Matches(quota, pod) ==
  IF ConditionalMatches(quota, pod) = "no"
  THEN UnderlyingMatches(quota, pod) ELSE ConditionalMatches(quota, pod)

(* MatchingScopes fails when a requirement has no answer.  The requirements that
   it returns serve a configuration of the plugin with limited scopes. *)
MatchingScopesFails(quota, pod) ==
  \E requirement \in quota : ConditionalPodMatchesScopeFunc(requirement, pod) = "error"

(* generic.CalculateUsageStats over the answer for each pod: an error ends the
   loop over the pods, with what it has counted so far; the set of the counts
   it may end with. *)
CalculateUsageStats(answer) ==
  LET counted == Cardinality({p \in DOMAIN answer : answer[p] = "yes"})
  IN  IF \E p \in DOMAIN answer : answer[p] = "error" THEN 0 .. counted ELSE {counted}

(* Mutant: usage is calculated by Kubernetes' evaluator. *)
UsageStatsUnderlying(quota, kinds, pods) ==
  CalculateUsageStats([p \in pods |-> UnderlyingMatches(quota, kinds[p])])

(* The generic calculation names every tracked resource, from zero on; the
   fallback is for a result that names none. *)
UsageStats(quota, kinds, pods) ==
  CalculateUsageStats([p \in pods |->
    IF Tracked # {} THEN ConditionalMatches(quota, kinds[p])
                    ELSE UnderlyingMatches(quota, kinds[p])])
=============================================================================
