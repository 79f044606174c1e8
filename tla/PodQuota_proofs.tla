-------------------------- MODULE PodQuota_proofs --------------------------
(***************************************************************************)
(* A quota on node selectors is enforced, for any number of pods, terms    *)
(* and requirements: what the evaluator answers for a pod is what the      *)
(* requirements say (MatchesIsInScope), the recalculation counts the same  *)
(* pods (UsageIsInScope), so that the usage always covers the pods in the  *)
(* scopes (Covered), which is what makes the plugin's check sufficient.    *)
(***************************************************************************)
EXTENDS PodQuota, FiniteSetTheorems, TLAPS

(* The quotas of this repository's scope: every value parses, and the quota
   names a resource of pods. *)
NodeScoped ==
  /\ Tracked # {}
  /\ \A q \in Quotas : \A r \in q :
       /\ r.scope = "NodeSelector"
       /\ r.op \in {"In", "NotIn", "Exists", "DoesNotExist"}
       /\ \A i \in DOMAIN r.values : r.values[i] # Unparsable

Counted(n, S) == Cardinality(Scoped(Of(n, S)))

Covered ==
  /\ QuotaTypeOK
  /\ exact => \A n \in Namespaces : used[n] >= Counted(n, pods)
-----------------------------------------------------------------------------
(* PodNodeSelectorMatch answers what the requirement says, for all operators. *)
LEMMA AnswerIsMeets ==
  ASSUME NEW pod, NEW r,
         r.scope = "NodeSelector",
         r.op \in {"In", "NotIn", "Exists", "DoesNotExist"},
         \A i \in DOMAIN r.values : r.values[i] # Unparsable
  PROVE  ConditionalPodMatchesScopeFunc(r, pod) = Answer(Meets(pod, r))
<1> DEFINE some == \E i \in DOMAIN r.values : r.values[i] \subseteq pod.node
<1>1. \A b \in BOOLEAN : Listed(r.values, pod, b) = Answer(some = b)
  BY DEF Listed, Answer
<1>2. CASE r.op = "In"
  BY <1>1, <1>2 DEF ConditionalPodMatchesScopeFunc, PodNodeSelectorMatch, Meets, Answer
<1>3. CASE r.op = "NotIn"
  BY <1>1, <1>3 DEF ConditionalPodMatchesScopeFunc, PodNodeSelectorMatch, Meets, Answer
<1>4. CASE r.op \in {"Exists", "DoesNotExist"}
  BY <1>4 DEF ConditionalPodMatchesScopeFunc, PodNodeSelectorMatch, Meets, Answer
<1> QED BY <1>2, <1>3, <1>4

(* generic.Matches over the NodeSelector requirements asks for all of them. *)
LEMMA GenericIsInScope ==
  ASSUME NodeScoped, quota \in Quotas, NEW p
  PROVE  ConditionalMatches(quota, kinds[p]) = Answer(InScope(p))
<1>1. \A r \in quota :
        ConditionalPodMatchesScopeFunc(r, kinds[p]) = Answer(Meets(kinds[p], r))
  BY AnswerIsMeets DEF NodeScoped
<1> QED BY <1>1 DEF ConditionalMatches, GenericMatches, InScope, Answer

(* The plugin charges a pod exactly when it is in the scopes: the fall back to
   Kubernetes' evaluator adds none. *)
LEMMA MatchesIsInScope ==
  ASSUME NodeScoped, SpecTypeOK, NEW p \in Pods
  PROVE  Matches(quota, kinds[p]) = Answer(InScope(p))
<1>1. ConditionalMatches(quota, kinds[p]) = Answer(InScope(p))
  BY GenericIsInScope DEF SpecTypeOK
<1>2. CASE InScope(p)
  BY <1>1, <1>2 DEF Matches, Answer
<1>3. CASE ~ InScope(p)
  <2>1. PICK r \in quota : TRUE
    BY <1>3 DEF InScope
  <2>2. \A s \in quota : PodMatchesScopeFunc(s, kinds[p]) = "no"
    <3>1. \A s \in quota : s.scope = "NodeSelector"
      BY DEF NodeScoped, SpecTypeOK
    <3>2. "NodeSelector" \notin kinds[p].native
      BY NativesAssumption DEF SpecTypeOK, PodKinds
    <3> QED BY <3>1, <3>2 DEF PodMatchesScopeFunc, Answer
  <2>3. UnderlyingMatches(quota, kinds[p]) = "no"
    BY <2>1, <2>2 DEF UnderlyingMatches, GenericMatches, Answer
  <2> QED BY <1>1, <1>3, <2>3 DEF Matches, Answer
<1> QED BY <1>2, <1>3

(* A recalculation counts exactly the pods in the scopes. *)
LEMMA UsageIsInScope ==
  ASSUME NodeScoped, quota \in Quotas, NEW S
  PROVE  UsageStats(quota, kinds, S) = {Cardinality(Scoped(S))}
<1> DEFINE answer == [p \in S |-> Answer(InScope(p))]
<1>1. [p \in S |-> IF Tracked # {} THEN ConditionalMatches(quota, kinds[p])
                   ELSE UnderlyingMatches(quota, kinds[p])] = answer
  BY GenericIsInScope DEF NodeScoped
<1>2. {p \in DOMAIN answer : answer[p] = "yes"} = Scoped(S)
  BY DEF Scoped, Answer
<1>3. ~ \E p \in DOMAIN answer : answer[p] = "error"
  BY DEF Answer
<1> HIDE DEF answer
<1> QED BY <1>1, <1>2, <1>3 DEF UsageStats, CalculateUsageStats

(* Pods are finitely many: counts are numbers, and more pods count no less. *)
LEMMA CountsGrow ==
  ASSUME NEW n, NEW S \in SUBSET Pods, NEW T \in SUBSET S
  PROVE  /\ Counted(n, S) \in Nat /\ Counted(n, T) \in Nat
         /\ Counted(n, T) =< Counted(n, S)
<1>1. IsFiniteSet(Scoped(Of(n, S)))
  BY PodsAssumption, FS_Subset DEF Scoped, Of
<1>2. Scoped(Of(n, T)) \subseteq Scoped(Of(n, S))
  BY DEF Scoped, Of
<1> QED BY <1>1, <1>2, FS_Subset, FS_CardinalityType DEF Counted

(* One more pod counts for its namespace, once, when it is in the scopes. *)
LEMMA CountOneMore ==
  ASSUME NEW S \in SUBSET Pods, NEW p \in Pods \ S, NEW n
  PROVE  Counted(n, S \cup {p}) = Counted(n, S) + (IF n = home[p] /\ InScope(p) THEN 1 ELSE 0)
<1>1. IsFiniteSet(Scoped(Of(n, S)))
  BY PodsAssumption, FS_Subset DEF Scoped, Of
<1>2. CASE n = home[p] /\ InScope(p)
  <2>1. Scoped(Of(n, S \cup {p})) = Scoped(Of(n, S)) \cup {p} /\ p \notin Scoped(Of(n, S))
    BY <1>2 DEF Scoped, Of
  <2> QED BY <1>1, <1>2, <2>1, FS_AddElement DEF Counted
<1>3. CASE ~ (n = home[p] /\ InScope(p))
  <2>1. Scoped(Of(n, S \cup {p})) = Scoped(Of(n, S))
    BY <1>3 DEF Scoped, Of
  <2>2. Counted(n, S) \in Nat
    BY CountsGrow
  <2> QED BY <1>3, <2>1, <2>2 DEF Counted
<1> QED BY <1>2, <1>3

(* Scopes, kinds and homes do not change: nor does what is counted. *)
LEMMA CountsStay ==
  ASSUME UNCHANGED specVars, NEW n
  PROVE  Counted(n, pods)' = Counted(n, pods')
BY DEF specVars, Counted, Scoped, Of, InScope

(* The usage covers the pods in the scopes, whatever is created, deleted and
   recalculated (resourcequota-evaluator.go:106, the plugin's admission). *)
LEMMA CoveredInvariant ==
  ASSUME NodeScoped
  PROVE  QuotaSpec => []Covered
<1>1. QuotaInit => Covered
  <2> SUFFICES ASSUME QuotaInit PROVE Covered
    OBVIOUS
  <2>1. QuotaTypeOK
    BY PodsAssumption, FS_CardinalityType DEF QuotaInit, QuotaTypeOK, SpecTypeOK
  <2>2. \A n \in Namespaces : used[n] = Counted(n, pods)
    BY UsageIsInScope DEF QuotaInit, Counted
  <2>3. \A n \in Namespaces : Counted(n, pods) \in Nat
    BY CountsGrow DEF QuotaInit
  <2> QED BY <2>1, <2>2, <2>3 DEF Covered
<1>2. Covered /\ [QuotaNext]_quotaVars => Covered'
  <2> SUFFICES ASSUME Covered, [QuotaNext]_quotaVars PROVE Covered'
    OBVIOUS
  <2>0. UNCHANGED specVars /\ SpecTypeOK /\ SpecTypeOK'
    BY DEF QuotaNext, Create, ChargeLost, Delete, Recalculate, quotaVars, specVars, Covered,
           QuotaTypeOK, SpecTypeOK
  <2>1. /\ pods \subseteq Pods /\ used \in [Namespaces -> Nat] /\ exact \in BOOLEAN
        /\ home \in [Pods -> Namespaces]
    BY DEF Covered, QuotaTypeOK, SpecTypeOK
  <2>2. ASSUME NEW p \in Pods, Create(p) PROVE Covered'
    <3>1. /\ \/ InScope(p) /\ used' = [used EXCEPT ![home[p]] = @ + 1]
             \/ ~ InScope(p) /\ used' = used
          /\ pods' = pods \cup {p} /\ p \notin pods /\ exact' = exact
      BY <2>0, <2>2, MatchesIsInScope DEF Create, Answer
    <3>2. QuotaTypeOK'
      BY <2>0, <2>1, <3>1 DEF QuotaTypeOK
    <3>3. ASSUME exact', NEW n \in Namespaces PROVE used'[n] >= Counted(n, pods')
      <4>1. Counted(n, pods') = Counted(n, pods) + (IF n = home[p] /\ InScope(p) THEN 1 ELSE 0)
        BY <2>1, <3>1, CountOneMore
      <4>2. Counted(n, pods) \in Nat /\ used[n] \in Nat /\ used[n] >= Counted(n, pods)
        BY <2>1, <3>1, <3>3, CountsGrow DEF Covered
      <4> QED BY <2>1, <3>1, <4>1, <4>2
    <3> QED BY <2>0, <3>2, <3>3, CountsStay DEF Covered
  <2>3. ASSUME NEW p \in Pods, Delete(p) PROVE Covered'
    <3>1. pods' = pods \ {p} /\ used' = used /\ exact' = exact
      BY <2>3 DEF Delete
    <3>2. QuotaTypeOK'
      BY <2>0, <2>1, <3>1 DEF QuotaTypeOK
    <3>3. \A n \in Namespaces : /\ Counted(n, pods') =< Counted(n, pods)
                                /\ Counted(n, pods') \in Nat /\ Counted(n, pods) \in Nat
      BY <2>1, <3>1, CountsGrow
    <3>4. ASSUME exact', NEW n \in Namespaces PROVE used'[n] >= Counted(n, pods')
      BY <2>1, <3>1, <3>3, <3>4 DEF Covered
    <3> QED BY <2>0, <3>2, <3>4, CountsStay DEF Covered
  <2>4. ASSUME NEW n \in Namespaces, NEW S \in SUBSET Of(n, Pods), Recalculate(n, S)
        PROVE  Covered'
    <3>1. /\ used' = [used EXCEPT ![n] = Cardinality(Scoped(S))]
          /\ exact' = (exact /\ Of(n, pods) \subseteq S) /\ pods' = pods
      BY <2>0, <2>4, UsageIsInScope DEF Recalculate, SpecTypeOK
    <3>2. S \subseteq Pods /\ Of(n, S) = S
      BY DEF Of
    <3>3. Cardinality(Scoped(S)) = Counted(n, S) /\ Counted(n, S) \in Nat
      BY <3>2, CountsGrow DEF Counted
    <3>4. QuotaTypeOK'
      BY <2>0, <2>1, <3>1, <3>3 DEF QuotaTypeOK
    <3>5. ASSUME exact', NEW m \in Namespaces PROVE used'[m] >= Counted(m, pods')
      <4>1. CASE m # n
        BY <2>1, <3>1, <3>5, <4>1 DEF Covered
      <4>2. CASE m = n
        <5>1. Scoped(Of(n, pods)) = Scoped(Of(n, pods \cap S))
          BY <3>1, <3>5 DEF Scoped, Of
        <5>2. Counted(n, pods) = Counted(n, pods \cap S)
          BY <5>1 DEF Counted
        <5>3. Counted(n, pods \cap S) =< Counted(n, S)
          BY <3>2, CountsGrow
        <5> QED BY <2>1, <3>1, <3>3, <4>2, <5>2, <5>3
      <4> QED BY <4>1, <4>2
    <3> QED BY <2>0, <3>4, <3>5, CountsStay DEF Covered
  <2>5. ASSUME NEW n \in Namespaces, ChargeLost(n) PROVE Covered'
    <3>1. /\ used' = [used EXCEPT ![n] = @ + 1]
          /\ pods' = pods /\ exact' = exact
      BY <2>5 DEF ChargeLost
    <3>2. QuotaTypeOK'
      BY <2>0, <2>1, <3>1 DEF QuotaTypeOK
    <3>3. ASSUME exact', NEW m \in Namespaces PROVE used'[m] >= Counted(m, pods')
      <4>1. Counted(m, pods) \in Nat /\ used[m] >= Counted(m, pods)
        BY <2>1, <3>1, <3>3, CountsGrow DEF Covered
      <4> QED BY <2>1, <3>1, <4>1
    <3> QED BY <2>0, <3>2, <3>3, CountsStay DEF Covered
  <2>6. CASE UNCHANGED quotaVars
    BY <2>6 DEF quotaVars, Covered, QuotaTypeOK, SpecTypeOK, Counted, Scoped, Of, InScope
  <2> QED BY <2>2, <2>3, <2>4, <2>5, <2>6 DEF QuotaNext
<1> QED BY <1>1, <1>2, PTL DEF QuotaSpec

(* A pod in the scopes of a NodeSelector quota is created only within the limit
   (Matches and UsageStats of resourcequota-evaluator.go agree). *)
THEOREM NodeQuotaEnforced ==
  ASSUME NodeScoped
  PROVE  QuotaSpec => CreatedWithinHard
<1>1. Covered /\ [QuotaNext]_quotaVars =>
        [exact' => \A p \in pods' \ pods :
           InScope(p) => Cardinality(Scoped(Of(home[p], pods'))) =< hard]_quotaVars
  <2> SUFFICES ASSUME Covered, QuotaNext, exact', NEW p \in pods' \ pods, InScope(p)
               PROVE  Counted(home[p], pods') =< hard
    BY DEF quotaVars, Counted
  <2>0. /\ pods \subseteq Pods /\ used \in [Namespaces -> Nat]
        /\ home \in [Pods -> Namespaces] /\ hard \in Nat /\ SpecTypeOK
    BY HardsAssumption DEF Covered, QuotaTypeOK, SpecTypeOK
  <2>1. p \in Pods /\ Create(p)
    BY DEF QuotaNext, Create, ChargeLost, Delete, Recalculate
  <2>2. pods' = pods \cup {p} /\ exact /\ used[home[p]] + 1 =< hard
    BY <2>0, <2>1, MatchesIsInScope DEF Create, Answer
  <2>3. Counted(home[p], pods') = Counted(home[p], pods) + 1
    BY <2>0, <2>1, <2>2, CountOneMore
  <2>4. Counted(home[p], pods) \in Nat /\ used[home[p]] >= Counted(home[p], pods)
    BY <2>0, <2>1, <2>2, CountsGrow DEF Covered
  <2> QED BY <2>0, <2>1, <2>2, <2>3, <2>4
<1> QED BY <1>1, CoveredInvariant, PTL DEF QuotaSpec, CreatedWithinHard
=============================================================================
