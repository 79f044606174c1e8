----------------------------- MODULE ApiServer -----------------------------
(***************************************************************************)
(* The Kubernetes side of the status admission: the stored                 *)
(* ClusterResourceQuota (CRQ), the ResourceQuota (RQ) of each namespace,   *)
(* and the informers through which the webhook process reads them.         *)
(*                                                                         *)
(* One CRQ is followed: the cache and its locks are keyed by CRQ name, and *)
(* nothing the admission does for one name touches another.  A stored      *)
(* object carries a resourceVersion; a write that names another version is *)
(* a Conflict, and a write that changes nothing keeps the version.         *)
(***************************************************************************)
EXTENDS Usage

CONSTANTS
  Faults,   \* which of the environment's behaviours a model includes
  MaxRv     \* bound: the CRQ is changed from outside only below this version

FaultKinds ==
  {"crash", "sync", "timeout", "racing", "privileged", "dryrun", "apierror",
   "respec", "lifecycle"}

ASSUME FaultsAssumption == Faults \subseteq FaultKinds
ASSUME MaxRvAssumption  == MaxRv \in Nat

VARIABLES
  crq,       \* the stored ClusterResourceQuota
  rq,        \* the stored ResourceQuota of each namespace
  crqSeen,   \* the informer's copy of the CRQ
  rqSeen     \* the informer's copies of the RQs

storedVars   == <<crq, rq>>
informerVars == <<crqSeen, rqSeen>>
apiVars      == <<crq, rq, crqSeen, rqSeen>>

Hards == Limits \cup {Unlimited}

(* byNs holds 0 for a namespace that status.namespaces does not list. *)
ClusterQuotas ==
  [exists: BOOLEAN, rv: Nat, spec: Hards, hard: Hards, used: Int,
   byNs: [Namespaces -> Amounts]]

(* The zero value of the Go type *)
ZeroQuota ==
  [exists |-> FALSE, rv |-> 0, spec |-> Unlimited, hard |-> Unlimited, used |-> 0,
   byNs |-> [n \in Namespaces |-> 0]]

ResourceQuotas == [exists: BOOLEAN, rv: Nat, used: Amounts]

ApiTypeOK ==
  /\ crq \in ClusterQuotas
  /\ crqSeen \in ClusterQuotas
  /\ rq \in [Namespaces -> ResourceQuotas]
  /\ rqSeen \in [Namespaces -> ResourceQuotas]

Usages(quotas) == [n \in Namespaces |-> quotas[n].used]

(* A CRQ that has been reconciled, or one whose status is still empty.     *)
ApiInit ==
  /\ \E limit \in Limits :
       \E hard \in {limit} \cup (IF "respec" \in Faults THEN {Unlimited} ELSE {}) :
         crq = [ZeroQuota EXCEPT !.exists = TRUE, !.spec = limit, !.hard = hard]
  /\ \E there \in SUBSET Namespaces :
       /\ "lifecycle" \notin Faults => there = Namespaces
       /\ rq = [n \in Namespaces |-> [exists |-> n \in there, rv |-> 0, used |-> 0]]
  /\ crqSeen = crq
  /\ rqSeen = rq

-----------------------------------------------------------------------------
(* The write a client asked for: the version moves when something changes. *)
Rewritten(old, new) == IF new = old THEN old ELSE [new EXCEPT !.rv = old.rv + 1]

(* Mutant: the status is written without comparing versions. *)
StatusUpdateLandsUnchecked(seen) == crq.exists

(* Status().Update of a CRQ read as seen, when its version is current.     *)
StatusUpdateLands(seen) == crq.exists /\ seen.rv = crq.rv

(* Mutant: a namespace that is listed already keeps its old usage. *)
WithUsageOfNewOnly(seen, n, used, total) ==
  [seen EXCEPT !.used = total, !.byNs[n] = IF @ = 0 THEN used ELSE @]

(* updateClusterResourceQuotaStatusUsed *)
WithUsage(seen, n, used, total) ==
  [seen EXCEPT !.used = total, !.byNs[n] = used]

WriteStatus(seen, n, used, total) ==
  crq' = Rewritten(crq, WithUsage(seen, n, used, total))

(* The API server stores an RQ status whose update was admitted.           *)
StoreUsed(n, used) ==
  rq' = [rq EXCEPT ![n] = Rewritten(@, [@ EXCEPT !.used = used])]

-----------------------------------------------------------------------------
(* The informers' watches catch up; each is behind by any number of events. *)
InformCRQ ==
  /\ crqSeen # crq
  /\ crqSeen' = crq
  /\ UNCHANGED <<crq, rq, rqSeen>>

InformRQ ==
  /\ rqSeen # rq
  /\ rqSeen' = rq
  /\ UNCHANGED <<crq, rq, crqSeen>>

(* An administrator edits spec.hard. *)
Respec(limit) ==
  /\ "respec" \in Faults
  /\ crq.exists /\ crq.rv < MaxRv
  /\ limit # crq.spec
  /\ crq' = [crq EXCEPT !.spec = limit, !.rv = @ + 1]
  /\ UNCHANGED <<rq, informerVars>>

(* The one write of Reconcile: the limit of the spec, and usages that it read
   over many steps (CRQController), so that they may be of different moments.
   A CRQ that is not the stored one is a Conflict. *)
ReconcileStatus(usages) ==
  /\ "respec" \in Faults
  /\ crq.exists /\ crq.rv < MaxRv
  /\ crqSeen.rv = crq.rv
  /\ crq' = Rewritten(crq, [crqSeen EXCEPT !.hard = crqSeen.spec,
                                           !.used = Total(usages), !.byNs = usages])
  /\ UNCHANGED <<rq, informerVars>>

(* The CRQ controller creates the RQ of a namespace. *)
CreateQuota(n) ==
  /\ "lifecycle" \in Faults
  /\ crqSeen.exists
  /\ ~ rq[n].exists /\ rq[n].rv < MaxRv
  /\ rq' = [rq EXCEPT ![n] = [exists |-> TRUE, rv |-> @.rv + 1, used |-> 0]]
  /\ UNCHANGED <<crq, informerVars>>

DeleteClusterQuota ==
  /\ "lifecycle" \in Faults
  /\ crq.exists
  /\ crq' = [crq EXCEPT !.exists = FALSE, !.rv = @ + 1]
  /\ UNCHANGED <<rq, informerVars>>

(* Garbage collection of an RQ whose owner is gone; the remove admission
   lets it through once its informer no longer shows the CRQ. *)
CollectQuota(n) ==
  /\ "lifecycle" \in Faults
  /\ ~ crq.exists /\ ~ crqSeen.exists
  /\ rq[n].exists
  /\ rq' = [rq EXCEPT ![n] = [exists |-> FALSE, rv |-> @.rv + 1, used |-> 0]]
  /\ UNCHANGED <<crq, informerVars>>

ApiNext ==
  \/ InformCRQ \/ InformRQ
  \/ \E limit \in Limits : Respec(limit)
  \/ \E usages \in [Namespaces -> Amounts] : ReconcileStatus(usages)
  \/ \E n \in Namespaces : CreateQuota(n) \/ CollectQuota(n)
  \/ DeleteClusterQuota
=============================================================================
