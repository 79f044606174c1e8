--------------------------- MODULE ClusterObjects ---------------------------
(***************************************************************************)
(* The objects the ClusterResourceQuota controller and the remove          *)
(* admission work on: one ClusterResourceQuota (CRQ), the namespaces with  *)
(* their labels, and in each namespace the ResourceQuota (RQ) of the CRQ's *)
(* name; the informers that show them; and those who change them from      *)
(* outside: administrators, users, the garbage collector, the namespace    *)
(* controller, and the admitted status updates of StatusAdmission.         *)
(***************************************************************************)
EXTENDS Usage

CONSTANTS
  Labels,      \* the values of the namespace label that selectors look at
  Selectors,   \* the selectors a spec may have: sets of labels
  Edits,       \* which kinds of change from outside a model includes
  MaxEdits     \* bound on the number of such changes

EditKinds == {"spec", "delete", "label", "terminate", "user", "usage", "fault", "tamper"}

ASSUME SelectorsAssumption == Selectors \subseteq SUBSET Labels /\ Selectors # {} /\ Limits # {}
ASSUME EditsAssumption     == Edits \subseteq EditKinds /\ MaxEdits \in Nat

VARIABLES
  crq,       \* the stored CRQ
  rq,        \* the stored RQ of each namespace
  ns,        \* the stored namespaces
  crqSeen,   \* the informers' copies
  rqSeen,
  nsSeen,
  edits      \* changes from outside so far

informerVars == <<crqSeen, rqSeen, nsSeen>>
objectVars   == <<crq, rq, ns, informerVars, edits>>

Hards == Limits \cup {Unlimited}
Specs == [limit: Limits, selects: Selectors]

(* uid 0 is the uid of no object; owner 0 is no owner reference. *)
ClusterQuotas ==
  [phase: {"absent", "live", "deleting"}, uid: Nat, rv: Nat, spec: Specs,
   hard: Hards, used: Nat, listed: SUBSET Namespaces]
ResourceQuotas ==
  [exists: BOOLEAN, rv: Nat, limit: Limits, managed: BOOLEAN, owner: Nat, used: Amounts]
NamespaceObjects == [label: Labels, phase: {"active", "terminating", "gone"}]

NoSpec   == CHOOSE spec \in Specs : TRUE
NoQuota  == [phase |-> "absent", uid |-> 0, rv |-> 0, spec |-> NoSpec,
             hard |-> Unlimited, used |-> 0, listed |-> {}]
Absent(q) == [exists |-> FALSE, rv |-> q.rv + 1, limit |-> NoSpec.limit,
              managed |-> FALSE, owner |-> 0, used |-> 0]

ObjectsTypeOK ==
  /\ crq \in ClusterQuotas /\ crqSeen \in ClusterQuotas
  /\ rq \in [Namespaces -> ResourceQuotas] /\ rqSeen \in [Namespaces -> ResourceQuotas]
  /\ ns \in [Namespaces -> NamespaceObjects] /\ nsSeen \in [Namespaces -> NamespaceObjects]
  /\ edits \in 0 .. MaxEdits

(* No CRQ yet; a namespace may hold an RQ of the CRQ's name that a user made. *)
ObjectsInit ==
  /\ crq = NoQuota
  /\ \E users \in IF "user" \in Edits THEN SUBSET Namespaces ELSE {{}} :
       rq = [n \in Namespaces |-> [exists |-> n \in users, rv |-> 0, limit |-> NoSpec.limit,
                                   managed |-> FALSE, owner |-> 0, used |-> 0]]
  /\ \E label \in [Namespaces -> Labels] :
       ns = [n \in Namespaces |-> [label |-> label[n], phase |-> "active"]]
  /\ crqSeen = crq /\ rqSeen = rq /\ nsSeen = ns
  /\ edits = 0

(* A write the client asked for: the version moves when something changes. *)
Rewritten(old, new) == IF new = old THEN old ELSE [new EXCEPT !.rv = old.rv + 1]

Usages(quotas) == [n \in Namespaces |-> quotas[n].used]

(* The namespaces a spec selects, as the copies nss of them have it. *)
Selected(spec, nss) == {n \in Namespaces : nss[n].phase # "gone" /\ nss[n].label \in spec.selects}

Edit(kind) == kind \in Edits /\ edits < MaxEdits /\ edits' = edits + 1
-----------------------------------------------------------------------------
(* The administrator of the CRQ. *)
CreateClusterQuota(spec) ==
  /\ edits < MaxEdits /\ edits' = edits + 1
  /\ crq.phase = "absent"
  /\ crq' = [NoQuota EXCEPT !.phase = "live", !.uid = crq.uid + 1, !.rv = crq.rv + 1, !.spec = spec]
  /\ UNCHANGED <<rq, ns, informerVars>>

EditSpec(spec) ==
  /\ Edit("spec")
  /\ crq.phase = "live" /\ spec # crq.spec
  /\ crq' = [crq EXCEPT !.spec = spec, !.rv = @ + 1]
  /\ UNCHANGED <<rq, ns, informerVars>>

(* Deletion at once, or after the finalizers: a deletionTimestamp first. *)
DeleteClusterQuota ==
  /\ Edit("delete")
  /\ crq.phase = "live"
  /\ \E phase \in {"deleting", "absent"} : crq' = [crq EXCEPT !.phase = phase, !.rv = @ + 1]
  /\ UNCHANGED <<rq, ns, informerVars>>

FinishDeletion ==
  /\ crq.phase = "deleting"
  /\ crq' = [crq EXCEPT !.phase = "absent", !.rv = @ + 1]
  /\ UNCHANGED <<rq, ns, informerVars, edits>>

(* The administrator of a namespace. *)
Relabel(n, label) ==
  /\ Edit("label")
  /\ ns[n].phase = "active" /\ label # ns[n].label
  /\ ns' = [ns EXCEPT ![n].label = label]
  /\ UNCHANGED <<crq, rq, informerVars>>

Terminate(n) ==
  /\ Edit("terminate")
  /\ ns[n].phase = "active"
  /\ ns' = [ns EXCEPT ![n].phase = "terminating"]
  /\ UNCHANGED <<crq, rq, informerVars>>

(* The namespace controller's last step, when the contents are gone. *)
FinishTermination(n) ==
  /\ ns[n].phase = "terminating" /\ ~ rq[n].exists
  /\ ns' = [ns EXCEPT ![n].phase = "gone"]
  /\ UNCHANGED <<crq, rq, informerVars, edits>>

(* An admitted update of the RQ's status: the CRQ's status tells of it, and
   the RQ follows (StatusAdmission; the cache shows what the RQs show). *)
ReportUsage(n, used) ==
  /\ Edit("usage")
  /\ crq.phase # "absent" /\ rq[n].exists /\ rq[n].managed /\ used # rq[n].used
  /\ LET total == Total([Usages(rq) EXCEPT ![n] = used])
     IN  /\ ~ Exceeds(total, crq.hard)
         /\ crq' = [crq EXCEPT !.used = total, !.listed = @ \cup {n}, !.rv = @ + 1]
  /\ rq' = [rq EXCEPT ![n].used = used, ![n].rv = @ + 1]
  /\ UNCHANGED <<ns, informerVars>>
=============================================================================
