--------------------------- MODULE QuotaLifecycle ---------------------------
(***************************************************************************)
(* The life of a ClusterResourceQuota and its ResourceQuotas: the          *)
(* controller that spreads them, the remove admission that keeps them, and *)
(* everybody who creates, edits and deletes them meanwhile.                *)
(***************************************************************************)
EXTENDS CRQController, RemoveAdmission

vars == <<objectVars, controllerVars>>

Init == ObjectsInit /\ ControllerInit

Outside ==
  /\ \/ \E spec \in Specs : CreateClusterQuota(spec) \/ EditSpec(spec)
     \/ DeleteClusterQuota \/ FinishDeletion
     \/ \E n \in Namespaces :
          \/ \E label \in Labels : Relabel(n, label)
          \/ Terminate(n) \/ FinishTermination(n)
          \/ \E used \in Amounts : ReportUsage(n, used)
          \/ Callers(n)
  /\ UNCHANGED controllerVars

Delivered == crqSeen = crq /\ rqSeen = rq /\ nsSeen = ns

(* The controller has nothing to do and nothing to hear of. *)
AtRest == Delivered /\ step = "idle" /\ ~ queued

Stop == AtRest /\ edits = MaxEdits /\ UNCHANGED vars

Next == Outside \/ Inform \/ Reconcile \/ Restart \/ Stop

Spec == Init /\ [][Next]_vars
-----------------------------------------------------------------------------
(* PROPERTIES *)

TypeOK == ObjectsTypeOK /\ ControllerTypeOK

(* What Reconcile is for: the status has the limit of the spec, and lists the
   selected namespaces ... *)
StatusPropagated ==
  crq.phase = "live" =>
    crq.hard = crq.spec.limit /\ Selected(crq.spec, ns) \subseteq crq.listed

(* ... and each of them has the RQ, with the limit, the label and the owner. *)
QuotasPropagated ==
  crq.phase = "live" =>
    \A n \in Selected(crq.spec, ns) :
      /\ rq[n].exists /\ rq[n].managed /\ rq[n].owner = crq.uid
      /\ rq[n].limit = crq.spec.limit

Propagated == StatusPropagated /\ QuotasPropagated

(* No event is lost: not one that arrives while Reconcile runs, nor one whose
   Reconcile fails halfway, works on old copies or loses a race.  Whenever
   the controller rests, the selected namespaces have their RQs.  (A limit
   that is changed and changed back may be missed: QuotaNotLarger.) *)
RestsPropagated == AtRest => Propagated

(* The same for the status, and then also when limits are changed back, users
   edit the RQs, and admissions write the status between Reconcile's steps. *)
RestsStatusPropagated == AtRest => StatusPropagated

(* The remove admission's promise, as far as it goes: an RQ that has been
   made the CRQ's own stays while that CRQ lives; nobody gets rid of it by
   taking the label off first, and no recreated CRQ's RQ is taken for its
   predecessor's. *)
OwnedQuotaKept ==
  [][\A n \in Namespaces :
       rq[n].exists /\ rq[n].owner = crq.uid /\ crq.phase = "live" => rq'[n].exists]_vars

(* Reconcile decides on a copy, and writes a step at a time; the limit that
   it makes the status enforce is the spec's at that moment, it writes no
   spec, and it touches no CRQ that has been recreated meanwhile. *)
ReconciledFromCurrentSpec ==
  [][step = "status" /\ step' = "idle" /\ crq' # crq =>
       /\ crq'.hard = crq.spec.limit /\ crq'.spec = crq.spec
       /\ crq'.uid = crq.uid /\ crq'.phase = crq.phase]_vars
-----------------------------------------------------------------------------
(* LIVENESS.  The watches deliver, the worker runs and retries what failed,
   and the cluster's own controllers keep trying; changes from outside are
   not forced, and there are finitely many. *)
Fairness ==
  /\ WF_vars(Inform)
  /\ WF_vars(InformQuotas) /\ WF_vars(InformCRQ) /\ WF_vars(InformNamespaces)
  /\ WF_vars(Reconcile)
  /\ \A n \in Namespaces :
       WF_vars((Collect(n) \/ EmptyNamespace(n) \/ FinishTermination(n)) /\ UNCHANGED controllerVars)
  /\ WF_vars(FinishDeletion /\ UNCHANGED controllerVars)

FairSpec == Spec /\ Fairness

(* However the work is disturbed, the status comes to have the limit and the
   namespaces of the spec, and the selected namespaces their RQs; or a
   namespace that is on its way out cannot take the RQ.  (The limits of RQs
   that users edit, or that change back, are QuotaNotLarger's.) *)
QuotasExist ==
  crq.phase = "live" =>
    \A n \in Selected(crq.spec, ns) :
      rq[n].exists /\ rq[n].managed /\ rq[n].owner = crq.uid

Converges ==
  <>[](\/ StatusPropagated /\ QuotasExist
       \/ \E n \in Namespaces : ns[n].phase = "terminating")

(* controller.go:138: the RQs go when the CRQ goes; and then nothing keeps a
   namespace from going. *)
Tidy ==
  crq.phase = "absent" =>
    \A n \in Namespaces : rq[n].owner = 0 /\ ns[n].phase # "terminating"
EventuallyTidy == <>[]Tidy
-----------------------------------------------------------------------------
(* STATED BY THE REPOSITORY AND NOT KEPT *)

(* controller.go:136: the RQ's limit is not larger than the CRQ's. *)
QuotaNotLarger ==
  AtRest /\ crq.phase = "live" =>
    \A n \in Selected(crq.spec, ns) : rq[n].exists => rq[n].limit =< crq.spec.limit
=============================================================================
