---------------------------- MODULE CRQController ----------------------------
(***************************************************************************)
(* The ClusterResourceQuota controller                                     *)
(* (clusterresourcequota-controller.go): the events that put the CRQ's     *)
(* name in the work queue, and the one worker that reconciles it, a        *)
(* namespace at a time, while the objects and the informers move on.       *)
(***************************************************************************)
EXTENDS ClusterObjects

VARIABLES
  queued,   \* the CRQ's name is in the work queue
  step,     \* where Reconcile is
  snap,     \* clusterResourceQuota: the CRQ it got
  todo,     \* matchedNamespaces it has still to visit
  sum,      \* totalUsage
  found,    \* namespaceUsage: the namespaces in it
  failed    \* errs is not empty

workerVars == <<step, snap, todo, sum, found, failed>>
controllerVars == <<queued, workerVars>>

ControllerTypeOK ==
  /\ queued \in BOOLEAN
  /\ step \in {"idle", "select", "quotas", "status"}
  /\ snap \in ClusterQuotas /\ (step # "idle" <=> snap.phase = "live")
  /\ todo \subseteq Namespaces
  /\ sum \in Nat
  /\ found \subseteq Namespaces
  /\ failed \in BOOLEAN

ControllerInit ==
  /\ queued = FALSE
  /\ step = "idle"
  /\ snap = NoQuota /\ todo = {} /\ sum = 0 /\ found = {} /\ failed = FALSE
-----------------------------------------------------------------------------
(* EVENTS *)

(* Creations and deletions pass, and updates that change the spec. *)
WantsReconcile(old, new) ==
  old.phase = "absent" \/ new.phase = "absent" \/ old.uid # new.uid \/ old.spec # new.spec

InformCRQ ==
  /\ crqSeen # crq
  /\ crqSeen' = crq
  /\ queued' = (queued \/ WantsReconcile(crqSeen, crq))
  /\ UNCHANGED <<crq, rq, ns, rqSeen, nsSeen, edits, workerVars>>

(* Mutant: only the namespace as it was is looked at. *)
OnNamespaceChangeOld(n) == crqSeen.phase # "absent" /\ nsSeen[n].label \in crqSeen.spec.selects

(* OnNamespaceChange, called for the namespace as it was and as it is.  Its List
   reads the informer, which fails only before the cache has been started and
   when the process ends; after that all the namespaces are listed anew. *)
OnNamespaceChange(n) ==
  /\ crqSeen.phase # "absent"
  /\ {nsSeen[n].label, ns[n].label} \cap crqSeen.spec.selects # {}

InformNamespaces ==
  /\ nsSeen # ns
  /\ nsSeen' = ns
  /\ queued' = (queued \/ \E n \in Namespaces : nsSeen[n] # ns[n] /\ OnNamespaceChange(n))
  /\ UNCHANGED <<crq, rq, ns, crqSeen, rqSeen, edits, workerVars>>

(* Nothing watches the RQs. *)
InformQuotas ==
  /\ rqSeen # rq
  /\ rqSeen' = rq
  /\ UNCHANGED <<crq, rq, ns, crqSeen, nsSeen, edits, controllerVars>>
-----------------------------------------------------------------------------
(* RECONCILE *)

(* The worker is done with the name; again: it returns an error, and the
   name is queued after a backoff. *)
Done(again) ==
  /\ step' = "idle"
  /\ queued' = (queued \/ again)
  /\ snap' = NoQuota /\ todo' = {} /\ sum' = 0 /\ found' = {} /\ failed' = FALSE

(* Mutant: a CRQ that is being deleted is reconciled. *)
BeginUnlessGone ==
  /\ step = "idle" /\ queued
  /\ queued' = FALSE
  /\ IF crqSeen.phase # "absent"
     THEN step' = "select" /\ snap' = crqSeen /\ UNCHANGED <<todo, sum, found, failed>>
     ELSE UNCHANGED workerVars
  /\ UNCHANGED objectVars

(* Get: a CRQ that is gone, or is being deleted, is left alone. *)
Begin ==
  /\ step = "idle" /\ queued
  /\ queued' = FALSE
  /\ IF crqSeen.phase = "live"
     THEN step' = "select" /\ snap' = crqSeen /\ UNCHANGED <<todo, sum, found, failed>>
     ELSE UNCHANGED workerVars
  /\ UNCHANGED objectVars

(* selectedNamespaces *)
Select ==
  /\ step = "select"
  /\ todo' = Selected(snap.spec, nsSeen)
  /\ step' = "quotas"
  /\ UNCHANGED <<objectVars, queued, snap, sum, found, failed>>

(* The RQ of n as the mutate function leaves it. *)
Wanted(n) == [rqSeen[n] EXCEPT !.limit = snap.spec.limit, !.managed = TRUE, !.owner = snap.uid]

(* Creation lands unless the name is taken or the namespace takes no objects;
   an update, at the version that the informer shows; and nothing is written
   where the informer shows nothing to change. *)
CreateLands(n) == ~ rqSeen[n].exists /\ ~ rq[n].exists /\ ns[n].phase = "active"
UpToDate(n)    == rqSeen[n].exists /\ Wanted(n) = rqSeen[n]
UpdateLands(n) ==
  /\ rqSeen[n].exists /\ Wanted(n) # rqSeen[n]
  /\ rq[n].exists /\ rq[n].rv = rqSeen[n].rv

CreateQuota(n) ==
  /\ CreateLands(n)
  /\ rq' = [rq EXCEPT ![n] = [Wanted(n) EXCEPT !.exists = TRUE, !.rv = rq[n].rv + 1, !.used = 0]]

UpdateQuota(n) == UpdateLands(n) /\ rq' = [rq EXCEPT ![n] = Rewritten(@, Wanted(n))]

WriteQuota(n) == CreateQuota(n) \/ UpdateQuota(n)

VisitQuota(n) ==
  /\ step = "quotas" /\ n \in todo
  /\ WriteQuota(n) \/ (UpToDate(n) /\ UNCHANGED rq)
  /\ todo' = todo \ {n}
  /\ sum' = sum + (IF rqSeen[n].exists THEN rqSeen[n].used ELSE 0)
  /\ found' = found \cup {n}
  /\ UNCHANGED <<crq, ns, informerVars, edits, queued, step, snap, failed>>

(* AlreadyExists, NotFound, Conflict or Forbidden. *)
Refused(n) == ~ CreateLands(n) /\ ~ UpToDate(n) /\ ~ UpdateLands(n)

(* Mutant: the loop forgets its errors. *)
SkipQuotaSilently(n) ==
  /\ step = "quotas" /\ n \in todo
  /\ Refused(n) /\ UNCHANGED <<rq, edits>>
  /\ todo' = todo \ {n}
  /\ UNCHANGED <<crq, ns, informerVars, queued, step, snap, sum, found, failed>>

(* The write is refused, or the API fails and leaves it open whether it was
   done. *)
SkipQuota(n) ==
  /\ step = "quotas" /\ n \in todo
  /\ \/ Refused(n) /\ UNCHANGED <<rq, edits>>
     \/ Edit("fault") /\ (WriteQuota(n) \/ UNCHANGED rq)
  /\ todo' = todo \ {n}
  /\ failed' = TRUE
  /\ UNCHANGED <<crq, ns, informerVars, queued, step, snap, sum, found>>

(* The loop ends; an error in it keeps the status from being written. *)
Visited ==
  /\ step = "quotas" /\ todo = {}
  /\ IF failed THEN Done(TRUE) ELSE step' = "status" /\ UNCHANGED <<queued, snap, todo, sum, found, failed>>
  /\ UNCHANGED objectVars

(* Mutant: the status is written whatever its version. *)
StatusLandsUnchecked == crq.phase # "absent"

(* Status().Update at the version that Begin got. *)
StatusLands == crq.phase # "absent" /\ crq.rv = snap.rv

StatusOf(quota) == [quota EXCEPT !.hard = snap.spec.limit, !.used = sum, !.listed = found]

WriteStatus ==
  /\ step = "status" /\ StatusLands
  /\ crq' = Rewritten(crq, StatusOf(snap))
  /\ Done(FALSE)
  /\ UNCHANGED <<rq, ns, informerVars, edits>>

(* Mutant: a Conflict is not an error. *)
StatusConflictIgnored ==
  /\ step = "status"
  /\ ~ StatusLands /\ UNCHANGED <<crq, edits>>
  /\ Done(FALSE)
  /\ UNCHANGED <<rq, ns, informerVars>>

StatusFails ==
  /\ step = "status"
  /\ \/ ~ StatusLands /\ UNCHANGED <<crq, edits>>
     \/ Edit("fault") /\ (UNCHANGED crq \/ (StatusLands /\ crq' = Rewritten(crq, StatusOf(snap))))
  /\ Done(TRUE)
  /\ UNCHANGED <<rq, ns, informerVars>>

(* The process starts again: the informers list anew, and every CRQ they
   show is an event. *)
Restart ==
  /\ Edit("fault")
  /\ crqSeen' = crq /\ rqSeen' = rq /\ nsSeen' = ns
  /\ step' = "idle" /\ queued' = (crq.phase # "absent")
  /\ snap' = NoQuota /\ todo' = {} /\ sum' = 0 /\ found' = {} /\ failed' = FALSE
  /\ UNCHANGED <<crq, rq, ns>>

Inform == InformCRQ \/ InformNamespaces \/ InformQuotas

Reconcile ==
  \/ Begin \/ Select \/ Visited \/ WriteStatus \/ StatusFails
  \/ \E n \in Namespaces : VisitQuota(n) \/ SkipQuota(n)
=============================================================================
