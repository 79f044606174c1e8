--------------------------- MODULE RemoveAdmission ---------------------------
(***************************************************************************)
(* The remove admission (clusterresourcequota-removeadmission.go): what it *)
(* answers to an update and to a delete of an RQ, and those who ask: users *)
(* of the namespace, the garbage collector of owned objects, and the       *)
(* namespace controller that empties a terminating namespace.              *)
(***************************************************************************)
EXTENDS ClusterObjects

(* Mutant: the label may be taken off. *)
UpdateAllowedAlways(old, new) == TRUE

(* handleUpdate: the label of a managed RQ stays as it is. *)
UpdateAllowed(old, new) == old.managed => new.managed

(* Mutant: a CRQ that is not found is an error. *)
DeleteAllowedIfFound(quota) == ~ quota.managed \/ crqSeen.phase = "deleting"

(* handleDelete: not the RQ of a CRQ that, as the informer has it, lives. *)
DeleteAllowed(quota) == ~ quota.managed \/ crqSeen.phase # "live"

(* A DELETE that the webhook lets through. *)
Remove(n) ==
  /\ rq[n].exists /\ DeleteAllowed(rq[n])
  /\ rq' = [rq EXCEPT ![n] = Absent(@)]
  /\ UNCHANGED <<crq, ns, informerVars>>

UserDeletes(n) == Edit("user") /\ Remove(n)

(* A user edits the label, or the spec, of an RQ. *)
UserUpdates(n, quota) ==
  /\ rq[n].exists /\ quota # rq[n]
  /\ UpdateAllowed(rq[n], quota)
  /\ rq' = [rq EXCEPT ![n] = Rewritten(@, quota)]
  /\ UNCHANGED <<crq, ns, informerVars>>

UserLabels(n, managed) == Edit("user") /\ UserUpdates(n, [rq[n] EXCEPT !.managed = managed])

UserEditsLimit(n, limit) == Edit("tamper") /\ UserUpdates(n, [rq[n] EXCEPT !.limit = limit])

(* The owner is not there, or is being deleted in the foreground. *)
OwnerGone(n) == rq[n].owner # 0 /\ (rq[n].owner # crq.uid \/ crq.phase # "live")

Collect(n) == OwnerGone(n) /\ Remove(n) /\ UNCHANGED edits

EmptyNamespace(n) == ns[n].phase = "terminating" /\ Remove(n) /\ UNCHANGED edits

Callers(n) ==
  \/ UserDeletes(n) \/ Collect(n) \/ EmptyNamespace(n)
  \/ \E managed \in BOOLEAN : UserLabels(n, managed)
  \/ \E limit \in Limits : UserEditsLimit(n, limit)
=============================================================================
