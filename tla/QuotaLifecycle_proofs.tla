----------------------- MODULE QuotaLifecycle_proofs -----------------------
(***************************************************************************)
(* Proofs about QuotaLifecycle, for any namespaces, labels, selectors and  *)
(* limits, any choice of Edits and any number of them.                     *)
(***************************************************************************)
EXTENDS QuotaLifecycle, UsageTheorems

(* The values that stand for nothing have the types of their variables. *)
LEMMA NothingTypes ==
  /\ NoSpec \in Specs
  /\ NoQuota \in ClusterQuotas /\ NoQuota.phase = "absent"
  /\ 0 \in Amounts
  /\ \A q \in ResourceQuotas : Absent(q) \in ResourceQuotas
<1>1. NoSpec \in Specs
  <2>1. PICK limit \in Limits, selects \in Selectors : TRUE
    BY SelectorsAssumption
  <2>2. [limit |-> limit, selects |-> selects] \in Specs
    BY DEF Specs
  <2> QED BY <2>2 DEF NoSpec
<1>2. 0 \in Amounts
  BY MaxUsedAssumption DEF Amounts
<1>3. \A q \in ResourceQuotas : q.rv + 1 \in Nat
  BY DEF ResourceQuotas
<1> QED
  BY <1>1, <1>2, <1>3 DEF NoQuota, ClusterQuotas, ResourceQuotas, Absent, Hards, Specs

(* A write keeps the type of what it writes. *)
LEMMA RewrittenType ==
  /\ \A old, new \in ClusterQuotas : Rewritten(old, new) \in ClusterQuotas
  /\ \A old, new \in ResourceQuotas : Rewritten(old, new) \in ResourceQuotas
<1>1. \A old \in ClusterQuotas : old.rv + 1 \in Nat
  BY DEF ClusterQuotas
<1>2. \A old \in ResourceQuotas : old.rv + 1 \in Nat
  BY DEF ResourceQuotas
<1>3. \A new \in ClusterQuotas, rv \in Nat : [new EXCEPT !.rv = rv] \in ClusterQuotas
  BY DEF ClusterQuotas
<1>4. \A new \in ResourceQuotas, rv \in Nat : [new EXCEPT !.rv = rv] \in ResourceQuotas
  BY DEF ResourceQuotas
<1> QED BY <1>1, <1>2, <1>3, <1>4 DEF Rewritten

(* A change from outside is counted. *)
LEMMA EditCounted ==
  ASSUME edits \in 0 .. MaxEdits, edits < MaxEdits, edits' = edits + 1
  PROVE  edits' \in 0 .. MaxEdits
BY EditsAssumption
-----------------------------------------------------------------------------
(* TYPES *)

(* The administrator's changes of the CRQ. *)
LEMMA AdministratorType ==
  ASSUME ObjectsTypeOK,
         \/ \E spec \in Specs : CreateClusterQuota(spec) \/ EditSpec(spec)
         \/ DeleteClusterQuota \/ FinishDeletion
  PROVE  ObjectsTypeOK'
<1>1. crq.uid + 1 \in Nat /\ crq.rv + 1 \in Nat
  BY DEF ObjectsTypeOK, ClusterQuotas
<1>2. crq' \in ClusterQuotas
  <2>1. ASSUME NEW spec \in Specs, CreateClusterQuota(spec) PROVE crq' \in ClusterQuotas
    <3>1. \A uid, rv \in Nat :
            [NoQuota EXCEPT !.phase = "live", !.uid = uid, !.rv = rv, !.spec = spec] \in ClusterQuotas
      BY NothingTypes DEF ClusterQuotas
    <3> QED BY <1>1, <2>1, <3>1 DEF CreateClusterQuota
  <2>2. ASSUME NEW spec \in Specs, EditSpec(spec) PROVE crq' \in ClusterQuotas
    <3>1. \A rv \in Nat : [crq EXCEPT !.spec = spec, !.rv = rv] \in ClusterQuotas
      BY DEF ObjectsTypeOK, ClusterQuotas
    <3> QED BY <1>1, <2>2, <3>1 DEF EditSpec
  <2>3. \A rv \in Nat : \A phase \in {"absent", "live", "deleting"} :
          [crq EXCEPT !.phase = phase, !.rv = rv] \in ClusterQuotas
    BY DEF ObjectsTypeOK, ClusterQuotas
  <2>4. CASE DeleteClusterQuota \/ FinishDeletion
    BY <1>1, <2>3, <2>4 DEF DeleteClusterQuota, FinishDeletion
  <2> QED BY <2>1, <2>2, <2>4
<1>3. edits' \in 0 .. MaxEdits
  BY EditCounted
  DEF ObjectsTypeOK, CreateClusterQuota, EditSpec, DeleteClusterQuota, FinishDeletion, Edit
<1>4. UNCHANGED <<rq, ns, informerVars>>
  BY DEF CreateClusterQuota, EditSpec, DeleteClusterQuota, FinishDeletion
<1> QED BY <1>2, <1>3, <1>4 DEF ObjectsTypeOK, informerVars

(* The changes of namespaces. *)
LEMMA NamespaceType ==
  ASSUME ObjectsTypeOK, NEW n \in Namespaces,
         (\E label \in Labels : Relabel(n, label)) \/ Terminate(n) \/ FinishTermination(n)
  PROVE  ObjectsTypeOK'
<1>1. ns' \in [Namespaces -> NamespaceObjects]
  <2>1. \A label \in Labels : [ns EXCEPT ![n].label = label] \in [Namespaces -> NamespaceObjects]
    BY DEF ObjectsTypeOK, NamespaceObjects
  <2>2. \A phase \in {"terminating", "gone"} :
          [ns EXCEPT ![n].phase = phase] \in [Namespaces -> NamespaceObjects]
    BY DEF ObjectsTypeOK, NamespaceObjects
  <2> QED BY <2>1, <2>2 DEF Relabel, Terminate, FinishTermination
<1>2. edits' \in 0 .. MaxEdits
  BY EditCounted DEF ObjectsTypeOK, Relabel, Terminate, FinishTermination, Edit
<1>3. UNCHANGED <<crq, rq, informerVars>>
  BY DEF Relabel, Terminate, FinishTermination
<1> QED BY <1>1, <1>2, <1>3 DEF ObjectsTypeOK, informerVars

(* An admitted usage. *)
LEMMA ReportType ==
  ASSUME ObjectsTypeOK, NEW n \in Namespaces, NEW used \in Amounts, ReportUsage(n, used)
  PROVE  ObjectsTypeOK'
<1>1. crq' \in ClusterQuotas
  <2>1. \A rv, total \in Nat : \A listed \in SUBSET Namespaces :
          [crq EXCEPT !.used = total, !.listed = listed, !.rv = rv] \in ClusterQuotas
    BY DEF ObjectsTypeOK, ClusterQuotas
  <2>2. crq.rv + 1 \in Nat /\ crq.listed \cup {n} \in SUBSET Namespaces
    BY DEF ObjectsTypeOK, ClusterQuotas
  <2>3. Total([Usages(rq) EXCEPT ![n] = used]) \in Nat
    BY TotalType
  <2>4. crq' = [crq EXCEPT !.used = Total([Usages(rq) EXCEPT ![n] = used]),
                           !.listed = crq.listed \cup {n}, !.rv = crq.rv + 1]
    BY DEF ReportUsage
  <2> QED BY <2>1, <2>2, <2>3, <2>4
<1>2. rq' \in [Namespaces -> ResourceQuotas]
  <2>1. rq[n].rv + 1 \in Nat
    BY DEF ObjectsTypeOK, ResourceQuotas
  <2>2. \A rv \in Nat :
          [rq EXCEPT ![n].used = used, ![n].rv = rv] \in [Namespaces -> ResourceQuotas]
    BY DEF ObjectsTypeOK, ResourceQuotas
  <2> QED BY <2>1, <2>2 DEF ReportUsage
<1>3. edits' \in 0 .. MaxEdits
  BY EditCounted DEF ObjectsTypeOK, ReportUsage, Edit
<1> QED BY <1>1, <1>2, <1>3 DEF ObjectsTypeOK, ReportUsage, informerVars

(* What the callers of the remove admission change. *)
LEMMA CallersType ==
  ASSUME ObjectsTypeOK, NEW n \in Namespaces, Callers(n)
  PROVE  ObjectsTypeOK'
<1> USE DEF ObjectsTypeOK
<1>1. CASE Remove(n)
  <2>1. rq' \in [Namespaces -> ResourceQuotas]
    BY <1>1, NothingTypes DEF Remove
  <2>2. edits' \in 0 .. MaxEdits
    BY EditCounted
    DEF Callers, UserDeletes, Collect, EmptyNamespace, UserLabels, UserEditsLimit, Edit
  <2> QED BY <1>1, <2>1, <2>2 DEF Remove, informerVars
<1>2. ASSUME NEW quota \in ResourceQuotas, UserUpdates(n, quota), edits' \in 0 .. MaxEdits
      PROVE  ObjectsTypeOK'
  <2>1. rq' = [rq EXCEPT ![n] = Rewritten(rq[n], quota)]
    BY <1>2 DEF UserUpdates
  <2> QED BY <1>2, <2>1, RewrittenType DEF UserUpdates, informerVars
<1>3. \A managed \in BOOLEAN : [rq[n] EXCEPT !.managed = managed] \in ResourceQuotas
  BY DEF ResourceQuotas
<1>4. \A limit \in Limits : [rq[n] EXCEPT !.limit = limit] \in ResourceQuotas
  BY DEF ResourceQuotas
<1>5. ASSUME NEW managed \in BOOLEAN, UserLabels(n, managed) PROVE ObjectsTypeOK'
  BY <1>2, <1>3, <1>5, EditCounted DEF UserLabels, Edit
<1>6. ASSUME NEW limit \in Limits, UserEditsLimit(n, limit) PROVE ObjectsTypeOK'
  BY <1>2, <1>4, <1>6, EditCounted DEF UserEditsLimit, Edit
<1> QED BY <1>1, <1>5, <1>6 DEF Callers, UserDeletes, Collect, EmptyNamespace
-----------------------------------------------------------------------------
(* What the controller writes has the type of what it writes to. *)
LEMMA WantedType ==
  ASSUME ObjectsTypeOK, ControllerTypeOK, NEW n \in Namespaces
  PROVE  /\ Wanted(n) \in ResourceQuotas
         /\ StatusOf(snap) \in ClusterQuotas
<1>1. snap.spec.limit \in Limits /\ snap.uid \in Nat
  BY DEF ControllerTypeOK, ClusterQuotas, Specs
<1>2. rqSeen[n] \in ResourceQuotas
  BY DEF ObjectsTypeOK
<1>3. Wanted(n) \in ResourceQuotas
  BY <1>1, <1>2 DEF Wanted, ResourceQuotas
<1>4. StatusOf(snap) \in ClusterQuotas
  BY <1>1 DEF StatusOf, ControllerTypeOK, ClusterQuotas, Hards
<1> QED BY <1>3, <1>4

(* A written RQ. *)
LEMMA WriteType ==
  ASSUME ObjectsTypeOK, ControllerTypeOK, NEW n \in Namespaces, WriteQuota(n)
  PROVE  rq' \in [Namespaces -> ResourceQuotas]
<1>1. Wanted(n) \in ResourceQuotas /\ rq[n].rv + 1 \in Nat /\ rq[n] \in ResourceQuotas
  BY WantedType DEF ObjectsTypeOK, ResourceQuotas
<1>2. \A q \in ResourceQuotas, rv \in Nat :
        [q EXCEPT !.exists = TRUE, !.rv = rv, !.used = 0] \in ResourceQuotas
  BY NothingTypes DEF ResourceQuotas
<1>3. CASE CreateQuota(n)
  BY <1>1, <1>2, <1>3 DEF CreateQuota, ObjectsTypeOK
<1>4. CASE UpdateQuota(n)
  <2>1. rq' = [rq EXCEPT ![n] = Rewritten(rq[n], Wanted(n))]
    BY <1>4 DEF UpdateQuota
  <2> QED BY <1>1, <2>1, RewrittenType DEF ObjectsTypeOK
<1> QED BY <1>3, <1>4 DEF WriteQuota

(* The end of a Reconcile. *)
LEMMA DoneType ==
  ASSUME queued \in BOOLEAN, NEW again \in BOOLEAN, Done(again)
  PROVE  ControllerTypeOK'
BY NothingTypes DEF Done, ControllerTypeOK

(* The informers. *)
LEMMA InformType ==
  ASSUME TypeOK, Inform
  PROVE  TypeOK'
<1>1. queued' \in BOOLEAN
  BY DEF TypeOK, ControllerTypeOK, Inform, InformCRQ, InformNamespaces, InformQuotas,
         controllerVars, workerVars
<1> QED
  BY <1>1 DEF TypeOK, ObjectsTypeOK, ControllerTypeOK, Inform, InformCRQ, InformNamespaces,
              InformQuotas, controllerVars, workerVars

(* The worker. *)
LEMMA ReconcileType ==
  ASSUME TypeOK, Reconcile
  PROVE  TypeOK'
<1> USE DEF TypeOK
<1>1. CASE Begin
  BY <1>1 DEF Begin, ObjectsTypeOK, ControllerTypeOK, objectVars, informerVars, workerVars
<1>2. CASE Select
  BY <1>2 DEF Select, Selected, ObjectsTypeOK, ControllerTypeOK, objectVars, informerVars
<1>3. ASSUME NEW n \in Namespaces, VisitQuota(n) PROVE TypeOK'
  <2>1. rq' \in [Namespaces -> ResourceQuotas]
    BY <1>3, WriteType DEF VisitQuota, ObjectsTypeOK
  <2>2. rqSeen[n].used \in Nat
    BY MaxUsedAssumption DEF ObjectsTypeOK, ResourceQuotas, Amounts
  <2>3. sum' \in Nat
    BY <1>3, <2>2 DEF VisitQuota, ControllerTypeOK
  <2> QED BY <1>3, <2>1, <2>3 DEF VisitQuota, ObjectsTypeOK, ControllerTypeOK, informerVars
<1>4. ASSUME NEW n \in Namespaces, SkipQuota(n) PROVE TypeOK'
  <2>1. rq' \in [Namespaces -> ResourceQuotas]
    BY <1>4, WriteType DEF SkipQuota, ObjectsTypeOK
  <2>2. edits' \in 0 .. MaxEdits
    BY <1>4, EditCounted DEF SkipQuota, Edit, ObjectsTypeOK
  <2> QED BY <1>4, <2>1, <2>2 DEF SkipQuota, ObjectsTypeOK, ControllerTypeOK, informerVars
<1>5. CASE Visited
  <2>1. ObjectsTypeOK'
    BY <1>5 DEF Visited, ObjectsTypeOK, objectVars, informerVars
  <2>2. ControllerTypeOK'
    BY <1>5, DoneType DEF Visited, ControllerTypeOK
  <2> QED BY <2>1, <2>2
<1>6. CASE WriteStatus \/ StatusFails
  <2>1. crq' \in ClusterQuotas
    BY <1>6, WantedType, RewrittenType, NamespacesAssumption
    DEF WriteStatus, StatusFails, ObjectsTypeOK
  <2>2. ControllerTypeOK'
    BY <1>6, DoneType DEF WriteStatus, StatusFails, ControllerTypeOK
  <2>3. edits' \in 0 .. MaxEdits
    BY <1>6, EditCounted DEF WriteStatus, StatusFails, Edit, ObjectsTypeOK
  <2> QED BY <1>6, <2>1, <2>2, <2>3 DEF WriteStatus, StatusFails, ObjectsTypeOK, informerVars
<1> QED BY <1>1, <1>2, <1>3, <1>4, <1>5, <1>6 DEF Reconcile

(* Every variable keeps its type; in particular Reconcile never works on a CRQ
   that was gone, or being deleted, when it got it (controller.go:90). *)
THEOREM LifecycleTypes == Spec => []TypeOK
<1>1. Init => TypeOK
  <2> SUFFICES ASSUME Init PROVE TypeOK
    OBVIOUS
  <2>1. 0 \in 0 .. MaxEdits
    BY EditsAssumption
  <2>2. rq \in [Namespaces -> ResourceQuotas]
    BY NothingTypes DEF Init, ObjectsInit, ResourceQuotas, Specs
  <2>3. ns \in [Namespaces -> NamespaceObjects]
    BY DEF Init, ObjectsInit, NamespaceObjects
  <2> QED
    BY <2>1, <2>2, <2>3, NothingTypes
    DEF Init, ObjectsInit, ControllerInit, TypeOK, ObjectsTypeOK, ControllerTypeOK
<1>2. TypeOK /\ [Next]_vars => TypeOK'
  <2> SUFFICES ASSUME TypeOK, [Next]_vars PROVE TypeOK'
    OBVIOUS
  <2>1. CASE Outside
    <3>1. ObjectsTypeOK'
      BY <2>1, AdministratorType, NamespaceType, ReportType, CallersType DEF Outside, TypeOK
    <3> QED BY <2>1, <3>1 DEF Outside, TypeOK, ControllerTypeOK, controllerVars, workerVars
  <2>2. CASE Restart
    BY <2>2, NothingTypes, EditCounted DEF Restart, Edit, TypeOK, ObjectsTypeOK, ControllerTypeOK
  <2>3. CASE UNCHANGED vars \/ Stop
    BY <2>3 DEF Stop, vars, objectVars, informerVars, controllerVars, workerVars, TypeOK,
                ObjectsTypeOK, ControllerTypeOK
  <2> QED BY <2>1, <2>2, <2>3, InformType, ReconcileType DEF Next
<1> QED BY <1>1, <1>2, PTL DEF Spec
-----------------------------------------------------------------------------
(* VERSIONS AND UIDS *)

(* A copy of the CRQ that has the stored version is the stored CRQ: what makes
   Status().Update a compare-and-swap. *)
CopiesNameContents ==
  /\ crqSeen.rv =< crq.rv /\ (crqSeen.rv = crq.rv => crqSeen = crq)
  /\ step # "idle" => snap.rv =< crq.rv /\ (snap.rv = crq.rv => snap = crq)

(* No copy and no RQ knows of a later CRQ than the informer shows, and the
   informer shows a living CRQ, once it knows it, as living. *)
OwnersSeen ==
  /\ crq.phase # "absent" => crq.uid # 0
  /\ crqSeen.uid =< crq.uid
  /\ crqSeen.uid = crq.uid /\ crq.phase = "live" => crqSeen.phase = "live"
  /\ step # "idle" => snap.uid =< crqSeen.uid
  /\ \A n \in Namespaces : rq[n].owner =< crqSeen.uid /\ (rq[n].owner # 0 => rq[n].managed)

IInv == TypeOK /\ CopiesNameContents /\ OwnersSeen

(* What a step does to the stored CRQ: nothing; or a later version, of the same
   CRQ, which does not come to life again, or of a new one. *)
Written ==
  /\ crq'.rv = crq.rv + 1
  /\ \/ crq'.uid = crq.uid /\ crq'.phase # "absent" /\ crq.phase # "absent"
        /\ (crq'.phase = "live" => crq.phase = "live")
     \/ crq'.uid = crq.uid /\ crq'.phase = "absent"
     \/ crq'.uid = crq.uid + 1

(* The status that Reconcile writes is a new version of the CRQ it got. *)
LEMMA StatusStep ==
  ASSUME TypeOK, CopiesNameContents, step = "status", StatusLands,
         crq' = Rewritten(crq, StatusOf(snap)), crq' # crq
  PROVE  /\ Written
         /\ crq'.hard = crq.spec.limit /\ crq'.spec = crq.spec
         /\ crq'.uid = crq.uid /\ crq'.phase = crq.phase
<1>1. snap = crq
  BY DEF StatusLands, CopiesNameContents
<1>2. crq \in ClusterQuotas /\ crq.phase = "live"
  BY <1>1 DEF TypeOK, ObjectsTypeOK, ControllerTypeOK
<1>3. crq' = [StatusOf(crq) EXCEPT !.rv = crq.rv + 1]
  BY <1>1 DEF Rewritten, StatusOf
<1>4. StatusOf(crq) = [crq EXCEPT !.hard = crq.spec.limit, !.used = sum, !.listed = found]
  BY <1>1 DEF StatusOf
<1> QED BY <1>2, <1>3, <1>4 DEF Written, ClusterQuotas

LEMMA CrqStep ==
  ASSUME TypeOK, CopiesNameContents, Next
  PROVE  \/ crq' = crq
         \/ /\ Written /\ crqSeen' = crqSeen
            /\ step' = "idle" \/ (step' = step /\ snap' = snap)
<1>1. crq.rv \in Nat /\ crq.uid \in Nat /\ crq \in ClusterQuotas
  BY DEF TypeOK, ObjectsTypeOK, ClusterQuotas
<1>2. CASE Outside
  <2>1. UNCHANGED <<crqSeen, step, snap>>
    BY <1>2 DEF Outside, CreateClusterQuota, EditSpec, DeleteClusterQuota, FinishDeletion, Relabel,
       Terminate, FinishTermination, ReportUsage, Callers, UserDeletes, Collect, EmptyNamespace,
       UserLabels, UserEditsLimit, UserUpdates, Remove, informerVars, controllerVars, workerVars
  <2>2. ASSUME NEW spec \in Specs, CreateClusterQuota(spec) PROVE Written
    BY <1>1, <2>2 DEF CreateClusterQuota, NoQuota, Written
  <2>3. ASSUME NEW spec \in Specs, EditSpec(spec) PROVE Written
    BY <1>1, <2>3 DEF EditSpec, ClusterQuotas, Written
  <2>4. ASSUME DeleteClusterQuota \/ FinishDeletion PROVE Written
    <3>1. PICK phase \in {"deleting", "absent"} :
            crq' = [crq EXCEPT !.phase = phase, !.rv = crq.rv + 1]
      BY <2>4 DEF DeleteClusterQuota, FinishDeletion
    <3>2. phase = "deleting" => crq.phase = "live"
      BY <2>4, <3>1 DEF DeleteClusterQuota, FinishDeletion, ClusterQuotas, TypeOK, ObjectsTypeOK
    <3>3. crq'.uid = crq.uid /\ crq'.rv = crq.rv + 1 /\ crq'.phase = phase
      BY <1>1, <3>1 DEF ClusterQuotas
    <3> QED BY <3>2, <3>3 DEF Written
  <2>5. ASSUME NEW n \in Namespaces, NEW used \in Amounts, ReportUsage(n, used) PROVE Written
    <3>1. crq' = [crq EXCEPT !.used = Total([Usages(rq) EXCEPT ![n] = used]),
                             !.listed = crq.listed \cup {n}, !.rv = crq.rv + 1]
      BY <2>5 DEF ReportUsage
    <3>2. crq.phase # "absent"
      BY <2>5 DEF ReportUsage
    <3> QED BY <1>1, <3>1, <3>2 DEF ClusterQuotas, Written
  <2>6. ASSUME NEW n \in Namespaces,
               \/ \E label \in Labels : Relabel(n, label)
               \/ Terminate(n) \/ FinishTermination(n) \/ Callers(n)
        PROVE  crq' = crq
    BY <2>6 DEF Relabel, Terminate, FinishTermination, Callers, UserDeletes, Collect,
       EmptyNamespace, UserLabels, UserEditsLimit, UserUpdates, Remove
  <2> QED BY <1>2, <2>1, <2>2, <2>3, <2>4, <2>5, <2>6 DEF Outside
<1>3. CASE WriteStatus \/ StatusFails
  BY <1>3, StatusStep DEF WriteStatus, StatusFails, Done, informerVars
<1>4. CASE Inform \/ Restart \/ Stop
  BY <1>4 DEF Inform, InformCRQ, InformNamespaces, InformQuotas, Restart, Stop, vars, objectVars
<1>5. CASE Begin \/ Select \/ Visited \/ \E n \in Namespaces : VisitQuota(n) \/ SkipQuota(n)
  BY <1>5 DEF Begin, Select, Visited, VisitQuota, SkipQuota, objectVars
<1> QED BY <1>2, <1>3, <1>4, <1>5 DEF Next, Reconcile

(* Where copies come from: the informer copies the stored CRQ, Reconcile the
   informer's, and a step that copies changes no CRQ. *)
LEMMA CopySources ==
  ASSUME Next
  PROVE  /\ crqSeen' = crqSeen \/ (crqSeen' = crq /\ crq' = crq)
         /\ rqSeen' = rqSeen \/ (rqSeen' = rq /\ rq' = rq /\ crq' = crq)
         /\ \/ step' = "idle"
            \/ step # "idle" /\ snap' = snap
            \/ step = "idle" /\ snap' = crqSeen /\ crq' = crq /\ crqSeen' = crqSeen
<1>1. CASE Outside
  BY <1>1 DEF Outside, CreateClusterQuota, EditSpec, DeleteClusterQuota, FinishDeletion, Relabel,
     Terminate, FinishTermination, ReportUsage, Callers, UserDeletes, Collect, EmptyNamespace,
     UserLabels, UserEditsLimit, UserUpdates, Remove, informerVars, controllerVars, workerVars
<1>2. CASE Inform \/ Restart \/ Stop
  BY <1>2 DEF Inform, InformCRQ, InformNamespaces, InformQuotas, Restart, Stop, vars, objectVars,
     informerVars, controllerVars, workerVars
<1>3. CASE Reconcile
  BY <1>3 DEF Reconcile, Begin, Select, Visited, VisitQuota, SkipQuota, WriteStatus, StatusFails,
     Done, objectVars, informerVars, workerVars
<1> QED BY <1>1, <1>2, <1>3 DEF Next

LEMMA CopiesStep ==
  ASSUME TypeOK, TypeOK', CopiesNameContents, Next
  PROVE  CopiesNameContents'
<1>1. /\ crq.rv \in Nat /\ crqSeen.rv \in Nat /\ snap.rv \in Nat
      /\ crq'.rv \in Nat
  BY DEF TypeOK, ObjectsTypeOK, ControllerTypeOK, ClusterQuotas
<1>2. CASE crq' = crq
  BY <1>1, <1>2, CopySources DEF CopiesNameContents
<1>3. CASE crq' # crq
  <2>1. Written /\ crqSeen' = crqSeen /\ (step' = "idle" \/ (step' = step /\ snap' = snap))
    BY <1>3, CrqStep
  <2> QED BY <1>1, <2>1 DEF Written, CopiesNameContents
<1> QED BY <1>2, <1>3

(* Who writes an RQ: users and admissions leave the owner and, unless they
   tamper, the limit; a removal leaves no owner; a creation and an update by
   Reconcile make it its CRQ's own; and nobody leaves an owner without the
   label. *)
LEMMA QuotaStep ==
  ASSUME TypeOK, OwnersSeen, Next, NEW n \in Namespaces
  PROVE  /\ \/ /\ rq'[n].owner = rq[n].owner /\ rq'[n].exists = rq[n].exists
               /\ rq'[n].limit = rq[n].limit \/ "tamper" \in Edits
            \/ rq'[n].owner = 0 /\ ~ rq'[n].exists
            \/ /\ step # "idle" /\ rq'[n].owner = snap.uid /\ rq'[n].exists
               /\ rq'[n].limit = snap.spec.limit
         /\ rq'[n].owner # 0 => rq'[n].managed
<1> DEFINE Good(q) ==
      /\ \/ /\ q.owner = rq[n].owner /\ q.exists = rq[n].exists
            /\ q.limit = rq[n].limit \/ "tamper" \in Edits
         \/ q.owner = 0 /\ ~ q.exists
         \/ /\ step # "idle" /\ q.owner = snap.uid /\ q.exists
            /\ q.limit = snap.spec.limit
      /\ q.owner # 0 => q.managed
<1> SUFFICES Good(rq'[n])
  OBVIOUS
<1>0. rq \in [Namespaces -> ResourceQuotas] /\ Good(rq[n])
  BY DEF TypeOK, ObjectsTypeOK, OwnersSeen
<1>1. ASSUME NEW m \in Namespaces, Remove(m) PROVE Good(rq'[n])
  BY <1>0, <1>1 DEF Remove, Absent
<1>2. ASSUME NEW m \in Namespaces, Callers(m) PROVE Good(rq'[n])
  <2>1. ASSUME NEW quota \in ResourceQuotas, UserUpdates(m, quota),
               quota.owner = rq[m].owner, quota.exists = rq[m].exists,
               quota.limit = rq[m].limit \/ "tamper" \in Edits
        PROVE  Good(rq'[n])
    <3>1. quota.managed \/ ~ rq[m].managed
      BY <2>1 DEF UserUpdates, UpdateAllowed
    <3>2. rq[m].owner # 0 => rq[m].managed
      BY DEF OwnersSeen
    <3>3. rq' = [rq EXCEPT ![m] = Rewritten(rq[m], quota)]
      BY <2>1 DEF UserUpdates
    <3>4. /\ Rewritten(rq[m], quota).owner = rq[m].owner
          /\ Rewritten(rq[m], quota).exists = rq[m].exists
          /\ Rewritten(rq[m], quota).limit = rq[m].limit \/ "tamper" \in Edits
          /\ Rewritten(rq[m], quota).managed = (IF quota = rq[m] THEN rq[m].managed ELSE quota.managed)
      BY <2>1 DEF Rewritten, ResourceQuotas
    <3> QED BY <1>0, <3>1, <3>2, <3>3, <3>4
  <2>2. \A managed \in BOOLEAN :
          /\ [rq[m] EXCEPT !.managed = managed] \in ResourceQuotas
          /\ [rq[m] EXCEPT !.managed = managed].owner = rq[m].owner
          /\ [rq[m] EXCEPT !.managed = managed].exists = rq[m].exists
          /\ [rq[m] EXCEPT !.managed = managed].limit = rq[m].limit
    BY <1>0 DEF ResourceQuotas
  <2>3. \A limit \in Limits :
          /\ [rq[m] EXCEPT !.limit = limit] \in ResourceQuotas
          /\ [rq[m] EXCEPT !.limit = limit].owner = rq[m].owner
          /\ [rq[m] EXCEPT !.limit = limit].exists = rq[m].exists
    BY <1>0 DEF ResourceQuotas
  <2>4. ASSUME NEW managed \in BOOLEAN, UserLabels(m, managed) PROVE Good(rq'[n])
    BY <2>1, <2>2, <2>4 DEF UserLabels
  <2>5. ASSUME NEW limit \in Limits, UserEditsLimit(m, limit) PROVE Good(rq'[n])
    BY <2>1, <2>3, <2>5 DEF UserEditsLimit, Edit
  <2> QED BY <1>1, <1>2, <2>4, <2>5 DEF Callers, UserDeletes, Collect, EmptyNamespace
<1>3. ASSUME NEW m \in Namespaces, NEW used \in Amounts, ReportUsage(m, used) PROVE Good(rq'[n])
  BY <1>0, <1>3 DEF ReportUsage, ResourceQuotas
<1>4. ASSUME NEW m \in Namespaces, WriteQuota(m), step # "idle" PROVE Good(rq'[n])
  <2>1. /\ Wanted(m).owner = snap.uid /\ Wanted(m).managed = TRUE
        /\ Wanted(m).limit = snap.spec.limit /\ Wanted(m).exists = rqSeen[m].exists
        /\ Wanted(m) \in ResourceQuotas
    BY WantedType DEF Wanted, TypeOK, ObjectsTypeOK, ResourceQuotas
  <2>2. CASE CreateQuota(m)
    BY <1>0, <1>4, <2>1, <2>2 DEF CreateQuota, ResourceQuotas
  <2>3. CASE UpdateQuota(m)
    <3>1. rq' = [rq EXCEPT ![m] = Rewritten(rq[m], Wanted(m))] /\ rqSeen[m].exists
      BY <2>3 DEF UpdateQuota, UpdateLands
    <3>2. /\ Rewritten(rq[m], Wanted(m)).owner = snap.uid
          /\ Rewritten(rq[m], Wanted(m)).managed = TRUE
          /\ Rewritten(rq[m], Wanted(m)).limit = snap.spec.limit
          /\ Rewritten(rq[m], Wanted(m)).exists
      BY <2>1, <3>1 DEF Rewritten, ResourceQuotas
    <3> QED BY <1>0, <1>4, <3>1, <3>2
  <2> QED BY <1>4, <2>2, <2>3 DEF WriteQuota
<1>5. CASE Outside
  <2>1. ASSUME \/ \E spec \in Specs : CreateClusterQuota(spec) \/ EditSpec(spec)
               \/ DeleteClusterQuota \/ FinishDeletion
        PROVE  rq' = rq
    BY <2>1 DEF CreateClusterQuota, EditSpec, DeleteClusterQuota, FinishDeletion
  <2>2. ASSUME NEW m \in Namespaces,
               (\E label \in Labels : Relabel(m, label)) \/ Terminate(m) \/ FinishTermination(m)
        PROVE  rq' = rq
    BY <2>2 DEF Relabel, Terminate, FinishTermination
  <2> QED BY <1>0, <1>2, <1>3, <1>5, <2>1, <2>2 DEF Outside
<1>6. CASE Reconcile
  <2>1. ASSUME NEW m \in Namespaces, VisitQuota(m) \/ SkipQuota(m) PROVE Good(rq'[n])
    <3>1. WriteQuota(m) \/ rq' = rq
      BY <2>1 DEF VisitQuota, SkipQuota
    <3>2. step # "idle"
      BY <2>1 DEF VisitQuota, SkipQuota
    <3> QED BY <1>0, <1>4, <3>1, <3>2
  <2>2. CASE Begin \/ Select \/ Visited \/ WriteStatus \/ StatusFails
    BY <1>0, <2>2 DEF Begin, Select, Visited, WriteStatus, StatusFails, objectVars
  <2> QED BY <1>6, <2>1, <2>2 DEF Reconcile
<1>7. CASE Inform \/ Restart \/ Stop
  BY <1>0, <1>7 DEF Inform, InformCRQ, InformNamespaces, InformQuotas, Restart, Stop, vars, objectVars
<1> QED BY <1>5, <1>6, <1>7 DEF Next

LEMMA OwnersStep ==
  ASSUME TypeOK, TypeOK', CopiesNameContents, OwnersSeen, Next
  PROVE  OwnersSeen'
<1>1. /\ crq.uid \in Nat /\ crqSeen.uid \in Nat /\ snap.uid \in Nat
      /\ crq'.uid \in Nat /\ crqSeen'.uid \in Nat /\ snap'.uid \in Nat
      /\ \A n \in Namespaces : rq[n].owner \in Nat /\ rq'[n].owner \in Nat
  BY DEF TypeOK, ObjectsTypeOK, ControllerTypeOK, ClusterQuotas, ResourceQuotas
<1>2. crqSeen.uid =< crqSeen'.uid
  BY <1>1, CopySources DEF OwnersSeen
<1>3. /\ crq'.phase # "absent" => crq'.uid # 0
      /\ crqSeen'.uid =< crq'.uid
      /\ crqSeen'.uid = crq'.uid /\ crq'.phase = "live" => crqSeen'.phase = "live"
  <2>1. CASE crq' = crq
    BY <1>1, <2>1, CopySources DEF OwnersSeen
  <2>2. CASE crq' # crq
    <3>1. Written /\ crqSeen' = crqSeen
      BY <2>2, CrqStep
    <3> QED BY <1>1, <3>1 DEF Written, OwnersSeen
  <2> QED BY <2>1, <2>2
<1>4. step' # "idle" => snap'.uid =< crqSeen'.uid
  BY <1>1, <1>2, CopySources DEF OwnersSeen
<1>5. ASSUME NEW n \in Namespaces
      PROVE  rq'[n].owner =< crqSeen'.uid /\ (rq'[n].owner # 0 => rq'[n].managed)
  <2>1. rq'[n].owner \in {rq[n].owner, 0} \/ (step # "idle" /\ rq'[n].owner = snap.uid)
    BY QuotaStep
  <2>2. rq'[n].owner =< crqSeen.uid
    BY <1>1, <2>1 DEF OwnersSeen
  <2> QED BY <1>1, <1>2, <2>2, QuotaStep
<1> QED BY <1>3, <1>4, <1>5 DEF OwnersSeen

LEMMA LifecycleInvariant == Spec => []IInv
<1>1. Init => CopiesNameContents /\ OwnersSeen
  BY NothingTypes DEF Init, ObjectsInit, ControllerInit, CopiesNameContents, OwnersSeen, NoQuota
<1>2. TypeOK /\ TypeOK' /\ CopiesNameContents /\ OwnersSeen /\ [Next]_vars
        => CopiesNameContents' /\ OwnersSeen'
  <2>1. CASE Next
    BY <2>1, CopiesStep, OwnersStep
  <2>2. CASE UNCHANGED vars
    BY <2>2 DEF vars, objectVars, informerVars, controllerVars, workerVars, CopiesNameContents, OwnersSeen
  <2> QED BY <2>1, <2>2
<1> QED BY <1>1, <1>2, LifecycleTypes, PTL DEF Spec, IInv
-----------------------------------------------------------------------------
(* What the remove admission answers, and nothing else that any step does,
   keeps the RQ of a living CRQ: owning it means that the informer has shown
   the CRQ. *)
LEMMA KeptStep ==
  ASSUME IInv, Next, NEW n \in Namespaces,
         rq[n].exists, rq[n].owner = crq.uid, crq.phase = "live"
  PROVE  rq'[n].exists
<1> USE DEF IInv
<1>0. rq \in [Namespaces -> ResourceQuotas]
  BY DEF TypeOK, ObjectsTypeOK
<1>1. ~ DeleteAllowed(rq[n])
  <2>1. rq[n].managed /\ crqSeen.uid = crq.uid
    BY DEF OwnersSeen, TypeOK, ObjectsTypeOK, ClusterQuotas
  <2> QED BY <2>1 DEF DeleteAllowed, OwnersSeen
<1>2. ASSUME NEW m \in Namespaces, Remove(m) PROVE rq'[n].exists
  BY <1>0, <1>1, <1>2 DEF Remove
<1>3. ASSUME NEW m \in Namespaces, NEW quota \in ResourceQuotas, UserUpdates(m, quota),
             quota.exists = rq[m].exists
      PROVE  rq'[n].exists
  <2>1. rq' = [rq EXCEPT ![m] = Rewritten(rq[m], quota)]
    BY <1>3 DEF UserUpdates
  <2>2. Rewritten(rq[m], quota).exists = rq[m].exists
    BY <1>3 DEF Rewritten, ResourceQuotas
  <2> QED BY <1>0, <2>1, <2>2
<1>4. ASSUME NEW m \in Namespaces, Callers(m) PROVE rq'[n].exists
  <2>1. \A managed \in BOOLEAN :
          /\ [rq[m] EXCEPT !.managed = managed] \in ResourceQuotas
          /\ [rq[m] EXCEPT !.managed = managed].exists = rq[m].exists
    BY <1>0 DEF ResourceQuotas
  <2>2. \A limit \in Limits :
          /\ [rq[m] EXCEPT !.limit = limit] \in ResourceQuotas
          /\ [rq[m] EXCEPT !.limit = limit].exists = rq[m].exists
    BY <1>0 DEF ResourceQuotas
  <2>3. CASE Remove(m)
    BY <1>2, <2>3
  <2>4. ASSUME NEW managed \in BOOLEAN, UserLabels(m, managed) PROVE rq'[n].exists
    BY <1>3, <2>1, <2>4 DEF UserLabels
  <2>5. ASSUME NEW limit \in Limits, UserEditsLimit(m, limit) PROVE rq'[n].exists
    BY <1>3, <2>2, <2>5 DEF UserEditsLimit
  <2> QED BY <1>4, <2>3, <2>4, <2>5 DEF Callers, UserDeletes, Collect, EmptyNamespace
<1>5. ASSUME NEW m \in Namespaces, NEW used \in Amounts, ReportUsage(m, used)
      PROVE  rq'[n].exists
  BY <1>0, <1>5 DEF ReportUsage, ResourceQuotas
<1>6. ASSUME NEW m \in Namespaces, WriteQuota(m) PROVE rq'[n].exists
  <2>1. Wanted(m).exists = rqSeen[m].exists /\ Wanted(m) \in ResourceQuotas
    BY WantedType DEF Wanted, TypeOK, ObjectsTypeOK, ResourceQuotas
  <2>2. CASE CreateQuota(m)
    BY <1>0, <2>1, <2>2 DEF CreateQuota, ResourceQuotas
  <2>3. CASE UpdateQuota(m)
    <3>1. rq' = [rq EXCEPT ![m] = Rewritten(rq[m], Wanted(m))] /\ rqSeen[m].exists
      BY <2>3 DEF UpdateQuota, UpdateLands
    <3>2. Rewritten(rq[m], Wanted(m)).exists = TRUE
      BY <2>1, <3>1 DEF Rewritten, ResourceQuotas
    <3> QED BY <1>0, <3>1, <3>2
  <2> QED BY <1>6, <2>2, <2>3 DEF WriteQuota
<1>7. CASE rq' = rq
  BY <1>7
<1>8. CASE Outside
  BY <1>4, <1>5, <1>7, <1>8
  DEF Outside, CreateClusterQuota, EditSpec, DeleteClusterQuota, FinishDeletion, Relabel,
      Terminate, FinishTermination
<1>9. CASE Inform \/ Reconcile \/ Restart \/ Stop
  BY <1>6, <1>7, <1>9
  DEF Inform, InformCRQ, InformNamespaces, InformQuotas, Reconcile, Begin, Select, Visited,
      VisitQuota, SkipQuota, WriteStatus, StatusFails, Restart, Stop, vars, objectVars
<1> QED BY <1>8, <1>9 DEF Next

(* The remove admission (removeadmission.go:74-107) lets nobody delete the RQ
   of the living CRQ that owns it, although it asks an informer that may be
   behind: owning the RQ means that the informer has shown the CRQ. *)
THEOREM OwnedQuotasAreKept == Spec => OwnedQuotaKept
<1>1. IInv /\ [Next]_vars =>
        [\A n \in Namespaces :
           rq[n].exists /\ rq[n].owner = crq.uid /\ crq.phase = "live" => rq'[n].exists]_vars
  BY KeptStep DEF vars
<1> QED BY <1>1, LifecycleInvariant, PTL DEF Spec, OwnedQuotaKept

(* Reconcile works a step at a time on a copy (controller.go:82-101); still the
   status it writes is that of the CRQ as stored: the version says so. *)
THEOREM ReconcileWritesCurrent == Spec => ReconciledFromCurrentSpec
<1>1. IInv /\ [Next]_vars =>
        [step = "status" /\ step' = "idle" /\ crq' # crq =>
           /\ crq'.hard = crq.spec.limit /\ crq'.spec = crq.spec
           /\ crq'.uid = crq.uid /\ crq'.phase = crq.phase]_vars
  <2> SUFFICES ASSUME IInv, Next, step = "status", step' = "idle", crq' # crq
               PROVE  /\ crq'.hard = crq.spec.limit /\ crq'.spec = crq.spec
                      /\ crq'.uid = crq.uid /\ crq'.phase = crq.phase
    BY DEF vars
  <2>1. WriteStatus \/ StatusFails
    BY DEF Next, Outside, Reconcile, Begin, Select, Visited, VisitQuota, SkipQuota, Inform,
           InformCRQ, InformNamespaces, InformQuotas, Restart, Stop, vars, objectVars,
           controllerVars, workerVars
  <2>2. StatusLands /\ crq' = Rewritten(crq, StatusOf(snap))
    BY <2>1 DEF WriteStatus, StatusFails
  <2> QED BY <2>2, StatusStep DEF IInv
<1> QED BY <1>1, LifecycleInvariant, PTL DEF Spec, ReconciledFromCurrentSpec
-----------------------------------------------------------------------------
(* NO EVENT IS LOST *)

(* The RQ that the CRQ in force owns is there, stays the CRQ's own, and was so
   already if an informer's copy says so. *)
QuotasOwned ==
  \A n \in Namespaces :
    /\ rq[n].owner # 0 => rq[n].exists
    /\ rqSeen[n].owner =< crq.uid
    /\ crq.phase = "live" /\ rqSeen[n].owner = crq.uid => rq[n].owner = crq.uid
    /\ step # "idle" => rq[n].owner =< snap.uid

(* The namespaces that Reconcile has visited have theirs. *)
VisitedOwned ==
  /\ step \in {"idle", "select"} => found = {}
  /\ step # "idle" /\ crq.phase = "live" /\ snap.uid = crq.uid =>
       \A n \in found : rq[n].owner = crq.uid

(* Unless its name has been queued meanwhile, Reconcile works on the spec that
   the informer shows, and has visited or will visit every namespace that the
   informer shows and the spec selects. *)
EventsKept ==
  /\ step # "idle" => snap.rv =< crqSeen.rv
  /\ step # "idle" /\ ~ queued =>
       crqSeen.uid = snap.uid /\ crqSeen.spec = snap.spec /\ crqSeen.phase # "absent"
  /\ step \in {"quotas", "status"} /\ ~ queued /\ ~ failed =>
       Selected(snap.spec, nsSeen) \subseteq todo \cup found
  /\ step = "status" => todo = {} /\ ~ failed

(* With nothing queued, what the informers show has been reconciled. *)
ReconciledAsSeen ==
  step = "idle" /\ ~ queued /\ crq.phase = "live" /\ crqSeen.phase = "live" /\ crqSeen.uid = crq.uid =>
    /\ crq.hard = crqSeen.spec.limit
    /\ Selected(crqSeen.spec, nsSeen) \subseteq crq.listed
    /\ \A n \in Selected(crqSeen.spec, nsSeen) : rq[n].owner = crq.uid

RestInv == IInv /\ QuotasOwned /\ VisitedOwned /\ EventsKept /\ ReconciledAsSeen

LEMMA Numbers ==
  ASSUME TypeOK
  PROVE  /\ crq.uid \in Nat /\ crqSeen.uid \in Nat /\ snap.uid \in Nat
         /\ crq.rv \in Nat /\ crqSeen.rv \in Nat /\ snap.rv \in Nat
         /\ \A n \in Namespaces : rq[n].owner \in Nat /\ rqSeen[n].owner \in Nat
BY DEF TypeOK, ObjectsTypeOK, ControllerTypeOK, ClusterQuotas, ResourceQuotas

(* A CRQ that lives after a step lived before it, or is new to everybody. *)
LEMMA LiveStep ==
  ASSUME IInv, Next, crq'.phase = "live"
  PROVE  \/ crq'.uid = crq.uid /\ crq.phase = "live"
         \/ /\ crq'.uid = crq.uid + 1 /\ crqSeen' = crqSeen
            /\ step' = "idle" \/ (step' = step /\ snap' = snap)
BY CrqStep DEF IInv, Written

(* Once owned, an RQ keeps its owner while the CRQ lives. *)
LEMMA OwnerStep ==
  ASSUME RestInv, Next, NEW n \in Namespaces, crq.phase = "live", rq[n].owner = crq.uid
  PROVE  rq'[n].owner = crq.uid
<1>1. IInv /\ TypeOK /\ OwnersSeen /\ rq[n].exists
  BY DEF RestInv, IInv, QuotasOwned, OwnersSeen
<1>2. rq'[n].exists
  BY <1>1, KeptStep
<1>3. CASE step # "idle" /\ rq'[n].owner = snap.uid
  BY <1>1, <1>3, Numbers DEF RestInv, QuotasOwned, OwnersSeen
<1> QED
  BY <1>1, <1>2, <1>3, QuotaStep

LEMMA QuotasOwnedStep ==
  ASSUME RestInv, TypeOK', Next
  PROVE  QuotasOwned'
<1>1. IInv /\ TypeOK /\ OwnersSeen /\ CopiesNameContents /\ QuotasOwned
  BY DEF RestInv, IInv
<1>2. /\ crq.uid \in Nat /\ crqSeen.uid \in Nat /\ snap.uid \in Nat
      /\ crq'.uid \in Nat /\ crqSeen'.uid \in Nat /\ snap'.uid \in Nat
      /\ \A n \in Namespaces : /\ rq[n].owner \in Nat /\ rq'[n].owner \in Nat
                               /\ rqSeen[n].owner \in Nat /\ rqSeen'[n].owner \in Nat
  <2>1. TypeOK' => /\ crq'.uid \in Nat /\ crqSeen'.uid \in Nat /\ snap'.uid \in Nat
                   /\ \A n \in Namespaces : rq'[n].owner \in Nat /\ rqSeen'[n].owner \in Nat
    BY DEF TypeOK, ObjectsTypeOK, ControllerTypeOK, ClusterQuotas, ResourceQuotas
  <2> QED
    BY <1>1, <2>1, Numbers
<1>3. crq.uid =< crq'.uid
  BY <1>1, <1>2, CrqStep DEF Written
<1>4. ASSUME NEW n \in Namespaces
      PROVE  rq'[n].owner # 0 => rq'[n].exists
  <2>1. \/ rq'[n].owner = rq[n].owner /\ rq'[n].exists = rq[n].exists
        \/ rq'[n].owner = 0 \/ rq'[n].exists
    BY <1>1, QuotaStep
  <2> QED
    BY <1>1, <2>1 DEF QuotasOwned
<1>5. ASSUME NEW n \in Namespaces
      PROVE  rqSeen'[n].owner =< crq'.uid
  BY <1>1, <1>2, <1>3, CopySources DEF QuotasOwned, OwnersSeen
<1>6. ASSUME NEW n \in Namespaces, crq'.phase = "live", rqSeen'[n].owner = crq'.uid
      PROVE  rq'[n].owner = crq'.uid
  <2>1. CASE rqSeen' = rqSeen
    <3>1. crq'.uid = crq.uid /\ crq.phase = "live"
      BY <1>1, <1>2, <1>6, <2>1, LiveStep DEF QuotasOwned
    <3>2. rq[n].owner = crq.uid
      BY <1>1, <1>6, <2>1, <3>1 DEF QuotasOwned
    <3> QED
      BY <3>1, <3>2, OwnerStep
  <2>2. CASE rqSeen' = rq /\ rq' = rq
    BY <1>6, <2>2
  <2> QED
    BY <2>1, <2>2, CopySources
<1>7. ASSUME NEW n \in Namespaces, step' # "idle"
      PROVE  rq'[n].owner =< snap'.uid
  <2>1. rq'[n].owner \in {rq[n].owner, 0} \/ (step # "idle" /\ rq'[n].owner = snap.uid)
    BY <1>1, QuotaStep
  <2>2. CASE step # "idle" /\ snap' = snap
    BY <1>1, <1>2, <2>1, <2>2 DEF QuotasOwned
  <2>3. CASE snap' = crqSeen
    BY <1>1, <1>2, <2>1, <2>3 DEF OwnersSeen
  <2> QED
    BY <1>7, <2>2, <2>3, CopySources
<1> QED
  BY <1>4, <1>5, <1>6, <1>7 DEF QuotasOwned

(* A visit leaves the RQ to the CRQ that Reconcile got, be it that the informer
   shows it as the CRQ's own. *)
LEMMA VisitOwns ==
  ASSUME RestInv, NEW n \in Namespaces, VisitQuota(n), crq.phase = "live", snap.uid = crq.uid
  PROVE  rq'[n].owner = crq.uid
<1>1. TypeOK /\ QuotasOwned /\ rq \in [Namespaces -> ResourceQuotas]
  BY DEF RestInv, IInv, TypeOK, ObjectsTypeOK
<1>2. Wanted(n) \in ResourceQuotas /\ Wanted(n).owner = snap.uid
  BY <1>1, WantedType DEF Wanted, TypeOK, ObjectsTypeOK, ResourceQuotas
<1>3. CASE CreateQuota(n)
  BY <1>1, <1>2, <1>3 DEF CreateQuota, ResourceQuotas
<1>4. CASE UpdateQuota(n)
  <2>1. rq' = [rq EXCEPT ![n] = Rewritten(rq[n], Wanted(n))]
    BY <1>4 DEF UpdateQuota
  <2>2. Rewritten(rq[n], Wanted(n)).owner = snap.uid
    BY <1>2 DEF Rewritten, ResourceQuotas
  <2> QED
    BY <1>1, <2>1, <2>2
<1>5. CASE UpToDate(n) /\ UNCHANGED rq
  BY <1>1, <1>2, <1>5 DEF UpToDate, QuotasOwned
<1> QED
  BY <1>3, <1>4, <1>5 DEF VisitQuota, WriteQuota

LEMMA VisitedOwnedStep ==
  ASSUME RestInv, TypeOK', Next
  PROVE  VisitedOwned'
<1>1. IInv /\ TypeOK /\ OwnersSeen /\ VisitedOwned
  BY DEF RestInv, IInv
<1>2. /\ step' \in {"idle", "select"} => found' = {}
      /\ \A n \in found' \ found : n \in Namespaces /\ VisitQuota(n)
  <2>1. CASE Reconcile
    BY <1>1, <2>1
    DEF Reconcile, Begin, Select, Visited, VisitQuota, SkipQuota, WriteStatus, StatusFails, Done,
        VisitedOwned, workerVars
  <2>2. CASE Outside \/ Inform \/ Stop
    BY <1>1, <2>2
    DEF Outside, Inform, InformCRQ, InformNamespaces, InformQuotas, Stop, VisitedOwned, vars,
        controllerVars, workerVars
  <2> QED
    BY <2>1, <2>2 DEF Next, Restart
<1>3. ASSUME step' # "idle", crq'.phase = "live", snap'.uid = crq'.uid, NEW n \in found'
      PROVE  rq'[n].owner = crq'.uid
  <2>1. crq'.uid = crq.uid /\ crq.phase = "live"
    BY <1>1, <1>3, LiveStep, Numbers DEF OwnersSeen, TypeOK, ControllerTypeOK
  <2>2. CASE n \in found
    <3>1. step # "idle" /\ snap' = snap /\ n \in Namespaces
      BY <1>1, <1>3, <2>2, CopySources DEF VisitedOwned, TypeOK, ControllerTypeOK
    <3> QED
      BY <1>1, <1>3, <2>1, <2>2, <3>1, OwnerStep DEF VisitedOwned
  <2>3. CASE n \notin found
    <3>1. n \in Namespaces /\ VisitQuota(n)
      BY <1>2, <1>3, <2>3
    <3> QED
      BY <1>3, <2>1, <3>1, VisitOwns DEF VisitQuota
  <2> QED
    BY <2>2, <2>3
<1> QED
  BY <1>2, <1>3 DEF VisitedOwned

(* An event about a namespace that the shown spec selects queues the name. *)
LEMMA NamespaceEvent ==
  ASSUME InformNamespaces, ~ queued', crqSeen.phase # "absent"
  PROVE  Selected(crqSeen.spec, nsSeen') \subseteq Selected(crqSeen.spec, nsSeen)
BY DEF InformNamespaces, OnNamespaceChange, Selected

(* An event about the CRQ that does not queue the name shows the same spec. *)
LEMMA QuotaEvent ==
  ASSUME InformCRQ, ~ queued'
  PROVE  /\ ~ queued /\ crqSeen.phase # "absent" /\ crqSeen'.phase # "absent"
         /\ crqSeen'.uid = crqSeen.uid /\ crqSeen'.spec = crqSeen.spec
BY DEF InformCRQ, WantsReconcile

LEMMA OutsideQuiet ==
  ASSUME Outside
  PROVE  UNCHANGED <<controllerVars, informerVars>>
BY DEF Outside, CreateClusterQuota, EditSpec, DeleteClusterQuota, FinishDeletion, Relabel,
       Terminate, FinishTermination, ReportUsage, Callers, UserDeletes, Collect, EmptyNamespace,
       UserLabels, UserEditsLimit, UserUpdates, Remove

LEMMA EventsKeptStep ==
  ASSUME RestInv, Next
  PROVE  EventsKept'
<1>1. TypeOK /\ CopiesNameContents /\ OwnersSeen /\ VisitedOwned /\ EventsKept
  BY DEF RestInv, IInv
<1>2. CASE Outside \/ Stop
  <2>1. UNCHANGED <<queued, step, snap, todo, found, failed, crqSeen, nsSeen>>
    BY <1>2, OutsideQuiet
    DEF Stop, vars, objectVars, informerVars, controllerVars, workerVars
  <2> QED
    BY <1>1, <2>1 DEF EventsKept, Selected
<1>3. CASE InformCRQ
  <2>1. UNCHANGED <<step, snap, todo, found, failed, nsSeen>> /\ crqSeen' = crq
        /\ (~ queued' => ~ queued)
    BY <1>3 DEF InformCRQ, workerVars
  <2>2. step' # "idle" => snap'.rv =< crqSeen'.rv
    BY <1>1, <2>1 DEF CopiesNameContents
  <2> QED
    BY <1>1, <1>3, <2>1, <2>2, QuotaEvent DEF EventsKept, Selected
<1>4. CASE InformNamespaces
  <2>1. UNCHANGED <<step, snap, todo, found, failed, crqSeen>> /\ (~ queued' => ~ queued)
    BY <1>4 DEF InformNamespaces, workerVars
  <2>2. ASSUME step' \in {"quotas", "status"}, ~ queued', ~ failed'
        PROVE  Selected(snap'.spec, nsSeen') \subseteq todo' \cup found'
    BY <1>1, <1>4, <2>1, <2>2, NamespaceEvent DEF EventsKept
  <2> QED
    BY <1>1, <2>1, <2>2 DEF EventsKept
<1>5. CASE InformQuotas
  <2>1. UNCHANGED <<queued, step, snap, todo, found, failed, crqSeen, nsSeen>>
    BY <1>5 DEF InformQuotas, controllerVars, workerVars
  <2> QED
    BY <1>1, <2>1 DEF EventsKept, Selected
<1>6. CASE Begin
  <2>1. crqSeen.rv =< crqSeen.rv
    BY <1>1, Numbers
  <2> QED
    BY <1>1, <1>6, <2>1 DEF Begin, EventsKept, objectVars, informerVars, workerVars
<1>7. CASE Select
  <2>1. UNCHANGED <<queued, snap, found, failed, crqSeen, nsSeen>> /\ step' = "quotas" /\ step = "select"
        /\ todo' = Selected(snap.spec, nsSeen)
    BY <1>7 DEF Select, objectVars, informerVars
  <2> QED
    BY <1>1, <2>1 DEF EventsKept, Selected
<1>8. ASSUME NEW n \in Namespaces, VisitQuota(n) \/ SkipQuota(n)
      PROVE  EventsKept'
  <2>1. /\ UNCHANGED <<queued, snap, crqSeen, nsSeen, step>> /\ step = "quotas"
        /\ (failed' = failed /\ todo' \cup found' = todo \cup found) \/ failed'
    BY <1>8 DEF VisitQuota, SkipQuota, informerVars
  <2> QED
    BY <1>1, <2>1 DEF EventsKept, Selected
<1>9. CASE Visited
  <2>1. \/ step' = "idle"
        \/ /\ UNCHANGED <<queued, snap, todo, found, failed, crqSeen, nsSeen>>
           /\ step' = "status" /\ step = "quotas" /\ todo = {} /\ ~ failed
    BY <1>9 DEF Visited, Done, objectVars, informerVars
  <2> QED
    BY <1>1, <2>1 DEF EventsKept, Selected
<1>10. CASE WriteStatus \/ StatusFails \/ Restart
  BY <1>10 DEF WriteStatus, StatusFails, Restart, Done, EventsKept
<1> QED
  BY <1>2, <1>3, <1>4, <1>5, <1>6, <1>7, <1>8, <1>9, <1>10 DEF Next, Inform, Reconcile

(* The status that the next Reconcile compares itself with changes outside only
   by admissions, and these list more namespaces. *)
LEMMA StatusOutside ==
  ASSUME IInv, Outside, crq'.phase = "live", crq'.uid = crq.uid
  PROVE  crq'.hard = crq.hard /\ crq.listed \subseteq crq'.listed
<1>1. crq \in ClusterQuotas /\ crq.uid \in Nat
  BY Numbers DEF IInv, TypeOK, ObjectsTypeOK
<1>2. ASSUME NEW spec \in Specs, CreateClusterQuota(spec)
      PROVE  FALSE
  BY <1>1, <1>2 DEF CreateClusterQuota, NoQuota
<1>3. ASSUME NEW spec \in Specs, EditSpec(spec)
      PROVE  crq'.hard = crq.hard /\ crq.listed \subseteq crq'.listed
  BY <1>1, <1>3 DEF EditSpec, ClusterQuotas
<1>4. CASE DeleteClusterQuota \/ FinishDeletion
  BY <1>1, <1>4 DEF DeleteClusterQuota, FinishDeletion, ClusterQuotas
<1>5. ASSUME NEW n \in Namespaces, NEW used \in Amounts, ReportUsage(n, used)
      PROVE  crq'.hard = crq.hard /\ crq.listed \subseteq crq'.listed
  <2>1. crq' = [crq EXCEPT !.used = Total([Usages(rq) EXCEPT ![n] = used]),
                           !.listed = crq.listed \cup {n}, !.rv = crq.rv + 1]
    BY <1>5 DEF ReportUsage
  <2> QED
    BY <1>1, <2>1 DEF ClusterQuotas
<1>6. ASSUME NEW n \in Namespaces,
             \/ \E label \in Labels : Relabel(n, label)
             \/ Terminate(n) \/ FinishTermination(n) \/ Callers(n)
      PROVE  crq' = crq
  BY <1>6 DEF Relabel, Terminate, FinishTermination, Callers, UserDeletes, Collect,
     EmptyNamespace, UserLabels, UserEditsLimit, UserUpdates, Remove
<1> QED
  BY <1>2, <1>3, <1>4, <1>5, <1>6 DEF Outside

(* What WriteStatus leaves: the version says that nothing moved since Begin, so
   that the informer shows the very CRQ that was reconciled. *)
LEMMA WrittenAsSeen ==
  ASSUME RestInv, WriteStatus, ~ queued'
  PROVE  /\ crqSeen = crq /\ crq.phase = "live" /\ UNCHANGED <<rq, crqSeen, nsSeen>>
         /\ crq'.hard = crq.spec.limit /\ crq'.uid = crq.uid
         /\ Selected(crq.spec, nsSeen) \subseteq crq'.listed
         /\ \A n \in Selected(crq.spec, nsSeen) : rq[n].owner = crq.uid
<1>1. TypeOK /\ CopiesNameContents /\ VisitedOwned /\ EventsKept /\ crq \in ClusterQuotas
  BY DEF RestInv, IInv, TypeOK, ObjectsTypeOK
<1>2. step = "status" /\ crq.rv = snap.rv /\ ~ queued
  BY DEF WriteStatus, StatusLands, Done
<1>3. snap = crq /\ crqSeen = crq
  <2>1. snap.rv =< crqSeen.rv /\ crqSeen.rv =< crq.rv
    BY <1>1, <1>2 DEF CopiesNameContents, EventsKept
  <2>2. crqSeen.rv = crq.rv
    BY <1>1, <1>2, <2>1, Numbers
  <2> QED
    BY <1>1, <1>2, <2>2 DEF CopiesNameContents
<1>4. crq.phase = "live"
  BY <1>1, <1>2, <1>3 DEF TypeOK, ControllerTypeOK
<1>5. Selected(crq.spec, nsSeen) \subseteq found
  BY <1>1, <1>2, <1>3 DEF EventsKept
<1>6. crq'.hard = crq.spec.limit /\ crq'.uid = crq.uid /\ crq'.listed = found
  <2>1. crq' = Rewritten(crq, [crq EXCEPT !.hard = crq.spec.limit, !.used = sum, !.listed = found])
    BY <1>3 DEF WriteStatus, StatusOf
  <2> QED
    BY <1>1, <2>1 DEF Rewritten, ClusterQuotas
<1>7. \A n \in found : rq[n].owner = crq.uid
  BY <1>1, <1>2, <1>3, <1>4 DEF VisitedOwned
<1> QED
  BY <1>3, <1>4, <1>5, <1>6, <1>7 DEF WriteStatus, informerVars

LEMMA ReconciledAsSeenStep ==
  ASSUME RestInv, Next
  PROVE  ReconciledAsSeen'
<1> SUFFICES ASSUME step' = "idle", ~ queued', crq'.phase = "live", crqSeen'.phase = "live",
                    crqSeen'.uid = crq'.uid
             PROVE  /\ crq'.hard = crqSeen'.spec.limit
                    /\ Selected(crqSeen'.spec, nsSeen') \subseteq crq'.listed
                    /\ \A n \in Selected(crqSeen'.spec, nsSeen') : rq'[n].owner = crq'.uid
  BY DEF ReconciledAsSeen, Selected
<1>1. IInv /\ TypeOK /\ OwnersSeen /\ ReconciledAsSeen
  BY DEF RestInv, IInv
<1>2. CASE Outside
  <2>1. UNCHANGED <<queued, step, crqSeen, nsSeen>>
    BY <1>2, OutsideQuiet DEF controllerVars, workerVars, informerVars
  <2>2. crq'.uid = crq.uid /\ crq.phase = "live"
    BY <1>1, <2>1, LiveStep, Numbers DEF OwnersSeen
  <2>3. crq'.hard = crq.hard /\ crq.listed \subseteq crq'.listed
    BY <1>1, <1>2, <2>2, StatusOutside
  <2>4. /\ crq.hard = crqSeen.spec.limit
        /\ Selected(crqSeen.spec, nsSeen) \subseteq crq.listed
        /\ \A n \in Selected(crqSeen.spec, nsSeen) : rq[n].owner = crq.uid
    BY <1>1, <2>1, <2>2 DEF ReconciledAsSeen
  <2>5. \A n \in Selected(crqSeen.spec, nsSeen) : rq'[n].owner = crq.uid
    BY <2>2, <2>4, OwnerStep DEF Selected
  <2> QED
    BY <2>1, <2>2, <2>3, <2>4, <2>5
<1>3. CASE InformCRQ
  <2>1. UNCHANGED <<crq, rq, step, nsSeen>> /\ crqSeen.uid = crq.uid /\ ~ queued
        /\ crqSeen'.spec = crqSeen.spec
    BY <1>3, QuotaEvent DEF InformCRQ, workerVars
  <2>2. crqSeen.phase = "live"
    BY <1>1, <2>1 DEF OwnersSeen
  <2> QED
    BY <1>1, <2>1, <2>2 DEF ReconciledAsSeen
<1>4. CASE InformNamespaces
  <2>1. UNCHANGED <<crq, rq, step, crqSeen>> /\ ~ queued
    BY <1>4 DEF InformNamespaces, workerVars
  <2>2. Selected(crqSeen.spec, nsSeen') \subseteq Selected(crqSeen.spec, nsSeen)
    BY <1>4, <2>1, NamespaceEvent
  <2> QED
    BY <1>1, <2>1, <2>2 DEF ReconciledAsSeen
<1>5. CASE InformQuotas \/ Stop
  <2>1. UNCHANGED <<crq, rq, step, queued, crqSeen, nsSeen>>
    BY <1>5 DEF InformQuotas, Stop, vars, objectVars, informerVars, controllerVars, workerVars
  <2> QED
    BY <1>1, <2>1 DEF ReconciledAsSeen
<1>6. CASE WriteStatus
  BY <1>6, WrittenAsSeen
<1>7. ~ Begin /\ ~ Select /\ ~ Visited /\ ~ StatusFails /\ ~ Restart
      /\ \A n \in Namespaces : ~ VisitQuota(n) /\ ~ SkipQuota(n)
  BY DEF Begin, Select, Visited, VisitQuota, SkipQuota, StatusFails, Restart, Done, objectVars,
         informerVars
<1> QED
  BY <1>2, <1>3, <1>4, <1>5, <1>6, <1>7 DEF Next, Inform, Reconcile

LEMMA RestInvariant == Spec => []RestInv
<1>1. Init => QuotasOwned /\ VisitedOwned /\ EventsKept /\ ReconciledAsSeen
  <2> SUFFICES ASSUME Init PROVE QuotasOwned /\ VisitedOwned /\ EventsKept /\ ReconciledAsSeen
    OBVIOUS
  <2>1. crq.phase = "absent" /\ crq.uid = 0 /\ \A n \in Namespaces : rqSeen[n] = rq[n] /\ rq[n].owner = 0
    BY DEF Init, ObjectsInit, NoQuota
  <2> QED
    BY <2>1 DEF Init, ControllerInit, QuotasOwned, VisitedOwned, EventsKept, ReconciledAsSeen
<1>2. RestInv /\ IInv' /\ [Next]_vars
        => QuotasOwned' /\ VisitedOwned' /\ EventsKept' /\ ReconciledAsSeen'
  <2>1. CASE Next
    BY <2>1, QuotasOwnedStep, VisitedOwnedStep, EventsKeptStep, ReconciledAsSeenStep DEF IInv
  <2>2. CASE UNCHANGED vars
    BY <2>2
    DEF vars, objectVars, informerVars, controllerVars, workerVars, RestInv, QuotasOwned,
        VisitedOwned, EventsKept, ReconciledAsSeen, Selected
  <2> QED
    BY <2>1, <2>2
<1> QED
  BY <1>1, <1>2, LifecycleInvariant, PTL DEF Spec, RestInv

(* What a controller at rest has done, whatever else has happened. *)
LEMMA RestOwned ==
  ASSUME RestInv, AtRest, crq.phase = "live"
  PROVE  StatusPropagated /\ QuotasExist
BY DEF RestInv, IInv, OwnersSeen, QuotasOwned, ReconciledAsSeen, AtRest, Delivered,
       StatusPropagated, QuotasExist, Selected

(* No event is lost (controller.go:41-101): whatever is edited, deleted,
   recreated, relabelled, terminated, tampered with or lost, and wherever
   Reconcile is at that moment, once nothing is queued and the informers have
   caught up the status has the limit of the spec and lists the namespaces that
   it selects. *)
THEOREM StatusIsPropagated == Spec => []RestsStatusPropagated
<1>1. RestInv => RestsStatusPropagated
  BY RestOwned DEF RestsStatusPropagated, StatusPropagated
<1> QED
  BY <1>1, RestInvariant, PTL

(* And then each of these namespaces has its RQ, with the label and the owner:
   nothing watches the RQs (controller.go:42-45), and nothing has to. *)
THEOREM QuotasArePropagated == Spec => [](AtRest => QuotasExist)
<1>1. RestInv => (AtRest => QuotasExist)
  BY RestOwned DEF QuotasExist
<1> QED
  BY <1>1, RestInvariant, PTL
-----------------------------------------------------------------------------
(* THE LIMITS OF THE RQS *)

(* Nobody edits the limit of an RQ, and no CRQ's limit changes while it lives;
   QuotaNotLarger shows that both are needed. *)
SteadyLimits ==
  /\ "tamper" \notin Edits
  /\ "spec" \in Edits => \A limit, other \in Limits : limit = other

(* A CRQ, every copy of it and every RQ it owns have one limit. *)
OneLimit ==
  /\ crqSeen.uid = crq.uid => crqSeen.spec.limit = crq.spec.limit
  /\ step # "idle" /\ snap.uid = crq.uid => snap.spec.limit = crq.spec.limit
  /\ \A n \in Namespaces :
       rq[n].owner = crq.uid /\ crq.uid # 0 => rq[n].limit = crq.spec.limit

(* A step writes the CRQ with the limit it has, or a new one. *)
LEMMA LimitStep ==
  ASSUME SteadyLimits, IInv, IInv', Next
  PROVE  \/ crq'.uid = crq.uid /\ crq'.spec.limit = crq.spec.limit
         \/ crq'.uid = crq.uid + 1
<1>1. crq \in ClusterQuotas /\ crq' \in ClusterQuotas /\ TypeOK /\ CopiesNameContents
  BY DEF IInv, TypeOK, ObjectsTypeOK
<1>2. ASSUME NEW spec \in Specs, CreateClusterQuota(spec)
      PROVE  crq'.uid = crq.uid + 1
  BY <1>1, <1>2 DEF CreateClusterQuota, NoQuota
<1>3. ASSUME NEW spec \in Specs, EditSpec(spec)
      PROVE  crq'.uid = crq.uid /\ crq'.spec.limit = crq.spec.limit
  BY <1>1, <1>3 DEF EditSpec, Edit, SteadyLimits, ClusterQuotas, Specs
<1>4. CASE DeleteClusterQuota \/ FinishDeletion
  BY <1>1, <1>4 DEF DeleteClusterQuota, FinishDeletion, ClusterQuotas
<1>5. ASSUME NEW n \in Namespaces, NEW used \in Amounts, ReportUsage(n, used)
      PROVE  crq'.uid = crq.uid /\ crq'.spec.limit = crq.spec.limit
  <2>1. crq' = [crq EXCEPT !.used = Total([Usages(rq) EXCEPT ![n] = used]),
                           !.listed = crq.listed \cup {n}, !.rv = crq.rv + 1]
    BY <1>5 DEF ReportUsage
  <2> QED
    BY <1>1, <2>1 DEF ClusterQuotas
<1>6. CASE WriteStatus \/ StatusFails
  BY <1>1, <1>6, StatusStep DEF WriteStatus, StatusFails
<1>7. ASSUME NEW n \in Namespaces,
             \/ \E label \in Labels : Relabel(n, label)
             \/ Terminate(n) \/ FinishTermination(n) \/ Callers(n) \/ VisitQuota(n) \/ SkipQuota(n)
      PROVE  crq' = crq
  BY <1>7 DEF Relabel, Terminate, FinishTermination, Callers, UserDeletes, Collect,
     EmptyNamespace, UserLabels, UserEditsLimit, UserUpdates, Remove, VisitQuota, SkipQuota
<1>8. CASE Inform \/ Restart \/ Stop \/ Begin \/ Select \/ Visited
  BY <1>8 DEF Inform, InformCRQ, InformNamespaces, InformQuotas, Restart, Stop, Begin, Select,
     Visited, vars, objectVars
<1> QED
  BY <1>2, <1>3, <1>4, <1>5, <1>6, <1>7, <1>8 DEF Next, Outside, Reconcile

LEMMA OneLimitStep ==
  ASSUME SteadyLimits, RestInv, RestInv', OneLimit, [Next]_vars
  PROVE  OneLimit'
<1>1. CASE UNCHANGED vars
  BY <1>1 DEF vars, objectVars, informerVars, controllerVars, workerVars, OneLimit
<1> SUFFICES ASSUME Next PROVE OneLimit'
  BY <1>1
<1>2. IInv /\ IInv' /\ TypeOK /\ OwnersSeen /\ QuotasOwned
  BY DEF RestInv, IInv
<1>3. crqSeen'.uid = crq'.uid => crqSeen'.spec.limit = crq'.spec.limit
  BY <1>2, LimitStep, CopySources, Numbers DEF OneLimit, OwnersSeen
<1>4. step' # "idle" /\ snap'.uid = crq'.uid => snap'.spec.limit = crq'.spec.limit
  BY <1>2, LimitStep, CopySources, Numbers DEF OneLimit, OwnersSeen
<1>5. ASSUME NEW n \in Namespaces, rq'[n].owner = crq'.uid, crq'.uid # 0
      PROVE  rq'[n].limit = crq'.spec.limit
  <2>1. CASE crq'.uid = crq.uid + 1
    BY <1>2, <1>5, <2>1, QuotaStep, Numbers DEF OwnersSeen
  <2>2. CASE crq'.uid = crq.uid /\ crq'.spec.limit = crq.spec.limit
    <3>1. CASE rq'[n].owner = rq[n].owner /\ (rq'[n].limit = rq[n].limit \/ "tamper" \in Edits)
      BY <1>5, <2>2, <3>1 DEF OneLimit, SteadyLimits
    <3>2. CASE step # "idle" /\ rq'[n].owner = snap.uid /\ rq'[n].limit = snap.spec.limit
      BY <1>5, <2>2, <3>2 DEF OneLimit
    <3> QED
      BY <1>2, <1>5, <3>1, <3>2, QuotaStep
  <2> QED
    BY <1>2, <2>1, <2>2, LimitStep
<1> QED
  BY <1>3, <1>4, <1>5 DEF OneLimit

(* Whenever the controller rests, every selected namespace has its RQ, with the
   limit of the spec (controller.go:119-148): with limits that stay, no error,
   conflict, old copy, deletion, recreation or restart keeps it from that. *)
THEOREM LimitsArePropagated ==
  ASSUME SteadyLimits
  PROVE  Spec => []RestsPropagated
<1>1. Init => OneLimit
  BY DEF Init, ObjectsInit, ControllerInit, OneLimit, NoQuota
<1>2. OneLimit /\ RestInv /\ RestInv' /\ [Next]_vars => OneLimit'
  BY OneLimitStep
<1>3. RestInv /\ OneLimit => RestsPropagated
  BY RestOwned
  DEF RestsPropagated, Propagated, StatusPropagated, QuotasPropagated, QuotasExist, OneLimit,
      RestInv, IInv, OwnersSeen, Selected
<1> QED
  BY <1>1, <1>2, <1>3, RestInvariant, PTL DEF Spec
=============================================================================
