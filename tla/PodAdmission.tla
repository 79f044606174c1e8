---------------------------- MODULE PodAdmission ----------------------------
(***************************************************************************)
(* The creation of pods, step by step: the /validate webhook of this       *)
(* program (helper.go), the quota plugin behind it, the status update by   *)
(* which the plugin charges a pod, the admission of that update against    *)
(* the sum over all the namespaces, and the quota controller that          *)
(* recalculates usages beside it.                                          *)
(*                                                                         *)
(* Plugin and controller are Kubernetes' (resourcequota.go builds them);   *)
(* through the adaptors (resourcequota-adaptor.go) their client and their  *)
(* informer are those of this repository's ResourceQuota.                  *)
(***************************************************************************)
EXTENDS PodQuota

CONSTANTS
  MaxTries,           \* how often the plugin tries to charge one pod
  MaxUsed,            \* a bound on every usage
  LimitedResources,   \* the plugin's configuration: limitedResources
  Faults              \* what disturbs the program

(* Sync puts listed usages into the cache; the program restarts; the cluster
   quota is not found; calls to the API server fail, or are done and the answer is
   lost. *)
AllFaults == {"sync", "restart", "notfound", "apierror", "lostanswer"}

ASSUME FaultsAssumption == Faults \subseteq AllFaults
ASSUME MaxTriesAssumption == MaxTries \in Nat \ {0}
ASSUME MaxUsedAssumption ==
  MaxUsed \in Nat /\ Cardinality(Pods) =< MaxUsed /\ Hards \subseteq 0 .. MaxUsed
ASSUME NamespacesAssumption == IsFiniteSet(Namespaces) /\ Namespaces # {}

VARIABLES
  version,    \* the resourceVersion of each stored ResourceQuota
  seen,       \* the hijacked informer's copies of them
  latest,     \* the plugin's updatedQuotas: what its last update returned
  podsSeen,   \* the pods informer
  managed,    \* the manager's informer of them, from which Sync lists
  reserved,   \* the usages in the status admission's cache
  pc,         \* where the request for each pod is
  snap,       \* the quota that the request was checked against
  tries,      \* how often it was checked
  recount,    \* the recalculation in flight
  covered     \* history: nothing has made the cache count less than there is

requestVars == <<pc, snap, tries>>
vars == <<quotaVars, version, seen, latest, podsSeen, managed, reserved, requestVars,
          recount, covered>>

Ledger == INSTANCE ClusterLedger
            WITH published <- used, Limits <- Hards, Unlimited <- -1

(* The repository's ResourceQuota and, for Kubernetes' code, corev1's. *)
Objects(api) == [api: {api}, version: Nat, used: Nat]
Stored(n) == [api |-> "quota.xiaoshiai.cn", version |-> version[n], used |-> used[n]]

(* Mutant: the object as it comes. *)
toQuotaAsIs(object) == object

toQuota(object) == [api |-> "core", version |-> object.version, used |-> object.used]

(* Mutant: fromQuota without the object's metadata. *)
fromQuotaUnversioned(object) ==
  [api |-> "quota.xiaoshiai.cn", version |-> 0, used |-> object.used]

fromQuota(object) ==
  [api |-> "quota.xiaoshiai.cn", version |-> object.version, used |-> object.used]

Recounts ==
  [phase: {"idle", "submit", "store"}, ns: Namespaces, quota: Objects("core"),
   pods: SUBSET Pods]

TypeOK ==
  /\ QuotaTypeOK
  /\ version \in [Namespaces -> Nat]
  /\ seen \in [Namespaces -> Objects("core")]
  /\ latest \in [Namespaces -> Objects("core")]
  /\ podsSeen \subseteq Pods
  /\ used \in [Namespaces -> 0 .. MaxUsed]
  /\ managed \in [Namespaces -> 0 .. MaxUsed]
  /\ reserved \in [Namespaces -> 0 .. MaxUsed]
  /\ pc \in [Pods -> {"new", "again", "update", "store", "allowed", "in", "out"}]
  /\ snap \in [Pods -> Objects("core")]
  /\ tries \in [Pods -> 0 .. MaxTries]
  /\ recount \in Recounts
  /\ covered \in BOOLEAN
  /\ pods = {p \in Pods : pc[p] \in {"allowed", "in"}}

NoQuota == [api |-> "core", version |-> 0, used |-> 0]
NoRecount ==
  [phase |-> "idle", ns |-> CHOOSE n \in Namespaces : TRUE, quota |-> NoQuota, pods |-> {}]

Init ==
  /\ QuotaInit
  /\ version = [n \in Namespaces |-> 1]
  /\ seen = [n \in Namespaces |-> toQuota(Stored(n))]
  /\ latest = [n \in Namespaces |-> NoQuota]
  /\ podsSeen = pods
  /\ managed = used /\ reserved = used
  /\ pc = [p \in Pods |-> IF p \in pods THEN "in" ELSE "new"]
  /\ snap = [p \in Pods |-> NoQuota]
  /\ tries = [p \in Pods |-> 0]
  /\ recount = NoRecount
  /\ covered = TRUE

-----------------------------------------------------------------------------
(* THE ADAPTORS' CLIENT *)

(* Mutant: the adaptor writes with the version of a fresh copy. *)
CurrentRefetched(object, n) == fromQuota(object).version =< version[n]

(* UpdateStatus through the hijacked client: the API server refuses an object
   that is not the current one, before it calls the status webhook. *)
Current(object, n) == fromQuota(object).version = version[n]

StoreStatus(object, n) ==
  /\ used' = [used EXCEPT ![n] = fromQuota(object).used]
  /\ version' = [version EXCEPT ![n] = @ + 1]

(* What UpdateStatus returns to its caller. *)
Returned(n) == toQuota([Stored(n) EXCEPT !.version = version'[n], !.used = used'[n]])

(* Mutant: the usage of the one namespace is compared with the limit. *)
ReserveAlone(n, amount) ==
  /\ amount =< hard
  /\ reserved' = [reserved EXCEPT ![n] = amount]
  /\ UNCHANGED <<hard, used>>

(* The status webhook adds the new usage to what its cache holds of the other
   namespaces, and puts it there, in one step (StatusAdmission takes it apart). *)
Reserve(n, amount) == Ledger!Reserve(n, amount)
Denied(n, amount) ==
  Ledger!Exceeds(Ledger!Total([reserved EXCEPT ![n] = amount]), hard)

(* A cluster quota that is not found lets the update through, uncounted. *)
Uncounted == "notfound" \in Faults /\ UNCHANGED <<hard, used, reserved>>

(* The update is not stored, or stored and the answer lost. *)
CallFails == "apierror" \in Faults
AnswerLost == "lostanswer" \in Faults

(* The pods whose charge has been let through, and what the cache has to hold
   for the limit to be enforced on them. *)
Taken == pods \cup {p \in Pods : pc[p] = "store"}
Covers == \A n \in Namespaces : Cardinality(Scoped(Of(n, Taken))) =< reserved[n]

(* After a change of the cache that is no charge.  What was let through while
   the cache counted less stays so until it is stored. *)
CoveredAfter == covered' = (Covers' /\ (covered \/ \A p \in Pods : pc[p] # "store"))

-----------------------------------------------------------------------------
(* THE WEBHOOK AND THE PLUGIN *)

(* The object, old object and options of a request, by operation. *)
Raw == {"absent", "good", "bad"}
Present == {"good", "bad"}
Reviews ==
  [operation: {"CREATE", "CONNECT"}, object: Present, old: {"absent"}, options: Raw]
  \cup [operation: {"UPDATE"}, object: Present, old: Present, options: Raw]
  \cup [operation: {"DELETE"}, object: {"absent"}, old: Present, options: Raw]

DecodeFails(review) ==
  \/ review.object = "bad" \/ review.old = "bad"
  \/ review.options = "bad" /\ review.operation \in {"CREATE", "UPDATE", "DELETE"}

(* The plugin handles creations and updates, the evaluator of pods creations. *)
Handles(operation) == operation \in {"CREATE", "UPDATE"}
EvaluatorHandles(operation) == operation = "CREATE"

Handle(review, answer) ==
  IF ~ Handles(review.operation) THEN "allowed"
  ELSE IF DecodeFails(review) THEN "refused" ELSE answer

(* What a request with this operation may be answered, if that is the plugin's
   answer. *)
Answers(operation, answer) ==
  {Handle(review, answer) : review \in {r \in Reviews : r.operation = operation}}

(* Resources of which a request must find a quota.  The group is not that of
   pods, which is empty: with this configuration no request is limited. *)
DefaultResourceQuotaConfig == {[group |-> "v1", resource |-> "pods"]}
Limited == [group |-> "", resource |-> "pods"] \in LimitedResources

(* The lister's quota, or a newer one that the plugin's own update returned. *)
View(n) == IF latest[n].version > seen[n].version THEN latest[n] ELSE seen[n]

CheckRequest(p) ==
  IF MatchingScopesFails(quota, kinds[p]) THEN "refused"
  ELSE CASE Matches(quota, kinds[p]) = "error" -> "refused"
         [] Matches(quota, kinds[p]) = "no" -> IF Limited THEN "refused" ELSE "allowed"
         [] Matches(quota, kinds[p]) = "yes" ->
              IF View(home[p]).used + 1 =< hard THEN "charged" ELSE "refused"

(* An operation that the evaluator does not handle needs no quota. *)
Evaluate(p, operation) ==
  IF EvaluatorHandles(operation) THEN CheckRequest(p) ELSE "allowed"

(* The plugin is done with p: its locals are gone. *)
Return(p, phase) ==
  /\ pc' = [pc EXCEPT ![p] = phase]
  /\ snap' = [snap EXCEPT ![p] = NoQuota]
  /\ tries' = [tries EXCEPT ![p] = 0]

Answered(p, answer) ==
  /\ \/ answer = "refused" /\ Return(p, "out") /\ UNCHANGED pods
     \/ answer = "allowed" /\ Return(p, "allowed") /\ pods' = pods \cup {p}
     \/ /\ answer = "charged"
        /\ pc' = [pc EXCEPT ![p] = "update"]
        /\ snap' = [snap EXCEPT ![p] = View(home[p])]
        /\ tries' = [tries EXCEPT ![p] = @ + 1]
        /\ UNCHANGED pods
  /\ UNCHANGED <<specVars, used, exact, version, seen, latest, podsSeen, managed, reserved,
                 recount, covered>>

(* One worker of the plugin serves a namespace at a time. *)
Serving(p) == pc[p] \in {"again", "update", "store"}
Busy(n) == \E p \in Pods : home[p] = n /\ Serving(p)

Review(p) ==
  /\ pc[p] = "new"
  /\ ~ Busy(home[p])
  /\ \E answer \in Answers("CREATE", Evaluate(p, "CREATE")) : Answered(p, answer)

(* Another request for a pod that there is: only an allowed deletion changes
   anything. *)
Request(p) ==
  /\ pc[p] = "in"
  /\ \E operation \in {"UPDATE", "CONNECT", "DELETE"} :
       \E answer \in Answers(operation, Evaluate(p, operation)) :
         IF operation = "DELETE" /\ answer = "allowed"
         THEN pc' = [pc EXCEPT ![p] = "out"] /\ pods' = pods \ {p}
         ELSE UNCHANGED <<pc, pods>>
  /\ UNCHANGED <<specVars, used, exact, version, seen, latest, podsSeen, managed, reserved,
                 snap, tries, recount, covered>>

Retry(p) ==
  /\ pc[p] = "again"
  /\ Answered(p, CheckRequest(p))

(* UpdateStatus returned an error: another try, or the request is refused. *)
Failed(p) ==
  IF tries[p] < MaxTries
  THEN /\ pc' = [pc EXCEPT ![p] = "again"]
       /\ snap' = [snap EXCEPT ![p] = NoQuota]
       /\ UNCHANGED tries
  ELSE Return(p, "out")

(* The object the plugin writes: the one it checked, with the pod added. *)
Charge(p) == [snap[p] EXCEPT !.used = @ + 1]

Submit(p) ==
  /\ pc[p] = "update"
  /\ \/ /\ Current(Charge(p), home[p])
        /\ \/ Reserve(home[p], Charge(p).used) /\ UNCHANGED <<used, covered>>
           \/ Uncounted /\ covered' = FALSE
        /\ pc' = [pc EXCEPT ![p] = "store"]
        /\ UNCHANGED <<snap, tries>>
     \/ /\ ~ Current(Charge(p), home[p]) \/ Denied(home[p], Charge(p).used) \/ CallFails
        /\ Failed(p)
        /\ UNCHANGED <<hard, used, reserved, covered>>
  /\ UNCHANGED <<quota, home, kinds, pods, exact, version, seen, latest, podsSeen, managed,
                 recount>>

(* The API server stores the status, unless it has changed since. *)
Store(p) ==
  /\ pc[p] = "store"
  /\ \/ /\ Current(Charge(p), home[p])
        /\ StoreStatus(Charge(p), home[p])
        /\ \/ /\ latest' = [latest EXCEPT ![home[p]] = Returned(home[p])]
              /\ Return(p, "allowed")
              /\ pods' = pods \cup {p}
           \/ AnswerLost /\ Failed(p) /\ UNCHANGED <<latest, pods>>
     \/ /\ ~ Current(Charge(p), home[p]) \/ CallFails
        /\ Failed(p)
        /\ UNCHANGED <<used, version, latest, pods>>
  /\ UNCHANGED <<specVars, exact, seen, podsSeen, managed, reserved, recount, covered>>

-----------------------------------------------------------------------------
(* THE API SERVER AND THE INFORMERS *)

StorePod(p) ==
  /\ pc[p] = "allowed"
  /\ pc' = [pc EXCEPT ![p] = "in"]
  /\ UNCHANGED <<quotaVars, version, seen, latest, podsSeen, managed, reserved, snap, tries,
                 recount, covered>>

(* The pod is not created after all: a dry run, another admission, a lost
   answer. *)
Leave(p) ==
  /\ pc[p] = "allowed"
  /\ pc' = [pc EXCEPT ![p] = "out"]
  /\ pods' = pods \ {p}
  /\ UNCHANGED <<specVars, used, exact, version, seen, latest, podsSeen, managed, reserved,
                 snap, tries, recount, covered>>

(* The hijacked informer, whose transform converts what it stores.  The plugin
   drops an entry of its own that is no newer. *)
InformRQ(n) ==
  /\ seen[n] # toQuota(Stored(n))
  /\ seen' = [seen EXCEPT ![n] = toQuota(Stored(n))]
  /\ latest' = [latest EXCEPT ![n] = NoQuota]
  /\ UNCHANGED <<quotaVars, version, podsSeen, managed, reserved, requestVars, recount,
                 covered>>

(* The manager's informer, which Sync alone reads here. *)
InformManager(n) ==
  /\ "sync" \in Faults
  /\ managed[n] # used[n]
  /\ managed' = [managed EXCEPT ![n] = used[n]]
  /\ UNCHANGED <<quotaVars, version, seen, latest, podsSeen, reserved, requestVars, recount,
                 covered>>

InformPods ==
  /\ podsSeen # {p \in Pods : pc[p] = "in"}
  /\ podsSeen' = {p \in Pods : pc[p] = "in"}
  /\ UNCHANGED <<quotaVars, version, seen, latest, managed, reserved, requestVars, recount,
                 covered>>

-----------------------------------------------------------------------------
(* THE QUOTA CONTROLLER: one worker *)

RecountRead(n) ==
  /\ recount.phase = "idle"
  /\ \E count \in UsageStats(quota, kinds, Of(n, podsSeen)) :
       /\ count # seen[n].used
       /\ recount' = [phase |-> "submit", ns |-> n, quota |-> [seen[n] EXCEPT !.used = count],
                      pods |-> Of(n, podsSeen)]
  /\ UNCHANGED <<quotaVars, version, seen, latest, podsSeen, managed, reserved, requestVars,
                 covered>>

RecountSubmit ==
  LET n == recount.ns IN
  /\ recount.phase = "submit"
  /\ UNCHANGED <<quota, home, kinds, pods, exact, version, seen, latest, podsSeen, managed,
                 requestVars>>
  /\ \/ /\ Current(recount.quota, n)
        /\ \/ Reserve(n, recount.quota.used) /\ UNCHANGED used /\ CoveredAfter
           \/ Uncounted /\ UNCHANGED covered
        /\ recount' = [recount EXCEPT !.phase = "store"]
     \/ /\ ~ Current(recount.quota, n) \/ Denied(n, recount.quota.used) \/ CallFails
        /\ recount' = NoRecount
        /\ UNCHANGED <<hard, used, reserved, covered>>

RecountStore ==
  LET n == recount.ns IN
  /\ recount.phase = "store"
  /\ \/ /\ Current(recount.quota, n)
        /\ StoreStatus(recount.quota, n)
        /\ exact' = (exact /\ Of(n, pods) \subseteq recount.pods)
     \/ /\ ~ Current(recount.quota, n) \/ CallFails
        /\ UNCHANGED <<used, version, exact>>
  /\ recount' = NoRecount
  /\ UNCHANGED <<specVars, pods, seen, latest, podsSeen, managed, reserved, requestVars,
                 covered>>

-----------------------------------------------------------------------------
(* WHAT DISTURBS THE CACHE *)

(* Sync puts the listed usage of a namespace over the recorded one, newer or
   not.  The informers deliver each namespace at a time of its own, so that
   entries of different age may be listed together. *)
SyncEntry(n) ==
  /\ "sync" \in Faults
  /\ reserved[n] # managed[n]
  /\ reserved' = [reserved EXCEPT ![n] = managed[n]]
  /\ UNCHANGED <<quotaVars, version, seen, latest, podsSeen, managed, requestVars, recount>>
  /\ CoveredAfter

(* The cache and the locals are gone.  A status on its way to the API server has
   been stored before, or is not.  What the informers list again may be as old
   as what they had. *)
Restart ==
  /\ "restart" \in Faults
  /\ reserved' = [n \in Namespaces |-> 0]
  /\ latest' = [n \in Namespaces |-> NoQuota]
  /\ pc' = [p \in Pods |-> IF Serving(p) THEN "out" ELSE pc[p]]
  /\ snap' = [p \in Pods |-> NoQuota]
  /\ tries' = [p \in Pods |-> 0]
  /\ recount' = NoRecount
  /\ UNCHANGED <<quotaVars, version, seen, podsSeen, managed>>
  /\ CoveredAfter

-----------------------------------------------------------------------------
Plugin(p) == Retry(p) \/ Submit(p) \/ Store(p)

Next ==
  \/ \E p \in Pods : Review(p) \/ Request(p) \/ Plugin(p) \/ StorePod(p) \/ Leave(p)
  \/ \E n \in Namespaces : InformRQ(n) \/ InformManager(n) \/ RecountRead(n) \/ SyncEntry(n)
  \/ InformPods \/ RecountSubmit \/ RecountStore \/ Restart

Spec == Init /\ [][Next]_vars

(* The plugin's workers and the API server finish what they began, watches
   deliver, and the controller's queue is first come, first served. *)
Fairness ==
  /\ \A p \in Pods : WF_vars(Plugin(p) \/ StorePod(p) \/ Leave(p))
  /\ \A n \in Namespaces : WF_vars(InformRQ(n)) /\ SF_vars(RecountRead(n))
  /\ WF_vars(InformPods) /\ WF_vars(RecountSubmit \/ RecountStore)

FairSpec == Spec /\ Fairness
-----------------------------------------------------------------------------
(* PROPERTIES *)

(* The plugin and the controller implement PodQuota: a charge that is stored
   adds the one pod to the usage stored at that moment, whatever the copies
   were that it was computed from, and no pod gets in any other way. *)
ImplementsPodQuota == QuotaSpec

(* The limit is one for all the namespaces: a pod in the quota's scopes is
   admitted only while the pods in them, of all the namespaces together, are
   within it, as long as the cache covers the pods.  That it does is what the
   charges keep up by themselves, through conflicts, retries, lost answers and
   failures.  It ends when a recalculation misses a pod, when Sync puts an
   older usage back (cache.go:102, :109), when the program restarts with an
   empty cache (cache.go:48), or when the cluster quota is not found and an
   update is let through uncounted (statusadmission.go:88); and it is back once
   Sync or a recalculation has made the cache cover the pods again while no
   charge was on its way. *)
ClusterWithinHard ==
  [][exact' /\ covered' => \A p \in pods' \ pods :
       InScope(p) => Cardinality(Scoped(pods')) =< hard]_vars

(* A restart, or a call of the controller that fails for no reason of the code's. *)
Interrupted ==
  LET n == recount.ns IN
  \/ Restart
  \/ RecountSubmit /\ Current(recount.quota, n) /\ ~ Denied(n, recount.quota.used)
     /\ recount'.phase = "idle"
  \/ RecountStore /\ Current(recount.quota, n) /\ UNCHANGED version

(* Usages come to be those of the pods there are, unless the admission of the
   status update refuses the sum: whatever Sync goes on putting into the cache,
   and whatever was interrupted, once the controller is left to work. *)
UsageSettles ==
  <>[][~ Interrupted]_vars =>
    <>[]\A n \in Namespaces :
          LET count == Cardinality(Scoped(Of(n, pods)))
          IN  used[n] = count \/ Denied(n, count)
=============================================================================
