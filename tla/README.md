# clusterresourcequota in TLA+

A `ClusterResourceQuota` (CRQ) limits what the namespaces that a label selector
picks may use together. This directory models the program that enforces it,
checks the models with TLC and proves their central invariants with TLAPS.
Sources are named relative to `src/`.

## 1. The system

One process (one replica in the chart) runs, next to the Kubernetes API server:

| part | source | state | operations |
| --- | --- | --- | --- |
| CRQ controller | `clusterresourcequota-controller.go` | a work queue, one worker, the locals of `Reconcile` | events → queue; `Reconcile`: get, select namespaces, create/update the `ResourceQuota` (RQ) in each, write the CRQ's status |
| status admission | `clusterresourcequota-statusadmission.go` | none of its own; the locals of each call | `Handle` → `RetryOnConflict(validate)`: get, sum the cache, check, write the CRQ's status, record in the cache |
| usage cache | `clusterresourcequota-cache.go` | `quotacache`: CRQ name → {`Lock`, `Quotas`}; a lock around the map | `GetOrCreate`, `OnLock`, and every 30 s `SyncOnce` |
| remove admission | `clusterresourcequota-removeadmission.go` | none | refuses to take the CRQ's label off an RQ, and to delete an RQ whose CRQ lives |
| pod evaluator | `resourcequota-evaluator.go` | the lister of pods it has been given, or not yet | `Matches` (admission of a pod), `UsageStats` (recalculation), `MatchingScopes`, with the `NodeSelector` scope |
| validation adaptor | `helper.go` | none | `Handle`: decodes a request for Kubernetes' plugin, and encodes its answer |
| RQ plugin and controller | `resourcequota.go` builds Kubernetes' own | the plugin's last update per RQ, its retries; the controller's queue | charge a pod at creation; recalculate an RQ's usage |
| hijack adaptors | `resourcequota-adaptor.go` | none | this repository's RQ under the type, client and informer of corev1's: two conversions, `List`, `UpdateStatus` |
| manager and start-up | `manager.go`, `clusterresourcequota.go`, `cmd/` | options, clients, informer factories | `Run`, `Setup`, the goroutines of `context.Start`, `mgr.Start` |
| generated code | `generated/`, deep copies | the informer factories | `InformerFor`, `Start` |

They meet in three objects that the API server stores - the CRQ, the RQs, the
namespaces - and in the cache. The RQ plugin and controller write an RQ's
`status.used`; that write calls the status admission, which adds it up with the
other namespaces' and writes the CRQ's status; the CRQ controller writes the
same status from what its informers show. All reads go through informers, which
may be behind; all writes carry a `resourceVersion`.

What is hard here, and where: calls interleave with each other and with `Sync`
under two different locks (`cache.go:64`, `:137`); what is read from an informer
is used after it has changed (`statusadmission.go:87`, `controller.go:84`, `:127`,
`removeadmission.go:94`); the usage is recorded before the API server stores it
(`statusadmission.go:123`); the cache is lost with the process (`cache.go:48`);
conflicts are retried, answers are lost, calls time out (`statusadmission.go:63`,
`:119`); events arrive while `Reconcile` runs (`controller.go:48-80`); one of
several writes fails (`:144`); plugin and controller write one status from copies
of their own, through conversions that must keep its version (`adaptor.go:117`,
`resourcequota.go:59`, `:67`); a charge that is counted in the sum may not be stored;
the webhooks answer while informers, monitors and the manager's cache are still
starting, in goroutines that wait for nothing (`manager.go:175`). PROJECT.json lists
each at its line, with the properties that would show it going wrong.

What makes each part correct:

* status admission and cache - the sum that is checked is the sum of what the
  namespaces hold; checking, storing and recording act as one step; nobody's
  update is lost or counted twice; every call is answered; the cache recovers.
* CRQ controller - after any history, when it rests, the selected namespaces
  have the RQ of the spec; the status it writes is that of the current spec.
* remove admission - the RQ of a living CRQ stays, and that of a dead one goes.
* pod evaluator - admission and recalculation count the same pods.
* RQ plugin and controller, adaptors - each stored status is the charge of one pod on
  the usage stored before, or a recalculation; pods stay within the limit, in each
  namespace and in all together; usages come to be true.
* manager and start-up - no request is answered from a store that is empty only because
  it has not been filled; no usage is written from one; the start always gets through.

## 2. Modules

    Usage                       quantities of one resource, and their sum
    ├─ ClusterLedger            abstract: one limit, reserve atomically, publish later
    ├─ ApiServer                CRQ, RQs, informers, as the status admission sees them
    │  └─ UsageCache            the cache object, its locks, Sync step by step
    │     └─ StatusAdmission    the calls; refines ClusterLedger
    └─ ClusterObjects           CRQ, RQs, namespaces, informers, outside changes
       ├─ CRQController         events, queue, Reconcile namespace by namespace
       ├─ RemoveAdmission       the answers to updates and deletes, and the callers
       └─ QuotaLifecycle        the two together
    PodEvaluator                Matches, UsageStats, MatchingScopes
    └─ PodQuota                 abstract: creations, deletions, recalculations of pods
       └─ PodAdmission          the charge step by step; refines PodQuota; uses
                                ClusterLedger for the admission of its status updates
    StartUp                     Run, Setup, and all that starts beside them
    UsageTheorems, ClusterLedger_proofs, StatusAdmission_proofs, StatusAdmissionLedger_proofs,
    QuotaLifecycle_proofs, PodQuota_proofs, PodAdmission_proofs, StartUp_proofs
    MCStatusAdmission, MCQuotaLifecycle, MCPodQuota, MCPodAdmission, MCStartUp
                                instances for TLC

**StatusAdmission.** Each call is a process with the control points of
`validate`: `call` (GetOrCreate), `lock`, `get`, `sum` (one `Add` per entry of
`Quotas`), `update`, `record`. `ptr` is the cache object the call got, so that a
call may hold one that `Sync` has dropped from the map (`cur`). `snap` is the
CRQ it read, `total` the sum. `Conflict` is RetryOnConflict; `tries` is bounded
by `MaxAttempts`. The deferred `Unlock` is part of every step that returns
(`Return`). The API server is external: it stores an allowed update if the RQ
still has the version the writer read (`Commit`), else it drops it (`Discard`).
`Faults` selects what a run's environment may do: `crash`, `sync`, `timeout`
(the API server gives up on a call), `racing` (several writers of one RQ),
`privileged` (users that `isResourceQuotaAdmissionControllerServiceAccount`
exempts), `dryrun`, `apierror` (calls that fail, done or not), `respec` (limits
change and are reconciled), `lifecycle` (CRQ and RQs come and go).

**UsageCache.** `Sync` takes the map's lock, and then merges entry by entry
without the object's lock, as the code does; the age of an entry is `fresh`
(under ten seconds) or `old`.

**CRQController.** `WantsReconcile` is the predicate on updates, `OnNamespaceChange`
the map function that controller-runtime calls for the old and the new object.
`Reconcile` is `Begin`, `Select`, one `VisitQuota` or `SkipQuota` per namespace,
`Visited`, and `WriteStatus` or `StatusFails`. `VisitQuota` is CreateOrUpdate:
it decides on the informer's copy, and writes at that copy's version.

**RemoveAdmission.** `UpdateAllowed` and `DeleteAllowed` are the two handlers;
the callers are users, the garbage collector (owner references) and the
namespace controller.

**PodEvaluator, PodQuota.** A pod is the set of its nodeSelector terms and the
set of Kubernetes scopes it is in. `Matches`, `UsageStats`, `MatchingScopes` and the
scope functions are translated; `GenericMatches` and `CalculateUsageStats` are the
library's, as the code calls it. PodQuota is what the RQs of one CRQ promise about
pods: a creation, a deletion and a recalculation are a step each, and a
recalculation may have missed any pods (`exact` remembers whether one did). A charge may
also be stored without an answer (`ChargeLost`): the usage grows, and no pod comes.

**PodAdmission.** A pod's creation goes through `Review` (the webhook of `helper.go`,
which decodes or refuses it, and the plugin's first check), `Submit` (the plugin's
UpdateStatus through the hijacked client, checked against the stored version and by
the status webhook), `Store` (the API server's write, which checks the version again)
and `StorePod`; `Retry` and `Failed` are the plugin's tries, `Leave` is a pod that is
not created after all (a dry run, another webhook, a lost answer). `Request` is an
update, a deletion or a connection to a pod that there is: `Reviews` has the objects that
each operation carries, decodable or not, and what `decodeObject` makes of them.
`RecountRead`, `RecountSubmit`, `RecountStore` are the controller's one worker. `seen` is
what the informer's transform has stored, `latest` what the plugin's own update returned;
`toQuota` and `fromQuota` are the adaptors' conversions, and every object that crosses
carries the type it has on that side. `LimitedResources` is the plugin's configuration.

The status webhook is one step here (StatusAdmission takes it apart), over a cache that
others change too: `reserved` is what the cache holds. With the `Faults` of the module
`SyncEntry` puts what the manager's informer (`managed`) lists over an entry, older or
not (`cache.go:102`, `:109`); `Restart` empties the cache and ends the requests on their way
(`cache.go:48`); `Uncounted` is an update that is let through because the cluster quota is
not found (`statusadmission.go:88`); `CallFails` is a call that fails, `AnswerLost` a charge that is stored and yet fails.
`covered` is a history variable: it holds while the cache has counted (`Covers`) every pod
that was let in and every charge on its way; it falls with an `Uncounted` charge, and with a
`SyncEntry`, a `Restart` or a recalculation that leaves less in the cache than that, and
rises when one of the last three makes the cache cover the pods again while no charge is on its
way (one that is was checked against the smaller sum).

Plugin and controller are Kubernetes' code, pinned in `go.mod`, and modelled from how
`resourcequota.go` uses them: a worker serves one namespace at a time and a batch holds
one request; a charge has a few tries, each from the newer of the informer's copy and
the plugin's own; the controller writes a usage only when it differs from its copy's.

**StartUp.** `setup` is the step that `main`, `RunWithConfig` and `Setup` have come to. `args`
is what the command line and its file say, `options` what the process has made of it (the
defaults, until `NewRootCmd` has parsed the flags), `mgr` the manager: whether it elects,
what it runs once it leads, which webhooks it serves. `config` is the plugin's configuration,
which decides on a pod without a quota; a file that cannot be read leaves only `Exit`. Beside it
run the goroutines of `context.Start` (`StartFactory`), the informers (`Fill`, object by
object), the quota controller (`StartMonitors`, `Sync`, `Work`, `Recount`) and, after
the election, the cache syncer (`SyncOnce`). An informer is its factory and its resource;
it can be requested without being started. `Exit` ends the process at any step, by an
error, a panic or a kill, and it starts again with nothing but the stored usage and
a lock that nobody has released. The cluster quota may be deleted and created meanwhile
(`crq`), and `Found` answers yes, no or an error: a usage is then counted, let through
uncounted, or refused (`Validate`, `statusadmission.go:87-92`). `PluginAnswer` is what the webhook would answer for
a pod at that moment. It ends where PodAdmission begins.

StatusAdmission and QuotaLifecycle have each other as environment. The admissions see
the controller as the writes it makes (`ReconcileStatus`: the limit of the spec with
any usages, since Reconcile gathers them over many steps; `CreateQuota`); the
controller sees an admission as one atomic update (`ReportUsage`), which is what
`ImplementsLedger` and `AdmittedWithinHard` say of it.

One CRQ and one resource are followed. The cache, its locks, the work queue and
the webhooks are keyed by the CRQ's name, and quantities are added and compared
resource by resource, so several CRQs or resources do not interact, with the
exceptions in section 7.

## 3. Runs

Every property of a passing run has a mutant of the code's definition that
breaks it (PROJECT.json, `mutants`; the mutated operators stand before the
definitions they mutate).

| run | shows |
| --- | --- |
| StatusAdmission_nominal | nothing lost, one writer per namespace, no Sync: `PublishedWithinHard`; `StatusMatchesCache`, that the two copies of the usage agree; and `ImplementsLedger`, the refinement of ClusterLedger |
| StatusAdmission_faults | crashes, timeouts, failures, new limits: `VersionsNameContents`, `SumIsOfTheCache`, `AdmittedWithinHard` |
| StatusAdmission_lifecycle | cache objects dropped and renewed under running calls of two namespaces: `LockExclusive`, and `OthersKept`: two calls with two locks and two maps do not undo what each other has stored |
| StatusAdmission_recovers | `Answered`: with Sync, conflicts, failures and denials, every call is answered; `CacheRepaired`: Sync makes the cache show the RQs, whatever was lost |
| QuotaLifecycle_spread | deletions, recreations, relabelled namespaces, users, failures: `RestsPropagated`, no event, failure or race leaves a namespace behind; `OwnedQuotaKept` |
| QuotaLifecycle_converges | every kind of change from outside: `RestsStatusPropagated`, `ReconciledFromCurrentSpec` with changing limits, tampering users and admissions; `Converges`: the controller comes to a state in which the quotas and the status are those of the spec; `EventuallyTidy` |
| PodAdmission_charges | with Sync, restarts, cluster quotas that are not found, failing calls and lost answers: `ImplementsPodQuota`, the refinement; `CreatedWithinHard`, the limit of a namespace while recalculations saw the pods there were; `ClusterWithinHard`, that of all together while the cache covers the pods, and again once it has been repaired; `UsageSettles` |
| StartUp_ready | `QuotaSeen`, `UsageTrue`: what is answered and written while stores are empty or half full; `GetsReady`: however it was interrupted, and although a missing cluster quota lets usages pass uncounted, the program comes to check pods against a true, counted usage |

### Bounds

Two namespaces are enough for a sum to be wrong by another's share; two calls
for every pairwise interleaving, three in the nominal run, where a third may
slip between one call's check and another's record. `MaxUsed` 1 or 2 with a limit in
reach makes both answers happen. `MaxAttempts` 2 or 3 stands for the code's 5:
a retry, and its exhaustion. `MaxRv` bounds the changes of the CRQ from outside,
`MaxEdits` those of the lifecycle runs (3 with every kind of edit but a user's deletion, 4 in
QuotaLifecycle_spread), `Edits` their kinds. Two cache
objects let a call hold one that Sync has dropped while another call works on the new one. In MCPodQuota three
pods and two limits let a pod be created below, at and above the limit. PodAdmission has two
pods and a limit of one, which is the smallest instance where one charge too many passes it:
both pods in one namespace, for the plugin's own race, or one in each, for the sum over
namespaces; it starts with any of them (both are more than the limit), and
tries each twice (`MaxTries`): a retry, and its exhaustion. A pod name is requested once; one of the pods is in the quota's scope, the other in it or
not. `LimitedResources` is a configuration that does limit pods. An answer to a stored charge is lost only
while both pods are in one namespace (`LostInOneNamespace`; the theorems have no such bound). In StartUp
two pods let an informer be half full, and one `MaxRestarts` interrupts the start at any step;
leader election is on or off.
In StatusAdmission_lifecycle the two calls that are about at one time are for different
namespaces and report a usage, and entries do not get old (`YoungAndApart`): what is at stake is
two calls on two objects, which the age of entries does not change. No run has `dryrun`: a dry
run is an update that is allowed and then not stored, which the runs with `racing` have (`Discard`),
and the theorems hold with it.
`MaxDeletions` 1 has the cluster quota deleted once, which may also be missing from the
start; the configuration file is absent, limiting or unreadable.
Call, namespace and pod symmetry is used in safety runs only. Deadlock is checked
in the runs of StatusAdmission and QuotaLifecycle, which stutter explicitly where the
system may rest, and of PodQuota. PodAdmission and StartUp end when every pod is out and
the usage settled, or the program is up and its usage true: there the system really rests, and
what it must have reached by then is `UsageSettles` and `GetsReady`.

### Fairness

`FairSpec` of StatusAdmission: a goroutine that can step does; `Lock` and the map's
mutex do not starve a waiter (Go's mutex hands over), hence strong fairness on
`Call` and `Lock`; the API server ends what it began; watches deliver; the ticker
ticks. No call is forced to arrive, no fault to happen or not to happen.
`FairSpec` of QuotaLifecycle: the watches deliver, the worker works and its errors
are requeued, the garbage collector and the namespace controller keep trying;
changes from outside are finitely many and unforced.
`Fairness` of PodAdmission: a request that the plugin took goes on and the API server
stores its answer or not; watches deliver; the controller has one worker and a queue that
is first come, first served, so a namespace whose recalculation is due again and again
gets its turn (strong fairness on `RecountRead`; with weak fairness another namespace
could keep the worker). No request is forced to arrive, and a pod that there is may stay:
only a pod that has been allowed is stored or is not. Faults are unforced and unbounded;
`UsageSettles` claims nothing of a program that is restarted, or whose controller's calls fail
for no reason of their own, for ever (`Interrupted`): with a restart and a tick of Sync before each
recalculation the sum can be too high each time it is looked at.
`Fairness` of StartUp: each goroutine runs, lists are answered, discovery finds the
pods in the end, the ticker ticks, refused updates are requeued, and a lock that is not
renewed expires. `Exit` is unforced and bounded, and nothing forces a cluster quota that
has been deleted to be created again.

## 4. Where the code does not do what the repository says

Each is a violation run with one property, taken from the quoted line.

| run | what happens |
| --- | --- |
| StatusAdmission_overwrite | Sync skips a fresh entry in the loop, and then copies the listed one over it (`cache.go:102`, `:109` against `:63`) |
| StatusAdmission_unguarded | Sync and a call use one Go map under different locks (`cache.go:91` against `:120`) |
| QuotaLifecycle_changedback | a limit raised and lowered again stays raised in the RQ: the copy looks right and nothing is written (`controller.go:137` against `:136`) |
| PodQuota_standard | an RQ with a scope of Kubernetes is recalculated as unused: the fallback's condition is never true (`evaluator.go:112` against README.md:9) |

`RestsPropagated` is therefore checked without changes of limits to and fro, and
`RestsStatusPropagated`, which survives them, with them. `OwnedQuotaKept` is the part
of the remove admission's promise that holds.

More places where the code falls short of a statement of the repository are in
the models, as ordinary behaviours, without a run of their own:

* after a restart the cache is empty for up to 30 s while the webhook answers, and
  the limit can be passed (`cache.go:48`; the CRD's "enforced hard limits"): `Crash`;
* an entry is recorded for an update that is then not stored, and is yet "the most
  up-to-date" (`statusadmission.go:123`, `cache.go:99-100`): `Record`, then `Discard`;
* a dry run writes the CRQ's status (`statusadmission.go:119` against
  `sideEffects: None`): `Arrive` with `dryRun`, then `UpdateStatus`;
* a managed RQ can be deleted while the informer has not shown its recreated CRQ
  (`removeadmission.go:94` against `:72`): `Remove` with `DeleteAllowed`;
* a deselected namespace keeps its RQ and leaves the status (`controller.go:149`
  against `types.go:46`): `StatusOf`;
* a pod created with dryRun is charged like any other (`helper.go:44`), until the next
  recalculation: `Leave` after `Store`;
* the comment of `DefaultResourceQuotaConfig` (`manager.go:213`) wants requests without
  a quota refused, and its resource has the group `v1`, which no pod has: `Limited`;
* a quota that combines NodeSelector with a scope of Kubernetes matches no pod, since each
  evaluator refuses the other's scope (`evaluator.go:94`): `Matches`;
* Reconcile overwrites a newer total with one from old copies (`controller.go:146`
  against the CRD's "current observed total usage"): `ReportUsage`, then `WriteStatus`.

## 5. Theorems

Proved by TLAPS for every value of the constants that meets the named assumptions
(`NamespacesAssumption`: finitely many namespaces, at least one; limits are naturals;
kinds of faults and edits are among those named; there is a limit and a selector). Every
invariant and action property of the passing runs is a theorem; some have a hypothesis
on a constant, which the run that checks them meets, and which is stated with the theorem
because the property is false, or a run shows its violation, without it.

### The status admission

`StatusAdmission_proofs`, for every choice of `Faults`:

* `TypeCorrect`; `LockCorrect` (`LockExclusive`); `VersionsCorrect`
  (`VersionsNameContents`); `AdmissionCorrect` (`AdmittedWithinHard`); `OthersAreKept`
  (`OthersKept`).
  *Argument.* A call that is past `Lock` is the holder of its own object's lock,
  and every return gives it back, whatever happens to the map (LockExclusive is
  inductive once the types are known). A version is given out once and the CRQ is
  written only with a new one (`VersionMoves`), so a copy keeps naming its contents
  (`CopyKept`). What `Admit` checked stays true of the call's own locals
  (`CheckedWithinHard`, the strengthening), and UpdateStatus succeeds only where
  the copy is the stored CRQ: what is stored is within the stored limit, and what it says of
  the other namespaces is what was stored, whichever cache object the call holds.

`StatusAdmissionLedger_proofs`, on top of these:

| theorem | property | `Faults` may hold |
| --- | --- | --- |
| `SumsCorrect` | `SumIsOfTheCache` | all but `sync` |
| `CopiesCorrect` | `StatusMatchesCache` | `racing`, `privileged`, `dryrun`, `lifecycle` |
| `LedgerImplemented` | `ImplementsLedger` | `dryrun` |
| `ReservedCorrect` | the ledger's `ReservedWithinHard` | `dryrun` |
| `PublishedCorrect` | `PublishedWithinHard` | none |

* `SumsCorrect`. `SumsInv` says of a call in its loop that what it has added up is the
  sum of the entries it has passed, its own new usage in their place. No one else
  changes an entry of the object whose lock the call holds (`EntriesKept`): LockExclusive
  is what makes many steps one. `Sync` does not take that lock, and is excluded.
* `CopiesCorrect`. `OneObject`: without a restart or Sync all calls work on the one
  object of the map. `CopiesAgree`: the status is what the cache counts, and one record
  ahead of it while a call is between UpdateStatus and the assignment
  (`statusadmission.go:119`, `:123`). The total was summed from the cache and
  the namespaces' usages were edited in a copy of the status; that both come to the same
  needs that the copy is the stored CRQ (VersionsCorrect), that the sum is the cache's
  (SumsCorrect), and one holder of the lock (LockCorrect). A failure between the two writes,
  a timeout or a reconciliation breaks it, and is excluded.
* `LedgerImplemented`. The mapping takes `reserved` to the cache and `published` to the
  RQs: `Record` is `Reserve`, `Commit` is `Publish`, every other step a stutter. A
  reservation needs the sum to be within the stored limit at the moment of
  `Record`, and a publication that what is published is still what is reserved. Both
  are in `Steady`: the copy that was checked has the stored limit and the total that was
  checked is the one that is recorded (`WithinLimit`), and each namespace has one
  writer that waits for an answer (`OneWriter`). With `racing` two writers of one RQ are
  allowed and the API server stores the one that was recorded first: then the
  published usage is not the reserved one.
* `ReservedCorrect` is the ledger's own invariant, `LedgerWithinHard`, through this refinement. `PublishedCorrect` adds
  `Settled`: an RQ that no allowed update is on the way to shows what is reserved. A dry run
  is recorded and not stored, so it is excluded there.
* The lemma that these rest on is `TotalUpdate` (`UsageTheorems`), `validate`'s delta. The sum
  is the cardinality of the set of units in use, which makes it provable with facts about
  finite sets.

### The life of the quotas

`QuotaLifecycle_proofs`, for every choice of `Edits` and any number of them:

* `LifecycleTypes`, `OwnedQuotasAreKept`, `ReconcileWritesCurrent`.
  *Argument.* `IInv` adds to the types `CopiesNameContents` (the informer's and the
  worker's copy, if they have the stored version, are the stored CRQ) and
  `OwnersSeen` (no RQ is owned by a CRQ later than the informer shows, an owned RQ
  has the label, and the informer shows the living CRQ, once it knows its uid, as
  living). Owning needs a Reconcile, a Reconcile needs the informer to have shown
  the CRQ, so the remove admission's stale look cannot miss the owner. Without
  `OwnersSeen` the promise is not inductive: nothing else excludes an RQ owned by a
  CRQ that the informer has not shown.
* `StatusIsPropagated` (`RestsStatusPropagated`) and `QuotasArePropagated` (at rest,
  `QuotasExist`). *Argument.* `RestInv` says of every moment what is still to come.
  `ReconciledAsSeen`: with an idle worker and an empty queue, what the informers *show* (not
  what is stored) has been reconciled; this is what must not be stated of the stored
  spec, which may change and change back before anybody hears of it. An event
  that the predicates let pass changes nothing of it (`QuotaEvent`, `NamespaceEvent`).
  `EventsKept`: while Reconcile runs and its name is not queued again, the informer shows
  the spec it works on, and the namespaces that are shown and selected have been
  visited or will be; an error is remembered until the name is queued. A status that is
  written then is that of the CRQ which the informer shows, since the version lies
  between that of Begin and the stored one (`WrittenAsSeen`). `QuotasOwned`,
  `VisitedOwned`: an RQ that an old copy shows as the CRQ's own is so still, so that a
  visit that writes nothing leaves the right owner.
* `LimitsArePropagated` (`RestsPropagated`), under `SteadyLimits`: nobody tampers with
  an RQ's limit, and specs are not edited or there is only one limit. *Argument.* `OneLimit`: then
  the uid determines the limit, in the CRQ, in every copy and in every RQ with that owner.
  QuotaLifecycle_changedback shows what happens without it. Recreated CRQs may have
  other limits: they have other uids.

### The pods

* `PodQuota_proofs`: `NodeQuotaEnforced`, under `NodeScoped` (all requirements are
  NodeSelector ones whose values parse). *Argument.* `Matches` answers `yes` exactly
  for the pods in the scopes (`MatchesIsInScope`), `UsageStats` counts exactly those
  (`UsageIsInScope`), so `used` covers them at all times (`Covered`).
* `PodAdmission_proofs`: `ChargeTypes`; `ChargesImplementPodQuota`, the refinement, with
  variables mapped to themselves; `ChargesWithinHard`, which follows from it and
  `NodeQuotaEnforced`. *Argument.* `IInv` adds to the types `Faithful` (a copy with the
  stored version is the stored quota: the informer's, the plugin's own, a request's, the
  controller's), `Checked` (a request that is to be charged matches, and was
  within the limit on the copy it holds), `Tried` (a request in flight has had its tries
  counted) and `Recounted` (the usage that the controller holds is that of the
  pods it saw). `Store` succeeds only with the stored version, so the copy is the
  stored quota, and one charge on the copy is one charge on what is stored.
  `Faithful` is where the conversions matter: without the version it is lost.
* `ChargesWithinClusterHard` (`ClusterWithinHard`), under `NodeScoped` and for every choice
  of `Faults`. *What it does not say.* Nothing is claimed once a recalculation has missed a pod,
  nor after Sync has put an older usage back, after a restart, or after an update that was let
  through because the cluster quota was not found, until the cache covers the pods
  again: in between two namespaces can pass the limit together. *What it does say.* Races, conflicts,
  retries, lost answers and failed calls do not break it, and it is back after the repair. *Argument.*
  `ClusterInv`. `Backed`: while `exact` and `covered`, the cache covers the pods and the charges
  on their way. `SumChecked`: while a charge is on its way to the API server, all that has
  been let through is within the limit, since the sum that was checked covered it and what came
  later was checked again (`SubmitBacked`); Sync and restarts only keep `covered` where this is still
  so (`CacheStep`). That a charge covers its own namespace needs that the plugin has one request
  of a namespace in work (`OneAtATime`) and that the stored usage, to which it adds one pod, covers
  the pods, which PodQuota's invariant says through the refinement. The pods of all the
  namespaces are no more than the units of the sum (`TotalCovers`, by an injection from pods
  into units).

### The start

* `StartUp_proofs`: `StartTypes`, `QuotaAlwaysSeen`, `UsageWrittenTrue`. *Argument.* `IInv` says of each step of the start what has been
  wired by then (`Hijacked`: once Run is past the construction, lister and client are the
  hijacked ones and the transform is set, on the informer they read), of each informer that what
  has synced is complete (`Full`), what is requested (`Requested`), and that nothing runs before `Setup` has started it
  (`Quiet`). The plugin's answer then depends on the store alone, and an empty store that
  must hold the quota has not synced, which makes the plugin list through its client.

Each inductive invariant was checked with TLC, as an invariant of the run of its
module or of a variation of it (other edits, more faults), before it was proved.

## 6. Only model-checked

The liveness properties (liveness and ENABLED are beyond the prover): `Answered`,
`CacheRepaired`, `Converges`, `EventuallyTidy`, `UsageSettles`, `GetsReady`. And the
violations of section 4, which are counterexamples and not theorems.

## 7. Not modelled

* Of the generated code only the informer factory and the RQ's informer have control:
  clients, listers and deep copies carry data. `Shutdown` and `WaitForCacheSync`
  of the factories, and `Start` of the hijacked one, are called by nothing in the repository
  (`WaitForCacheSync` would copy into a nil map, `adaptor.go:153`).
* Addresses, certificates, log levels, the version command, manifests and the chart. Their
  effect on the models is assumptions: one replica, failurePolicy `Fail`, the webhooks'
  rules.
* `OnNamespaceChange` drops the event when its List fails (`controller.go:64`). The List reads the
  manager's informer, which fails only before the cache has been started and when the
  process ends; map functions are called after the one, and after the other all the namespaces
  are listed anew. The event is therefore never dropped in CRQController.
* A pod's terms and scopes do not change: an update of the nodeSelector of a pod that is held back
  by scheduling gates is not charged (`evaluator.go:53`), and the next recalculation counts it
  as it is then.
* In PodAdmission a restart finds a status that was on its way stored, or not; the informers
  of plugin, controller and manager deliver each namespace's RQ at a time of its own.
* Where an option is stored and not looked at: the webhooks are served with
  `Webhook.Enabled` false too, and with metrics disabled their default address is that of the
  probes (`manager.go:83`). Whether `mgr.Start` then fails is the library's business; a
  start that fails is `Exit`.
* `Sync` is modelled for one CRQ; that it groups the RQs of several by label in one
  pass is left out. StartUp follows one namespace with one RQ.
* Several processes (rolling updates, more replicas) are not modelled: the
  chart deploys one. In StartUp the lock of the election may still be held by a process
  that has ended.
* Quantities are naturals: formats and rounding of
  `resource.Quantity` do not matter to any property here.
* The webhooks' failurePolicy is `Fail`, as deployed: an update whose call gets no answer is not stored.

## 8. Plan

Done: the core (Usage, ApiServer, UsageCache, StatusAdmission, ClusterLedger), the
lifecycle (ClusterObjects, CRQController, RemoveAdmission, QuotaLifecycle), the pods
(PodEvaluator, PodQuota, PodAdmission), the start (StartUp), and the proofs in section 5.

Next, in this order:

1. Proofs: what is left of the safety of the status admission once `Faults` are admitted
   one by one: how far the published usage can be from the reserved one with `racing`, with
   `timeout` and after `crash`, and what `Sync` keeps of `CopiesAgree`.
2. `CacheSync`: `Sync` over several CRQs as an operator, against a reference that
   groups the listed RQs by label; RQs that change their CRQ.
3. `Replicas`: two processes with a cache each, as in a rolling update or with leader
   election, where only the leader's cache is synced.
