------------------------------ MODULE StartUp ------------------------------
(***************************************************************************)
(* The start of the program: options, the manager with its webhooks, the   *)
(* construction of clients, informer factories, plugin and quota           *)
(* controller (manager.go, resourcequota.go), and the goroutines that      *)
(* start while the webhooks already answer.  The process may end at any    *)
(* step, and is started again.                                             *)
(*                                                                         *)
(* One namespace is followed, with one ResourceQuota and the pods it       *)
(* counts.  What is at stake is what the program answers and writes while  *)
(* its stores are empty or half full: PodAdmission begins where this       *)
(* module ends.                                                            *)
(***************************************************************************)
EXTENDS Integers, FiniteSets

CONSTANTS
  Pods,         \* the pods of the namespace
  Unknown,      \* a status.used that does not name the resource
  MaxRestarts,  \* bound: how often the process ends
  MaxDeletions  \* bound: how often the cluster quota is deleted

ASSUME PodsAssumption     == IsFiniteSet(Pods)
ASSUME UnknownAssumption  == Unknown \notin Nat
ASSUME RestartsAssumption == MaxRestarts \in Nat
ASSUME DeletionsAssumption == MaxDeletions \in Nat

VARIABLES
  args,        \* what the command line and its files say
  options,     \* the Options of the process
  mgr,         \* the manager: leader election, runnables, webhooks
  config,      \* the plugin's configuration
  lease,       \* the lock of the leader election
  setup,       \* the step that Run has come to
  factories,   \* the informer factories
  starting,    \* factories whose Start the goroutines of context.Start have still to call
  begun,       \* InformersStarted is closed
  store,       \* what each informer has stored
  synced,      \* the informers whose initial list is stored
  lister,      \* where the plugin's and the controller's lister reads
  client,      \* where their client lists and writes
  monitors,    \* the resources whose changes the controller watches
  watching,    \* the monitors that have been started
  working,     \* the controller's workers run
  mgrCache,    \* the manager's cache
  counted,     \* the usage of the namespace in the admission's cache
  used,        \* status.used of the stored ResourceQuota
  crq,         \* the manager's informer has the cluster quota, once it has synced
  deletions,   \* how often that was deleted
  restarts     \* how often the process has ended

clusterVars == <<args, lease, crq, deletions>>
processVars == <<options, mgr, config, setup, factories, starting, begun, store, synced, lister, client,
                 monitors, watching, working, mgrCache, counted>>
vars == <<clusterVars, processVars, used, restarts>>

Steps == {"flags", "manager", "controllers", "clients", "file", "quota", "go",
          "webhooks", "caches", "elect", "up"}

(* What matters of the options: leader election, and the file with the plugin's
   configuration, of which there may be none, one that limits pods, or one that
   cannot be read. *)
Options == [election: BOOLEAN, file: {"none", "limiting", "bad"}]
NewDefaultOptions == [election |-> FALSE, file |-> "none"]

Managers ==
  [election: BOOLEAN, runnables: SUBSET {"controller", "syncer"},
   webhooks: SUBSET {"status", "remove", "validate"}]
New(election) == [election |-> election, runnables |-> {}, webhooks |-> {}]

(* An informer is named by its factory and its resource. *)
Factories == {"this", "typed", "hijacked"}
Resources == {"pods", "nodes", "resourcequotas"}
Informers == Factories \X Resources

(* What the API server has: the namespace has no ResourceQuota of Kubernetes. *)
Listed(i) ==
  CASE i[1] # "this" /\ i[2] = "pods" -> Pods
    [] i = <<"hijacked", "resourcequotas">> -> {"quota"}
    [] OTHER -> {}

FactoryType ==
  [requested: SUBSET Resources, started: SUBSET Resources, converts: SUBSET Resources]

Started(i) == i[2] \in factories[i[1]].started

TypeOK ==
  /\ args \in Options /\ options \in Options /\ mgr \in Managers
  /\ config \in {"unset", "default", "limiting"}
  /\ lease \in {"free", "held"} /\ setup \in Steps
  /\ factories \in [Factories -> FactoryType]
  /\ starting \subseteq Factories /\ begun \in BOOLEAN
  /\ store \in [Informers -> SUBSET (Pods \cup {"quota"})]
  /\ synced \subseteq Informers
  /\ lister \in Informers /\ client \in Factories
  /\ monitors \subseteq {"pods", "others"}
  /\ watching \subseteq monitors /\ working \in BOOLEAN
  /\ mgrCache \in {"off", "syncing", "synced"}
  /\ counted \in Nat /\ used \in Nat \cup {Unknown}
  /\ crq \in BOOLEAN /\ deletions \in 0 .. MaxDeletions
  /\ restarts \in 0 .. MaxRestarts
  /\ \A i \in Informers : store[i] # {} \/ i \in synced => Started(i)

-----------------------------------------------------------------------------
(* THE INFORMER FACTORIES *)

NewSharedInformerFactory == [requested |-> {}, started |-> {}, converts |-> {}]

(* The informer there is, or a new one, which does not run yet. *)
InformerFor(factory, r) == [factory EXCEPT !.requested = @ \cup {r}]

(* Refused, with an error that nobody reads, once the informer runs. *)
SetTransform(factory, r) ==
  IF r \in factory.started THEN factory ELSE [factory EXCEPT !.converts = @ \cup {r}]

(* Mutant: a second Start does nothing. *)
StartOnce(factory) ==
  IF factory.started # {} THEN factory ELSE [factory EXCEPT !.started = factory.requested]

(* Start runs the informers that have been requested and do not run. *)
Start(factory) == [factory EXCEPT !.started = factory.requested]

-----------------------------------------------------------------------------
(* THE ADAPTORS: where ResourceQuotas are read and written *)

(* HijackSharedInformerFactory.Core().V1() *)
HijackInformers(resource) ==
  <<IF resource = "resourcequotas" THEN "hijacked" ELSE "typed", resource>>

(* Mutant: CoreV1() of the embedded client set. *)
ClientOfKubernetes(resource) == "typed"

(* HijackClientSet.CoreV1() *)
HijackClientSet(resource) ==
  IF resource = "resourcequotas" THEN "hijacked" ELSE "typed"

(* The methods of the hijacked client that are supported. *)
Supported == {"List", "UpdateStatus"}

(* What its List finds. *)
LiveList ==
  IF "List" \in Supported THEN Listed(<<client, "resourcequotas">>) ELSE {}

-----------------------------------------------------------------------------
(* RUN AND SETUP *)

Init ==
  /\ args \in Options /\ lease = "free" /\ crq \in BOOLEAN /\ deletions = 0
  /\ options = NewDefaultOptions /\ mgr = New(FALSE) /\ config = "unset"
  /\ setup = "flags"
  /\ factories = [f \in Factories |-> NewSharedInformerFactory]
  /\ starting = {} /\ begun = FALSE
  /\ store = [i \in Informers |-> {}] /\ synced = {}
  /\ lister = <<"typed", "resourcequotas">> /\ client = "typed"
  /\ monitors = {} /\ watching = {} /\ working = FALSE
  /\ mgrCache = "off" /\ counted = 0
  /\ used \in {Unknown} \cup 0 .. Cardinality(Pods)
  /\ restarts = 0

Advance(from, to) == setup = from /\ setup' = to

Only(changed) ==
  /\ UNCHANGED <<args, crq, deletions, used, restarts>>
  /\ "options" \notin changed => UNCHANGED options
  /\ "mgr" \notin changed => UNCHANGED mgr
  /\ "config" \notin changed => UNCHANGED config
  /\ "lease" \notin changed => UNCHANGED lease
  /\ "factories" \notin changed => UNCHANGED factories
  /\ "starts" \notin changed => UNCHANGED <<starting, begun>>
  /\ "wiring" \notin changed => UNCHANGED <<lister, client, monitors>>
  /\ UNCHANGED <<store, synced, watching, working, mgrCache, counted>>

(* The flags are parsed, and Run is called. *)
NewRootCmd ==
  /\ Advance("flags", "manager")
  /\ options' = args
  /\ Only({"options"})

RunWithConfig ==
  /\ Advance("manager", "controllers")
  /\ mgr' = New(options.election)
  /\ Only({"mgr"})

(* The CRQ controller and the CacheSyner are added, which the manager starts
   once it leads, and the webhooks of the cluster quotas are registered. *)
NewClusterResourceQuota ==
  /\ Advance("controllers", "clients")
  /\ mgr' = [mgr EXCEPT !.runnables = {"controller", "syncer"},
                        !.webhooks = @ \cup {"status", "remove"}]
  /\ Only({"mgr"})

(* A file that cannot be read or parsed is an error: what is left is Exit. *)
GetResourceQuotaConfig ==
  /\ Advance("file", "quota")
  /\ options.file # "bad"
  /\ config' = IF options.file = "none" THEN "default" ELSE options.file
  /\ Only({"config"})

NewControllerContext ==
  /\ Advance("clients", "file")
  /\ factories' = [f \in Factories |-> NewSharedInformerFactory]
  /\ Only({"factories"})

(* The evaluator requests nodes; the hijacked informer gets its transform. *)
Wiring ==
  [factories EXCEPT
     !["typed"] = InformerFor(@, "nodes"),
     !["hijacked"] = SetTransform(InformerFor(@, "resourcequotas"), "resourcequotas")]

(* Plugin and controller take a lister and a client from the adaptors.  The
   controller requests an informer for each resource that it discovers, and the
   discovery of a group may fail. *)
NewResourceQuota ==
  LET quotas == HijackInformers("resourcequotas")
      listing == [Wiring EXCEPT ![quotas[1]] = InformerFor(@, quotas[2])]
  IN
  /\ Advance("quota", "go")
  /\ lister' = quotas
  /\ client' = HijackClientSet("resourcequotas")
  /\ \/ /\ monitors' = {"pods", "others"}
        /\ factories' = [listing EXCEPT !["typed"] = InformerFor(@, "pods")]
     \/ /\ monitors' = {"others"}
        /\ factories' = listing
  /\ Only({"factories", "wiring"})

(* go context.Start, go resourceQuotaController.Run, the plugin's webhook, and
   on to mgr.Start. *)
Setup ==
  /\ Advance("go", "webhooks")
  /\ mgr' = [mgr EXCEPT !.webhooks = @ \cup {"validate"}]
  /\ Only({"mgr"})
Running == setup \in {"webhooks", "caches", "elect", "up"}

(* mgr.Start: the webhooks answer before anything else runs. *)
ServeWebhooks == Advance("webhooks", "caches") /\ Only({})
Serving(webhook) == setup \in {"caches", "elect", "up"} /\ webhook \in mgr.webhooks

(* An error returned by Run, a panic, a kill: the process starts anew. *)
Exit ==
  /\ restarts < MaxRestarts
  /\ restarts' = restarts + 1
  /\ setup' = "flags"
  /\ options' = NewDefaultOptions /\ mgr' = New(FALSE) /\ config' = "unset"
  /\ factories' = [f \in Factories |-> NewSharedInformerFactory]
  /\ starting' = {} /\ begun' = FALSE
  /\ store' = [i \in Informers |-> {}] /\ synced' = {}
  /\ lister' = <<"typed", "resourcequotas">> /\ client' = "typed"
  /\ monitors' = {} /\ watching' = {} /\ working' = FALSE
  /\ mgrCache' = "off" /\ counted' = 0
  /\ UNCHANGED <<clusterVars, used>>

-----------------------------------------------------------------------------
(* WHAT RUNS BESIDE *)

(* ControllerContext.Start: a goroutine for each factory, and the channel is
   closed without waiting for them. *)
ContextStart ==
  /\ Running /\ ~ begun
  /\ starting' = Factories
  /\ begun' = TRUE
  /\ UNCHANGED setup /\ Only({"starts"})

StartFactory(f) ==
  /\ f \in starting
  /\ starting' = starting \ {f}
  /\ factories' = [factories EXCEPT ![f] = Start(@)]
  /\ UNCHANGED <<setup, begun>> /\ Only({"factories", "starts"})

(* An informer lists, stores object by object, and has then synced. *)
Fill(i) ==
  /\ Started(i) /\ i \notin synced
  /\ \/ /\ \E o \in Listed(i) \ store[i] : store' = [store EXCEPT ![i] = @ \cup {o}]
        /\ UNCHANGED synced
     \/ /\ store[i] = Listed(i)
        /\ synced' = synced \cup {i}
        /\ UNCHANGED store
  /\ UNCHANGED <<clusterVars, options, mgr, config, setup, factories, starting, begun,
                 lister, client, monitors, watching, working, mgrCache, counted, used,
                 restarts>>

(* StartMonitors waits for the channel, and starts the factory (again). *)
StartMonitors ==
  /\ Running /\ begun
  /\ watching # monitors
  /\ watching' = monitors
  /\ factories' = [factories EXCEPT !["typed"] = Start(@)]
  /\ UNCHANGED <<clusterVars, options, mgr, config, setup, starting, begun, store, synced,
                 lister, client, monitors, working, mgrCache, counted, used, restarts>>

(* Controller.Sync, every minute: the discovery finds the pods after all. *)
Sync ==
  /\ Running
  /\ "pods" \notin monitors
  /\ monitors' = monitors \cup {"pods"}
  /\ factories' = [factories EXCEPT !["typed"] = InformerFor(@, "pods")]
  /\ UNCHANGED <<clusterVars, options, mgr, config, setup, starting, begun, store, synced,
                 lister, client, watching, working, mgrCache, counted, used, restarts>>

(* Controller.Run: the workers wait for the quotas and the monitors to sync. *)
Work ==
  /\ Running /\ ~ working
  /\ lister \in synced
  /\ watching # {} /\ ("pods" \in monitors => <<"typed", "pods">> \in synced)
  /\ working' = TRUE
  /\ UNCHANGED <<clusterVars, options, mgr, config, setup, factories, starting, begun,
                 store, synced, lister, client, monitors, watching, mgrCache, counted, used,
                 restarts>>

CachesSync ==
  /\ setup = "caches"
  /\ \/ mgrCache = "off" /\ mgrCache' = "syncing" /\ UNCHANGED setup
     \/ mgrCache = "syncing" /\ mgrCache' = "synced" /\ setup' = "elect"
  /\ UNCHANGED <<clusterVars, options, mgr, config, factories, starting, begun, store,
                 synced, lister, client, monitors, watching, working, counted, used,
                 restarts>>

(* At once, or when the lock of the leader election is free. *)
Elect ==
  /\ Advance("elect", "up")
  /\ mgr.election => lease = "free"
  /\ lease' = IF mgr.election THEN "held" ELSE lease
  /\ Only({"lease"})

(* A process that has ended does not release the lock: it expires. *)
Expire ==
  /\ lease = "held" /\ setup # "up"
  /\ lease' = "free"
  /\ UNCHANGED setup /\ Only({"lease"})

(* Mutant: an unknown usage is taken for a number. *)
StoredRaw == used

(* A tick of CacheSyner, which runs on the leader, cluster quota or not: the
   ResourceQuotas name theirs. *)
Stored == IF used = Unknown THEN 0 ELSE used
SyncOnce ==
  /\ setup = "up" /\ "syncer" \in mgr.runnables
  /\ counted # Stored
  /\ counted' = Stored
  /\ UNCHANGED <<clusterVars, options, mgr, config, setup, factories, starting, begun,
                 store, synced, lister, client, monitors, watching, working, mgrCache, used,
                 restarts>>

-----------------------------------------------------------------------------
(* WHAT IS ANSWERED AND WRITTEN MEANWHILE *)

(* Mutant: the evaluator lists pods from the bare lister. *)
PodsListedAnyway == TRUE

(* generic.ListerFuncForResourceFunc: the evaluator's lister of pods fails
   until they have synced. *)
PodsListed == <<"typed", "pods">> \in synced

(* The cluster quota is deleted, or not there yet when the program starts; it
   is there again before its ResourceQuotas are collected. *)
Deleted ==
  /\ crq /\ deletions < MaxDeletions
  /\ crq' = FALSE /\ deletions' = deletions + 1
  /\ UNCHANGED <<args, lease, processVars, used, restarts>>

Created ==
  /\ ~ crq
  /\ crq' = TRUE
  /\ UNCHANGED <<args, lease, deletions, processVars, used, restarts>>

(* Get of the cluster quota from the manager's cache. *)
Found == IF mgrCache # "synced" THEN "error" ELSE IF crq THEN "yes" ELSE "no"

(* validate: only NotFound lets an update through that is not counted. *)
Validate ==
  CASE ~ Serving("status") \/ Found = "error" -> "refused"
    [] Serving("status") /\ Found = "yes" -> "counted"
    [] Serving("status") /\ Found = "no" -> "uncounted"

(* The controller recalculates.  The evaluator requests the informer of pods,
   which runs after the next Start of the factory.  The update of the status
   goes through the hijacked client, and through this program's own webhook. *)
Recount ==
  LET count == Cardinality(store[<<"typed", "pods">>]) IN
  /\ working /\ store[lister] # {}
  /\ factories' = [factories EXCEPT !["typed"] = InformerFor(@, "pods")]
  /\ \/ /\ PodsListed /\ count # used
        /\ client = "hijacked" /\ "UpdateStatus" \in Supported
        /\ Validate # "refused"
        /\ used' = count
        /\ counted' = IF Validate = "counted" THEN count ELSE counted
     \/ /\ ~ PodsListed
        /\ UNCHANGED <<used, counted>>
  /\ UNCHANGED <<clusterVars, options, mgr, config, setup, starting, begun, store, synced,
                 lister, client, monitors, watching, working, mgrCache, restarts>>

(* What the plugin answers for a new pod.  A quota of unknown usage refuses it,
   an object that is not corev1's is a panic, and an empty store that has not
   synced makes the plugin list through its client.  Without any quota the
   configuration decides. *)
Checked == IF used = Unknown THEN "refused" ELSE "checked"
PluginAnswer ==
  CASE ~ Serving("validate") -> "refused"
    [] Serving("validate") /\ store[lister] # {} ->
         IF lister[1] = "hijacked" /\ lister[2] \notin factories["hijacked"].converts
         THEN "panic" ELSE Checked
    [] Serving("validate") /\ store[lister] = {} ->
         IF lister \notin synced /\ LiveList # {} THEN Checked
         ELSE IF config = "limiting" THEN "refused" ELSE "uncounted"

-----------------------------------------------------------------------------
SetupSteps ==
  \/ NewRootCmd \/ RunWithConfig \/ NewClusterResourceQuota
  \/ NewControllerContext \/ GetResourceQuotaConfig \/ NewResourceQuota
  \/ Setup \/ ServeWebhooks \/ CachesSync \/ Elect

Next ==
  \/ SetupSteps \/ Exit \/ Expire \/ Deleted \/ Created
  \/ ContextStart \/ \E f \in Factories : StartFactory(f)
  \/ \E i \in Informers : Fill(i)
  \/ StartMonitors \/ Sync \/ Work \/ Recount \/ SyncOnce

Spec == Init /\ [][Next]_vars

(* Goroutines run, lists are answered, discovery works in the end, a leader is
   elected, a lock expires, the ticker ticks and a refused update is tried again.
   Nothing forces the cluster quota to be created. *)
Fairness ==
  /\ WF_vars(SetupSteps) /\ WF_vars(Expire)
  /\ WF_vars(ContextStart) /\ \A f \in Factories : WF_vars(StartFactory(f))
  /\ \A i \in Informers : WF_vars(Fill(i))
  /\ WF_vars(StartMonitors) /\ WF_vars(Sync) /\ WF_vars(Work)
  /\ WF_vars(Recount) /\ WF_vars(SyncOnce)

FairSpec == Spec /\ Fairness
-----------------------------------------------------------------------------
(* PROPERTIES *)

(* From the first request the webhook answers, the plugin sees the stored quota
   as Kubernetes' code knows it, whatever the informer has stored by then:
   no pod is let in as if its namespace had no quota. *)
QuotaSeen == PluginAnswer \in {"refused", "checked"}

(* A usage is overwritten only by the true one: half-filled stores, and an
   informer that has been requested and does not run, count nothing. *)
UsageTrue == [][used' # used => used' = Cardinality(Pods)]_vars

(* However it was interrupted, although the controller's updates need the
   webhook of the process that makes them, and although that lets usages pass
   uncounted while the cluster quota is not found, the program gets to where
   pods are checked against a usage that is true and counted; unless its
   configuration cannot be read. *)
GetsReady ==
  args.file # "bad" =>
    <>[](PluginAnswer = "checked" /\ used = Cardinality(Pods) /\ counted = used)
=============================================================================
