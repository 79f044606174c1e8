--------------------------- MODULE StartUp_proofs ---------------------------
(***************************************************************************)
(* What StartUp's properties rest on, for any pods and any number of       *)
(* restarts: before the goroutines are started nothing runs (Quiet), from  *)
(* then on the plugin and the controller list and write through the        *)
(* adaptors (Hijacked), and a store that has synced is complete (Full).    *)
(***************************************************************************)
EXTENDS StartUp, FiniteSetTheorems, TLAPS

Wired == setup \in {"go", "webhooks", "caches", "elect", "up"}

Quiet ==
  ~ Running =>
    /\ starting = {} /\ begun = FALSE /\ watching = {} /\ working = FALSE
    /\ \A f \in Factories : factories[f].started = {}

Hijacked ==
  Wired =>
    /\ lister = <<"hijacked", "resourcequotas">> /\ client = "hijacked"
    /\ "resourcequotas" \in factories["hijacked"].converts

Full == \A i \in synced : store[i] = Listed(i)

Requested == \A f \in Factories : factories[f].started \subseteq factories[f].requested

IInv == TypeOK /\ Quiet /\ Hijacked /\ Full /\ Requested
-----------------------------------------------------------------------------
(* The factories stay well-formed, and a factory that is started again goes on
   running what it ran. *)
LEMMA FactoryTypes ==
  ASSUME NEW factory \in FactoryType, NEW r \in Resources
  PROVE  /\ InformerFor(factory, r) \in FactoryType
         /\ SetTransform(factory, r) \in FactoryType
         /\ Start(factory) \in FactoryType
         /\ NewSharedInformerFactory \in FactoryType
         /\ InformerFor(factory, r).started = factory.started
         /\ SetTransform(factory, r).started = factory.started
         /\ InformerFor(factory, r).converts = factory.converts
         /\ Start(factory).converts = factory.converts
BY DEF InformerFor, SetTransform, Start, NewSharedInformerFactory, FactoryType

LEMMA ListedType ==
  ASSUME NEW i \in Informers
  PROVE  Listed(i) \subseteq Pods \cup {"quota"}
BY DEF Listed

LEMMA InitInvariant == ASSUME Init PROVE IInv
<1>1. \A f \in Factories : NewSharedInformerFactory \in FactoryType
  BY DEF NewSharedInformerFactory, FactoryType
<1>2. 0 .. Cardinality(Pods) \subseteq Nat
  BY PodsAssumption, FS_CardinalityType
<1>3. <<"typed", "resourcequotas">> \in Informers
  BY DEF Informers, Factories, Resources
<1>4. factories \in [Factories -> FactoryType] /\ client \in Factories
  BY <1>1 DEF Init, Factories
<1>5. TypeOK
  <2>1. store \in [Informers -> SUBSET (Pods \cup {"quota"})] /\ synced \subseteq Informers
    BY DEF Init
  <2>2. \A i \in Informers : store[i] # {} \/ i \in synced => Started(i)
    BY DEF Init
  <2>3. used \in Nat \cup {Unknown} /\ restarts \in 0 .. MaxRestarts /\ counted \in Nat
    BY <1>2, RestartsAssumption DEF Init
  <2>4. /\ args \in Options /\ options \in Options /\ mgr \in Managers
        /\ config \in {"unset", "default", "limiting"}
        /\ lease \in {"free", "held"} /\ setup \in Steps
        /\ crq \in BOOLEAN /\ deletions \in 0 .. MaxDeletions
    BY DeletionsAssumption DEF Init, Steps, Options, NewDefaultOptions, Managers, New
  <2> QED BY <1>3, <1>4, <2>1, <2>2, <2>3, <2>4 DEF Init, TypeOK
<1>6. Quiet /\ Hijacked /\ Full /\ Requested
  BY DEF Init, Quiet, Running, Hijacked, Wired, Full, Requested, NewSharedInformerFactory
<1> QED BY <1>5, <1>6 DEF IInv

(* A step of the main goroutine that only goes on to the next. *)
LEMMA AdvanceInvariant ==
  ASSUME IInv, NEW to \in Steps, setup' = to, Only({"options", "mgr", "config"}),
         options' \in Options, mgr' \in Managers, config' \in {"unset", "default", "limiting"},
         Running => to \in {"webhooks", "caches", "elect", "up"},
         to \in {"go", "webhooks", "caches", "elect", "up"} => Wired
  PROVE  IInv'
<1>1. UNCHANGED <<clusterVars, starting, begun, factories, store, synced, lister, client,
                  monitors, watching, working, mgrCache, counted, used, restarts>>
  BY DEF Only, clusterVars
<1>2. TypeOK'
  BY <1>1 DEF IInv, TypeOK, Started, clusterVars
<1>3. Quiet'
  BY <1>1 DEF IInv, Quiet, Running
<1>4. Hijacked' /\ Full' /\ Requested'
  BY <1>1 DEF IInv, Hijacked, Wired, Full, Requested
<1> QED BY <1>2, <1>3, <1>4 DEF IInv

(* An action that leaves all but the store, the caches and the usage alone. *)
LEMMA StepInvariant ==
  ASSUME IInv, UNCHANGED <<args, options, mgr, config, setup, factories, starting, begun,
                           lister, client, monitors, watching, restarts>>,
         UNCHANGED <<store, synced>>,
         crq' \in BOOLEAN, deletions' \in 0 .. MaxDeletions,
         lease' \in {"free", "held"}, working' \in BOOLEAN, working' = working \/ Running,
         mgrCache' \in {"off", "syncing", "synced"},
         counted' \in Nat, used' \in Nat \cup {Unknown}
  PROVE  IInv'
<1>1. TypeOK'
  BY DEF IInv, TypeOK, Started
<1>2. Quiet'
  BY DEF IInv, Quiet, Running
<1>3. Hijacked' /\ Full' /\ Requested'
  BY DEF IInv, Hijacked, Wired, Full, Requested
<1> QED BY <1>1, <1>2, <1>3 DEF IInv

(* An action that requests informers, or starts a factory, while the program
   runs or before it does. *)
LEMMA FactoryInvariant ==
  ASSUME IInv, factories' \in [Factories -> FactoryType], setup' = setup,
         \A f \in Factories : /\ factories[f].started \subseteq factories'[f].started
                              /\ factories'[f].started \subseteq factories'[f].requested
                              /\ factories'[f].converts = factories[f].converts,
         UNCHANGED <<clusterVars, options, mgr, config, store, synced, lister, client, working,
                     mgrCache, restarts>>,
         starting' \subseteq Factories, begun' \in BOOLEAN,
         monitors' \subseteq {"pods", "others"}, watching' \subseteq monitors',
         counted' \in Nat, used' \in Nat \cup {Unknown}, Running
  PROVE  IInv'
<1>1. \A i \in Informers : Started(i) => Started(i)'
  BY DEF Started, Informers
<1>2. TypeOK'
  BY <1>1 DEF IInv, TypeOK, clusterVars
<1>3. Quiet'
  BY DEF IInv, Quiet, Running
<1>4. Hijacked' /\ Full' /\ Requested'
  BY DEF IInv, Hijacked, Wired, Full, Requested, Factories
<1> QED BY <1>2, <1>3, <1>4 DEF IInv
-----------------------------------------------------------------------------
LEMMA NewControllerContextInvariant ==
  ASSUME IInv, NewControllerContext PROVE IInv'
<1>1. factories' \in [Factories -> FactoryType]
  BY FactoryTypes DEF NewControllerContext, NewSharedInformerFactory, FactoryType
<1>2. \A i \in Informers : ~ Started(i)
  BY DEF IInv, Quiet, Running, NewControllerContext, Advance, Started, Informers
<1>3. store = [i \in Informers |-> store[i]] /\ synced = {}
      /\ \A i \in Informers : store[i] = {}
  BY <1>2 DEF IInv, TypeOK
<1>4. TypeOK'
  BY <1>1, <1>3 DEF IInv, TypeOK, NewControllerContext, Advance, Only, Steps
<1>5. Quiet' /\ Hijacked' /\ Full' /\ Requested'
  BY <1>3
  DEF IInv, Quiet, Running, Hijacked, Wired, Full, Requested, NewControllerContext, Advance,
      Only, NewSharedInformerFactory
<1> QED BY <1>4, <1>5 DEF IInv

LEMMA NewResourceQuotaInvariant ==
  ASSUME IInv, NewResourceQuota PROVE IInv'
<1>1. /\ HijackInformers("resourcequotas") = <<"hijacked", "resourcequotas">>
      /\ HijackClientSet("resourcequotas") = "hijacked"
  BY DEF HijackInformers, HijackClientSet
<1>2. \A f \in Factories : factories[f] \in FactoryType /\ factories[f].started = {}
  BY DEF IInv, TypeOK, Quiet, Running, NewResourceQuota, Advance
<1>3. /\ factories' \in [Factories -> FactoryType]
      /\ \A f \in Factories : factories'[f].started = {}
      /\ "resourcequotas" \in factories'["hijacked"].converts
  <2>1. DOMAIN factories = Factories
    BY DEF IInv, TypeOK
  <2>2. /\ factories'["this"] = factories["this"]
        /\ \/ factories'["typed"] = InformerFor(InformerFor(factories["typed"], "nodes"), "pods")
           \/ factories'["typed"] = InformerFor(factories["typed"], "nodes")
        /\ factories'["hijacked"] =
             InformerFor(SetTransform(InformerFor(factories["hijacked"], "resourcequotas"),
                                      "resourcequotas"), "resourcequotas")
        /\ DOMAIN factories' = Factories
        /\ factories' = [f \in Factories |-> factories'[f]]
    BY <1>1, <2>1 DEF NewResourceQuota, Wiring, Factories
  <2>3. factories'["typed"] \in FactoryType /\ factories'["typed"].started = {}
    BY <1>2, <2>2, FactoryTypes DEF Factories, Resources
  <2>4. factories'["hijacked"] \in FactoryType /\ factories'["hijacked"].started = {}
    BY <1>2, <2>2, FactoryTypes DEF Factories, Resources
  <2>5. "resourcequotas" \in factories'["hijacked"].converts
    BY <1>2, <2>2 DEF Factories, InformerFor, SetTransform, FactoryType
  <2> QED BY <1>2, <2>2, <2>3, <2>4, <2>5 DEF Factories
<1>4. synced = {} /\ \A i \in Informers : store[i] = {}
  BY <1>2 DEF IInv, TypeOK, Started, Informers
<1>5. lister' \in Informers /\ client' \in Factories
  BY <1>1 DEF NewResourceQuota, Informers, Factories, Resources
<1>6. /\ monitors' \subseteq {"pods", "others"} /\ watching' = {} /\ setup' = "go"
      /\ UNCHANGED <<clusterVars, options, mgr, config, starting, begun, store, synced,
                     watching, working, mgrCache, counted, used, restarts>>
  BY DEF NewResourceQuota, Advance, Only, IInv, Quiet, Running, clusterVars
<1>7. TypeOK'
  BY <1>3, <1>4, <1>5, <1>6 DEF IInv, TypeOK, Steps, clusterVars
<1>8. Quiet'
  BY <1>3, <1>6 DEF IInv, Quiet, Running, NewResourceQuota, Advance
<1>9. Hijacked' /\ Full' /\ Requested'
  BY <1>1, <1>3, <1>4, <1>6 DEF Hijacked, Full, Requested, NewResourceQuota
<1> QED BY <1>7, <1>8, <1>9 DEF IInv

LEMMA ExitInvariant ==
  ASSUME IInv, Exit PROVE IInv'
<1>1. factories' \in [Factories -> FactoryType]
  BY DEF Exit, NewSharedInformerFactory, FactoryType
<1>2. lister' \in Informers /\ client' \in Factories
  BY DEF Exit, Informers, Factories, Resources
<1>3. restarts' \in 0 .. MaxRestarts
  BY RestartsAssumption DEF Exit, IInv, TypeOK
<1>4. store' \in [Informers -> SUBSET (Pods \cup {"quota"})] /\ synced' = {}
      /\ \A i \in Informers : store'[i] = {}
  BY DEF Exit
<1>5. TypeOK'
  <2>1. options' \in Options /\ mgr' \in Managers /\ config' = "unset"
    BY DEF Exit, Options, NewDefaultOptions, Managers, New
  <2> QED BY <1>1, <1>2, <1>3, <1>4, <2>1 DEF Exit, IInv, TypeOK, Steps, clusterVars
<1>6. Quiet' /\ Hijacked' /\ Full' /\ Requested'
  BY <1>4
  DEF Exit, Quiet, Running, Hijacked, Wired, Full, Requested, NewSharedInformerFactory
<1> QED BY <1>5, <1>6 DEF IInv

LEMMA FillInvariant ==
  ASSUME IInv, NEW i \in Informers, Fill(i) PROVE IInv'
<1>1. UNCHANGED <<clusterVars, options, mgr, config, setup, factories, starting, begun, lister,
                  client, monitors, watching, working, mgrCache, counted, used, restarts>>
  BY DEF Fill
<1>2. Quiet' /\ Hijacked' /\ Requested'
  BY <1>1 DEF IInv, Quiet, Running, Hijacked, Wired, Requested
<1>3. store' \in [Informers -> SUBSET (Pods \cup {"quota"})] /\ synced' \subseteq Informers
  BY ListedType DEF Fill, IInv, TypeOK
<1>4. \A j \in Informers : j # i => store'[j] = store[j] /\ (j \in synced' <=> j \in synced)
  BY DEF Fill, IInv, TypeOK
<1>5. \A j \in Informers : store'[j] # {} \/ j \in synced' => Started(j)
  BY <1>4 DEF Fill, IInv, TypeOK
<1>6. TypeOK'
  BY <1>1, <1>3, <1>5 DEF IInv, TypeOK, Started, clusterVars
<1>7. Full'
  <2>1. \A j : Listed(j)' = Listed(j)
    BY DEF Listed
  <2>2. i \in synced' => store'[i] = Listed(i)
    BY DEF Fill
  <2> QED BY <1>3, <1>4, <2>1, <2>2 DEF Full, IInv
<1> QED BY <1>2, <1>6, <1>7 DEF IInv

(* ContextStart, StartFactory, StartMonitors and Sync. *)
LEMMA GoroutineInvariant ==
  ASSUME IInv,
         \/ ContextStart \/ \E f \in Factories : StartFactory(f)
         \/ StartMonitors \/ Sync
  PROVE  IInv'
<1>1. factories \in [Factories -> FactoryType] /\ "typed" \in Factories /\ "pods" \in Resources
  BY DEF IInv, TypeOK, Factories, Resources
<1>2. /\ starting \subseteq Factories /\ begun \in BOOLEAN
      /\ monitors \subseteq {"pods", "others"} /\ watching \subseteq monitors
      /\ counted \in Nat /\ used \in Nat \cup {Unknown}
      /\ \A f \in Factories : factories[f].started \subseteq factories[f].requested
  BY DEF IInv, TypeOK, Requested
<1> DEFINE Grown(f) ==
      LET F == factories IN
      /\ F[f].started \subseteq factories'[f].started
      /\ factories'[f].started \subseteq factories'[f].requested
      /\ factories'[f].converts = F[f].converts
<1>3. CASE ContextStart
  <2>1. factories' = factories
    BY <1>3 DEF ContextStart, Only
  <2> QED BY <1>1, <1>2, <1>3, <2>1, FactoryInvariant DEF ContextStart, Only, clusterVars
<1>4. ASSUME NEW f \in Factories, StartFactory(f) PROVE IInv'
  <2>1. factories' = [factories EXCEPT ![f] = Start(@)]
    BY <1>4 DEF StartFactory
  <2>2. factories' \in [Factories -> FactoryType]
    BY <1>1, <2>1, FactoryTypes DEF Resources
  <2>3. \A g \in Factories : Grown(g)
    BY <1>1, <1>2, <2>1 DEF Start, FactoryType
  <2>4. Running
    BY <1>4 DEF IInv, Quiet, StartFactory
  <2> QED BY <1>2, <1>4, <2>2, <2>3, <2>4, FactoryInvariant DEF StartFactory, Only, clusterVars
<1>5. CASE StartMonitors
  <2>1. factories' = [factories EXCEPT !["typed"] = Start(@)]
    BY <1>5 DEF StartMonitors
  <2>2. factories' \in [Factories -> FactoryType]
    BY <1>1, <2>1, FactoryTypes
  <2>3. \A g \in Factories : Grown(g)
    BY <1>1, <1>2, <2>1 DEF Start, FactoryType
  <2> QED BY <1>2, <1>5, <2>2, <2>3, FactoryInvariant DEF StartMonitors
<1>6. CASE Sync
  <2>1. factories' = [factories EXCEPT !["typed"] = InformerFor(@, "pods")]
    BY <1>6 DEF Sync
  <2>2. factories' \in [Factories -> FactoryType]
    BY <1>1, <2>1, FactoryTypes
  <2>3. \A g \in Factories : Grown(g)
    BY <1>1, <1>2, <2>1 DEF InformerFor, FactoryType
  <2>4. monitors' \subseteq {"pods", "others"} /\ watching' \subseteq monitors'
    BY <1>2, <1>6 DEF Sync
  <2> QED BY <1>2, <1>6, <2>2, <2>3, <2>4, FactoryInvariant DEF Sync
<1> QED BY <1>3, <1>4, <1>5, <1>6

(* A usage is written from a complete store of pods. *)
LEMMA RecountWrites ==
  ASSUME IInv, Recount
  PROVE  \/ UNCHANGED <<used, counted>>
         \/ used' = Cardinality(Pods) /\ used' \in Nat /\ counted' \in {counted, used'}
<1>1. CASE UNCHANGED <<used, counted>>
  BY <1>1
<1>2. CASE /\ PodsListed /\ Validate # "refused"
           /\ used' = Cardinality(store[<<"typed", "pods">>])
           /\ counted' = IF Validate = "counted"
                         THEN Cardinality(store[<<"typed", "pods">>]) ELSE counted
  <2>1. store[<<"typed", "pods">>] = Pods
    BY <1>2 DEF IInv, Full, PodsListed, Listed
  <2>2. Cardinality(Pods) \in Nat
    BY PodsAssumption, FS_CardinalityType
  <2> QED BY <1>2, <2>1, <2>2
<1> QED BY <1>1, <1>2 DEF Recount

LEMMA RecountInvariant ==
  ASSUME IInv, Recount PROVE IInv'
<1>1. factories \in [Factories -> FactoryType] /\ "typed" \in Factories /\ "pods" \in Resources
      /\ Running
  BY DEF IInv, TypeOK, Quiet, Recount, Factories, Resources
<1>2. factories' = [factories EXCEPT !["typed"] = InformerFor(@, "pods")]
  BY DEF Recount
<1>3. factories' \in [Factories -> FactoryType]
  BY <1>1, <1>2, FactoryTypes
<1>4. \A f \in Factories :
        /\ factories[f].started \subseteq factories'[f].started
        /\ factories'[f].started \subseteq factories'[f].requested
        /\ factories'[f].converts = factories[f].converts
  BY <1>1, <1>2 DEF IInv, Requested, InformerFor, FactoryType
<1>5. counted' \in Nat /\ used' \in Nat \cup {Unknown}
  BY RecountWrites DEF IInv, TypeOK
<1>6. UNCHANGED <<clusterVars, options, mgr, config, setup, starting, begun, store, synced,
                  lister, client, monitors, watching, working, mgrCache, restarts>>
  BY DEF Recount
<1> QED BY <1>1, <1>3, <1>4, <1>5, <1>6, FactoryInvariant DEF IInv, TypeOK

LEMMA NextInvariant == ASSUME IInv, [Next]_vars PROVE IInv'
<1>1. CASE NewRootCmd \/ RunWithConfig \/ NewClusterResourceQuota
           \/ GetResourceQuotaConfig
  <2>1. options' \in Options
    BY <1>1 DEF NewRootCmd, RunWithConfig, NewClusterResourceQuota, GetResourceQuotaConfig, Only,
                IInv, TypeOK
  <2>2. mgr' \in Managers
    <3>1. mgr \in Managers /\ options.election \in BOOLEAN
      BY DEF IInv, TypeOK, Options
    <3>2. CASE NewRootCmd \/ GetResourceQuotaConfig
      BY <3>1, <3>2 DEF NewRootCmd, GetResourceQuotaConfig, Only
    <3>3. CASE RunWithConfig
      <4>1. mgr' = [election |-> options.election, runnables |-> {}, webhooks |-> {}]
        BY <3>3 DEF RunWithConfig, New
      <4> QED BY <3>1, <4>1 DEF Managers
    <3>4. CASE NewClusterResourceQuota
      <4>1. mgr' = [mgr EXCEPT !.runnables = {"controller", "syncer"},
                               !.webhooks = @ \cup {"status", "remove"}]
        BY <3>4 DEF NewClusterResourceQuota
      <4>2. /\ {"controller", "syncer"} \in SUBSET {"controller", "syncer"}
            /\ mgr.webhooks \cup {"status", "remove"}
                 \in SUBSET {"status", "remove", "validate"}
        BY <3>1 DEF Managers
      <4> QED BY <3>1, <4>1, <4>2 DEF Managers
    <3> QED BY <1>1, <3>2, <3>3, <3>4
  <2>3. config' \in {"unset", "default", "limiting"}
    BY <1>1 DEF NewRootCmd, RunWithConfig, NewClusterResourceQuota, GetResourceQuotaConfig, Only,
                IInv, TypeOK, Options
  <2>4. Only({"options", "mgr", "config"})
    BY <1>1 DEF NewRootCmd, RunWithConfig, NewClusterResourceQuota, GetResourceQuotaConfig, Only
  <2> QED BY <1>1, <2>1, <2>2, <2>3, <2>4, AdvanceInvariant
          DEF NewRootCmd, RunWithConfig, NewClusterResourceQuota, GetResourceQuotaConfig,
              Advance, Steps, Running
<1>2. CASE Setup \/ ServeWebhooks
  <2>1. /\ options' \in Options /\ mgr' \in Managers
        /\ config' \in {"unset", "default", "limiting"}
    BY <1>2 DEF Setup, ServeWebhooks, Only, IInv, TypeOK, Managers
  <2>2. Only({"options", "mgr", "config"})
    BY <1>2 DEF Setup, ServeWebhooks, Only
  <2> QED BY <1>2, <2>1, <2>2, AdvanceInvariant
          DEF Setup, ServeWebhooks, Advance, Steps, Wired
<1>3. CASE NewControllerContext \/ NewResourceQuota
  BY <1>3, NewControllerContextInvariant, NewResourceQuotaInvariant
<1>4. CASE CachesSync \/ Elect
  <2>1. CASE UNCHANGED setup
    BY <1>4, <2>1, StepInvariant DEF CachesSync, Elect, Advance, IInv, TypeOK, clusterVars
  <2>2. CASE setup' # setup
    <3>1. /\ UNCHANGED <<args, crq, deletions, options, mgr, config, starting, begun, factories, store, synced, lister, client,
                         monitors, watching, working, counted, used, restarts>>
          /\ setup' \in {"elect", "up"} /\ setup \in {"caches", "elect"}
          /\ lease' \in {"free", "held"} /\ mgrCache' \in {"off", "syncing", "synced"}
      BY <1>4, <2>2 DEF CachesSync, Elect, Advance, Only, IInv, TypeOK, clusterVars
    <3>2. TypeOK'
      BY <3>1 DEF IInv, TypeOK, Started, Steps
    <3>3. Quiet' /\ Hijacked' /\ Full' /\ Requested'
      BY <3>1 DEF IInv, Quiet, Running, Hijacked, Wired, Full, Requested
    <3> QED BY <3>2, <3>3 DEF IInv
  <2> QED BY <2>1, <2>2
<1>5. CASE Exit
  BY <1>5, ExitInvariant
<1>6. CASE Expire
  BY <1>6, StepInvariant DEF Expire, Only, IInv, TypeOK
<1>7. CASE ContextStart \/ (\E f \in Factories : StartFactory(f)) \/ StartMonitors \/ Sync
  BY <1>7, GoroutineInvariant
<1>8. CASE \E i \in Informers : Fill(i)
  BY <1>8, FillInvariant
<1>9. CASE Work
  BY <1>9, StepInvariant DEF Work, IInv, TypeOK, clusterVars
<1>10. CASE Recount
  BY <1>10, RecountInvariant
<1>11. CASE SyncOnce
  BY <1>11, StepInvariant DEF SyncOnce, Stored, IInv, TypeOK, clusterVars
<1>12. CASE Deleted \/ Created
  <2>1. crq \in BOOLEAN /\ deletions \in 0 .. MaxDeletions /\ MaxDeletions \in Nat
    BY DeletionsAssumption DEF IInv, TypeOK
  <2>2. CASE Deleted
    <3>1. crq' = FALSE /\ deletions < MaxDeletions /\ deletions' = deletions + 1
      BY <2>2 DEF Deleted
    <3>2. crq' \in BOOLEAN
      BY <3>1
    <3>3. deletions' \in 0 .. MaxDeletions
      BY <2>1, <3>1
    <3> QED BY <2>2, <3>2, <3>3, StepInvariant DEF Deleted, processVars, IInv, TypeOK
  <2>3. CASE Created
    <3>1. crq' \in BOOLEAN
      BY <2>3 DEF Created
    <3> QED BY <2>1, <2>3, <3>1, StepInvariant DEF Created, processVars, IInv, TypeOK
  <2> QED BY <1>12, <2>2, <2>3
<1>13. CASE UNCHANGED vars
  BY <1>13, StepInvariant DEF vars, processVars, clusterVars, IInv, TypeOK
<1> QED
  BY <1>1, <1>2, <1>3, <1>4, <1>5, <1>6, <1>7, <1>8, <1>9, <1>10, <1>11, <1>12,
     <1>13
  DEF Next, SetupSteps
-----------------------------------------------------------------------------
LEMMA SpecInvariant == Spec => []IInv
<1> QED BY InitInvariant, NextInvariant, PTL DEF Spec

(* Every variable keeps its type, and only informers that run have stored
   anything, however often the process ends and starts again. *)
THEOREM StartTypes == Spec => []TypeOK
<1>1. IInv => TypeOK
  BY DEF IInv
<1> QED BY <1>1, SpecInvariant, PTL

(* While the program starts, the plugin answers from the stored quota or
   refuses: it never takes a store that is still empty for a namespace without
   a quota, and never meets an object of the wrong type. *)
THEOREM QuotaAlwaysSeen == Spec => []QuotaSeen
<1>1. ASSUME IInv PROVE QuotaSeen
  <2>1. CASE ~ Serving("validate")
    BY <2>1 DEF PluginAnswer, QuotaSeen
  <2>2. CASE Serving("validate")
    <3>1. /\ lister = <<"hijacked", "resourcequotas">> /\ client = "hijacked"
          /\ "resourcequotas" \in factories["hijacked"].converts
      BY <2>2, <1>1 DEF IInv, Hijacked, Wired, Serving
    <3>2. LiveList = {"quota"} /\ Listed(lister) = {"quota"}
      BY <3>1 DEF LiveList, Supported, Listed
    <3>3. Checked \in {"refused", "checked"}
      BY DEF Checked
    <3>4. CASE store[lister] # {}
      BY <2>2, <3>1, <3>3, <3>4 DEF PluginAnswer, QuotaSeen
    <3>5. CASE store[lister] = {}
      <4>1. lister \notin synced
        BY <1>1, <3>2, <3>5 DEF IInv, Full
      <4> QED BY <2>2, <3>2, <3>3, <3>5, <4>1 DEF PluginAnswer, QuotaSeen
    <3> QED BY <3>4, <3>5
  <2> QED BY <2>1, <2>2
<1> QED BY <1>1, SpecInvariant, PTL

(* Only Recount writes usages. *)
LEMMA UsageWrites ==
  ASSUME IInv, [Next]_vars, used' # used
  PROVE  used' = Cardinality(Pods)
<1>1. CASE Recount
  BY <1>1, RecountWrites
<1>2. CASE ~ Recount
  BY <1>2
  DEF Next, SetupSteps, vars, NewRootCmd, RunWithConfig, NewClusterResourceQuota,
      NewControllerContext, GetResourceQuotaConfig, NewResourceQuota, Setup, ServeWebhooks,
      CachesSync, Elect, Only, Exit, Expire, Deleted, Created, ContextStart, StartFactory, Fill, StartMonitors,
      Sync, Work, SyncOnce
<1> QED BY <1>1, <1>2

(* A usage is replaced only by the number of the pods there are: not by what a
   half-filled store, or one that does not run, has. *)
THEOREM UsageWrittenTrue == Spec => UsageTrue
<1>1. IInv /\ [Next]_vars => [used' # used => used' = Cardinality(Pods)]_vars
  BY UsageWrites
<1> QED BY <1>1, SpecInvariant, PTL DEF Spec, UsageTrue
=============================================================================
