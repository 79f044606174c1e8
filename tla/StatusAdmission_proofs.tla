----------------------- MODULE StatusAdmission_proofs -----------------------
(***************************************************************************)
(* Proofs about StatusAdmission, for any namespaces, limits, calls, cache  *)
(* objects, number of attempts and choice of Faults.                       *)
(***************************************************************************)
EXTENDS StatusAdmission, UsageTheorems

(* The values that stand for nothing have the types of their variables. *)
LEMMA ZeroTypes ==
  /\ ZeroQuota \in ClusterQuotas
  /\ NoUpdate \in Updates
  /\ NoEntries \in [Namespaces -> Entries]
  /\ NoList \in [Namespaces -> ResourceQuotas]
<1>1. 0 \in Amounts
  BY MaxUsedAssumption DEF Amounts
<1>2. (CHOOSE n \in Namespaces : TRUE) \in Namespaces
  BY NamespacesAssumption
<1> QED
  BY <1>1, <1>2
  DEF ZeroQuota, ClusterQuotas, Hards, NoUpdate, Updates, NoEntries, NoEntry, Entries,
      NoList, ResourceQuotas

(* A write keeps the type of what it writes. *)
LEMMA RewrittenType ==
  /\ \A old, new \in ClusterQuotas : Rewritten(old, new) \in ClusterQuotas
  /\ \A old, new \in ResourceQuotas : Rewritten(old, new) \in ResourceQuotas
BY DEF Rewritten, ClusterQuotas, ResourceQuotas

(* So does each edit of an object or of an entry. *)
LEMMA EditType ==
  /\ \A q \in ClusterQuotas, limit \in Hards :
       /\ [q EXCEPT !.spec = limit, !.rv = @ + 1] \in ClusterQuotas
       /\ [q EXCEPT !.exists = FALSE, !.rv = @ + 1] \in ClusterQuotas
       /\ \A hard \in Hards :
            [q EXCEPT !.exists = TRUE, !.spec = limit, !.hard = hard] \in ClusterQuotas
  /\ \A q \in ResourceQuotas, used \in Amounts : [q EXCEPT !.used = used] \in ResourceQuotas
  /\ \A e \in Entries : [e EXCEPT !.age = "old"] \in Entries
<1>1. ASSUME NEW q \in ClusterQuotas, NEW limit \in Hards
      PROVE  [q EXCEPT !.spec = limit, !.rv = q.rv + 1] \in ClusterQuotas
  <2>1. q.rv + 1 \in Nat
    BY DEF ClusterQuotas
  <2>2. \A rv \in Nat : [q EXCEPT !.spec = limit, !.rv = rv] \in ClusterQuotas
    BY DEF ClusterQuotas
  <2> QED
    BY <2>1, <2>2
<1>4. ASSUME NEW q \in ClusterQuotas
      PROVE  [q EXCEPT !.exists = FALSE, !.rv = q.rv + 1] \in ClusterQuotas
  <2>1. q.rv + 1 \in Nat
    BY DEF ClusterQuotas
  <2>2. \A rv \in Nat : [q EXCEPT !.exists = FALSE, !.rv = rv] \in ClusterQuotas
    BY DEF ClusterQuotas
  <2> QED
    BY <2>1, <2>2
<1>5. ASSUME NEW q \in ClusterQuotas, NEW limit \in Hards, NEW hard \in Hards
      PROVE  [q EXCEPT !.exists = TRUE, !.spec = limit, !.hard = hard] \in ClusterQuotas
  BY DEF ClusterQuotas
<1>2. \A q \in ResourceQuotas, used \in Amounts : [q EXCEPT !.used = used] \in ResourceQuotas
  BY DEF ResourceQuotas
<1>3. \A e \in Entries : [e EXCEPT !.age = "old"] \in Entries
  BY DEF Entries
<1> QED
  BY <1>1, <1>2, <1>3, <1>4, <1>5

LEMMA WithUsageType ==
  ASSUME NEW q \in ClusterQuotas, NEW n \in Namespaces, NEW used \in Amounts, NEW sum \in Int
  PROVE  WithUsage(q, n, used, sum) \in ClusterQuotas
BY DEF WithUsage, ClusterQuotas

LEMMA SetEntryType ==
  ASSUME quotas \in [Objects -> [Namespaces -> Entries]],
         NEW o, NEW n \in Namespaces, NEW entry \in Entries, SetEntry(o, n, entry)
  PROVE  quotas' \in [Objects -> [Namespaces -> Entries]]
<1>1. CASE o \in Objects
  <2>1. [quotas[o] EXCEPT ![n] = entry] \in [Namespaces -> Entries]
    BY <1>1
  <2> QED
    BY <1>1, <2>1 DEF SetEntry
<1>2. CASE o \notin Objects
  BY <1>2 DEF SetEntry
<1> QED
  BY <1>1, <1>2

(* What validate leaves behind when it returns. *)
LEMMA ReturnType ==
  ASSUME TypeOK, NEW r \in Requests, NEW phase \in Phases \ ({"lock"} \cup Critical),
         Return(r, phase)
  PROVE  /\ pc' \in [Requests -> Phases]
         /\ lock' \in [Objects -> Requests \cup {NoRequest}]
         /\ ptr' \in [Requests -> Objects \cup {NoObject}]
         /\ snap' \in [Requests -> ClusterQuotas]
         /\ unread' \in [Requests -> SUBSET Namespaces]
         /\ total' \in [Requests -> Int]
         /\ \A s \in Requests : ptr'[s] # NoObject <=> pc'[s] \in {"lock"} \cup Critical
<1>1. /\ pc' = [pc EXCEPT ![r] = phase]
      /\ ptr' = [ptr EXCEPT ![r] = NoObject]
  BY DEF Return, Goto
<1>2. \A s \in Requests : ptr'[s] # NoObject <=> pc'[s] \in {"lock"} \cup Critical
  BY <1>1 DEF TypeOK
<1>3. lock' \in [Objects -> Requests \cup {NoRequest}]
  BY DEF Return, Unlock, TypeOK, CacheTypeOK
<1>4. snap' \in [Requests -> ClusterQuotas]
  BY ZeroTypes DEF Return, TypeOK
<1>5. unread' \in [Requests -> SUBSET Namespaces] /\ total' \in [Requests -> Int]
  BY DEF Return, TypeOK
<1> QED
  BY <1>1, <1>2, <1>3, <1>4, <1>5 DEF TypeOK

(* The steps of a call. *)
LEMMA HandlerType ==
  ASSUME TypeOK, NEW r \in Requests, Handler(r)
  PROVE  TypeOK'
<1> USE NoObjectAssumption DEF TypeOK, ApiTypeOK, CacheTypeOK, Critical
<1>1. CASE Call(r)
  <2> PICK o \in Objects : GetOrCreate(o, Held) /\ ptr' = [ptr EXCEPT ![r] = o]
    BY <1>1 DEF Call
  <2>1. cur' \in Objects \cup {NoObject} /\ quotas' \in [Objects -> [Namespaces -> Entries]]
    BY ZeroTypes DEF GetOrCreate
  <2> QED
    BY <1>1, <2>1 DEF Call, Goto, Phases, apiVars, syncVars
<1>2. CASE Lock(r)
  BY <1>2 DEF Lock, Goto, Phases, apiVars, syncVars
<1>3. CASE GetQuota(r)
  BY <1>3 DEF GetQuota, Goto, Phases, apiVars, cacheVars, syncVars
<1>4. CASE QuotaNotFound(r)
  BY <1>4, ReturnType DEF QuotaNotFound, Phases, apiVars, syncVars
<1>5. CASE GetFails(r)
  BY <1>5, ReturnType DEF GetFails, Phases, apiVars, syncVars
<1>6. ASSUME NEW n \in Namespaces, Add(r, n)
      PROVE  TypeOK'
  <2>1. quotas[ptr[r]][n].used \in Int
    BY <1>6, MaxUsedAssumption DEF Add, Entries, Amounts
  <2> QED
    BY <1>6, <2>1 DEF Add, apiVars, cacheVars, syncVars
<1>7. CASE Admit(r)
  <2>1. NewTotal(r) \in Int
    BY <1>7, MaxUsedAssumption DEF Admit, NewTotal, Entries, Updates, Amounts
  <2> QED
    BY <1>7, <2>1 DEF Admit, Goto, Phases, apiVars, cacheVars, syncVars
<1>8. CASE Deny(r)
  BY <1>8, ReturnType DEF Deny, Phases, apiVars, syncVars
<1>9. CASE UpdateStatus(r)
  BY <1>9, WithUsageType, RewrittenType
  DEF UpdateStatus, WriteStatus, Updates, Goto, Phases, informerVars, cacheVars, syncVars
<1>10. CASE Conflict(r)
  <2>1. CASE tries[r] < MaxAttempts
    <3>1. tries' \in [Requests -> 0 .. MaxAttempts]
      BY <1>10, <2>1, MaxAttemptsAssumption DEF Conflict
    <3> QED
      BY <1>10, <2>1, <3>1, ReturnType DEF Conflict, Phases, apiVars, syncVars
  <2>2. CASE ~ tries[r] < MaxAttempts
    BY <1>10, <2>2, ReturnType DEF Conflict, Phases, apiVars, syncVars
  <2> QED
    BY <2>1, <2>2
<1>11. CASE UpdateFails(r)
  <2>1. WithUsage(snap[r], req[r].ns, req[r].used, total[r]) \in ClusterQuotas
    BY WithUsageType DEF Updates
  <2>2. crq' \in ClusterQuotas
    BY <1>11, <2>1, RewrittenType DEF UpdateFails, WriteStatus
  <2> QED
    BY <1>11, <2>2, ReturnType DEF UpdateFails, Phases, informerVars, syncVars
<1>12. CASE Record(r)
  BY <1>12, ReturnType DEF Record, SetEntry, Fresh, Entries, Updates, Phases, apiVars, syncVars
<1> QED
  BY <1>1, <1>2, <1>3, <1>4, <1>5, <1>6, <1>7, <1>8, <1>9, <1>10, <1>11, <1>12 DEF Handler

(* The steps of the API server for a call. *)
LEMMA ServerType ==
  ASSUME TypeOK, NEW r \in Requests, Server(r)
  PROVE  TypeOK'
<1> USE DEF TypeOK, ApiTypeOK, CacheTypeOK, Critical
<1>1. CASE Arrive(r)
  <2>1. req' \in [Requests -> Updates]
    <3>1. PICK n \in Namespaces, used \in Amounts, privileged \in BOOLEAN, dryRun \in BOOLEAN :
            req' = [req EXCEPT ![r] = [ns |-> n, used |-> used, rv |-> rq[n].rv,
                                       privileged |-> privileged, dryRun |-> dryRun]]
      BY <1>1 DEF Arrive
    <3>2. rq[n].rv \in Nat
      BY DEF ResourceQuotas
    <3> QED
      BY <3>1, <3>2 DEF Updates
  <2>2. tries' \in [Requests -> 0 .. MaxAttempts]
    BY <1>1, MaxAttemptsAssumption DEF Arrive
  <2> QED
    BY <1>1, <2>1, <2>2 DEF Arrive, Goto, Phases, apiVars, cacheVars, syncVars
<1>2. CASE Commit(r)
  <2>1. rq' \in [Namespaces -> ResourceQuotas]
    <3>1. [rq[req[r].ns] EXCEPT !.used = req[r].used] \in ResourceQuotas
      BY EditType DEF Updates
    <3>2. Rewritten(rq[req[r].ns], [rq[req[r].ns] EXCEPT !.used = req[r].used]) \in ResourceQuotas
      BY <3>1, RewrittenType DEF Updates
    <3> QED
      BY <1>2, <3>2 DEF Commit, StoreUsed
  <2> QED
    BY <1>2, <2>1 DEF Commit, Goto, Answers, Phases, informerVars, cacheVars, syncVars
<1>3. CASE Discard(r)
  BY <1>3 DEF Discard, Goto, Answers, Phases, apiVars, cacheVars, syncVars
<1>4. CASE TimeOut(r)
  BY <1>4 DEF TimeOut, apiVars, cacheVars, syncVars
<1> QED
  BY <1>1, <1>2, <1>3, <1>4 DEF Server

(* The steps of the informers, of the controller and of time. *)
LEMMA EnvironmentType ==
  ASSUME TypeOK, Environment
  PROVE  TypeOK'
<1>1. ASSUME ApiNext
      PROVE  ApiTypeOK'
  <2> USE <1>1 DEF TypeOK, ApiTypeOK
  <2>1. CASE InformCRQ
    BY <2>1 DEF InformCRQ
  <2>2. CASE InformRQ
    BY <2>2 DEF InformRQ
  <2>3. ASSUME NEW limit \in Limits, Respec(limit)
        PROVE  ApiTypeOK'
    <3>1. [crq EXCEPT !.spec = limit, !.rv = @ + 1] \in ClusterQuotas
      BY EditType DEF Hards
    <3> QED
      BY <2>3, <3>1 DEF Respec, informerVars
  <2>4. ASSUME NEW usages \in [Namespaces -> Amounts], ReconcileStatus(usages)
        PROVE  ApiTypeOK'
    <3>1. Total(usages) \in Int
      BY TotalType
    <3>2. [crqSeen EXCEPT !.hard = crqSeen.spec, !.used = Total(usages),
                          !.byNs = usages] \in ClusterQuotas
      BY <3>1 DEF ClusterQuotas
    <3> QED
      BY <2>4, <3>2, RewrittenType DEF ReconcileStatus, informerVars
  <2>5. ASSUME NEW n \in Namespaces, CreateQuota(n) \/ CollectQuota(n)
        PROVE  ApiTypeOK'
    <3>1. \A there \in BOOLEAN :
            [exists |-> there, rv |-> rq[n].rv + 1, used |-> 0] \in ResourceQuotas
      BY MaxUsedAssumption DEF ResourceQuotas, Amounts
    <3> QED
      BY <2>5, <3>1 DEF CreateQuota, CollectQuota, informerVars
  <2>6. CASE DeleteClusterQuota
    <3>1. Unlimited \in Hards
      BY DEF Hards
    <3>2. [crq EXCEPT !.exists = FALSE, !.rv = @ + 1] \in ClusterQuotas
      BY <3>1, EditType
    <3> QED
      BY <2>6, <3>2 DEF DeleteClusterQuota, informerVars
  <2> QED
    BY <2>1, <2>2, <2>3, <2>4, <2>5, <2>6 DEF ApiNext
<1>2. ASSUME NEW n \in Namespaces, Expire(n)
      PROVE  CacheTypeOK'
  <2>1. [quotas[cur][n] EXCEPT !.age = "old"] \in Entries
    <3>1. quotas[cur][n] \in Entries
      BY <1>2 DEF Expire, TypeOK, CacheTypeOK
    <3> QED
      BY <3>1, EditType
  <2> QED
    BY <1>2, <2>1 DEF Expire, SetEntry, TypeOK, CacheTypeOK, syncVars
<1> QED
  BY <1>1, <1>2
  DEF Environment, TypeOK, ApiTypeOK, CacheTypeOK, apiVars, cacheVars, syncVars, handlerVars

(* The steps of Sync. *)
LEMMA SyncType ==
  ASSUME TypeOK, Sync
  PROVE  TypeOK'
<1> USE DEF TypeOK, ApiTypeOK, CacheTypeOK, SyncReturns
<1>1. CacheTypeOK'
  <2>1. CASE SyncList
    BY <2>1 DEF SyncList, cacheVars
  <2>2. CASE SyncDrop
    BY <2>2, ZeroTypes DEF SyncDrop
  <2>3. ASSUME NEW o \in Objects, SyncNew(o, Held)
        PROVE  CacheTypeOK'
    <3>1. [n \in Namespaces |-> IF n \in Listed THEN Fresh(list[n].used) ELSE NoEntry]
            \in [Namespaces -> Entries]
      BY MaxUsedAssumption DEF Fresh, NoEntry, Entries, ResourceQuotas, Amounts
    <3> QED
      BY <2>3, <3>1, ZeroTypes DEF SyncNew
  <2>4. CASE SyncMerge
    BY <2>4 DEF SyncMerge, Listed, cacheVars
  <2>5. ASSUME NEW n \in Namespaces, MergeEntry(n)
        PROVE  CacheTypeOK'
    <3>1. Fresh(list[n].used) \in Entries /\ NoEntry \in Entries
      BY MaxUsedAssumption DEF Fresh, NoEntry, Entries, ResourceQuotas, Amounts
    <3> QED
      <4>1. ASSUME SetEntry(cur, n, NoEntry) \/ SetEntry(cur, n, Fresh(list[n].used))
            PROVE  quotas' \in [Objects -> [Namespaces -> Entries]]
        BY <3>1, <4>1, SetEntryType
      <4>2. quotas' \in [Objects -> [Namespaces -> Entries]]
        BY <2>5, <4>1 DEF MergeEntry
      <4>3. left' \subseteq Namespaces /\ updated' \subseteq Namespaces
        BY <2>5 DEF MergeEntry
      <4>4. cur' = cur /\ lock' = lock /\ list' = list /\ syncPc' = syncPc
        BY <2>5 DEF MergeEntry
      <4> QED
        BY <4>2, <4>3, <4>4
  <2>6. ASSUME NEW n \in Namespaces, CopyEntry(n)
        PROVE  CacheTypeOK'
    <3>1. Fresh(list[n].used) \in Entries
      BY DEF Fresh, Entries, ResourceQuotas
    <3> QED
      BY <2>6, <3>1 DEF CopyEntry, SetEntry
  <2>7. CASE SyncEnd
    BY <2>7, ZeroTypes DEF SyncEnd, cacheVars
  <2> QED
    BY <2>1, <2>2, <2>3, <2>4, <2>5, <2>6, <2>7 DEF Sync, SyncStep
<1> QED
  BY <1>1 DEF Sync, apiVars, handlerVars

LEMMA CrashType ==
  ASSUME TypeOK, Crash
  PROVE  TypeOK'
BY ZeroTypes
DEF Crash, TypeOK, ApiTypeOK, CacheTypeOK, SyncReturns, storedVars, Phases, Running, Critical

(* Every variable has its type, and a call has a cache object exactly while
   validate works on one. *)
THEOREM TypeCorrect == Spec => []TypeOK
<1>1. Init => TypeOK
  <2> SUFFICES ASSUME Init PROVE TypeOK
    OBVIOUS
  <2>1. ApiTypeOK
    <3>1. crq \in ClusterQuotas
      <4>1. PICK limit \in Limits, hard \in Hards :
              crq = [ZeroQuota EXCEPT !.exists = TRUE, !.spec = limit, !.hard = hard]
        BY DEF Init, ApiInit, Hards
      <4>2. limit \in Hards
        BY DEF Hards
      <4> QED
        BY <4>1, <4>2, ZeroTypes, EditType
    <3>2. rq \in [Namespaces -> ResourceQuotas]
      BY MaxUsedAssumption DEF Init, ApiInit, ResourceQuotas, Amounts
    <3> QED
      BY <3>1, <3>2 DEF Init, ApiInit, ApiTypeOK
  <2>2. CacheTypeOK
    BY ZeroTypes DEF Init, CacheInit, CacheTypeOK
  <2> QED
    BY <2>1, <2>2, ZeroTypes, MaxAttemptsAssumption DEF Init, TypeOK, Phases, Critical
<1>2. TypeOK /\ [Next]_vars => TypeOK'
  <2> SUFFICES ASSUME TypeOK, [Next]_vars PROVE TypeOK'
    OBVIOUS
  <2>1. CASE UNCHANGED vars
    BY <2>1
    DEF vars, apiVars, cacheVars, syncVars, handlerVars, TypeOK, ApiTypeOK, CacheTypeOK
  <2> QED
    BY <2>1, HandlerType, ServerType, SyncType, EnvironmentType, CrashType DEF Next, Idle
<1> QED
  BY <1>1, <1>2, PTL DEF Spec

-----------------------------------------------------------------------------
(* A call changes the locals of no other call. *)
LEMMA OthersKeep ==
  ASSUME TypeOK, NEW r \in Requests, Handler(r) \/ Server(r), NEW s \in Requests, s # r
  PROVE  pc'[s] = pc[s] /\ ptr'[s] = ptr[s] /\ snap'[s] = snap[s]
         /\ total'[s] = total[s] /\ req'[s] = req[s] /\ unread'[s] = unread[s]
<1> USE DEF TypeOK, Goto
<1>1. CASE Call(r) \/ Lock(r) \/ GetQuota(r) \/ Admit(r) \/ UpdateStatus(r)
  BY <1>1 DEF Call, Lock, GetQuota, Admit, UpdateStatus
<1>2. ASSUME NEW phase, Return(r, phase)
      PROVE  pc'[s] = pc[s] /\ ptr'[s] = ptr[s] /\ snap'[s] = snap[s] /\ total'[s] = total[s]
             /\ unread'[s] = unread[s]
  BY <1>2 DEF Return
<1>3. CASE QuotaNotFound(r) \/ GetFails(r) \/ Deny(r) \/ Conflict(r) \/ UpdateFails(r) \/ Record(r)
  BY <1>2, <1>3 DEF QuotaNotFound, GetFails, Deny, Conflict, UpdateFails, Record
<1>4. ASSUME NEW n \in Namespaces, Add(r, n)
      PROVE  pc'[s] = pc[s] /\ ptr'[s] = ptr[s] /\ snap'[s] = snap[s]
             /\ total'[s] = total[s] /\ req'[s] = req[s] /\ unread'[s] = unread[s]
  BY <1>4 DEF Add
<1>5. CASE Arrive(r)
  <2>1. /\ \E call : req' = [req EXCEPT ![r] = call]
        /\ Goto(r, "call")
        /\ UNCHANGED <<ptr, snap, unread, total>>
    BY <1>5 DEF Arrive
  <2> QED
    BY <2>1
<1>6. CASE Commit(r) \/ Discard(r) \/ TimeOut(r)
  BY <1>6 DEF Commit, Discard, TimeOut
<1> QED
  BY <1>1, <1>3, <1>4, <1>5, <1>6 DEF Handler, Server

(* The steps of a call, by what they do to the critical section. *)
LEMMA CallStep ==
  ASSUME TypeOK, NEW r \in Requests, Handler(r) \/ Server(r)
  PROVE  \/ Lock(r)
         \/ \E phase \in Phases \ ({"lock"} \cup Critical) : Return(r, phase) /\ pc[r] \in Critical
         \/ /\ UNCHANGED lock
            /\ pc[r] \in Critical /\ pc'[r] \in Critical /\ ptr'[r] = ptr[r]
         \/ UNCHANGED lock /\ pc[r] \notin Critical /\ pc'[r] \notin Critical
<1> USE DEF TypeOK, Goto, Critical
<1>1. CASE Call(r) \/ Arrive(r) \/ Commit(r) \/ Discard(r)
  BY <1>1 DEF Call, Arrive, Commit, Discard, Answers, cacheVars
<1>2. CASE GetQuota(r) \/ Admit(r) \/ UpdateStatus(r)
  BY <1>2 DEF GetQuota, Admit, UpdateStatus, cacheVars
<1>3. CASE QuotaNotFound(r) \/ GetFails(r) \/ Deny(r) \/ UpdateFails(r) \/ Record(r)
  BY <1>3 DEF QuotaNotFound, GetFails, Deny, UpdateFails, Record, Phases
<1>4. CASE Conflict(r)
  BY <1>4 DEF Conflict, Phases
<1>5. ASSUME NEW n \in Namespaces, Add(r, n)
      PROVE  UNCHANGED lock /\ pc[r] \in Critical /\ pc'[r] \in Critical /\ ptr'[r] = ptr[r]
  BY <1>5 DEF Add, cacheVars
<1>6. CASE TimeOut(r)
  BY <1>6 DEF TimeOut, cacheVars
<1> QED
  BY <1>1, <1>2, <1>3, <1>4, <1>5, <1>6 DEF Handler, Server

(* Two calls never work on the same Quotas map at the same time, however the
   cache objects are dropped and made anew under them. *)
THEOREM LockCorrect == Spec => []LockExclusive
<1>1. Init => LockExclusive
  BY NoRequestAssumption DEF Init, CacheInit, LockExclusive, Critical
<1>2. TypeOK /\ LockExclusive /\ [Next]_vars => LockExclusive'
  <2> SUFFICES ASSUME TypeOK, LockExclusive, [Next]_vars PROVE LockExclusive'
    OBVIOUS
  <2> USE DEF LockExclusive
  <2>1. ASSUME NEW r \in Requests, Handler(r) \/ Server(r)
        PROVE  LockExclusive'
    <3> DEFINE Rest(s) == pc'[s] = pc[s] /\ ptr'[s] = ptr[s]
    <3>1. \A s \in Requests : s # r => Rest(s)
      BY <2>1, OthersKeep
    <3>2. CASE Lock(r)
      BY <3>1, <3>2, NoRequestAssumption DEF Lock, Goto, TypeOK, CacheTypeOK, Critical
    <3>3. ASSUME NEW phase \in Phases \ ({"lock"} \cup Critical),
                 Return(r, phase), pc[r] \in Critical
          PROVE  LockExclusive'
      BY <3>1, <3>3, NoRequestAssumption DEF Return, Goto, Unlock, TypeOK, CacheTypeOK
    <3>4. CASE UNCHANGED lock /\ pc[r] \in Critical /\ pc'[r] \in Critical /\ ptr'[r] = ptr[r]
      <4>1. \A s \in Requests : (pc'[s] \in Critical <=> pc[s] \in Critical) /\ ptr'[s] = ptr[s]
        BY <3>1, <3>4
      <4>2. \A o \in Objects : lock[o] # NoRequest => lock[o] \in Requests
        BY DEF TypeOK, CacheTypeOK
      <4> QED
        BY <3>4, <4>1, <4>2
    <3>5. CASE UNCHANGED lock /\ pc[r] \notin Critical /\ pc'[r] \notin Critical
      <4>1. \A s \in Requests : pc'[s] \in Critical => s # r /\ pc[s] \in Critical /\ ptr'[s] = ptr[s]
        BY <3>1, <3>5
      <4>2. \A o \in Objects : lock[o] # NoRequest => lock[o] \in Requests \ {r}
        BY <3>5 DEF TypeOK, CacheTypeOK
      <4> QED
        BY <3>1, <3>5, <4>1, <4>2
    <3> QED
      BY <2>1, <3>2, <3>3, <3>4, <3>5, CallStep
  <2>2. CASE Sync
    BY <2>2 DEF Sync, SyncStep, SyncList, SyncDrop, SyncNew, SyncMerge, MergeEntry, CopyEntry,
                SyncEnd, cacheVars, handlerVars
  <2>3. CASE Environment
    BY <2>3 DEF Environment, Expire, cacheVars, handlerVars
  <2>4. CASE Crash
    <3>1. \A s \in Requests : pc'[s] \notin Critical
      BY <2>4 DEF Crash, Running, TypeOK, Phases, Critical
    <3>2. \A o \in Objects : lock'[o] = NoRequest
      BY <2>4 DEF Crash
    <3> QED
      BY <3>1, <3>2
  <2>5. CASE UNCHANGED vars
    BY <2>5 DEF vars, cacheVars, handlerVars
  <2> QED
    BY <2>1, <2>2, <2>3, <2>4, <2>5 DEF Next, Idle
<1> QED
  BY <1>1, <1>2, TypeCorrect, PTL DEF Spec

-----------------------------------------------------------------------------
(* The CRQ changes together with its version. *)
LEMMA VersionMoves ==
  ASSUME TypeOK, [Next]_vars
  PROVE  crq' = crq \/ crq'.rv = crq.rv + 1
<1>1. \A new \in ClusterQuotas :
        crq' = Rewritten(crq, new) => crq' = crq \/ crq'.rv = crq.rv + 1
  BY DEF Rewritten, ClusterQuotas
<1>2. ASSUME NEW r \in Requests, Handler(r)
      PROVE  crq' = crq \/ crq'.rv = crq.rv + 1
  <2>1. CASE UpdateStatus(r) \/ UpdateFails(r)
    <3>1. WithUsage(snap[r], req[r].ns, req[r].used, total[r]) \in ClusterQuotas
      BY WithUsageType DEF TypeOK, Updates
    <3> QED
      BY <1>1, <2>1, <3>1 DEF UpdateStatus, UpdateFails, WriteStatus
  <2>2. CASE Call(r) \/ Lock(r) \/ GetQuota(r) \/ QuotaNotFound(r) \/ GetFails(r)
    BY <2>2 DEF Call, Lock, GetQuota, QuotaNotFound, GetFails, apiVars
  <2>3. CASE Admit(r) \/ Deny(r) \/ Conflict(r) \/ Record(r)
    BY <2>3 DEF Admit, Deny, Conflict, Record, apiVars
  <2>4. ASSUME NEW n \in Namespaces, Add(r, n)
        PROVE  crq' = crq
    BY <2>4 DEF Add, apiVars
  <2> QED
    BY <1>2, <2>1, <2>2, <2>3, <2>4 DEF Handler
<1>3. ASSUME NEW r \in Requests, Server(r)
      PROVE  crq' = crq
  BY <1>3 DEF Server, Arrive, Commit, Discard, TimeOut, apiVars
<1>4. ASSUME ApiNext
      PROVE  crq' = crq \/ crq'.rv = crq.rv + 1
  <2>1. ASSUME NEW usages \in [Namespaces -> Amounts], ReconcileStatus(usages)
        PROVE  crq' = crq \/ crq'.rv = crq.rv + 1
    <3>1. [crqSeen EXCEPT !.hard = crqSeen.spec, !.used = Total(usages),
                          !.byNs = usages] \in ClusterQuotas
      <4>1. Total(usages) \in Int
        BY TotalType
      <4> QED
        BY <4>1 DEF TypeOK, ApiTypeOK, ClusterQuotas
    <3> QED
      BY <1>1, <2>1, <3>1 DEF ReconcileStatus
  <2>2. ASSUME NEW limit \in Limits, Respec(limit)
        PROVE  crq'.rv = crq.rv + 1
    BY <2>2 DEF Respec, TypeOK, ApiTypeOK, ClusterQuotas
  <2>3. CASE DeleteClusterQuota
    BY <2>3 DEF DeleteClusterQuota, TypeOK, ApiTypeOK, ClusterQuotas
  <2> QED
    BY <1>4, <2>1, <2>2, <2>3 DEF ApiNext, InformCRQ, InformRQ, CreateQuota, CollectQuota
<1>5. CASE Sync \/ Crash \/ UNCHANGED vars \/ (Environment /\ ~ ApiNext)
  BY <1>5 DEF Sync, Crash, Environment, vars, apiVars, storedVars
<1> QED
  BY <1>2, <1>3, <1>4, <1>5 DEF Next, Idle, Environment

(* So a copy that matches its version still does after any step. *)
LEMMA CopyKept ==
  ASSUME TypeOK, [Next]_vars, NEW q \in ClusterQuotas, CopyOfStored(q)
  PROVE  CopyOfStored(q)'
<1>1. crq.rv \in Nat /\ q.rv \in Nat
  BY DEF TypeOK, ApiTypeOK, ClusterQuotas
<1> QED
  BY <1>1, VersionMoves DEF CopyOfStored

(* A copy comes from the informer, and the informer's from the store. *)
LEMMA CopiesFrom ==
  ASSUME TypeOK, [Next]_vars
  PROVE  /\ crqSeen' = crqSeen \/ (crqSeen' = crq /\ crq' = crq)
         /\ \A r \in Requests : pc'[r] \in {"sum", "update"} =>
              \/ snap'[r] = crqSeen
              \/ pc[r] \in {"sum", "update"} /\ snap'[r] = snap[r]
<1>1. ASSUME NEW s \in Requests, Handler(s) \/ Server(s)
      PROVE  /\ crqSeen' = crqSeen
             /\ pc'[s] \in {"sum", "update"} =>
                  snap'[s] = crqSeen \/ (pc[s] \in {"sum", "update"} /\ snap'[s] = snap[s])
  <2> USE DEF TypeOK, Goto, apiVars, informerVars
  <2>1. CASE Call(s) \/ Lock(s) \/ UpdateStatus(s) \/ Admit(s) \/ GetQuota(s)
    BY <2>1 DEF Call, Lock, UpdateStatus, Admit, GetQuota
  <2>2. CASE Arrive(s) \/ Commit(s) \/ Discard(s) \/ TimeOut(s)
    BY <2>2 DEF Arrive, Commit, Discard, TimeOut
  <2>3. CASE QuotaNotFound(s) \/ GetFails(s) \/ Deny(s) \/ UpdateFails(s) \/ Record(s)
    BY <2>3 DEF QuotaNotFound, GetFails, Deny, UpdateFails, Record, Return
  <2>4. CASE Conflict(s)
    BY <2>4 DEF Conflict, Return
  <2>5. CASE \E n \in Namespaces : Add(s, n)
    BY <2>5 DEF Add
  <2> QED
    BY <1>1, <2>1, <2>2, <2>3, <2>4, <2>5 DEF Handler, Server
<1>2. CASE \E s \in Requests : Handler(s) \/ Server(s)
  BY <1>1, <1>2, OthersKeep
<1>3. CASE Environment
  <2>1. crqSeen' = crqSeen \/ (crqSeen' = crq /\ crq' = crq)
    BY <1>3 DEF Environment, ApiNext, InformCRQ, InformRQ, Respec, ReconcileStatus, CreateQuota,
                CollectQuota, DeleteClusterQuota, informerVars, apiVars
  <2> QED
    BY <1>3, <2>1 DEF Environment, handlerVars
<1>4. CASE Crash
  BY <1>4 DEF Crash, Running, Critical, storedVars, TypeOK
<1>5. CASE Sync \/ UNCHANGED vars
  BY <1>5 DEF Sync, vars, apiVars, handlerVars
<1> QED
  BY <1>2, <1>3, <1>4, <1>5 DEF Next, Idle

(* Equal versions, equal contents: what makes Status().Update of a copy that
   may be stale an atomic compare-and-set. *)
THEOREM VersionsCorrect == Spec => []VersionsNameContents
<1>1. Init => VersionsNameContents
  <2> SUFFICES ASSUME Init PROVE VersionsNameContents
    OBVIOUS
  <2>1. crqSeen = crq /\ crq.rv = 0 /\ \A r \in Requests : pc[r] = "idle"
    BY DEF Init, ApiInit, ZeroQuota
  <2> QED
    BY <2>1 DEF VersionsNameContents, CopyOfStored
<1>2. TypeOK /\ VersionsNameContents /\ [Next]_vars => VersionsNameContents'
  <2> SUFFICES ASSUME TypeOK, VersionsNameContents, [Next]_vars
               PROVE  VersionsNameContents'
    OBVIOUS
  <2>1. CopyOfStored(crqSeen)'
    <3>1. CASE crqSeen' = crqSeen
      <4>1. crqSeen \in ClusterQuotas /\ CopyOfStored(crqSeen)
        BY DEF TypeOK, ApiTypeOK, VersionsNameContents
      <4> QED
        BY <3>1, <4>1, CopyKept DEF CopyOfStored
    <3>2. CASE crqSeen' = crq /\ crq' = crq
      BY <3>2 DEF CopyOfStored, TypeOK, ApiTypeOK, ClusterQuotas
    <3> QED
      BY <3>1, <3>2, CopiesFrom
  <2>2. ASSUME NEW r \in Requests, pc'[r] \in {"sum", "update"}
        PROVE  CopyOfStored(snap[r])'
    <3>1. PICK q \in ClusterQuotas : snap'[r] = q /\ CopyOfStored(q)
      BY <2>2, CopiesFrom DEF TypeOK, ApiTypeOK, VersionsNameContents
    <3> QED
      BY <3>1, CopyKept DEF CopyOfStored
  <2> QED
    BY <2>1, <2>2 DEF VersionsNameContents
<1> QED
  BY <1>1, <1>2, TypeCorrect, PTL DEF Spec

-----------------------------------------------------------------------------
(* Where a step that stores a CRQ status for a call comes from. *)
LEMMA StoreStep ==
  ASSUME TypeOK, [Next]_vars, NEW r \in Requests,
         pc[r] = "update", pc'[r] # "update", crq' # crq
  PROVE  StatusUpdateLands(snap[r]) /\ WriteStatus(snap[r], req[r].ns, req[r].used, total[r])
<1>1. ASSUME NEW s \in Requests, Handler(s) \/ Server(s)
      PROVE  s = r
  BY <1>1, OthersKeep
<1>2. Handler(r)
  <2>1. ~ UNCHANGED vars /\ ~ Sync /\ ~ Environment /\ ~ Crash
    BY DEF vars, Sync, Environment, Crash, apiVars, handlerVars, storedVars
  <2>2. ~ Server(r)
    BY DEF Server, Arrive, Commit, Discard, TimeOut, Answers, apiVars
  <2> QED
    BY <1>1, <2>1, <2>2 DEF Next, Idle
<1>3. UpdateStatus(r) \/ UpdateFails(r)
  BY <1>2 DEF Handler, Call, Lock, GetQuota, QuotaNotFound, GetFails, Add, Admit, Deny, Conflict,
              Record, apiVars
<1> QED
  BY <1>3 DEF UpdateStatus, UpdateFails

LEMMA CheckedStep ==
  ASSUME TypeOK, CheckedWithinHard, [Next]_vars
  PROVE  CheckedWithinHard'
<1> USE DEF CheckedWithinHard
<1>1. ASSUME NEW s \in Requests, Handler(s) \/ Server(s)
      PROVE  CheckedWithinHard'
  <2>1. CASE Admit(s)
    <3>1. pc'[s] = "update" /\ total'[s] = NewTotal(s) /\ snap' = snap /\ req' = req
      BY <2>1 DEF Admit, Goto, TypeOK
    <3>2. req[s].privileged \/ ~ Exceeds(NewTotal(s), snap[s].hard)
      BY <2>1 DEF Admit, WithinHard
    <3> QED
      BY <1>1, <3>1, <3>2, OthersKeep DEF Exceeds
  <2>2. CASE TimeOut(s)
    BY <2>2 DEF TimeOut, Exceeds
  <2>3. CASE ~ Admit(s) /\ ~ TimeOut(s)
    <3>1. pc'[s] # "update"
      <4> USE DEF TypeOK, Goto
      <4>1. CASE Call(s) \/ Lock(s) \/ UpdateStatus(s) \/ GetQuota(s)
        BY <4>1 DEF Call, Lock, UpdateStatus, GetQuota
      <4>2. CASE Arrive(s) \/ Commit(s) \/ Discard(s)
        BY <4>2 DEF Arrive, Commit, Discard
      <4>3. CASE QuotaNotFound(s) \/ GetFails(s) \/ Deny(s) \/ UpdateFails(s) \/ Record(s)
        BY <4>3 DEF QuotaNotFound, GetFails, Deny, UpdateFails, Record, Return
      <4>4. CASE Conflict(s)
        BY <4>4 DEF Conflict, Return
      <4>5. CASE \E n \in Namespaces : Add(s, n)
        BY <4>5 DEF Add
      <4> QED
        BY <1>1, <2>3, <4>1, <4>2, <4>3, <4>4, <4>5 DEF Handler, Server
    <3> QED
      BY <1>1, <3>1, OthersKeep DEF Exceeds
  <2> QED
    BY <2>1, <2>2, <2>3
<1>2. CASE Crash
  BY <1>2 DEF Crash, Running, Critical, TypeOK
<1>3. CASE Sync \/ Environment \/ UNCHANGED vars
  BY <1>3 DEF Sync, Environment, vars, handlerVars, Exceeds
<1> QED
  BY <1>1, <1>2, <1>3 DEF Next, Idle

(* No status that validate stores puts an old limit back, or passes the limit
   for an unprivileged writer: the compare-and-set carries the check over from
   the copy that it was made on. *)
THEOREM AdmissionCorrect == Spec => AdmittedWithinHard
<1>1. Init => CheckedWithinHard
  BY DEF Init, CheckedWithinHard
<1>2. Spec => []CheckedWithinHard
  BY <1>1, CheckedStep, TypeCorrect, PTL DEF Spec
<1>3. ASSUME TypeOK, VersionsNameContents, CheckedWithinHard, [Next]_vars,
             NEW r \in Requests, pc[r] = "update", pc'[r] # "update", crq' # crq
      PROVE  /\ crq'.hard = crq.hard /\ crq'.spec = crq.spec
             /\ req[r].privileged \/ ~ Exceeds(crq'.used, crq.hard)
  <2>1. snap[r] = crq
    BY <1>3, StoreStep DEF StatusUpdateLands, VersionsNameContents, CopyOfStored
  <2>2. crq' = Rewritten(crq, WithUsage(crq, req[r].ns, req[r].used, total[r]))
    BY <1>3, <2>1, StoreStep DEF WriteStatus
  <2>3. crq'.used = total[r] /\ crq'.hard = crq.hard /\ crq'.spec = crq.spec
    BY <1>3, <2>2 DEF Rewritten, WithUsage, TypeOK, ApiTypeOK, ClusterQuotas
  <2> QED
    BY <1>3, <2>1, <2>3 DEF CheckedWithinHard, Exceeds
<1>4. TypeOK /\ VersionsNameContents /\ CheckedWithinHard /\ [Next]_vars
        => [\A r \in Requests :
              pc[r] = "update" /\ pc'[r] # "update" /\ crq' # crq =>
                /\ crq'.hard = crq.hard /\ crq'.spec = crq.spec
                /\ req[r].privileged \/ ~ Exceeds(crq'.used, crq.hard)]_vars
  BY <1>3
<1> QED
  BY <1>2, <1>4, TypeCorrect, VersionsCorrect, PTL DEF Spec, AdmittedWithinHard

(* A call that works on an old cache object, or on one that knows less than the
   other (cache.go:87 drops it while it is held), writes what it read of the
   other namespaces, which is what is stored: the version that Get returned
   with the copy is compared when the status is stored (statusadmission.go:118). *)
THEOREM OthersAreKept == Spec => OthersKept
<1>1. ASSUME TypeOK, VersionsNameContents, [Next]_vars,
             NEW r \in Requests, pc[r] = "update", pc'[r] # "update", crq' # crq,
             NEW n \in Namespaces \ {req[r].ns}
      PROVE  crq'.byNs[n] = crq.byNs[n]
  <2>1. snap[r] = crq
    BY <1>1, StoreStep DEF StatusUpdateLands, VersionsNameContents, CopyOfStored
  <2>2. crq' = Rewritten(crq, WithUsage(crq, req[r].ns, req[r].used, total[r]))
    BY <1>1, <2>1, StoreStep DEF WriteStatus
  <2>3. crq'.byNs = [crq.byNs EXCEPT ![req[r].ns] = req[r].used]
    BY <1>1, <2>2 DEF Rewritten, WithUsage, TypeOK, ApiTypeOK, ClusterQuotas
  <2> QED
    BY <1>1, <2>3 DEF TypeOK, ApiTypeOK, ClusterQuotas
<1>2. TypeOK /\ VersionsNameContents /\ [Next]_vars
        => [\A r \in Requests :
              pc[r] = "update" /\ pc'[r] # "update" /\ crq' # crq =>
                \A n \in Namespaces \ {req[r].ns} : crq'.byNs[n] = crq.byNs[n]]_vars
  BY <1>1
<1> QED
  BY <1>2, TypeCorrect, VersionsCorrect, PTL DEF Spec, OthersKept
=============================================================================
