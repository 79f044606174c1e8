-------------------- MODULE StatusAdmissionLedger_proofs --------------------
(***************************************************************************)
(* More proofs about StatusAdmission: the sum that a call checks is that   *)
(* of the cache, the two copies of the usage agree, and the admission      *)
(* implements ClusterLedger.  Each holds for any namespaces, limits, calls *)
(* and cache objects, and for the choices of Faults that its theorem       *)
(* assumes.                                                                *)
(***************************************************************************)
EXTENDS StatusAdmission_proofs

LEMMA CountedType ==
  ASSUME TypeOK, NEW o \in Objects
  PROVE  Counted(o) \in UsageMaps /\ \A n \in Namespaces : Counted(o)[n] = quotas[o][n].used
BY DEF TypeOK, CacheTypeOK, Counted, Usages, UsageMaps, Entries

(* A call that is past Lock has a cache object. *)
LEMMA CriticalObject ==
  ASSUME TypeOK, NEW r \in Requests, pc[r] \in Critical
  PROVE  ptr[r] \in Objects
BY DEF TypeOK

-----------------------------------------------------------------------------
(* THE SUM OF THE CACHE *)

(* The entries that the call has added so far. *)
Read(r) == [n \in Namespaces |-> IF n \in unread[r] THEN 0 ELSE Counted(ptr[r])[n]]

Summed(r) ==
  /\ pc[r] = "sum" => total[r] = Total(Read(r))
  /\ pc[r] \in {"update", "record"} =>
       total[r] = Total([Counted(ptr[r]) EXCEPT ![req[r].ns] = req[r].used])

SumsInv == syncPc = "tick" /\ \A r \in Requests : Summed(r)

(* Nobody else changes the entries of a call that is past Lock. *)
LEMMA EntriesKept ==
  ASSUME TypeOK, LockExclusive, NEW r \in Requests, Handler(r) \/ Server(r),
         NEW s \in Requests, s # r, pc[s] \in Critical
  PROVE  quotas'[ptr[s]] = quotas[ptr[s]]
<1>1. ptr[s] \in Objects
  BY CriticalObject
<1>2. CASE Call(r)
  <2>1. PICK o \in Objects : GetOrCreate(o, Held)
    BY <1>2 DEF Call
  <2>2. ptr[s] \in Held
    BY DEF Held
  <2> QED
    BY <1>1, <2>1, <2>2 DEF GetOrCreate, TypeOK, CacheTypeOK
<1>3. CASE Record(r)
  <2>1. lock[ptr[r]] = r /\ lock[ptr[s]] = s
    BY <1>3 DEF Record, LockExclusive, Critical
  <2>2. ptr[r] # ptr[s]
    BY <2>1
  <2> QED
    BY <1>1, <1>3, <2>2 DEF Record, SetEntry, TypeOK, CacheTypeOK
<1>4. CASE Lock(r) \/ GetQuota(r) \/ QuotaNotFound(r) \/ GetFails(r) \/ Admit(r) \/ Deny(r)
  BY <1>4 DEF Lock, GetQuota, QuotaNotFound, GetFails, Admit, Deny, cacheVars
<1>5. CASE UpdateStatus(r) \/ Conflict(r) \/ UpdateFails(r) \/ (\E n \in Namespaces : Add(r, n))
  BY <1>5 DEF UpdateStatus, Conflict, UpdateFails, Add, cacheVars
<1>6. CASE Server(r)
  BY <1>6 DEF Server, Arrive, Commit, Discard, TimeOut, cacheVars
<1> QED
  BY <1>2, <1>3, <1>4, <1>5, <1>6 DEF Handler

(* A call whose locals and entries stay has the sum it had. *)
LEMMA SummedKept ==
  ASSUME NEW r \in Requests, Summed(r), pc'[r] = pc[r],
         pc[r] \in Critical =>
           /\ ptr'[r] = ptr[r] /\ total'[r] = total[r] /\ req'[r] = req[r]
           /\ unread'[r] = unread[r] /\ quotas'[ptr[r]] = quotas[ptr[r]]
  PROVE  Summed(r)'
BY DEF Summed, Read, Counted, Usages, Critical

(* The call's own steps. *)
LEMMA SummedStep ==
  ASSUME TypeOK, LockExclusive, NEW r \in Requests, Summed(r), Handler(r) \/ Server(r)
  PROVE  Summed(r)'
<1> USE DEF TypeOK, Goto
<1>1. CASE GetQuota(r)
  <2>1. pc'[r] = "sum" /\ total'[r] = 0 /\ unread'[r] = Namespaces
    BY <1>1 DEF GetQuota
  <2>2. Read(r)' = [n \in Namespaces |-> 0]
    BY <2>1 DEF Read
  <2> QED
    BY <2>1, <2>2, TotalOfNothing DEF Summed
<1>2. ASSUME NEW n \in Namespaces, Add(r, n)
      PROVE  Summed(r)'
  <2>1. /\ pc[r] = "sum" /\ pc'[r] = "sum" /\ n \in unread[r]
        /\ unread'[r] = unread[r] \ {n} /\ quotas' = quotas /\ ptr' = ptr
        /\ total'[r] = total[r] + quotas[ptr[r]][n].used
    BY <1>2 DEF Add, cacheVars
  <2>2. Counted(ptr[r]) \in UsageMaps /\ Counted(ptr[r])[n] = quotas[ptr[r]][n].used
    BY <2>1, CriticalObject, CountedType DEF Critical
  <2>3. Read(r) \in UsageMaps /\ Read(r)[n] = 0
    BY <2>1, <2>2, MaxUsedAssumption DEF Read, UsageMaps, Amounts
  <2>4. Read(r)' = [Read(r) EXCEPT ![n] = quotas[ptr[r]][n].used]
    <3>1. Counted(ptr[r])' = Counted(ptr[r])
      BY <2>1 DEF Counted
    <3> QED
      BY <2>1, <2>2, <3>1 DEF Read
  <2>5. quotas[ptr[r]][n].used \in Amounts
    BY <2>2 DEF UsageMaps
  <2>6. Total(Read(r)') = Total(Read(r)) - 0 + quotas[ptr[r]][n].used
    BY <2>3, <2>4, <2>5, TotalUpdate
  <2>7. Total(Read(r)) \in Nat /\ quotas[ptr[r]][n].used \in Nat
    BY <2>5, TotalType, MaxUsedAssumption DEF Amounts
  <2> QED
    BY <2>1, <2>6, <2>7 DEF Summed, Total, Units
<1>3. CASE Admit(r)
  <2> DEFINE n == req[r].ns
             after == [Counted(ptr[r]) EXCEPT ![n] = req[r].used]
  <2>1. /\ pc[r] = "sum" /\ pc'[r] = "update" /\ unread[r] = {}
        /\ quotas' = quotas /\ ptr' = ptr /\ req' = req /\ total'[r] = NewTotal(r)
    BY <1>3 DEF Admit, cacheVars
  <2>2. Counted(ptr[r]) \in UsageMaps /\ Counted(ptr[r])[n] = quotas[ptr[r]][n].used
    BY <2>1, CriticalObject, CountedType DEF Critical, Updates
  <2>3. Read(r) = Counted(ptr[r])
    BY <2>1, <2>2 DEF Read, UsageMaps
  <2>4. n \in Namespaces /\ req[r].used \in Amounts
    BY DEF Updates
  <2>5. Total(after) = Total(Counted(ptr[r])) - Counted(ptr[r])[n] + req[r].used
    BY <2>2, <2>4, TotalUpdate
  <2>6. /\ Total(Counted(ptr[r])) \in Nat
        /\ Counted(ptr[r])[n] \in Nat /\ req[r].used \in Nat
    BY <2>2, <2>4, TotalType, MaxUsedAssumption DEF UsageMaps, Amounts
  <2>7. total'[r] = Total(after)
    BY <2>1, <2>2, <2>3, <2>5, <2>6 DEF Summed, NewTotal
  <2>8. after = [Counted(ptr[r]) EXCEPT ![req[r].ns] = req[r].used]'
    BY <2>1 DEF Counted
  <2> QED
    BY <2>1, <2>7, <2>8 DEF Summed, Total, Units
<1>4. CASE UpdateStatus(r)
  BY <1>4 DEF UpdateStatus, Summed, Counted, cacheVars
<1>5. CASE TimeOut(r)
  BY <1>5, SummedKept DEF TimeOut, cacheVars
<1>6. CASE Call(r) \/ Lock(r) \/ Arrive(r) \/ Commit(r) \/ Discard(r)
  BY <1>6 DEF Call, Lock, Arrive, Commit, Discard, Summed
<1>7. CASE QuotaNotFound(r) \/ GetFails(r) \/ Deny(r) \/ Conflict(r) \/ UpdateFails(r) \/ Record(r)
  BY <1>7 DEF QuotaNotFound, GetFails, Deny, Conflict, UpdateFails, Record, Return, Summed
<1> QED
  BY <1>1, <1>2, <1>3, <1>4, <1>5, <1>6, <1>7 DEF Handler, Server

LEMMA SumsStep ==
  ASSUME "sync" \notin Faults, TypeOK, LockExclusive, SumsInv, [Next]_vars
  PROVE  SumsInv'
<1>1. ASSUME NEW r \in Requests, Handler(r) \/ Server(r)
      PROVE  SumsInv'
  <2>1. syncPc' = syncPc
    BY <1>1 DEF Handler, Server, Call, Lock, GetQuota, QuotaNotFound, GetFails, Add, Admit, Deny,
         UpdateStatus, Conflict, UpdateFails, Record, Arrive, Commit, Discard, TimeOut, syncVars
  <2>2. ASSUME NEW s \in Requests, s # r
        PROVE  Summed(s)'
    BY <1>1, <2>2, OthersKeep, EntriesKept, SummedKept DEF SumsInv
  <2>3. Summed(r)'
    BY <1>1, SummedStep DEF SumsInv
  <2> QED
    BY <2>1, <2>2, <2>3 DEF SumsInv
<1>2. ~ Sync
  BY DEF SumsInv, Sync, SyncStep, SyncList, SyncDrop, SyncNew, SyncMerge, MergeEntry, CopyEntry,
         SyncEnd
<1>3. CASE Crash
  BY <1>3 DEF Crash, SyncReturns, Running, Critical, TypeOK, SumsInv, Summed
<1>4. CASE Environment \/ UNCHANGED vars
  <2>1. UNCHANGED <<pc, ptr, total, req, unread, quotas, syncPc>>
    BY <1>4 DEF Environment, Expire, vars, cacheVars, syncVars, handlerVars
  <2> QED
    BY <2>1, SummedKept DEF SumsInv
<1> QED
  BY <1>1, <1>2, <1>3, <1>4 DEF Next, Idle

LEMMA SumsHold == ASSUME "sync" \notin Faults PROVE Spec => []SumsInv
<1>1. Init => SumsInv
  BY DEF Init, CacheInit, SumsInv, Summed
<1>2. TypeOK /\ LockExclusive /\ SumsInv /\ [Next]_vars => SumsInv'
  BY SumsStep
<1> QED
  BY <1>1, <1>2, TypeCorrect, LockCorrect, PTL DEF Spec

(* While Sync does not run, the new total that a call checks against the limit
   and stores in the status is the sum over the cache with the call's own
   update in it: the range over Quotas, the subtraction and the addition of
   validate come to that, although other calls run between the steps. *)
THEOREM SumsCorrect ==
  ASSUME "sync" \notin Faults
  PROVE  Spec => []SumIsOfTheCache
<1>1. SumsInv => SumIsOfTheCache
  BY DEF SumsInv, Summed, SumIsOfTheCache
<1> QED
  BY <1>1, SumsHold, PTL
-----------------------------------------------------------------------------
(* THE TWO COPIES OF THE USAGE *)

(* Faults under which every status that is stored is also recorded. *)
Recorded == Faults \subseteq {"racing", "privileged", "dryrun", "lifecycle"}

(* The map holds one object all the time, and every call works on it. *)
OneObject ==
  /\ syncPc = "tick"
  /\ \A r \in Requests : ptr[r] # NoObject => ptr[r] = cur
  /\ \A r \in Requests : ~ gone[r]

(* What the cache is about to count: the status is one record ahead. *)
CopiesAgree ==
  /\ crq.used = Total(crq.byNs)
  /\ \A r \in Requests : pc[r] = "record" =>
       crq.byNs = [Reserved EXCEPT ![req[r].ns] = req[r].used]
  /\ (\A r \in Requests : pc[r] # "record") => crq.byNs = Reserved

LEMMA NoSyncStep ==
  ASSUME "sync" \notin Faults, syncPc = "tick"
  PROVE  ~ Sync
BY DEF Sync, SyncStep, SyncList, SyncDrop, SyncNew, SyncMerge, MergeEntry, CopyEntry, SyncEnd

LEMMA NoCrashStep ==
  ASSUME "crash" \notin Faults, syncPc = "tick"
  PROVE  ~ Crash
BY DEF Crash, MapRace

LEMMA OneObjectStep ==
  ASSUME Recorded, TypeOK, OneObject, [Next]_vars
  PROVE  OneObject'
<1> USE DEF OneObject
<1>1. ASSUME NEW r \in Requests, Handler(r) \/ Server(r)
      PROVE  OneObject'
  <2>1. syncPc' = syncPc
    BY <1>1 DEF Handler, Server, Call, Lock, GetQuota, QuotaNotFound, GetFails, Add, Admit, Deny,
         UpdateStatus, Conflict, UpdateFails, Record, Arrive, Commit, Discard, TimeOut, syncVars
  <2>2. gone' = gone
    BY <1>1 DEF Recorded, Handler, Server, Call, Lock, GetQuota, QuotaNotFound, GetFails, Add, Admit,
         Deny, UpdateStatus, Conflict, UpdateFails, Record, Arrive, Commit, Discard, TimeOut
  <2>3. CASE Call(r)
    <3>1. PICK o \in Objects : GetOrCreate(o, Held) /\ ptr' = [ptr EXCEPT ![r] = o]
      BY <2>3 DEF Call
    <3>2. cur' = o
      BY <3>1 DEF GetOrCreate
    <3>3. \A s \in Requests : ptr[s] # NoObject => cur' = cur
      BY <3>1, NoObjectAssumption DEF GetOrCreate, TypeOK, CacheTypeOK
    <3> QED
      BY <2>1, <2>2, <3>1, <3>2, <3>3 DEF TypeOK
  <2>4. CASE ~ Call(r)
    <3>1. cur' = cur
      BY <1>1, <2>4 DEF Handler, Server, Lock, GetQuota, QuotaNotFound, GetFails, Add, Admit, Deny,
           UpdateStatus, Conflict, UpdateFails, Record, Arrive, Commit, Discard, TimeOut, cacheVars
    <3>2. ptr'[r] = ptr[r] \/ ptr'[r] = NoObject
      BY <1>1, <2>4 DEF Handler, Server, Lock, GetQuota, QuotaNotFound, GetFails, Add, Admit, Deny,
           UpdateStatus, Conflict, UpdateFails, Record, Arrive, Commit, Discard, TimeOut, Return,
           TypeOK
    <3> QED
      BY <1>1, <2>1, <2>2, <3>1, <3>2, OthersKeep
  <2> QED
    BY <2>3, <2>4
<1>2. ~ Sync /\ ~ Crash
  BY NoSyncStep, NoCrashStep DEF Recorded
<1>3. CASE Environment \/ UNCHANGED vars
  BY <1>3 DEF Environment, Expire, vars, cacheVars, syncVars, handlerVars
<1> QED
  BY <1>1, <1>2, <1>3 DEF Next, Idle

LEMMA OneObjectHolds == ASSUME Recorded PROVE Spec => []OneObject
<1>1. Init => OneObject
  BY DEF Init, CacheInit, OneObject
<1>2. TypeOK /\ OneObject /\ [Next]_vars => OneObject'
  BY OneObjectStep
<1> QED
  BY <1>1, <1>2, TypeCorrect, PTL DEF Spec

(* One object, one lock: one call is past it. *)
LEMMA OneCritical ==
  ASSUME TypeOK, LockExclusive, OneObject,
         NEW r \in Requests, pc[r] \in Critical, NEW s \in Requests, pc[s] \in Critical
  PROVE  r = s
<1>1. ptr[r] = cur /\ ptr[s] = cur
  BY CriticalObject, NoObjectAssumption DEF OneObject
<1> QED
  BY <1>1 DEF LockExclusive

(* What the cache counts changes when a call records, and then to the sum's
   usages. *)
LEMMA ReservedStep ==
  ASSUME Recorded, TypeOK, OneObject, [Next]_vars
  PROVE  \/ Reserved' = Reserved /\ \A r \in Requests : ~ Record(r)
         \/ \E r \in Requests :
              /\ Record(r)
              /\ Reserved' = [Reserved EXCEPT ![req[r].ns] = req[r].used]
<1> USE DEF Reserved
<1>1. ASSUME NEW r \in Requests, Record(r)
      PROVE  Reserved' = [Reserved EXCEPT ![req[r].ns] = req[r].used]
  <2>1. ptr[r] = cur /\ cur \in Objects /\ cur # NoObject
    BY <1>1, CriticalObject, NoObjectAssumption DEF OneObject, Record, Critical
  <2>2. cur' = cur /\ quotas' = [quotas EXCEPT ![cur][req[r].ns] = Fresh(req[r].used)]
    BY <1>1, <2>1 DEF Record, SetEntry
  <2>3. quotas'[cur] = [quotas[cur] EXCEPT ![req[r].ns] = Fresh(req[r].used)]
    BY <2>1, <2>2 DEF TypeOK, CacheTypeOK
  <2>4. Reserved' = Usages(quotas'[cur])
    BY <2>1, <2>2 DEF Counted
  <2>5. req[r].ns \in Namespaces /\ quotas[cur] \in [Namespaces -> Entries]
    BY <2>1 DEF TypeOK, CacheTypeOK, Updates
  <2>6. ASSUME NEW n \in Namespaces
        PROVE  quotas'[cur][n].used = IF n = req[r].ns THEN req[r].used ELSE quotas[cur][n].used
    BY <2>3, <2>5 DEF Fresh
  <2>7. Usages(quotas'[cur]) = [Usages(quotas[cur]) EXCEPT ![req[r].ns] = req[r].used]
    BY <2>5, <2>6 DEF Usages
  <2> QED
    BY <2>1, <2>4, <2>7 DEF Counted
<1>2. ASSUME NEW r \in Requests, Handler(r) \/ Server(r), ~ Record(r)
      PROVE  Reserved' = Reserved
  <2>1. CASE Call(r)
    <3>1. PICK o \in Objects : GetOrCreate(o, Held)
      BY <2>1 DEF Call
    <3>2. CASE cur = NoObject /\ cur' = o /\ quotas' = [quotas EXCEPT ![o] = NoEntries]
      <4>1. quotas'[o] = NoEntries /\ o # NoObject
        BY <3>2, NoObjectAssumption DEF TypeOK, CacheTypeOK
      <4> QED
        BY <3>2, <4>1 DEF Counted, Usages, NoEntries, NoEntry
    <3> QED
      BY <3>1, <3>2 DEF GetOrCreate, Counted
  <2>2. CASE ~ Call(r)
    BY <1>2, <2>2 DEF Handler, Server, Lock, GetQuota, QuotaNotFound, GetFails, Add, Admit, Deny,
         UpdateStatus, Conflict, UpdateFails, Record, Arrive, Commit, Discard, TimeOut, cacheVars,
         Counted
  <2> QED
    BY <2>1, <2>2
<1>3. ASSUME Environment \/ UNCHANGED vars
      PROVE  Reserved' = Reserved
  <2>1. UNCHANGED <<cur, quotas>>
    BY <1>3 DEF Recorded, Environment, Expire, vars, cacheVars
  <2> QED
    BY <2>1 DEF Counted
<1>4. ~ Sync /\ ~ Crash
  BY NoSyncStep, NoCrashStep DEF Recorded, OneObject
<1>5. CASE \E r \in Requests : Record(r)
  BY <1>1, <1>5
<1>6. CASE \A r \in Requests : ~ Record(r)
  <2>1. (\E r \in Requests : Handler(r) \/ Server(r)) \/ Environment \/ UNCHANGED vars
    BY <1>4 DEF Next, Idle
  <2>2. Reserved' = Reserved
    <3>1. CASE \E r \in Requests : Handler(r) \/ Server(r)
      BY <1>2, <1>6, <3>1
    <3> QED
      BY <1>3, <2>1, <3>1
  <2> QED
    BY <1>6, <2>2
<1> QED
  BY <1>5, <1>6

(* The only write of usages into the status is that of UpdateStatus. *)
LEMMA StatusKept ==
  ASSUME Recorded, TypeOK, OneObject, [Next]_vars, \A r \in Requests : ~ UpdateStatus(r)
  PROVE  crq'.used = crq.used /\ crq'.byNs = crq.byNs /\ crq'.hard = crq.hard
<1>1. ASSUME NEW r \in Requests, Handler(r) \/ Server(r)
      PROVE  crq' = crq
  BY <1>1 DEF Recorded, OneObject, Handler, Server, Call, Lock, GetQuota, QuotaNotFound, GetFails, Add,
       Admit, Deny, Conflict, UpdateFails, Record, Arrive, Commit, Discard, TimeOut, apiVars
<1>2. CASE Environment
  <2>1. CASE ApiNext
    <3>1. CASE DeleteClusterQuota
      BY <3>1 DEF DeleteClusterQuota, TypeOK, ApiTypeOK, ClusterQuotas
    <3>2. CASE ~ DeleteClusterQuota
      BY <2>1, <3>2 DEF Recorded, ApiNext, InformCRQ, InformRQ, Respec, ReconcileStatus, CreateQuota,
           CollectQuota, informerVars
    <3> QED
      BY <3>1, <3>2
  <2>2. CASE ~ ApiNext
    BY <1>2, <2>2 DEF Environment, apiVars
  <2> QED
    BY <2>1, <2>2
<1>3. CASE UNCHANGED vars
  BY <1>3 DEF vars, apiVars
<1>4. ~ Sync /\ ~ Crash
  BY NoSyncStep, NoCrashStep DEF Recorded, OneObject
<1> QED
  BY <1>1, <1>2, <1>3, <1>4 DEF Next, Idle

(* A call is between its two writes from UpdateStatus to Record. *)
LEMMA RecordingStep ==
  ASSUME Recorded, TypeOK, OneObject, [Next]_vars, NEW s \in Requests
  PROVE  /\ pc'[s] = "record" <=> (UpdateStatus(s) \/ (pc[s] = "record" /\ ~ Record(s)))
         /\ pc'[s] = "record" => req'[s] = req[s]
<1> USE DEF TypeOK, Goto
<1>1. CASE Handler(s) \/ Server(s)
  <2>1. CASE UpdateStatus(s)
    BY <2>1 DEF UpdateStatus
  <2>2. CASE Record(s)
    BY <2>2 DEF Record, Return, UpdateStatus
  <2>3. CASE ~ UpdateStatus(s) /\ ~ Record(s)
    <3>1. pc[s] # "record" /\ pc'[s] # "record"
      BY <1>1, <2>3 DEF Recorded, Handler, Server, Call, Lock, GetQuota, QuotaNotFound, GetFails, Add,
           Admit, Deny, Conflict, UpdateFails, Return, Arrive, Commit, Discard, TimeOut, Answers
    <3> QED
      BY <2>3, <3>1
  <2> QED
    BY <2>1, <2>2, <2>3
<1>2. CASE ~ (Handler(s) \/ Server(s))
  <2>1. pc'[s] = pc[s] /\ req'[s] = req[s]
    <3>1. ASSUME NEW r \in Requests, Handler(r) \/ Server(r)
          PROVE  pc'[s] = pc[s] /\ req'[s] = req[s]
      BY <1>2, <3>1, OthersKeep
    <3>2. CASE Environment \/ UNCHANGED vars
      BY <3>2 DEF Environment, vars, handlerVars
    <3> QED
      BY <3>1, <3>2, NoSyncStep, NoCrashStep DEF Next, Idle, Recorded, OneObject
  <2>2. ~ UpdateStatus(s) /\ ~ Record(s)
    BY <1>2 DEF Handler
  <2> QED
    BY <2>1, <2>2
<1> QED
  BY <1>1, <1>2

LEMMA CopiesStep ==
  ASSUME Recorded, TypeOK, LockExclusive, OneObject, SumsInv, VersionsNameContents,
         CopiesAgree, [Next]_vars
  PROVE  CopiesAgree'
<1>1. ASSUME NEW r \in Requests, UpdateStatus(r)
      PROVE  CopiesAgree'
  <2> DEFINE after == [Reserved EXCEPT ![req[r].ns] = req[r].used]
  <2>1. pc[r] = "update" /\ \A s \in Requests : pc[s] # "record"
    BY <1>1, OneCritical DEF UpdateStatus, Critical
  <2>2. ptr[r] = cur /\ cur # NoObject
    BY <2>1, CriticalObject, NoObjectAssumption DEF OneObject, Critical
  <2>3. total[r] = Total(after)
    BY <2>1, <2>2 DEF SumsInv, Summed, Reserved
  <2>4. snap[r] = crq /\ crq.byNs = Reserved
    BY <1>1, <2>1 DEF UpdateStatus, StatusUpdateLands, VersionsNameContents, CopyOfStored, CopiesAgree
  <2>5. crq' = Rewritten(crq, WithUsage(crq, req[r].ns, req[r].used, total[r]))
    BY <1>1, <2>4 DEF UpdateStatus, WriteStatus
  <2>6. crq'.used = total[r] /\ crq'.byNs = [crq.byNs EXCEPT ![req[r].ns] = req[r].used]
    BY <2>5 DEF Rewritten, WithUsage, TypeOK, ApiTypeOK, ClusterQuotas
  <2>7. crq'.byNs = after /\ crq'.used = Total(after)
    BY <2>3, <2>4, <2>6
  <2>8. Reserved' = Reserved
    BY <2>1, ReservedStep DEF Record
  <2>9. \A s \in Requests : pc'[s] = "record" => s = r /\ req'[s] = req[s]
    <3>1. ASSUME NEW s \in Requests, UpdateStatus(s)
          PROVE  s = r
      BY <2>1, <3>1, OneCritical DEF UpdateStatus, Critical
    <3> QED
      BY <2>1, <3>1, RecordingStep
  <2>10. pc'[r] = "record"
    BY <1>1, RecordingStep
  <2> QED
    BY <2>7, <2>8, <2>9, <2>10 DEF CopiesAgree, Total, Units
<1>2. ASSUME NEW r \in Requests, Record(r)
      PROVE  CopiesAgree'
  <2>1. pc[r] = "record" /\ \A s \in Requests : pc[s] = "record" => s = r
    BY <1>2, OneCritical DEF Record, Critical
  <2>2. \A s \in Requests : ~ UpdateStatus(s)
    BY <2>1, OneCritical DEF UpdateStatus, Critical
  <2>3. Reserved' = crq.byNs
    BY <1>2, <2>1, ReservedStep DEF CopiesAgree, Record
  <2>4. \A s \in Requests : pc'[s] # "record"
    BY <1>2, <2>1, <2>2, RecordingStep
  <2> QED
    BY <2>2, <2>3, <2>4, StatusKept DEF CopiesAgree, Total, Units
<1>3. CASE \A r \in Requests : ~ UpdateStatus(r) /\ ~ Record(r)
  <2>1. crq'.used = crq.used /\ crq'.byNs = crq.byNs /\ Reserved' = Reserved
    BY <1>3, StatusKept, ReservedStep
  <2>2. \A s \in Requests :
          /\ pc'[s] = "record" <=> pc[s] = "record"
          /\ pc'[s] = "record" => req'[s] = req[s]
    BY <1>3, RecordingStep
  <2>3. (crq.used = Total(crq.byNs))'
    BY <2>1 DEF CopiesAgree, Total, Units
  <2>4. ASSUME NEW r \in Requests, pc'[r] = "record"
        PROVE  crq'.byNs = [Reserved EXCEPT ![req[r].ns] = req[r].used]'
    BY <2>1, <2>2, <2>4 DEF CopiesAgree
  <2>5. (\A r \in Requests : pc'[r] # "record") => crq'.byNs = Reserved'
    BY <2>1, <2>2 DEF CopiesAgree
  <2> QED
    BY <2>3, <2>4, <2>5 DEF CopiesAgree
<1> QED
  BY <1>1, <1>2, <1>3

LEMMA CopiesHold == ASSUME Recorded PROVE Spec => []CopiesAgree
<1>1. Init => CopiesAgree
  <2> SUFFICES ASSUME Init PROVE CopiesAgree
    OBVIOUS
  <2>1. crq.used = 0 /\ crq.byNs = [n \in Namespaces |-> 0] /\ cur = NoObject
    BY DEF Init, ApiInit, CacheInit, ZeroQuota
  <2> QED
    BY <2>1, TotalOfNothing DEF CopiesAgree, Reserved, Init
<1>2. "sync" \notin Faults
  BY DEF Recorded
<1>3. Spec => []SumsInv
  BY <1>2, SumsHold
<1>4. TypeOK /\ LockExclusive /\ OneObject /\ SumsInv /\ VersionsNameContents /\ CopiesAgree
        /\ [Next]_vars => CopiesAgree'
  BY CopiesStep
<1> QED
  BY <1>1, <1>3, <1>4, TypeCorrect, LockCorrect, OneObjectHolds, VersionsCorrect, PTL DEF Spec

(* The status and the cache count the same usages whenever no call is between
   its two writes, and status.used is the sum of status.namespaces: however the
   calls interleave and however often Status().Update conflicts, no usage is in
   one of the copies only. *)
THEOREM CopiesCorrect ==
  ASSUME Recorded
  PROVE  Spec => []StatusMatchesCache
<1>1. CopiesAgree => StatusMatchesCache
  BY DEF CopiesAgree, StatusMatchesCache
<1> QED
  BY <1>1, CopiesHold, PTL
-----------------------------------------------------------------------------
(* THE LEDGER *)

(* Faults under which nothing changes the limit, skips its check, or makes two
   writers work on one RQ. *)
Guarded == Faults \subseteq {"dryrun"}

(* What a call has made sure of at each point. *)
WithinLimit(r) ==
  /\ ~ req[r].privileged /\ pc[r] # "uncounted"
  /\ pc[r] \in {"sum", "update", "record"} => snap[r].hard = crq.hard
  /\ pc[r] \in {"update", "record"} => ~ Exceeds(total[r], crq.hard)
  /\ pc[r] = "allowed" => Reserved[req[r].ns] = req[r].used

(* An RQ has one writer that waits for an answer. *)
OneWriter ==
  \A r, s \in Requests : r # s /\ Pending(r) /\ Pending(s) => req[r].ns # req[s].ns

Steady ==
  /\ crq.exists /\ crqSeen.exists /\ crqSeen.hard = crq.hard
  /\ OneWriter
  /\ \A r \in Requests : WithinLimit(r)

(* What is left of the next-state relation. *)
LEMMA GuardedNext ==
  ASSUME Guarded, TypeOK, OneObject, Steady, [Next]_vars
  PROVE  \/ \E r \in Requests :
              \/ Arrive(r) \/ Call(r) \/ Lock(r) \/ GetQuota(r)
              \/ \E n \in Namespaces : Add(r, n)
              \/ Admit(r) \/ Deny(r) \/ UpdateStatus(r) \/ Conflict(r) \/ Record(r)
              \/ Commit(r) \/ Discard(r)
         \/ (InformCRQ \/ InformRQ) /\ UNCHANGED <<cacheVars, syncVars, handlerVars>>
         \/ UNCHANGED vars
<1>1. ~ Sync /\ ~ Crash
  BY NoSyncStep, NoCrashStep DEF Guarded, OneObject
<1>2. Environment => (InformCRQ \/ InformRQ) /\ UNCHANGED <<cacheVars, syncVars, handlerVars>>
  BY DEF Guarded, Environment, ApiNext, Expire, Respec, ReconcileStatus, CreateQuota, CollectQuota,
         DeleteClusterQuota
<1>3. \A r \in Requests : ~ QuotaNotFound(r) /\ ~ GetFails(r) /\ ~ UpdateFails(r) /\ ~ TimeOut(r)
  BY DEF Guarded, OneObject, Steady, QuotaNotFound, GetFails, UpdateFails, TimeOut
<1> QED
  BY <1>1, <1>2, <1>3 DEF Next, Idle, Handler, Server

LEMMA LimitKept ==
  ASSUME Guarded, TypeOK, OneObject, Steady, VersionsNameContents, [Next]_vars
  PROVE  crq'.hard = crq.hard /\ crq'.exists /\ crqSeen'.exists /\ crqSeen'.hard = crq.hard
<1>1. ASSUME NEW r \in Requests, UpdateStatus(r)
      PROVE  crq'.hard = crq.hard /\ crq'.exists /\ crqSeen' = crqSeen
  <2>1. snap[r] = crq
    BY <1>1 DEF UpdateStatus, StatusUpdateLands, VersionsNameContents, CopyOfStored
  <2>2. crq' = Rewritten(crq, WithUsage(crq, req[r].ns, req[r].used, total[r]))
    BY <1>1, <2>1 DEF UpdateStatus, WriteStatus
  <2>3. crq'.hard = crq.hard /\ crq'.exists
    BY <2>2 DEF Rewritten, WithUsage, TypeOK, ApiTypeOK, ClusterQuotas, Steady
  <2> QED
    BY <1>1, <2>3 DEF UpdateStatus, informerVars
<1>2. ASSUME NEW r \in Requests,
             \/ Arrive(r) \/ Call(r) \/ Lock(r) \/ GetQuota(r) \/ \E n \in Namespaces : Add(r, n)
             \/ Admit(r) \/ Deny(r) \/ Conflict(r) \/ Record(r) \/ Commit(r) \/ Discard(r)
      PROVE  crq' = crq /\ crqSeen' = crqSeen
  BY <1>2 DEF Arrive, Call, Lock, GetQuota, Add, Admit, Deny, Conflict, Record, Commit, Discard,
              apiVars, informerVars
<1>3. CASE InformCRQ \/ InformRQ \/ UNCHANGED vars
  BY <1>3 DEF InformCRQ, InformRQ, vars, apiVars, Steady
<1>4. CASE \E r \in Requests :
              \/ Arrive(r) \/ Call(r) \/ Lock(r) \/ GetQuota(r)
              \/ \E n \in Namespaces : Add(r, n)
              \/ Admit(r) \/ Deny(r) \/ UpdateStatus(r) \/ Conflict(r) \/ Record(r)
              \/ Commit(r) \/ Discard(r)
  BY <1>1, <1>2, <1>4 DEF Steady
<1> QED
  BY <1>3, <1>4, GuardedNext

(* Only its arrival makes a call wait for an answer, or changes what it asks. *)
LEMMA PendingStep ==
  ASSUME Guarded, TypeOK, OneObject, Steady, [Next]_vars,
         NEW s \in Requests, ~ Arrive(s), Pending(s)'
  PROVE  Pending(s) /\ req'[s] = req[s]
<1>1. CASE \/ Call(s) \/ Lock(s) \/ GetQuota(s) \/ \E n \in Namespaces : Add(s, n)
           \/ Admit(s) \/ Deny(s) \/ UpdateStatus(s) \/ Conflict(s) \/ Record(s)
           \/ Commit(s) \/ Discard(s)
  <2>1. pc[s] \in Running \cup Answers /\ req'[s] = req[s]
    BY <1>1 DEF Call, Lock, GetQuota, Add, Admit, Deny, UpdateStatus, Conflict, Record, Commit,
                Discard, Running, Critical, Answers
  <2> QED
    BY <2>1 DEF Pending, OneObject
<1>2. CASE UNCHANGED handlerVars
  BY <1>2 DEF Pending, handlerVars
<1>3. ASSUME NEW r \in Requests, r # s, Handler(r) \/ Server(r)
      PROVE  Pending(s) /\ req'[s] = req[s]
  <2>1. pc'[s] = pc[s] /\ req'[s] = req[s]
    BY <1>3, OthersKeep
  <2> QED
    BY <2>1 DEF Pending, OneObject
<1>4. UNCHANGED vars => UNCHANGED handlerVars
  BY DEF vars
<1> QED
  BY <1>1, <1>2, <1>3, <1>4, GuardedNext DEF Handler, Server

LEMMA OneWriterStep ==
  ASSUME Guarded, TypeOK, OneObject, Steady, [Next]_vars
  PROVE  OneWriter'
<1>1. ASSUME NEW r \in Requests, Arrive(r)
      PROVE  OneWriter'
  <2>1. PICK n \in Namespaces : /\ \A s \in Requests : Pending(s) => req[s].ns # n
                                /\ req'[r].ns = n
    BY <1>1 DEF Arrive, Guarded, TypeOK
  <2>2. \A s \in Requests : s # r => pc'[s] = pc[s] /\ req'[s] = req[s]
    BY <1>1, OthersKeep DEF Server
  <2>3. gone' = gone
    BY <1>1 DEF Arrive
  <2> QED
    BY <2>1, <2>2, <2>3 DEF OneWriter, Pending, Steady
<1>2. CASE \A r \in Requests : ~ Arrive(r)
  BY <1>2, PendingStep DEF OneWriter, Steady
<1> QED
  BY <1>1, <1>2

(* The call's own steps. *)
LEMMA WithinLimitStep ==
  ASSUME Guarded, TypeOK, OneObject, Steady, VersionsNameContents, [Next]_vars,
         NEW r \in Requests, Handler(r) \/ Server(r)
  PROVE  WithinLimit(r)'
<1> USE DEF TypeOK, Goto
<1>1. crq'.hard = crq.hard
  BY LimitKept
<1>2. WithinLimit(r) /\ crqSeen.hard = crq.hard
  BY DEF Steady
<1>3. CASE Arrive(r)
  <2>1. PICK n \in Namespaces, used \in Amounts, dryRun \in BOOLEAN :
          req' = [req EXCEPT ![r] = [ns |-> n, used |-> used, rv |-> rq[n].rv,
                                     privileged |-> FALSE, dryRun |-> dryRun]]
    BY <1>3 DEF Arrive, Guarded
  <2>2. pc'[r] = "call"
    BY <1>3 DEF Arrive
  <2> QED
    BY <2>1, <2>2 DEF WithinLimit
<1>4. CASE Call(r) \/ Lock(r) \/ Commit(r) \/ Discard(r)
  BY <1>2, <1>4 DEF Call, Lock, Commit, Discard, WithinLimit
<1>5. CASE GetQuota(r) \/ (\E n \in Namespaces : Add(r, n))
  BY <1>1, <1>2, <1>5 DEF GetQuota, Add, WithinLimit
<1>6. CASE Admit(r)
  BY <1>1, <1>2, <1>6 DEF Admit, WithinHard, WithinLimit, Exceeds
<1>7. CASE UpdateStatus(r)
  BY <1>1, <1>2, <1>7 DEF UpdateStatus, WithinLimit, Exceeds
<1>8. CASE Deny(r) \/ Conflict(r)
  BY <1>2, <1>8 DEF Deny, Conflict, Return, WithinLimit
<1>9. CASE Record(r)
  <2>1. pc'[r] = "allowed" /\ req' = req
    BY <1>9 DEF Record, Return
  <2>2. Reserved'[req[r].ns] = req[r].used
    <3>1. Reserved' = [Reserved EXCEPT ![req[r].ns] = req[r].used]
      <4>1. \A s \in Requests : Record(s) => s = r
        BY OthersKeep, <1>9 DEF Record, Return, Handler
      <4> QED
        BY <1>9, <4>1, ReservedStep DEF Guarded, Recorded
    <3>2. req[r].ns \in Namespaces /\ DOMAIN Reserved = Namespaces
      BY DEF Updates, Reserved, Counted, Usages
    <3> QED
      BY <3>1, <3>2
  <2> QED
    BY <1>2, <2>1, <2>2 DEF WithinLimit
<1>10. ~ QuotaNotFound(r) /\ ~ GetFails(r) /\ ~ UpdateFails(r) /\ ~ TimeOut(r)
  BY DEF Guarded, OneObject, Steady, QuotaNotFound, GetFails, UpdateFails, TimeOut
<1> QED
  BY <1>3, <1>4, <1>5, <1>6, <1>7, <1>8, <1>9, <1>10 DEF Handler, Server

LEMMA SteadyStep ==
  ASSUME Guarded, TypeOK, OneObject, Steady, VersionsNameContents, [Next]_vars
  PROVE  Steady'
<1>1. /\ crq'.exists /\ crqSeen'.exists
      /\ crq'.hard = crq.hard /\ crqSeen'.hard = crq'.hard
  BY LimitKept
<1>2. ASSUME NEW s \in Requests, UNCHANGED <<pc[s], req[s], total[s], snap[s]>>,
             \A r \in Requests : Record(r) => s # r
      PROVE  WithinLimit(s)'
  <2>1. WithinLimit(s)
    BY DEF Steady
  <2>2. pc[s] = "allowed" => Reserved'[req[s].ns] = req[s].used
    <3>1. CASE Reserved' = Reserved
      BY <2>1, <3>1 DEF WithinLimit
    <3>2. ASSUME NEW r \in Requests, Record(r), pc[s] = "allowed",
                 Reserved' = [Reserved EXCEPT ![req[r].ns] = req[r].used]
          PROVE  Reserved'[req[s].ns] = req[s].used
      <4>1. Pending(r) /\ Pending(s) /\ r # s
        BY <1>2, <3>2 DEF Pending, OneObject, Record, Running, Critical, Answers
      <4>2. req[r].ns # req[s].ns
        BY <4>1 DEF Steady, OneWriter
      <4>3. req[s].ns \in Namespaces /\ DOMAIN Reserved = Namespaces
        BY DEF TypeOK, Updates, Reserved, Counted, Usages
      <4> QED
        BY <2>1, <3>2, <4>2, <4>3 DEF WithinLimit
    <3> QED
      BY <3>1, <3>2, ReservedStep DEF Guarded, Recorded
  <2> QED
    BY <1>1, <1>2, <2>1, <2>2 DEF WithinLimit, Exceeds
<1>3. ASSUME NEW r \in Requests, Handler(r) \/ Server(r)
      PROVE  \A s \in Requests : WithinLimit(s)'
  <2>1. ASSUME NEW s \in Requests, s # r
        PROVE  WithinLimit(s)'
    <3>1. UNCHANGED <<pc[s], req[s], total[s], snap[s]>>
      BY <1>3, <2>1, OthersKeep
    <3>2. ~ Record(s)
      BY <3>1 DEF Record, Return, Goto, TypeOK
    <3> QED
      BY <1>2, <3>1, <3>2
  <2> QED
    BY <1>3, <2>1, WithinLimitStep
<1>4. CASE UNCHANGED handlerVars
  <2>1. \A s \in Requests : ~ Record(s)
    BY <1>4 DEF Record, Return, Goto, TypeOK, handlerVars
  <2>2. \A s \in Requests : WithinLimit(s)'
    BY <1>2, <1>4, <2>1 DEF handlerVars
  <2> QED
    BY <1>1, <2>2, OneWriterStep DEF Steady
<1>5. CASE \E r \in Requests : Handler(r) \/ Server(r)
  BY <1>1, <1>3, <1>5, OneWriterStep DEF Steady
<1> QED
  BY <1>4, <1>5, GuardedNext DEF Handler, Server, vars

LEMMA SteadyHolds == ASSUME Guarded PROVE Spec => []Steady
<1>1. Init => Steady
  <2> SUFFICES ASSUME Init PROVE Steady
    OBVIOUS
  <2>1. crqSeen = crq /\ crq.exists
    BY DEF Init, ApiInit, ZeroQuota
  <2> QED
    BY <2>1 DEF Init, Steady, OneWriter, Pending, Running, Critical, Answers, WithinLimit, NoUpdate
<1>2. Recorded
  BY DEF Guarded, Recorded
<1>3. Spec => []OneObject
  BY <1>2, OneObjectHolds
<1>4. TypeOK /\ OneObject /\ Steady /\ VersionsNameContents /\ [Next]_vars => Steady'
  BY SteadyStep
<1> QED
  BY <1>1, <1>3, <1>4, TypeCorrect, VersionsCorrect, PTL DEF Spec

(* The ledger's sums are those of the admission. *)
LEMMA LedgerSums ==
  ASSUME NEW u, NEW limit
  PROVE  Ledger!Exceeds(Ledger!Total(u), limit) <=> Exceeds(Total(u), limit)
<1>1. Ledger!Total(u) = Total(u)
  <2>1. Ledger!Units(u) = Units(u)
    BY DEF Units, Ledger!Units
  <2>2. Ledger!Cardinality(Units(u)) = Cardinality(Units(u))
    BY DEF Cardinality, Ledger!Cardinality
  <2> QED
    BY <2>1, <2>2 DEF Total, Ledger!Total
<1> QED
  BY <1>1 DEF Exceeds, Ledger!Exceeds

LEMMA LedgerStep ==
  ASSUME Guarded, TypeOK, LockExclusive, OneObject, SumsInv, VersionsNameContents, Steady,
         [Next]_vars
  PROVE  [Ledger!LedgerNext]_(Ledger!ledgerVars)
<1>1. crq'.hard = crq.hard
  BY LimitKept
<1>2. Recorded
  BY DEF Guarded, Recorded
<1>3. ASSUME NEW r \in Requests, Record(r)
      PROVE  Ledger!LedgerNext
  <2> DEFINE after == [Reserved EXCEPT ![req[r].ns] = req[r].used]
  <2>1. Reserved' = after
    <3>1. \A s \in Requests : Record(s) => s = r
      BY <1>3, OneCritical DEF Record, Critical
    <3> QED
      BY <1>2, <1>3, <3>1, ReservedStep
  <2>2. ~ Exceeds(Total(after), crq.hard)
    <3>1. ptr[r] = cur /\ cur # NoObject
      BY <1>3, CriticalObject, NoObjectAssumption DEF OneObject, Record, Critical
    <3>2. total[r] = Total(after)
      BY <1>3, <3>1 DEF Record, SumsInv, Summed, Reserved
    <3>3. ~ Exceeds(total[r], crq.hard)
      BY <1>3 DEF Record, Steady, WithinLimit
    <3> QED
      BY <3>2, <3>3
  <2>3. ~ Ledger!Exceeds(Ledger!Total(after), crq.hard)
    BY <2>2, LedgerSums
  <2>4. rq' = rq
    BY <1>3 DEF Record, apiVars
  <2>5. Usages(rq)' = Usages(rq)
    BY <2>4 DEF Usages
  <2>6. req[r].ns \in Namespaces /\ req[r].used \in Ledger!Amounts
    BY DEF TypeOK, Updates, Amounts, Ledger!Amounts
  <2>7. Ledger!Reserve(req[r].ns, req[r].used)
    BY <1>1, <2>1, <2>3, <2>5 DEF Ledger!Reserve
  <2> QED
    BY <2>6, <2>7 DEF Ledger!LedgerNext
<1>4. ASSUME NEW r \in Requests, Commit(r)
      PROVE  Ledger!LedgerNext
  <2>1. pc[r] = "allowed" /\ Reserved[req[r].ns] = req[r].used
    BY <1>4 DEF Commit, Answers, Steady, WithinLimit
  <2>2. req[r].ns \in Namespaces
    BY DEF TypeOK, Updates
  <2>3. rq' = [rq EXCEPT ![req[r].ns] = Rewritten(@, [@ EXCEPT !.used = req[r].used])]
    BY <1>4 DEF Commit, StoreUsed
  <2>4. Usages(rq)' = [Usages(rq) EXCEPT ![req[r].ns] = req[r].used]
    <3>1. ASSUME NEW q \in ResourceQuotas, NEW used \in Amounts
          PROVE  Rewritten(q, [q EXCEPT !.used = used]).used = used
      BY DEF Rewritten, ResourceQuotas
    <3>2. ASSUME NEW n \in Namespaces
          PROVE  rq'[n].used = IF n = req[r].ns THEN req[r].used ELSE rq[n].used
      BY <2>2, <2>3, <3>1 DEF TypeOK, ApiTypeOK, Updates
    <3> QED
      BY <2>2, <3>2 DEF Usages
  <2>5. ~ Record(r) /\ \A s \in Requests : ~ Record(s)
    <3>1. \A s \in Requests : Record(s) => s = r
      BY <1>4, OthersKeep DEF Record, Return, Goto, TypeOK, Server
    <3> QED
      BY <2>1, <3>1 DEF Record
  <2>6. Reserved' = Reserved
    BY <1>2, <2>5, ReservedStep
  <2>7. Ledger!Publish(req[r].ns)
    BY <1>1, <2>1, <2>4, <2>6 DEF Ledger!Publish
  <2> QED
    BY <2>2, <2>7 DEF Ledger!LedgerNext
<1>5. CASE \A r \in Requests : ~ Record(r) /\ ~ Commit(r)
  <2>1. Reserved' = Reserved
    BY <1>2, <1>5, ReservedStep
  <2>2. rq' = rq
    BY <1>5, GuardedNext DEF Arrive, Call, Lock, GetQuota, Add, Admit, Deny, UpdateStatus, Conflict,
         Discard, InformCRQ, InformRQ, vars, apiVars
  <2> QED
    BY <1>1, <2>1, <2>2 DEF Ledger!ledgerVars, Usages
<1> QED
  BY <1>3, <1>4, <1>5

(* The admission implements the ledger, as long as nothing changes the limit,
   skips its check or races with a writer of the same RQ: what the goroutines do
   in many steps, each under the lock of the cache and with a compare-and-set of
   the status, comes to one atomic reservation that is tested against the limit
   over all the namespaces, and to its publication. *)
THEOREM LedgerImplemented ==
  ASSUME Guarded
  PROVE  Spec => ImplementsLedger
<1>1. Init => Ledger!LedgerInit
  <2> SUFFICES ASSUME Init PROVE Ledger!LedgerInit
    OBVIOUS
  <2>1. crq.hard \in Limits \cup {Unlimited}
    <3>1. PICK limit \in Limits, hard \in Limits \cup {Unlimited} :
            crq = [ZeroQuota EXCEPT !.exists = TRUE, !.spec = limit, !.hard = hard]
      BY DEF Init, ApiInit
    <3> QED
      BY <3>1 DEF ZeroQuota
  <2>2. Reserved = [n \in Namespaces |-> 0] /\ Usages(rq) = [n \in Namespaces |-> 0]
    BY DEF Init, ApiInit, CacheInit, Reserved, Usages
  <2> QED
    BY <2>1, <2>2 DEF Ledger!LedgerInit
<1>2. TypeOK /\ LockExclusive /\ OneObject /\ SumsInv /\ VersionsNameContents /\ Steady
        /\ [Next]_vars => [Ledger!LedgerNext]_(Ledger!ledgerVars)
  BY LedgerStep
<1>3. Recorded /\ "sync" \notin Faults
  BY DEF Guarded, Recorded
<1>4. Spec => []OneObject /\ []SumsInv /\ []Steady
  BY <1>3, OneObjectHolds, SumsHold, SteadyHolds
<1> QED
  BY <1>1, <1>2, <1>4, TypeCorrect, LockCorrect, VersionsCorrect, PTL
  DEF Spec, ImplementsLedger, Ledger!LedgerSpec

(* The promise of the ledger, kept by the admission: what the cache counts for
   all the namespaces together is within the limit in every state, also while
   calls are between their check, their write and their record. *)
THEOREM ReservedCorrect ==
  ASSUME Guarded
  PROVE  Spec => []Ledger!ReservedWithinHard
<1>1. Init => Ledger!ReservedWithinHard
  <2> SUFFICES ASSUME Init PROVE Ledger!ReservedWithinHard
    OBVIOUS
  <2>1. PICK limit \in Limits, hard \in Limits \cup {Unlimited} :
          crq = [ZeroQuota EXCEPT !.exists = TRUE, !.spec = limit, !.hard = hard]
    BY DEF Init, ApiInit
  <2>2. crq.hard \in Limits \cup {Unlimited}
    BY <2>1 DEF ZeroQuota
  <2>3. Total(Reserved) = 0
    BY TotalOfNothing DEF Init, CacheInit, Reserved
  <2>4. crq.hard # Unlimited => crq.hard \in Nat
    BY <2>2, LimitsAssumption
  <2>5. ~ Exceeds(Total(Reserved), crq.hard)
    BY <2>3, <2>4 DEF Exceeds
  <2> QED
    BY <2>5, LedgerSums DEF Ledger!ReservedWithinHard
<1>2. Ledger!ReservedWithinHard /\ [Ledger!LedgerNext]_(Ledger!ledgerVars)
        => Ledger!ReservedWithinHard'
  BY DEF Ledger!ReservedWithinHard, Ledger!LedgerNext, Ledger!ledgerVars, Ledger!Reserve,
         Ledger!Publish
<1>3. Spec => [][Ledger!LedgerNext]_(Ledger!ledgerVars)
  BY LedgerImplemented DEF ImplementsLedger, Ledger!LedgerSpec
<1> QED
  BY <1>1, <1>2, <1>3, PTL DEF Spec
-----------------------------------------------------------------------------
(* WHAT THE NAMESPACES SHOW *)

(* An update that is waited for still has the version of its RQ, and an RQ shows
   what the cache counts unless its update has been allowed and not stored. *)
Settled ==
  /\ \A r \in Requests :
       /\ ~ req[r].dryRun
       /\ Pending(r) => rq[req[r].ns].exists /\ rq[req[r].ns].rv = req[r].rv
  /\ \A n \in Namespaces :
       (\A r \in Requests : pc[r] = "allowed" => req[r].ns # n) => rq[n].used = Reserved[n]

(* Only Commit stores an RQ, and an allowed update is stored. *)
LEMMA StoredStep ==
  ASSUME Faults = {}, TypeOK, OneObject, Steady, Settled, [Next]_vars
  PROVE  /\ \A r \in Requests : ~ Discard(r)
         /\ \/ rq' = rq /\ \A r \in Requests : ~ Commit(r)
            \/ \E r \in Requests :
                 Commit(r) /\ \A n \in Namespaces \ {req[r].ns} : rq'[n] = rq[n]
<1>1. ASSUME NEW r \in Requests
      PROVE  ~ Discard(r)
  BY DEF Discard, Lands, Settled, Pending, OneObject, Answers
<1>2. ASSUME NEW r \in Requests, Commit(r)
      PROVE  \A n \in Namespaces \ {req[r].ns} : rq'[n] = rq[n]
  BY <1>2 DEF Commit, StoreUsed, TypeOK, ApiTypeOK
<1>3. CASE \A r \in Requests : ~ Commit(r)
  <2>1. rq' = rq
    BY <1>1, <1>3, GuardedNext DEF Guarded, Arrive, Call, Lock, GetQuota, Add, Admit, Deny,
         UpdateStatus, Conflict, Record, InformCRQ, InformRQ, vars, apiVars
  <2> QED
    BY <1>1, <1>3, <2>1
<1> QED
  BY <1>1, <1>2, <1>3

(* The allowed calls grow by Record and shrink by Commit. *)
LEMMA AllowedStep ==
  ASSUME Faults = {}, TypeOK, OneObject, Steady, Settled, [Next]_vars, NEW s \in Requests
  PROVE  /\ pc'[s] = "allowed" <=> (Record(s) \/ (pc[s] = "allowed" /\ ~ Commit(s)))
         /\ pc'[s] = "allowed" => req'[s] = req[s]
<1> USE DEF TypeOK, Goto
<1>1. CASE Record(s)
  BY <1>1 DEF Record, Return, Commit
<1>2. CASE Commit(s)
  BY <1>2 DEF Commit, Record, Answers
<1>3. CASE \/ Arrive(s) \/ Call(s) \/ Lock(s) \/ GetQuota(s) \/ \E n \in Namespaces : Add(s, n)
           \/ Admit(s) \/ Deny(s) \/ UpdateStatus(s) \/ Conflict(s)
  <2>1. pc[s] # "allowed" /\ pc'[s] # "allowed"
    BY <1>3 DEF Arrive, Call, Lock, GetQuota, Add, Admit, Deny, UpdateStatus, Conflict, Return
  <2>2. ~ Record(s)
    BY <2>1 DEF Record, Return
  <2> QED
    BY <2>1, <2>2
<1>4. CASE UNCHANGED <<pc[s], req[s]>>
  BY <1>4 DEF Record, Return, Commit, Answers
<1>5. UNCHANGED handlerVars \/ UNCHANGED vars => UNCHANGED <<pc[s], req[s]>>
  BY DEF handlerVars, vars
<1>6. ASSUME NEW r \in Requests, Handler(r) \/ Server(r), r # s
      PROVE  UNCHANGED <<pc[s], req[s]>>
  BY <1>6, OthersKeep
<1> QED
  BY <1>1, <1>2, <1>3, <1>4, <1>5, <1>6, GuardedNext, StoredStep DEF Guarded, Handler, Server

LEMMA SettledStep ==
  ASSUME Faults = {}, TypeOK, LockExclusive, OneObject, Steady, Settled, [Next]_vars
  PROVE  Settled'
<1>1. Guarded /\ Recorded
  BY DEF Guarded, Recorded
<1>2. ASSUME NEW s \in Requests
      PROVE  ~ req'[s].dryRun
  <2>1. CASE Arrive(s)
    <3>1. PICK n \in Namespaces, used \in Amounts :
            req' = [req EXCEPT ![s] = [ns |-> n, used |-> used, rv |-> rq[n].rv,
                                       privileged |-> FALSE, dryRun |-> FALSE]]
      BY <2>1 DEF Arrive
    <3> QED
      BY <3>1 DEF TypeOK
  <2>2. CASE ~ Arrive(s)
    <3>1. req'[s] = req[s]
      <4>1. ASSUME NEW r \in Requests, r # s, Handler(r) \/ Server(r)
            PROVE  req'[s] = req[s]
        BY <4>1, OthersKeep
      <4>2. CASE \/ Call(s) \/ Lock(s) \/ GetQuota(s) \/ \E n \in Namespaces : Add(s, n)
                 \/ Admit(s) \/ Deny(s) \/ UpdateStatus(s) \/ Conflict(s) \/ Record(s)
                 \/ Commit(s) \/ Discard(s)
        BY <4>2 DEF Call, Lock, GetQuota, Add, Admit, Deny, UpdateStatus, Conflict, Record, Commit,
                    Discard
      <4>3. CASE UNCHANGED handlerVars \/ UNCHANGED vars
        BY <4>3 DEF handlerVars, vars
      <4> QED
        BY <1>1, <2>2, <4>1, <4>2, <4>3, GuardedNext DEF Handler, Server
    <3> QED
      BY <3>1 DEF Settled
  <2> QED
    BY <2>1, <2>2
<1>3. ASSUME NEW s \in Requests, Pending(s)'
      PROVE  rq'[req'[s].ns].exists /\ rq'[req'[s].ns].rv = req'[s].rv
  <2>1. CASE Arrive(s)
    <3>1. PICK n \in Namespaces, used \in Amounts :
            /\ rq[n].exists
            /\ req' = [req EXCEPT ![s] = [ns |-> n, used |-> used, rv |-> rq[n].rv,
                                          privileged |-> FALSE, dryRun |-> FALSE]]
      BY <2>1 DEF Arrive
    <3>2. rq' = rq
      BY <2>1 DEF Arrive, apiVars
    <3> QED
      BY <3>1, <3>2 DEF TypeOK
  <2>2. CASE ~ Arrive(s)
    <3>1. Pending(s) /\ req'[s] = req[s]
      BY <1>1, <1>3, <2>2, PendingStep
    <3>2. rq'[req[s].ns] = rq[req[s].ns]
      <4>1. req[s].ns \in Namespaces
        BY DEF TypeOK, Updates
      <4>2. ASSUME NEW r \in Requests, Commit(r)
            PROVE  req[r].ns # req[s].ns
        <5>1. Pending(r)
          BY <4>2 DEF Pending, OneObject, Commit
        <5>2. r # s
          BY <1>3, <4>2 DEF Commit, Goto, TypeOK, Pending, Running, Critical, Answers
        <5> QED
          BY <3>1, <5>1, <5>2 DEF Steady, OneWriter
      <4> QED
        BY <4>1, <4>2, StoredStep
    <3> QED
      BY <3>1, <3>2 DEF Settled
  <2> QED
    BY <2>1, <2>2
<1>4. ASSUME NEW n \in Namespaces, \A r \in Requests : pc'[r] = "allowed" => req'[r].ns # n
      PROVE  rq'[n].used = Reserved'[n]
  <2>1. Reserved'[n] = Reserved[n]
    <3>1. ASSUME NEW r \in Requests, Record(r)
          PROVE  req[r].ns # n
      BY <1>4, <3>1, AllowedStep
    <3>2. DOMAIN Reserved = Namespaces
      BY DEF Reserved, Counted, Usages
    <3> QED
      BY <1>1, <3>1, <3>2, ReservedStep
  <2>2. CASE \E r \in Requests : Commit(r) /\ req[r].ns = n
    <3>1. PICK r \in Requests : Commit(r) /\ req[r].ns = n
      BY <2>2
    <3>2. pc[r] = "allowed" /\ req[r].used = Reserved[n]
      BY <3>1 DEF Commit, Answers, Steady, WithinLimit
    <3>3. \A q \in ResourceQuotas, used \in Amounts :
            Rewritten(q, [q EXCEPT !.used = used]).used = used
      BY DEF Rewritten, ResourceQuotas
    <3>4. rq'[n].used = req[r].used
      BY <3>1, <3>3 DEF Commit, StoreUsed, TypeOK, ApiTypeOK, Updates
    <3> QED
      BY <2>1, <3>2, <3>4
  <2>3. CASE \A r \in Requests : Commit(r) => req[r].ns # n
    <3>1. rq'[n] = rq[n]
      BY <2>3, StoredStep
    <3>2. \A r \in Requests : pc[r] = "allowed" => req[r].ns # n
      BY <1>4, <2>3, AllowedStep
    <3> QED
      BY <2>1, <3>1, <3>2 DEF Settled
  <2> QED
    BY <2>2, <2>3
<1> QED
  BY <1>2, <1>3, <1>4 DEF Settled

(* The promise of the README, that a cluster quota limits the namespaces
   together: where nothing goes wrong, whenever no update is on its way, the
   usages that the ResourceQuotas of all the namespaces show are together within
   the limit. *)
THEOREM PublishedCorrect ==
  ASSUME Faults = {}
  PROVE  Spec => []PublishedWithinHard
<1>1. Init => Settled
  <2> SUFFICES ASSUME Init PROVE Settled
    OBVIOUS
  <2>1. \A n \in Namespaces : rq[n].used = 0 /\ Reserved[n] = 0
    BY DEF Init, ApiInit, CacheInit, Reserved
  <2>2. \A r \in Requests : ~ req[r].dryRun /\ ~ Pending(r)
    BY DEF Init, NoUpdate, Pending, Running, Critical, Answers
  <2> QED
    BY <2>1, <2>2 DEF Settled
<1>2. Guarded /\ Recorded
  BY DEF Guarded, Recorded
<1>3. Spec => []OneObject /\ []Steady /\ []Ledger!ReservedWithinHard
  BY <1>2, OneObjectHolds, SteadyHolds, ReservedCorrect
<1>4. TypeOK /\ LockExclusive /\ OneObject /\ Steady /\ Settled /\ [Next]_vars => Settled'
  BY SettledStep
<1>5. Settled /\ Ledger!ReservedWithinHard => PublishedWithinHard
  <2> SUFFICES ASSUME Settled, Ledger!ReservedWithinHard, AtRest
               PROVE  ~ Exceeds(Total(Usages(rq)), crq.hard)
    BY DEF PublishedWithinHard
  <2>1. \A r \in Requests : pc[r] # "allowed"
    BY DEF AtRest, Final
  <2>2. Usages(rq) = Reserved
    <3>1. \A n \in Namespaces : rq[n].used = Reserved[n]
      BY <2>1 DEF Settled
    <3>2. Reserved = [n \in Namespaces |-> Reserved[n]]
      BY DEF Reserved, Counted, Usages
    <3> QED
      BY <3>1, <3>2 DEF Usages
  <2> QED
    BY <2>2, LedgerSums DEF Ledger!ReservedWithinHard
<1> QED
  BY <1>1, <1>3, <1>4, <1>5, TypeCorrect, LockCorrect, PTL DEF Spec
=============================================================================
