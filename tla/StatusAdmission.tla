--------------------------- MODULE StatusAdmission ---------------------------
(***************************************************************************)
(* Admission of ResourceQuota status updates                               *)
(* (clusterresourcequota-statusadmission.go) over the usage cache and the  *)
(* API server: each admission call is a goroutine that runs Handle, and    *)
(* calls interleave with each other, with the informers and with Sync.     *)
(***************************************************************************)
EXTENDS UsageCache

CONSTANT MaxAttempts   \* backoff.Steps of RetryOnConflict (5 in the code)

ASSUME MaxAttemptsAssumption == MaxAttempts \in Nat \ {0}

VARIABLES
  pc,       \* where each call is
  req,      \* what each call asks
  ptr,      \* the cache object a call works on
  snap,     \* the CRQ a call read
  unread,   \* entries of Quotas that a call has still to add to its sum
  total,    \* oldtotal, and then newtotal
  tries,    \* how many times validate ran
  gone      \* calls the API server no longer waits for (webhook timeout)

handlerVars == <<pc, req, ptr, snap, unread, total, tries, gone>>
vars == <<apiVars, cacheVars, syncVars, handlerVars>>

(* An update of the RQ of ns that the writer read at version rv. *)
Updates ==
  [ns: Namespaces, used: Amounts, rv: Nat, privileged: BOOLEAN, dryRun: BOOLEAN]

NoUpdate == [ns |-> CHOOSE n \in Namespaces : TRUE, used |-> 0, rv |-> 0,
             privileged |-> FALSE, dryRun |-> FALSE]

Phases == {"idle", "call", "lock", "get", "sum", "update", "record",
           "allowed", "uncounted", "denied", "failed", "committed", "discarded"}
Critical == {"get", "sum", "update", "record"}
Running  == {"call", "lock"} \cup Critical
Answers  == {"allowed", "uncounted"}
Final    == {"denied", "failed", "committed", "discarded"}

TypeOK ==
  /\ ApiTypeOK /\ CacheTypeOK
  /\ pc \in [Requests -> Phases]
  /\ req \in [Requests -> Updates]
  /\ ptr \in [Requests -> Objects \cup {NoObject}]
  /\ snap \in [Requests -> ClusterQuotas]
  /\ unread \in [Requests -> SUBSET Namespaces]
  /\ total \in [Requests -> Int]
  /\ tries \in [Requests -> 0 .. MaxAttempts]
  /\ gone \in [Requests -> BOOLEAN]
  /\ \A r \in Requests : ptr[r] # NoObject <=> pc[r] \in {"lock"} \cup Critical

Init ==
  /\ ApiInit /\ CacheInit
  /\ pc = [r \in Requests |-> "idle"]
  /\ req = [r \in Requests |-> NoUpdate]
  /\ ptr = [r \in Requests |-> NoObject]
  /\ snap = [r \in Requests |-> ZeroQuota]
  /\ unread = [r \in Requests |-> {}]
  /\ total = [r \in Requests |-> 0]
  /\ tries = [r \in Requests |-> 0]
  /\ gone = [r \in Requests |-> FALSE]

(* Objects that the map or a goroutine refers to. *)
Held == {cur} \cup {ptr[r] : r \in Requests}

(* A writer of the RQ of n waits for the answer to r. *)
Pending(r) == pc[r] \in Running \cup Answers /\ ~ gone[r]

(* Mutant: the namespace's own usage is counted twice. *)
NewTotalTwice(r) == total[r] + req[r].used

(* What r's update makes the sum: newtotal. *)
NewTotal(r) == total[r] + (req[r].used - quotas[ptr[r]][req[r].ns].used)

Goto(r, phase) == pc' = [pc EXCEPT ![r] = phase]
Unlock(r) == lock' = [lock EXCEPT ![ptr[r]] = NoRequest]

(* validate returns: the deferred Unlock runs, and its locals are gone. *)
Return(r, phase) ==
  /\ Goto(r, phase)
  /\ Unlock(r)
  /\ ptr' = [ptr EXCEPT ![r] = NoObject]
  /\ snap' = [snap EXCEPT ![r] = ZeroQuota]
  /\ unread' = [unread EXCEPT ![r] = {}]
  /\ total' = [total EXCEPT ![r] = 0]
-----------------------------------------------------------------------------
(* The API server calls the webhook for an update of a managed RQ. *)
Arrive(r) ==
  /\ pc[r] = "idle"
  /\ \E n \in Namespaces, used \in Amounts,
        privileged \in {FALSE} \cup (IF "privileged" \in Faults THEN {TRUE} ELSE {}),
        dryRun \in {FALSE} \cup (IF "dryrun" \in Faults THEN {TRUE} ELSE {}) :
       /\ rq[n].exists
       /\ "racing" \in Faults \/ \A s \in Requests : Pending(s) => req[s].ns # n
       /\ req' = [req EXCEPT ![r] = [ns |-> n, used |-> used, rv |-> rq[n].rv,
                                     privileged |-> privileged, dryRun |-> dryRun]]
  /\ Goto(r, "call")
  /\ tries' = [tries EXCEPT ![r] = 1]
  /\ UNCHANGED <<apiVars, cacheVars, syncVars, ptr, snap, unread, total, gone>>

Call(r) ==
  /\ pc[r] = "call"
  /\ \E o \in Objects :
       /\ GetOrCreate(o, Held)
       /\ ptr' = [ptr EXCEPT ![r] = o]
  /\ Goto(r, "lock")
  /\ UNCHANGED <<apiVars, lock, syncVars, req, snap, unread, total, tries, gone>>

(* Mutant: OnLock without its Lock. *)
LockWithoutWaiting(r) ==
  /\ pc[r] = "lock"
  /\ lock' = [lock EXCEPT ![ptr[r]] = r]
  /\ Goto(r, "get")
  /\ UNCHANGED <<apiVars, cur, quotas, syncVars, req, ptr, snap, unread, total, tries, gone>>

Lock(r) ==
  /\ pc[r] = "lock"
  /\ lock[ptr[r]] = NoRequest
  /\ lock' = [lock EXCEPT ![ptr[r]] = r]
  /\ Goto(r, "get")
  /\ UNCHANGED <<apiVars, cur, quotas, syncVars, req, ptr, snap, unread, total, tries, gone>>

(* Mutant: the copy's version is overwritten to force the update through. *)
GetQuotaForced(r) ==
  /\ pc[r] = "get"
  /\ crqSeen.exists
  /\ snap' = [snap EXCEPT ![r] = [crqSeen EXCEPT !.rv = crq.rv]]
  /\ unread' = [unread EXCEPT ![r] = Namespaces]
  /\ total' = [total EXCEPT ![r] = 0]
  /\ Goto(r, "sum")
  /\ UNCHANGED <<apiVars, cacheVars, syncVars, req, ptr, tries, gone>>

(* Get of the CRQ, from the informer. *)
GetQuota(r) ==
  /\ pc[r] = "get"
  /\ crqSeen.exists
  /\ snap' = [snap EXCEPT ![r] = crqSeen]
  /\ unread' = [unread EXCEPT ![r] = Namespaces]
  /\ total' = [total EXCEPT ![r] = 0]
  /\ Goto(r, "sum")
  /\ UNCHANGED <<apiVars, cacheVars, syncVars, req, ptr, tries, gone>>

(* NotFound: validate returns nil, and the update is allowed uncounted. *)
QuotaNotFound(r) ==
  /\ pc[r] = "get"
  /\ ~ crqSeen.exists
  /\ Return(r, "uncounted")
  /\ UNCHANGED <<apiVars, cur, quotas, syncVars, req, tries, gone>>

GetFails(r) ==
  /\ "apierror" \in Faults
  /\ pc[r] = "get"
  /\ Return(r, "failed")
  /\ UNCHANGED <<apiVars, cur, quotas, syncVars, req, tries, gone>>

(* One turn of the range over cache.Quotas. *)
Add(r, n) ==
  /\ pc[r] = "sum"
  /\ n \in unread[r]
  /\ unread' = [unread EXCEPT ![r] = @ \ {n}]
  /\ total' = [total EXCEPT ![r] = @ + quotas[ptr[r]][n].used]
  /\ UNCHANGED <<apiVars, cacheVars, syncVars, pc, req, ptr, snap, tries, gone>>

WithinHard(r) == req[r].privileged \/ ~ Exceeds(NewTotal(r), snap[r].hard)

Admit(r) ==
  /\ pc[r] = "sum" /\ unread[r] = {}
  /\ WithinHard(r)
  /\ total' = [total EXCEPT ![r] = NewTotal(r)]
  /\ Goto(r, "update")
  /\ UNCHANGED <<apiVars, cacheVars, syncVars, req, ptr, snap, unread, tries, gone>>

(* Mutant: the early return of a denial forgets to unlock. *)
DenyKeepsLock(r) ==
  /\ pc[r] = "sum" /\ unread[r] = {}
  /\ ~ WithinHard(r)
  /\ Goto(r, "denied")
  /\ UNCHANGED <<apiVars, cacheVars, syncVars, req, ptr, snap, unread, total, tries, gone>>

Deny(r) ==
  /\ pc[r] = "sum" /\ unread[r] = {}
  /\ ~ WithinHard(r)
  /\ Return(r, "denied")
  /\ UNCHANGED <<apiVars, cur, quotas, syncVars, req, tries, gone>>

(* Mutant: status.namespaces is rebuilt from the cache object. *)
UpdateStatusFromCache(r) ==
  /\ pc[r] = "update"
  /\ StatusUpdateLands(snap[r])
  /\ WriteStatus([snap[r] EXCEPT !.byNs = Counted(ptr[r])], req[r].ns, req[r].used, total[r])
  /\ Goto(r, "record")
  /\ UNCHANGED <<rq, informerVars, cacheVars, syncVars, req, ptr, snap, unread, total, tries, gone>>

(* Status().Update of the CRQ as r read it. *)
UpdateStatus(r) ==
  /\ pc[r] = "update"
  /\ StatusUpdateLands(snap[r])
  /\ WriteStatus(snap[r], req[r].ns, req[r].used, total[r])
  /\ Goto(r, "record")
  /\ UNCHANGED <<rq, informerVars, cacheVars, syncVars, req, ptr, snap, unread, total, tries, gone>>

(* Mutant: RetryOnConflict without a last attempt. *)
ConflictForever(r) ==
  /\ pc[r] = "update"
  /\ crq.exists /\ snap[r].rv # crq.rv
  /\ Return(r, "call") /\ tries' = [tries EXCEPT ![r] = @ + 1]
  /\ UNCHANGED <<apiVars, cur, quotas, syncVars, req, gone>>

(* Conflict: validate returns it, and RetryOnConflict calls validate again
   unless that was the last attempt. *)
Conflict(r) ==
  /\ pc[r] = "update"
  /\ crq.exists /\ snap[r].rv # crq.rv
  /\ IF tries[r] < MaxAttempts
     THEN Return(r, "call") /\ tries' = [tries EXCEPT ![r] = @ + 1]
     ELSE Return(r, "failed") /\ UNCHANGED tries
  /\ UNCHANGED <<apiVars, cur, quotas, syncVars, req, gone>>

(* Any other error: the CRQ is gone, or the request or its answer is lost
   (the call's context is cancelled once the API server stops waiting). *)
UpdateFails(r) ==
  /\ pc[r] = "update"
  /\ \/ UNCHANGED crq /\ (~ crq.exists \/ "apierror" \in Faults \/ gone[r])
     \/ /\ "apierror" \in Faults \/ gone[r]
        /\ StatusUpdateLands(snap[r])
        /\ WriteStatus(snap[r], req[r].ns, req[r].used, total[r])
  /\ Return(r, "failed")
  /\ UNCHANGED <<rq, informerVars, cur, quotas, syncVars, req, tries, gone>>

(* Mutant: the cache is not told of the update. *)
RecordNothing(r) ==
  /\ pc[r] = "record"
  /\ Return(r, "allowed")
  /\ UNCHANGED <<apiVars, cur, quotas, syncVars, req, tries, gone>>

Record(r) ==
  /\ pc[r] = "record"
  /\ SetEntry(ptr[r], req[r].ns, Fresh(req[r].used))
  /\ Return(r, "allowed")
  /\ UNCHANGED <<apiVars, cur, syncVars, req, tries, gone>>
-----------------------------------------------------------------------------
(* The API server goes on with the update that the webhook allowed. *)
Lands(r) ==
  LET n == req[r].ns IN
  ~ gone[r] /\ ~ req[r].dryRun /\ rq[n].exists /\ rq[n].rv = req[r].rv

Commit(r) ==
  /\ pc[r] \in Answers
  /\ Lands(r)
  /\ StoreUsed(req[r].ns, req[r].used)
  /\ Goto(r, "committed")
  /\ UNCHANGED <<crq, informerVars, cacheVars, syncVars, req, ptr, snap, unread, total, tries, gone>>

Discard(r) ==
  /\ pc[r] \in Answers
  /\ ~ Lands(r)
  /\ Goto(r, "discarded")
  /\ UNCHANGED <<apiVars, cacheVars, syncVars, req, ptr, snap, unread, total, tries, gone>>

(* timeoutSeconds: the API server fails the update; the goroutine runs on. *)
TimeOut(r) ==
  /\ "timeout" \in Faults
  /\ Pending(r)
  /\ gone' = [gone EXCEPT ![r] = TRUE]
  /\ UNCHANGED <<apiVars, cacheVars, syncVars, pc, req, ptr, snap, unread, total, tries>>

(* r is about to range over, or to write to, the map that Sync ranges over
   and writes to.  The Go runtime stops a process that it catches at that. *)
MapRace(r) ==
  /\ syncPc = "merging" /\ ptr[r] = cur
  /\ \/ pc[r] = "record"
     \/ pc[r] = "sum" /\ (updated # {} \/ left \ Listed # {})

(* The process dies and comes back: the cache is empty, the calls that ran
   are answered with an error, and the informers list anew. *)
Crash ==
  /\ "crash" \in Faults \/ \E r \in Requests : MapRace(r)
  /\ cur' = NoObject
  /\ quotas' = [o \in Objects |-> NoEntries]
  /\ lock' = [o \in Objects |-> NoRequest]
  /\ pc' = [r \in Requests |-> IF pc[r] \in Running THEN "failed" ELSE pc[r]]
  /\ ptr' = [r \in Requests |-> NoObject]
  /\ snap' = [r \in Requests |-> ZeroQuota]
  /\ unread' = [r \in Requests |-> {}]
  /\ total' = [r \in Requests |-> 0]
  /\ crqSeen' = crq /\ rqSeen' = rq
  /\ SyncReturns /\ left' = {} /\ updated' = {}
  /\ UNCHANGED <<storedVars, req, tries, gone>>

(* Every call has been answered and its update stored or dropped. *)
AtRest == \A r \in Requests : pc[r] \in {"idle"} \cup Final

Idle == (\A r \in Requests : pc[r] \in Final) /\ UNCHANGED vars

Handler(r) ==
  \/ Call(r) \/ Lock(r)
  \/ GetQuota(r) \/ QuotaNotFound(r) \/ GetFails(r)
  \/ \E n \in Namespaces : Add(r, n)
  \/ Admit(r) \/ Deny(r)
  \/ UpdateStatus(r) \/ Conflict(r) \/ UpdateFails(r) \/ Record(r)

Server(r) == Arrive(r) \/ Commit(r) \/ Discard(r) \/ TimeOut(r)

Sync == SyncStep(Held) /\ UNCHANGED <<apiVars, handlerVars>>

Environment ==
  \/ ApiNext /\ UNCHANGED <<cacheVars, syncVars, handlerVars>>
  \/ \E n \in Namespaces : Expire(n) /\ UNCHANGED <<apiVars, handlerVars>>

Next ==
  \/ \E r \in Requests : Handler(r) \/ Server(r)
  \/ Sync \/ Environment \/ Crash \/ Idle

Spec == Init /\ [][Next]_vars
-----------------------------------------------------------------------------
(* PROPERTIES *)

(* Two calls never work on one Quotas map: OnLock, as far as the calls go. *)
LockExclusive ==
  /\ \A r \in Requests : pc[r] \in Critical => lock[ptr[r]] = r
  /\ \A o \in Objects : lock[o] # NoRequest =>
       pc[lock[o]] \in Critical /\ ptr[lock[o]] = o

(* What "atomic update" (statusadmission.go:118) rests on: a copy of the CRQ
   whose version is the stored one is the stored one, in every field. *)
CopyOfStored(q) == q.rv =< crq.rv /\ (q.rv = crq.rv => q = crq)

VersionsNameContents ==
  /\ CopyOfStored(crqSeen)
  /\ \A r \in Requests : pc[r] \in {"sum", "update"} => CopyOfStored(snap[r])

(* What Admit leaves behind for UpdateStatus. *)
CheckedWithinHard ==
  \A r \in Requests : pc[r] = "update" /\ ~ req[r].privileged =>
    ~ Exceeds(total[r], snap[r].hard)

(* Whatever goes wrong, and however stale the copy of the CRQ that it worked
   on, a status that validate stores puts no old limit back, and for an
   unprivileged writer it is within the limit stored at that moment. *)
AdmittedWithinHard ==
  [][\A r \in Requests :
       pc[r] = "update" /\ pc'[r] # "update" /\ crq' # crq =>
         /\ crq'.hard = crq.hard /\ crq'.spec = crq.spec
         /\ req[r].privileged \/ ~ Exceeds(crq'.used, crq.hard)]_vars

(* Calls on an old and on a renewed cache object exclude each other no more,
   and neither object knows what the other has recorded.  Still a status that a
   call stores leaves what it says of the other namespaces as it was stored at
   that moment (updateClusterResourceQuotaStatusUsed, statusadmission.go:133). *)
OthersKept ==
  [][\A r \in Requests :
       pc[r] = "update" /\ pc'[r] # "update" /\ crq' # crq =>
         \A n \in Namespaces \ {req[r].ns} : crq'.byNs[n] = crq.byNs[n]]_vars

(* As long as Sync does not run, the sum that a call checks and stores is the
   sum of the cache with the call's own update in it, although it is gathered
   over many steps, and others come and go between them. *)
SumIsOfTheCache ==
  \A r \in Requests : pc[r] \in {"update", "record"} =>
    total[r] = Total([Counted(ptr[r]) EXCEPT ![req[r].ns] = req[r].used])

(* The usage the cache counts for each namespace. *)
Reserved == IF cur = NoObject THEN [n \in Namespaces |-> 0] ELSE Counted(cur)

(* status.used and status.namespaces agree with each other, and between the
   write of the status and that of the cache with the cache. *)
StatusMatchesCache ==
  /\ crq.used = Total(crq.byNs)
  /\ (\A r \in Requests : pc[r] # "record") => crq.byNs = Reserved

(* README: limits across multiple namespaces.  Between updates, what the RQs
   of the namespaces show is together within the limit. *)
PublishedWithinHard == AtRest => ~ Exceeds(Total(Usages(rq)), crq.hard)

(* The admission implements the ledger: the cache is what is reserved, and
   the RQs are what is published. *)
Ledger == INSTANCE ClusterLedger
            WITH hard <- crq.hard, reserved <- Reserved, published <- Usages(rq)
ImplementsLedger == Ledger!LedgerSpec

-----------------------------------------------------------------------------
(* LIVENESS.  Goroutines run; a Go mutex does not starve a waiter; the API
   server finishes what it began; watches deliver; the ticker ticks, and a
   Sync that began ends.  Nothing forces a call to arrive. *)
Fairness ==
  /\ \A r \in Requests :
       /\ SF_vars(Call(r)) /\ SF_vars(Lock(r))
       /\ WF_vars(Handler(r))
       /\ WF_vars(Commit(r) \/ Discard(r))
  /\ WF_vars(Sync)
  /\ WF_vars(InformCRQ /\ UNCHANGED <<cacheVars, syncVars, handlerVars>>)
  /\ WF_vars(InformRQ /\ UNCHANGED <<cacheVars, syncVars, handlerVars>>)

FairSpec == Spec /\ Fairness

(* Every call is answered: no lost Unlock, no endless retry. *)
Answered == \A r \in Requests : pc[r] = "call" ~> pc[r] \notin Running

(* Sync: the cache comes to show the RQs, whatever was lost before. *)
CacheShowsQuotas ==
  (\E n \in Namespaces : rq[n].exists) => cur # NoObject /\ Counted(cur) = Usages(rq)
CacheRepaired == <>[]CacheShowsQuotas

-----------------------------------------------------------------------------
(* STATED BY THE REPOSITORY AND NOT KEPT *)

(* cache.go:62-63: Sync only updates entries older than 10 seconds. *)
FreshEntryKept ==
  [][\A n \in Namespaces :
       (syncPc = "merging" /\ syncPc' = "merging" /\ pc' = pc
        /\ n \in Listed /\ quotas[cur][n].age = "fresh")
         => quotas'[cur][n].used = quotas[cur][n].used]_vars

(* cache.go:120: fn runs on the usage map under its Lock. *)
QuotasGuarded == \A r \in Requests : ~ MapRace(r)
=============================================================================
