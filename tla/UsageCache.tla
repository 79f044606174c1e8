----------------------------- MODULE UsageCache ------------------------------
(***************************************************************************)
(* The usage cache of the webhook process (clusterresourcequota-cache.go): *)
(* the ResourceQuotaCache with its lock r.lock, the cache object of the    *)
(* CRQ with its own Lock and its Quotas map, and the periodic Sync.        *)
(*                                                                         *)
(* Sync holds r.lock and never takes an object's Lock, so its steps on the *)
(* Quotas map interleave with those of an admission that holds that Lock.  *)
(***************************************************************************)
EXTENDS ApiServer

CONSTANTS
  Requests,    \* admission calls
  NoRequest,   \* nobody
  Objects,     \* addresses of ClusterResourceQuotaCache objects
  NoObject     \* nil

ASSUME NoRequestAssumption == NoRequest \notin Requests
ASSUME NoObjectAssumption  == NoObject \notin Objects

VARIABLES
  cur,      \* quotacache[name], or NoObject where the map has no such key
  quotas,   \* the Quotas map of each cache object
  lock,     \* who holds the Lock of each cache object
  list,     \* the RQs Sync was called with
  left,     \* namespaces that Sync's merge loop has still to visit
  updated,  \* keys of updatedQuotas
  syncPc    \* "tick", "listed" or "merging"; r.lock is held while "merging"

cacheVars == <<cur, quotas, lock>>
syncVars  == <<list, left, updated, syncPc>>

(* An entry is fresh for 10 seconds after LastUpdate. *)
Entries == [age: {"none", "fresh", "old"}, used: Amounts]
NoEntry == [age |-> "none", used |-> 0]
Fresh(used) == [age |-> "fresh", used |-> used]
NoEntries == [n \in Namespaces |-> NoEntry]

NoList == [n \in Namespaces |-> [exists |-> FALSE, rv |-> 0, used |-> 0]]

Counted(o) == Usages(quotas[o])

CacheTypeOK ==
  /\ cur \in Objects \cup {NoObject}
  /\ quotas \in [Objects -> [Namespaces -> Entries]]
  /\ lock \in [Objects -> Requests \cup {NoRequest}]
  /\ list \in [Namespaces -> ResourceQuotas]
  /\ left \subseteq Namespaces
  /\ updated \subseteq Namespaces
  /\ syncPc \in {"tick", "listed", "merging"}

CacheInit ==
  /\ cur = NoObject
  /\ quotas = [o \in Objects |-> NoEntries]
  /\ lock = [o \in Objects |-> NoRequest]
  /\ list = NoList
  /\ left = {}
  /\ updated = {}
  /\ syncPc = "tick"

-----------------------------------------------------------------------------
(* GetOrCreate under r.lock: o is the object the map holds, or a new one
   (held: the objects that something refers to). *)
GetOrCreate(o, held) ==
  /\ syncPc # "merging"
  /\ \/ cur = o /\ UNCHANGED <<cur, quotas>>
     \/ /\ cur = NoObject
        /\ o \notin held
        /\ cur' = o
        /\ quotas' = [quotas EXCEPT ![o] = NoEntries]

SetEntry(o, n, entry) == quotas' = [quotas EXCEPT ![o][n] = entry]

(* Ten seconds pass since an entry's LastUpdate. *)
Expire(n) ==
  /\ "sync" \in Faults
  /\ cur # NoObject /\ quotas[cur][n].age = "fresh"
  /\ SetEntry(cur, n, [quotas[cur][n] EXCEPT !.age = "old"])
  /\ UNCHANGED <<cur, lock, syncVars>>

-----------------------------------------------------------------------------
Listed == {n \in Namespaces : list[n].exists}

SyncReturns == syncPc' = "tick" /\ list' = NoList

(* SyncOnce: the ticker fires and the RQs are listed from the informer. *)
SyncList ==
  /\ "sync" \in Faults
  /\ syncPc = "tick"
  /\ list' = rqSeen
  /\ syncPc' = "listed"
  /\ UNCHANGED <<cacheVars, left, updated>>

(* No RQ names the CRQ any more: its object is dropped. *)
SyncDrop ==
  /\ syncPc = "listed"
  /\ Listed = {}
  /\ cur' = NoObject
  /\ SyncReturns
  /\ UNCHANGED <<quotas, lock, left, updated>>

(* A CRQ the cache does not know gets a new object. *)
SyncNew(o, held) ==
  /\ syncPc = "listed"
  /\ Listed # {} /\ cur = NoObject
  /\ o \notin held
  /\ cur' = o
  /\ quotas' = [quotas EXCEPT ![o] =
                  [n \in Namespaces |-> IF n \in Listed THEN Fresh(list[n].used) ELSE NoEntry]]
  /\ SyncReturns
  /\ UNCHANGED <<lock, left, updated>>

SyncMerge ==
  /\ syncPc = "listed"
  /\ Listed # {} /\ cur # NoObject
  /\ left' = Namespaces
  /\ updated' = Listed
  /\ syncPc' = "merging"
  /\ UNCHANGED <<cacheVars, list>>

(* Mutant: the merge loop drops the listed usage of an old entry. *)
MergeEntryKeepsOld(n) ==
  /\ syncPc = "merging"
  /\ n \in left
  /\ left' = left \ {n}
  /\ updated' = IF quotas[cur][n].age = "old" THEN updated \ {n} ELSE updated
  /\ UNCHANGED <<quotas, cur, lock, list, syncPc>>

(* One turn of the merge loop.  A fresh entry is skipped, but it stays in
   updatedQuotas. *)
MergeEntry(n) ==
  /\ syncPc = "merging"
  /\ n \in left
  /\ left' = left \ {n}
  /\ \/ /\ n \notin Listed
        /\ SetEntry(cur, n, NoEntry)
        /\ UNCHANGED updated
     \/ /\ n \in Listed /\ quotas[cur][n].age = "old"
        /\ SetEntry(cur, n, Fresh(list[n].used))
        /\ updated' = updated \ {n}
     \/ /\ n \in Listed /\ quotas[cur][n].age # "old"
        /\ UNCHANGED <<quotas, updated>>
  /\ UNCHANGED <<cur, lock, list, syncPc>>

(* maps.Copy of what is left in updatedQuotas, key by key. *)
CopyEntry(n) ==
  /\ syncPc = "merging"
  /\ left = {} /\ n \in updated
  /\ SetEntry(cur, n, Fresh(list[n].used))
  /\ updated' = updated \ {n}
  /\ UNCHANGED <<cur, lock, list, left, syncPc>>

SyncEnd ==
  /\ syncPc = "merging"
  /\ left = {} /\ updated = {}
  /\ SyncReturns
  /\ UNCHANGED <<cacheVars, left, updated>>

SyncStep(held) ==
  \/ SyncList \/ SyncDrop \/ SyncMerge \/ SyncEnd
  \/ \E o \in Objects : SyncNew(o, held)
  \/ \E n \in Namespaces : MergeEntry(n) \/ CopyEntry(n)
=============================================================================
