------------------------- MODULE PodAdmission_proofs -------------------------
(***************************************************************************)
(* PodAdmission implements PodQuota, for any namespaces, pods, quotas and  *)
(* limits.  The copies that plugin and controller work on may be old, but  *)
(* one that carries the stored version is the stored object (Faithful), so *)
(* that a charge that the API server takes was checked against the usage   *)
(* stored at that moment (Checked).                                        *)
(***************************************************************************)
EXTENDS PodAdmission, PodQuota_proofs

Copy(object, n) ==
  /\ object.version =< version[n]
  /\ object.version = version[n] => object.used = used[n]

Charging(p) == pc[p] \in {"update", "store"}

Faithful ==
  /\ \A n \in Namespaces : version[n] >= 1 /\ Copy(seen[n], n) /\ Copy(latest[n], n)
  /\ \A p \in Pods : Charging(p) => Copy(snap[p], home[p])

Checked ==
  \A p \in Pods :
    Charging(p) => Matches(quota, kinds[p]) = "yes" /\ snap[p].used + 1 =< hard

Tried ==
  \A p \in Pods : /\ pc[p] = "new" => tries[p] = 0
                  /\ pc[p] = "again" => tries[p] < MaxTries

Recounted ==
  recount.phase # "idle" =>
    /\ recount.pods \subseteq Of(recount.ns, Pods)
    /\ recount.quota.used \in UsageStats(quota, kinds, recount.pods)

IInv == TypeOK /\ Faithful /\ Checked /\ Tried /\ Recounted
-----------------------------------------------------------------------------
(* Whatever the evaluator answers, no more pods are counted than there are. *)
LEMMA UsageCounts ==
  ASSUME NEW S \in SUBSET Pods
  PROVE  UsageStats(quota, kinds, S) \subseteq 0 .. MaxUsed
<1> DEFINE answer ==
      [p \in S |-> IF Tracked # {} THEN ConditionalMatches(quota, kinds[p])
                   ELSE UnderlyingMatches(quota, kinds[p])]
<1> DEFINE yes == {p \in DOMAIN answer : answer[p] = "yes"}
<1>1. yes \subseteq Pods
  OBVIOUS
<1>2. Cardinality(yes) \in Nat /\ Cardinality(yes) =< Cardinality(Pods)
  BY <1>1, PodsAssumption, FS_Subset, FS_CardinalityType
<1>3. Cardinality(Pods) \in Nat
  BY PodsAssumption, FS_CardinalityType
<1>4. UsageStats(quota, kinds, S) = CalculateUsageStats(answer)
  BY DEF UsageStats
<1>5. CalculateUsageStats(answer) \subseteq 0 .. Cardinality(yes)
  <2> HIDE DEF answer
  <2> QED BY <1>2 DEF CalculateUsageStats
<1> HIDE DEF answer, yes
<1> QED BY <1>2, <1>3, <1>4, <1>5, MaxUsedAssumption

(* A check that ends in a charge, and only that, found the quota responsible
   and room in the copy it looked at. *)
LEMMA CheckAnswers ==
  ASSUME NEW p \in Pods
  PROVE  /\ CheckRequest(p) = "charged" =>
              Matches(quota, kinds[p]) = "yes" /\ View(home[p]).used + 1 =< hard
         /\ CheckRequest(p) = "allowed" => Matches(quota, kinds[p]) = "no"
<1>1. Matches(quota, kinds[p]) \in {"yes", "no", "error"}
  BY DEF Matches, ConditionalMatches, UnderlyingMatches, GenericMatches, Answer
<1>2. Limited \in BOOLEAN
  BY DEF Limited
<1>3. MatchingScopesFails(quota, kinds[p]) \in BOOLEAN
  BY DEF MatchingScopesFails
<1>4. CASE MatchingScopesFails(quota, kinds[p])
  BY <1>4 DEF CheckRequest
<1>5. CASE ~ MatchingScopesFails(quota, kinds[p])
  BY <1>1, <1>2, <1>5 DEF CheckRequest
<1> QED BY <1>4, <1>5

(* The creation of a pod is answered as the plugin's check ends, or refused. *)
LEMMA CreateAnswers ==
  ASSUME NEW p \in Pods, NEW answer \in Answers("CREATE", Evaluate(p, "CREATE"))
  PROVE  answer \in {"refused", CheckRequest(p)}
BY DEF Answers, Handle, Handles, Evaluate, EvaluatorHandles

LEMMA InitInvariant == ASSUME Init PROVE IInv
<1>1. QuotaTypeOK
  BY PodsAssumption, FS_CardinalityType DEF Init, QuotaInit, QuotaTypeOK, SpecTypeOK
<1>2. used \in [Namespaces -> 0 .. MaxUsed]
  <2>1. Cardinality(Pods) \in Nat
    BY PodsAssumption, FS_CardinalityType
  <2> QED BY <2>1, MaxUsedAssumption DEF Init, QuotaInit
<1>3. NoQuota \in Objects("core") /\ NoRecount \in Recounts
  BY NamespacesAssumption DEF NoQuota, NoRecount, Objects, Recounts
<1>4. \A n \in Namespaces : toQuota(Stored(n)) \in Objects("core")
  BY <1>1 DEF Init, toQuota, Stored, Objects, QuotaTypeOK
<1>5. TypeOK
  BY <1>1, <1>2, <1>3, <1>4, MaxTriesAssumption DEF Init, TypeOK, QuotaTypeOK
<1>6. Faithful
  BY DEF Init, Faithful, Copy, Charging, toQuota, Stored, NoQuota
<1>7. Checked /\ Tried /\ Recounted
  BY DEF Init, Checked, Charging, Tried, Recounted, NoRecount
<1> QED BY <1>5, <1>6, <1>7 DEF IInv

-----------------------------------------------------------------------------
(* THE STEPS *)

(* The request for p, which was not being charged, is answered. *)
LEMMA AnsweredInvariant ==
  ASSUME IInv, NEW p \in Pods, NEW answer, Answered(p, answer),
         tries[p] < MaxTries, pc[p] \in {"new", "again"},
         answer = "charged" => CheckRequest(p) = "charged"
  PROVE  IInv'
<1>1. /\ pc \in [Pods -> {"new", "again", "update", "store", "allowed", "in", "out"}]
      /\ snap \in [Pods -> Objects("core")] /\ tries \in [Pods -> 0 .. MaxTries]
      /\ pods = {q \in Pods : pc[q] \in {"allowed", "in"}}
      /\ home \in [Pods -> Namespaces]
  BY DEF IInv, TypeOK, QuotaTypeOK, SpecTypeOK
<1>2. UNCHANGED <<quota, hard, home, kinds, used, exact, version, seen, latest, podsSeen,
                  managed, reserved, recount, covered>>
  BY DEF Answered, specVars
<1>3. NoQuota \in Objects("core") /\ View(home[p]) \in Objects("core")
      /\ Copy(View(home[p]), home[p])
  BY <1>1 DEF NoQuota, Objects, View, IInv, TypeOK, Faithful
<1>4. /\ pc' \in [Pods -> {"new", "again", "update", "store", "allowed", "in", "out"}]
      /\ snap' \in [Pods -> Objects("core")] /\ tries' \in [Pods -> 0 .. MaxTries]
  BY <1>1, <1>3, MaxTriesAssumption DEF Answered, Return
<1>5. pods' = {q \in Pods : pc'[q] \in {"allowed", "in"}}
  BY <1>1 DEF Answered, Return
<1>6. TypeOK'
  BY <1>1, <1>2, <1>4, <1>5 DEF IInv, TypeOK, QuotaTypeOK, SpecTypeOK
<1>7. /\ \A q \in Pods \ {p} : UNCHANGED <<pc[q], snap[q], tries[q]>>
      /\ pc'[p] \in {"out", "allowed", "update"}
      /\ pc'[p] = "update" => snap'[p] = View(home[p]) /\ answer = "charged"
  BY <1>1 DEF Answered, Return
<1>8. Faithful'
  BY <1>1, <1>2, <1>3, <1>7 DEF IInv, Faithful, Copy, Charging
<1>9. Checked'
  BY <1>1, <1>2, <1>7, CheckAnswers DEF IInv, Checked, Charging
<1>10. Tried' /\ Recounted'
  BY <1>1, <1>2, <1>7 DEF IInv, Tried, Recounted, Of
<1> QED BY <1>6, <1>8, <1>9, <1>10 DEF IInv

LEMMA CheckInvariant ==
  ASSUME IInv, NEW p \in Pods, Review(p) \/ Retry(p) PROVE IInv'
<1>1. CASE Review(p)
  <2>1. PICK answer \in Answers("CREATE", Evaluate(p, "CREATE")) : Answered(p, answer)
    BY <1>1 DEF Review
  <2>2. pc[p] = "new" /\ tries[p] = 0
    BY <1>1 DEF Review, IInv, Tried
  <2>3. answer = "charged" => CheckRequest(p) = "charged"
    BY CreateAnswers
  <2> QED BY <2>1, <2>2, <2>3, AnsweredInvariant, MaxTriesAssumption
<1>2. CASE Retry(p)
  BY <1>2, AnsweredInvariant DEF Retry, IInv, Tried
<1> QED BY <1>1, <1>2

(* The types that the steps of one request can disturb. *)
RequestsTypeOK ==
  /\ pc \in [Pods -> {"new", "again", "update", "store", "allowed", "in", "out"}]
  /\ snap \in [Pods -> Objects("core")]
  /\ tries \in [Pods -> 0 .. MaxTries]

LEMMA FailedSteps ==
  ASSUME IInv, NEW p \in Pods, Charging(p), Failed(p)
  PROVE  /\ RequestsTypeOK' /\ pc'[p] \in {"again", "out"}
         /\ \A q \in Pods \ {p} : UNCHANGED <<pc[q], snap[q], tries[q]>>
         /\ pc'[p] = "again" => tries'[p] < MaxTries
<1>1. RequestsTypeOK /\ NoQuota \in Objects("core") /\ 0 \in 0 .. MaxTries
  BY MaxTriesAssumption DEF IInv, TypeOK, RequestsTypeOK, NoQuota, Objects
<1>2. CASE tries[p] < MaxTries
  BY <1>1, <1>2 DEF Failed, RequestsTypeOK
<1>3. CASE ~ (tries[p] < MaxTries)
  BY <1>1, <1>3 DEF Failed, Return, RequestsTypeOK
<1> QED BY <1>2, <1>3

(* A charge is of a usage that the bound allows, and is a status of corev1. *)
LEMMA ChargeType ==
  ASSUME IInv, NEW p \in Pods, Charging(p)
  PROVE  /\ Charge(p).version = snap[p].version /\ Charge(p).used = snap[p].used + 1
         /\ Charge(p).used \in 0 .. MaxUsed /\ home[p] \in Namespaces
<1>1. snap[p] \in Objects("core") /\ hard \in Hards /\ home[p] \in Namespaces
  BY DEF IInv, TypeOK, QuotaTypeOK, SpecTypeOK
<1>2. snap[p].used + 1 =< hard
  BY DEF IInv, Checked
<1> QED BY <1>1, <1>2, HardsAssumption, MaxUsedAssumption DEF Charge, Objects

LEMMA ReserveType ==
  ASSUME IInv, NEW n \in Namespaces, NEW amount \in 0 .. MaxUsed, Reserve(n, amount)
  PROVE  reserved' \in [Namespaces -> 0 .. MaxUsed] /\ UNCHANGED <<hard, used>>
BY DEF Reserve, Ledger!Reserve, IInv, TypeOK

LEMMA SubmitInvariant ==
  ASSUME IInv, NEW p \in Pods, Submit(p) PROVE IInv'
<1>1. pc[p] = "update" /\ Charging(p)
  BY DEF Submit, Charging
<1>2. UNCHANGED <<quota, home, kinds, pods, exact, version, seen, latest, podsSeen,
                  managed, recount>>
  BY DEF Submit
<1>3. /\ UNCHANGED <<hard, used>> /\ reserved' \in [Namespaces -> 0 .. MaxUsed]
      /\ covered' \in BOOLEAN
  <2>1. CASE Reserve(home[p], Charge(p).used) /\ UNCHANGED <<used, covered>>
    BY <1>1, <2>1, ChargeType, ReserveType DEF IInv, TypeOK
  <2>2. CASE UNCHANGED <<hard, used, reserved>> /\ covered' \in {covered, FALSE}
    BY <2>2 DEF IInv, TypeOK
  <2> QED BY <2>1, <2>2 DEF Submit, Uncounted
<1>4. /\ RequestsTypeOK' /\ pc'[p] \in {"store", "again", "out"}
      /\ \A q \in Pods \ {p} : UNCHANGED <<pc[q], snap[q], tries[q]>>
      /\ pc'[p] = "store" => snap' = snap
      /\ pc'[p] = "again" => tries'[p] < MaxTries
  <2>1. CASE Failed(p)
    BY <1>1, <2>1, FailedSteps
  <2>2. CASE pc' = [pc EXCEPT ![p] = "store"] /\ UNCHANGED <<snap, tries>>
    BY <2>2 DEF IInv, TypeOK, RequestsTypeOK
  <2> QED BY <2>1, <2>2 DEF Submit
<1>5. pods' = {q \in Pods : pc'[q] \in {"allowed", "in"}}
  <2>1. pods = {q \in Pods : pc[q] \in {"allowed", "in"}}
    BY DEF IInv, TypeOK
  <2> QED BY <1>1, <1>2, <1>4, <2>1
<1>6. TypeOK'
  BY <1>2, <1>3, <1>4, <1>5 DEF IInv, TypeOK, RequestsTypeOK, QuotaTypeOK, SpecTypeOK
<1>7. Faithful' /\ Checked'
  BY <1>1, <1>2, <1>3, <1>4 DEF IInv, Faithful, Copy, Charging, Checked
<1>8. Tried' /\ Recounted'
  BY <1>2, <1>4 DEF IInv, Tried, Recounted, Of
<1> QED BY <1>6, <1>7, <1>8 DEF IInv

(* After a status has been stored every older copy is known to be old. *)
LEMMA StoredCopies ==
  ASSUME IInv, NEW n \in Namespaces, NEW object, StoreStatus(object, n)
  PROVE  /\ version' \in [Namespaces -> Nat]
         /\ \A m \in Namespaces : version'[m] >= 1
         /\ \A m \in Namespaces, o \in Objects("core") : Copy(o, m) => Copy(o, m)'
<1>1. version \in [Namespaces -> Nat] /\ used \in [Namespaces -> Nat]
      /\ \A m \in Namespaces : version[m] >= 1
  BY DEF IInv, TypeOK, QuotaTypeOK, Faithful
<1>2. version' = [version EXCEPT ![n] = @ + 1]
      /\ used' = [used EXCEPT ![n] = fromQuota(object).used]
  BY DEF StoreStatus
<1>3. ASSUME NEW m \in Namespaces, NEW o \in Objects("core"), Copy(o, m) PROVE Copy(o, m)'
  <2>1. o.version \in Nat /\ version[m] \in Nat
    BY <1>1 DEF Objects
  <2>2. CASE m = n
    <3>1. version'[m] = version[m] + 1
      BY <1>1, <1>2, <2>2
    <3> QED BY <1>3, <2>1, <3>1 DEF Copy
  <2>3. CASE m # n
    BY <1>1, <1>2, <1>3, <2>3 DEF Copy
  <2> QED BY <2>2, <2>3
<1> QED BY <1>1, <1>2, <1>3

LEMMA StoreInvariant ==
  ASSUME IInv, NEW p \in Pods, Store(p) PROVE IInv'
<1>1. pc[p] = "store" /\ Charging(p)
  BY DEF Store, Charging
<1>2. UNCHANGED <<quota, hard, home, kinds, exact, seen, podsSeen, managed, reserved,
                  recount, covered>>
  BY DEF Store, specVars
<1>3. /\ used \in [Namespaces -> 0 .. MaxUsed] /\ version \in [Namespaces -> Nat]
      /\ latest \in [Namespaces -> Objects("core")] /\ seen \in [Namespaces -> Objects("core")]
      /\ pods = {q \in Pods : pc[q] \in {"allowed", "in"}} /\ RequestsTypeOK
      /\ home[p] \in Namespaces /\ Charge(p).used \in 0 .. MaxUsed
  BY <1>1, ChargeType DEF IInv, TypeOK, QuotaTypeOK, RequestsTypeOK
<1>4. /\ RequestsTypeOK' /\ pc'[p] \in {"allowed", "again", "out"}
      /\ \A q \in Pods \ {p} : UNCHANGED <<pc[q], snap[q], tries[q]>>
      /\ pc'[p] = "again" => tries'[p] < MaxTries
      /\ pods' = {q \in Pods : pc'[q] \in {"allowed", "in"}}
  <2>1. CASE Return(p, "allowed") /\ pods' = pods \cup {p}
    BY <1>3, <2>1, MaxTriesAssumption DEF Return, RequestsTypeOK, NoQuota, Objects
  <2>2. CASE Failed(p) /\ UNCHANGED pods
    <3>1. /\ RequestsTypeOK' /\ pc'[p] \in {"again", "out"}
          /\ \A q \in Pods \ {p} : UNCHANGED <<pc[q], snap[q], tries[q]>>
          /\ pc'[p] = "again" => tries'[p] < MaxTries
      BY <1>1, <2>2, FailedSteps
    <3> QED BY <1>1, <1>3, <2>2, <3>1
  <2> QED BY <2>1, <2>2 DEF Store
<1>5. /\ used' \in [Namespaces -> 0 .. MaxUsed] /\ version' \in [Namespaces -> Nat]
      /\ \A m \in Namespaces : version'[m] >= 1
      /\ \A m \in Namespaces, o \in Objects("core") : Copy(o, m) => Copy(o, m)'
      /\ latest' \in [Namespaces -> Objects("core")]
      /\ \A m \in Namespaces : Copy(latest[m], m)'
  <2>1. CASE StoreStatus(Charge(p), home[p])
    <3>1. /\ version' \in [Namespaces -> Nat] /\ \A m \in Namespaces : version'[m] >= 1
          /\ \A m \in Namespaces, o \in Objects("core") : Copy(o, m) => Copy(o, m)'
          /\ used' = [used EXCEPT ![home[p]] = Charge(p).used]
      BY <1>3, <2>1, StoredCopies DEF StoreStatus, fromQuota
    <3>2. used' \in [Namespaces -> 0 .. MaxUsed]
      BY <1>3, <3>1
    <3>3. \A m \in Namespaces : latest[m] \in Objects("core") /\ Copy(latest[m], m)
      BY <1>3 DEF IInv, Faithful
    <3>4. CASE UNCHANGED latest
      BY <1>3, <3>1, <3>2, <3>3, <3>4 DEF Copy
    <3>5. CASE latest' = [latest EXCEPT ![home[p]] = Returned(home[p])]
      <4>1. /\ Returned(home[p]) \in Objects("core")
            /\ Returned(home[p]).version = version'[home[p]]
            /\ Returned(home[p]).used = used'[home[p]]
        <5>1. used'[home[p]] \in Nat /\ version'[home[p]] \in Nat
          BY <1>3, <3>1, <3>2, MaxUsedAssumption
        <5> QED BY <5>1 DEF Returned, Stored, toQuota, Objects
      <4>2. latest' \in [Namespaces -> Objects("core")]
        BY <1>3, <3>5, <4>1
      <4>3. ASSUME NEW m \in Namespaces PROVE Copy(latest[m], m)'
        <5>1. CASE m = home[p]
          <6>1. latest'[m] = Returned(m) /\ version'[m] \in Nat
            BY <1>3, <3>1, <3>5, <5>1
          <6> QED BY <4>1, <5>1, <6>1 DEF Copy
        <5>2. CASE m # home[p]
          <6>1. latest'[m] = latest[m]
            BY <1>3, <3>5, <5>2
          <6> QED BY <3>1, <3>3, <6>1 DEF Copy
        <5> QED BY <5>1, <5>2
      <4> QED BY <3>1, <3>2, <4>2, <4>3
    <3> QED BY <3>4, <3>5 DEF Store
  <2>2. CASE UNCHANGED <<used, version, latest>>
    BY <1>3, <2>2 DEF IInv, Faithful, Copy
  <2> QED BY <2>1, <2>2 DEF Store
<1>6. used' \in [Namespaces -> Nat]
  BY <1>5, MaxUsedAssumption
<1>7. TypeOK'
  BY <1>2, <1>4, <1>5, <1>6 DEF IInv, TypeOK, RequestsTypeOK, QuotaTypeOK, SpecTypeOK
<1>8. Faithful'
  <2>1. ASSUME NEW n \in Namespaces PROVE Copy(seen[n], n)'
    <3>1. Copy(seen[n], n) /\ seen[n] \in Objects("core")
      BY <1>3 DEF IInv, Faithful
    <3> QED BY <1>2, <1>5, <3>1 DEF Copy
  <2>2. ASSUME NEW q \in Pods, Charging(q)' PROVE Copy(snap[q], home[q])'
    <3>1. q # p /\ Charging(q) /\ snap'[q] = snap[q] /\ snap[q] \in Objects("core")
      BY <1>3, <1>4, <2>2 DEF Charging, RequestsTypeOK
    <3>2. Copy(snap[q], home[q]) /\ home[q] \in Namespaces
      BY <3>1, ChargeType DEF IInv, Faithful
    <3> QED BY <1>2, <1>5, <3>1, <3>2 DEF Copy
  <2> QED BY <1>5, <2>1, <2>2 DEF Faithful
<1>9. Checked' /\ Tried' /\ Recounted'
  BY <1>2, <1>4 DEF IInv, Checked, Charging, Tried, Recounted, Of
<1> QED BY <1>7, <1>8, <1>9 DEF IInv

(* The pod is stored, or goes. *)
LEMMA PodInvariant ==
  ASSUME IInv, NEW p \in Pods, StorePod(p) \/ Leave(p) \/ Request(p) PROVE IInv'
<1>1. UNCHANGED <<quota, hard, home, kinds, used, exact, version, seen, latest, podsSeen,
                  managed, reserved, snap, tries, recount, covered>>
  BY DEF StorePod, Leave, Request, quotaVars, specVars
<1>2. /\ pc' \in [Pods -> {"new", "again", "update", "store", "allowed", "in", "out"}]
      /\ pc'[p] \in {"in", "out"} /\ \A q \in Pods \ {p} : pc'[q] = pc[q]
      /\ pods' = {q \in Pods : pc'[q] \in {"allowed", "in"}}
  BY DEF StorePod, Leave, Request, quotaVars, IInv, TypeOK
<1>3. TypeOK'
  BY <1>1, <1>2 DEF IInv, TypeOK, QuotaTypeOK, SpecTypeOK
<1>4. Faithful' /\ Checked'
  BY <1>1, <1>2 DEF IInv, Faithful, Copy, Charging, Checked
<1>5. Tried' /\ Recounted'
  BY <1>1, <1>2 DEF IInv, Tried, Recounted, Of
<1> QED BY <1>3, <1>4, <1>5 DEF IInv

LEMMA InformInvariant ==
  ASSUME IInv, InformPods \/ \E n \in Namespaces : InformRQ(n) \/ InformManager(n)
  PROVE  IInv'
<1>1. CASE InformPods
  <2>1. podsSeen' \subseteq Pods
    BY <1>1 DEF InformPods
  <2> QED
    BY <1>1, <2>1
    DEF InformPods, quotaVars, requestVars, IInv, TypeOK, QuotaTypeOK, SpecTypeOK, Faithful,
        Copy, Charging, Checked, Tried, Recounted, Of
<1>2. ASSUME NEW n \in Namespaces, InformRQ(n) PROVE IInv'
  <2>1. UNCHANGED <<quota, hard, home, kinds, pods, used, exact, version, podsSeen, managed,
                    reserved, pc, snap, tries, recount, covered>>
    BY <1>2 DEF InformRQ, quotaVars, requestVars
  <2>2. version[n] \in Nat /\ used[n] \in Nat /\ NoQuota \in Objects("core")
        /\ version[n] >= 1
    BY DEF IInv, TypeOK, QuotaTypeOK, Faithful, NoQuota, Objects
  <2>3. toQuota(Stored(n)) \in Objects("core") /\ Copy(toQuota(Stored(n)), n) /\ Copy(NoQuota, n)
    BY <2>2 DEF toQuota, Stored, Objects, Copy, NoQuota
  <2>4. /\ seen' \in [Namespaces -> Objects("core")] /\ latest' \in [Namespaces -> Objects("core")]
        /\ seen'[n] = toQuota(Stored(n)) /\ latest'[n] = NoQuota
        /\ \A m \in Namespaces \ {n} : seen'[m] = seen[m] /\ latest'[m] = latest[m]
    <3>1. seen \in [Namespaces -> Objects("core")] /\ latest \in [Namespaces -> Objects("core")]
      BY DEF IInv, TypeOK
    <3>2. /\ seen' = [seen EXCEPT ![n] = toQuota(Stored(n))]
          /\ latest' = [latest EXCEPT ![n] = NoQuota]
      BY <1>2 DEF InformRQ
    <3> QED BY <2>2, <2>3, <3>1, <3>2
  <2>5. TypeOK'
    BY <2>1, <2>4 DEF IInv, TypeOK, QuotaTypeOK, SpecTypeOK
  <2>6. Faithful'
    BY <2>1, <2>3, <2>4 DEF IInv, Faithful, Copy, Charging
  <2>7. Checked' /\ Tried' /\ Recounted'
    BY <2>1 DEF IInv, Checked, Charging, Tried, Recounted, Of
  <2> QED BY <2>5, <2>6, <2>7 DEF IInv
<1>3. ASSUME NEW n \in Namespaces, InformManager(n) PROVE IInv'
  <2>1. managed' \in [Namespaces -> 0 .. MaxUsed]
    BY <1>3 DEF InformManager, IInv, TypeOK
  <2> QED
    BY <1>3, <2>1
    DEF InformManager, quotaVars, requestVars, IInv, TypeOK, QuotaTypeOK, SpecTypeOK, Faithful,
        Copy, Charging, Checked, Tried, Recounted, Of
<1> QED BY <1>1, <1>2, <1>3

LEMMA RecountReadInvariant ==
  ASSUME IInv, NEW n \in Namespaces, RecountRead(n) PROVE IInv'
<1>1. UNCHANGED <<quota, hard, home, kinds, pods, used, exact, version, seen, latest,
                  podsSeen, managed, reserved, pc, snap, tries, covered>>
  BY DEF RecountRead, quotaVars, requestVars
<1>2. PICK count \in UsageStats(quota, kinds, Of(n, podsSeen)) :
        recount' = [phase |-> "submit", ns |-> n, quota |-> [seen[n] EXCEPT !.used = count],
                    pods |-> Of(n, podsSeen)]
  BY DEF RecountRead
<1>3. Of(n, podsSeen) \subseteq Of(n, Pods) /\ Of(n, podsSeen) \subseteq Pods
  BY DEF IInv, TypeOK, Of
<1>4. count \in Nat
  BY <1>3, UsageCounts, MaxUsedAssumption
<1>5. recount' \in Recounts /\ recount'.quota.used = count
  <2>1. seen[n] \in Objects("core")
    BY DEF IInv, TypeOK
  <2> QED BY <1>2, <1>3, <1>4, <2>1 DEF Recounts, Objects
<1>6. TypeOK'
  BY <1>1, <1>5 DEF IInv, TypeOK, QuotaTypeOK, SpecTypeOK
<1>7. Recounted'
  BY <1>1, <1>2, <1>3, <1>5 DEF Recounted, Of
<1>8. Faithful' /\ Checked' /\ Tried'
  BY <1>1 DEF IInv, Faithful, Copy, Charging, Checked, Tried
<1> QED BY <1>6, <1>7, <1>8 DEF IInv

LEMMA RecountSubmitInvariant ==
  ASSUME IInv, RecountSubmit PROVE IInv'
<1>1. UNCHANGED <<quota, home, kinds, pods, exact, version, seen, latest, podsSeen, managed,
                  pc, snap, tries>>
  BY DEF RecountSubmit, requestVars
<1>2. /\ recount \in Recounts /\ recount.phase = "submit" /\ recount.ns \in Namespaces
      /\ recount.quota.used \in 0 .. MaxUsed
  <2>1. recount \in Recounts /\ recount.phase = "submit"
    BY DEF RecountSubmit, IInv, TypeOK
  <2>2. recount.pods \in SUBSET Pods
    BY <2>1 DEF Recounts
  <2> QED BY <2>1, <2>2, UsageCounts DEF IInv, Recounted, Recounts
<1>3. /\ UNCHANGED <<hard, used>> /\ reserved' \in [Namespaces -> 0 .. MaxUsed]
      /\ covered' \in BOOLEAN
  <2>1. CASE Reserve(recount.ns, recount.quota.used) /\ UNCHANGED used /\ CoveredAfter
    BY <1>2, <2>1, ReserveType DEF CoveredAfter
  <2>2. CASE UNCHANGED <<hard, used, reserved, covered>>
    BY <2>2 DEF IInv, TypeOK
  <2> QED BY <2>1, <2>2 DEF RecountSubmit, Uncounted
<1>4. NoRecount \in Recounts /\ NoRecount.phase = "idle"
  BY NamespacesAssumption DEF NoRecount, Recounts, NoQuota, Objects
<1>5. recount' \in Recounts /\ (recount'.phase # "idle" =>
         recount'.ns = recount.ns /\ recount'.quota = recount.quota /\ recount'.pods = recount.pods)
  BY <1>2, <1>4 DEF RecountSubmit, Recounts
<1>6. TypeOK'
  BY <1>1, <1>3, <1>5 DEF IInv, TypeOK, QuotaTypeOK, SpecTypeOK
<1>7. Recounted'
  BY <1>1, <1>2, <1>5 DEF IInv, Recounted, Of
<1>8. Faithful' /\ Checked' /\ Tried'
  BY <1>1, <1>3 DEF IInv, Faithful, Copy, Charging, Checked, Tried
<1> QED BY <1>6, <1>7, <1>8 DEF IInv

LEMMA RecountStoreInvariant ==
  ASSUME IInv, RecountStore PROVE IInv'
<1>1. UNCHANGED <<quota, hard, home, kinds, pods, seen, latest, podsSeen, managed, reserved,
                  pc, snap, tries, covered>>
  BY DEF RecountStore, specVars, requestVars
<1>2. recount \in Recounts /\ recount.ns \in Namespaces /\ recount.quota.used \in 0 .. MaxUsed
  <2>1. recount \in Recounts /\ recount.phase = "store" /\ recount.pods \in SUBSET Pods
    BY DEF RecountStore, IInv, TypeOK, Recounts
  <2> QED BY <2>1, UsageCounts DEF IInv, Recounted, Recounts
<1>3. /\ used' \in [Namespaces -> 0 .. MaxUsed] /\ version' \in [Namespaces -> Nat]
      /\ \A m \in Namespaces : version'[m] >= 1
      /\ \A m \in Namespaces, o \in Objects("core") : Copy(o, m) => Copy(o, m)'
  <2>1. CASE StoreStatus(recount.quota, recount.ns)
    <3>1. used' \in [Namespaces -> 0 .. MaxUsed]
      BY <1>2, <2>1 DEF StoreStatus, fromQuota, IInv, TypeOK
    <3> QED BY <1>2, <2>1, <3>1, StoredCopies
  <2>2. CASE UNCHANGED <<used, version, exact>>
    BY <2>2 DEF IInv, TypeOK, QuotaTypeOK, Faithful, Copy
  <2> QED BY <2>1, <2>2 DEF RecountStore
<1>4. exact' \in BOOLEAN
  BY DEF RecountStore, IInv, TypeOK, QuotaTypeOK
<1>5. recount' = NoRecount /\ NoRecount \in Recounts /\ NoRecount.phase = "idle"
  BY NamespacesAssumption DEF RecountStore, NoRecount, Recounts, NoQuota, Objects
<1>6. TypeOK'
  <2>1. used' \in [Namespaces -> Nat]
    BY <1>3, MaxUsedAssumption
  <2> QED BY <1>1, <1>3, <1>4, <1>5, <2>1 DEF IInv, TypeOK, QuotaTypeOK, SpecTypeOK
<1>7. Faithful'
  <2>1. /\ \A n \in Namespaces : /\ seen[n] \in Objects("core") /\ Copy(seen[n], n)
                                /\ latest[n] \in Objects("core") /\ Copy(latest[n], n)
        /\ \A p \in Pods : snap[p] \in Objects("core") /\ home[p] \in Namespaces
        /\ \A p \in Pods : Charging(p) => Copy(snap[p], home[p])
    BY DEF IInv, TypeOK, QuotaTypeOK, SpecTypeOK, Faithful
  <2>2. ASSUME NEW n \in Namespaces
        PROVE  version'[n] >= 1 /\ Copy(seen[n], n)' /\ Copy(latest[n], n)'
    BY <1>1, <1>3, <2>1 DEF Copy
  <2>3. ASSUME NEW p \in Pods, Charging(p)' PROVE Copy(snap[p], home[p])'
    <3>1. Charging(p) /\ Copy(snap[p], home[p])'
      BY <1>1, <1>3, <2>1, <2>3 DEF Charging, Copy
    <3> QED BY <3>1
  <2> QED BY <2>2, <2>3 DEF Faithful
<1>8. Checked' /\ Tried' /\ Recounted'
  BY <1>1, <1>5 DEF IInv, Checked, Charging, Tried, Recounted
<1> QED BY <1>6, <1>7, <1>8 DEF IInv

LEMMA SyncEntryInvariant ==
  ASSUME IInv, NEW n \in Namespaces, SyncEntry(n) PROVE IInv'
<1>1. UNCHANGED <<quota, hard, home, kinds, pods, used, exact, version, seen, latest, podsSeen,
                  managed, pc, snap, tries, recount>>
  BY DEF SyncEntry, quotaVars, requestVars
<1>2. reserved' \in [Namespaces -> 0 .. MaxUsed] /\ covered' \in BOOLEAN
  BY DEF SyncEntry, CoveredAfter, IInv, TypeOK
<1>3. TypeOK'
  BY <1>1, <1>2 DEF IInv, TypeOK, QuotaTypeOK, SpecTypeOK
<1>4. Faithful' /\ Checked'
  BY <1>1 DEF IInv, Faithful, Copy, Charging, Checked
<1>5. Tried' /\ Recounted'
  BY <1>1 DEF IInv, Tried, Recounted, Of
<1> QED BY <1>3, <1>4, <1>5 DEF IInv

LEMMA RestartServes ==
  ASSUME IInv, Restart
  PROVE  /\ pc' \in [Pods -> {"new", "again", "update", "store", "allowed", "in", "out"}]
         /\ \A p \in Pods : ~ Serving(p)' /\ (pc'[p] = pc[p] \/ (Serving(p) /\ pc'[p] = "out"))
<1>1. pc \in [Pods -> {"new", "again", "update", "store", "allowed", "in", "out"}]
  BY DEF IInv, TypeOK
<1>2. pc' = [p \in Pods |-> IF Serving(p) THEN "out" ELSE pc[p]]
  BY DEF Restart
<1>3. ASSUME NEW p \in Pods
      PROVE  pc'[p] = IF Serving(p) THEN "out" ELSE pc[p]
  BY <1>2
<1>4. \A p \in Pods : Serving(p)' = (pc'[p] \in {"again", "update", "store"})
  BY DEF Serving
<1>5. \A p \in Pods : ~ Serving(p)'
  BY <1>3, <1>4 DEF Serving
<1>6. pc' \in [Pods -> {"new", "again", "update", "store", "allowed", "in", "out"}]
  BY <1>1, <1>2
<1> QED BY <1>3, <1>5, <1>6

LEMMA RestartInvariant ==
  ASSUME IInv, Restart PROVE IInv'
<1>1. UNCHANGED <<quota, hard, home, kinds, pods, used, exact, version, seen, podsSeen, managed>>
  BY DEF Restart, quotaVars
<1>2. NoQuota \in Objects("core") /\ NoRecount \in Recounts /\ NoRecount.phase = "idle"
  BY NamespacesAssumption DEF NoQuota, NoRecount, Objects, Recounts
<1>3. 0 \in 0 .. MaxUsed /\ 0 \in 0 .. MaxTries
  BY MaxUsedAssumption, MaxTriesAssumption
<1>4. /\ reserved' \in [Namespaces -> 0 .. MaxUsed] /\ covered' \in BOOLEAN
      /\ latest' \in [Namespaces -> Objects("core")] /\ snap' \in [Pods -> Objects("core")]
      /\ tries' = [p \in Pods |-> 0] /\ tries' \in [Pods -> 0 .. MaxTries]
      /\ recount' = NoRecount
  BY <1>2, <1>3 DEF Restart, CoveredAfter
<1>5. /\ pc' \in [Pods -> {"new", "again", "update", "store", "allowed", "in", "out"}]
      /\ \A p \in Pods : ~ Serving(p)' /\ (pc'[p] = pc[p] \/ (Serving(p) /\ pc'[p] = "out"))
  BY RestartServes
<1>6. pods' = {p \in Pods : pc'[p] \in {"allowed", "in"}}
  <2>1. pods = {p \in Pods : pc[p] \in {"allowed", "in"}} /\ pods' = pods
    BY <1>1 DEF IInv, TypeOK
  <2>2. \A p \in Pods : pc'[p] \in {"allowed", "in"} <=> pc[p] \in {"allowed", "in"}
    BY <1>5 DEF Serving
  <2> QED BY <2>1, <2>2
<1>7. TypeOK'
  BY <1>1, <1>2, <1>4, <1>5, <1>6 DEF IInv, TypeOK, QuotaTypeOK, SpecTypeOK
<1>8. Faithful' /\ Checked'
  <2>1. \A p \in Pods : ~ Charging(p)'
    BY <1>5 DEF Charging, Serving
  <2>2. \A n \in Namespaces : version[n] \in Nat /\ version[n] >= 1 /\ latest'[n] = NoQuota
    BY DEF Restart, IInv, TypeOK, Faithful
  <2>3. \A n \in Namespaces : Copy(seen[n], n)' /\ Copy(latest[n], n)'
    BY <1>1, <2>2 DEF IInv, Faithful, Copy, NoQuota
  <2> QED BY <1>1, <2>1, <2>2, <2>3 DEF Faithful, Checked
<1>9. Tried' /\ Recounted'
  BY <1>2, <1>4, <1>5 DEF Tried, Recounted, Serving
<1> QED BY <1>7, <1>8, <1>9 DEF IInv

LEMMA NextInvariant == ASSUME IInv, [Next]_vars PROVE IInv'
<1>1. ASSUME NEW p \in Pods, Review(p) \/ Request(p) \/ Plugin(p) \/ StorePod(p) \/ Leave(p)
      PROVE  IInv'
  BY <1>1, CheckInvariant, SubmitInvariant, StoreInvariant, PodInvariant DEF Plugin
<1>2. ASSUME NEW n \in Namespaces,
             InformRQ(n) \/ InformManager(n) \/ RecountRead(n) \/ SyncEntry(n)
      PROVE  IInv'
  BY <1>2, InformInvariant, RecountReadInvariant, SyncEntryInvariant
<1>3. CASE InformPods \/ RecountSubmit \/ RecountStore \/ Restart
  BY <1>3, InformInvariant, RecountSubmitInvariant, RecountStoreInvariant, RestartInvariant
<1>4. CASE UNCHANGED vars
  BY <1>4
  DEF vars, quotaVars, requestVars, IInv, TypeOK, QuotaTypeOK, SpecTypeOK, Faithful, Copy,
      Charging, Checked, Tried, Recounted, Of
<1> QED BY <1>1, <1>2, <1>3, <1>4 DEF Next

LEMMA SpecInvariant == Spec => []IInv
<1> QED BY InitInvariant, NextInvariant, PTL DEF Spec
-----------------------------------------------------------------------------
(* THE REFINEMENT *)

LEMMA CheckStep ==
  ASSUME IInv, NEW p \in Pods, Review(p) \/ Retry(p)
  PROVE  Create(p) \/ UNCHANGED quotaVars
<1>1. PICK answer : /\ Answered(p, answer)
                    /\ answer = "allowed" => CheckRequest(p) = "allowed"
  BY CreateAnswers DEF Review, Retry
<1>2. p \notin pods
  BY DEF Review, Retry, IInv, TypeOK
<1>3. CASE answer = "allowed"
  <2>1. Matches(quota, kinds[p]) = "no"
    BY <1>1, <1>3, CheckAnswers
  <2> QED BY <1>1, <1>2, <1>3, <2>1 DEF Answered, Create, specVars
<1>4. CASE answer # "allowed"
  BY <1>1, <1>4 DEF Answered, quotaVars, specVars
<1> QED BY <1>3, <1>4

(* A charge that the API server stores adds one pod to the usage stored at that
   moment: the copy it was made from carries the stored version. *)
LEMMA StoreStep ==
  ASSUME IInv, NEW p \in Pods, Store(p)
  PROVE  Create(p) \/ ChargeLost(home[p]) \/ UNCHANGED quotaVars
<1>1. Charging(p) /\ p \notin pods
  BY DEF Store, Charging, IInv, TypeOK
<1>2. CASE UNCHANGED <<used, version, latest, pods>>
  BY <1>2 DEF Store, quotaVars, specVars
<1>3. CASE /\ Current(Charge(p), home[p]) /\ StoreStatus(Charge(p), home[p])
           /\ pods' \in {pods \cup {p}, pods}
  <2>1. snap[p].version = version[home[p]] /\ used' = [used EXCEPT ![home[p]] = snap[p].used + 1]
    BY <1>1, <1>3, ChargeType DEF Current, StoreStatus, fromQuota
  <2>2. snap[p].used = used[home[p]]
    BY <1>1, <2>1 DEF IInv, Faithful, Copy
  <2>3. Matches(quota, kinds[p]) = "yes" /\ used[home[p]] + 1 =< hard
    BY <1>1, <2>2 DEF IInv, Checked
  <2>4. used' = [used EXCEPT ![home[p]] = @ + 1] /\ UNCHANGED <<specVars, exact>>
    BY <2>1, <2>2 DEF Store
  <2>5. CASE pods' = pods \cup {p}
    BY <1>1, <2>3, <2>4, <2>5 DEF Create
  <2>6. CASE UNCHANGED pods
    BY <2>3, <2>4, <2>6 DEF ChargeLost
  <2> QED BY <1>3, <2>5, <2>6
<1> QED BY <1>2, <1>3 DEF Store

LEMMA RecountStep ==
  ASSUME IInv, RecountStore
  PROVE  \/ \E n \in Namespaces : \E S \in SUBSET Of(n, Pods) : Recalculate(n, S)
         \/ UNCHANGED quotaVars
<1>1. /\ recount.ns \in Namespaces /\ recount.pods \in SUBSET Of(recount.ns, Pods)
      /\ recount.quota.used \in UsageStats(quota, kinds, recount.pods)
  BY DEF IInv, TypeOK, Recounts, Recounted, RecountStore
<1>2. CASE UNCHANGED <<used, version, exact>>
  BY <1>2 DEF RecountStore, quotaVars, specVars
<1>3. CASE /\ StoreStatus(recount.quota, recount.ns)
           /\ exact' = (exact /\ Of(recount.ns, pods) \subseteq recount.pods)
  <2>1. Recalculate(recount.ns, recount.pods)
    BY <1>1, <1>3 DEF RecountStore, StoreStatus, fromQuota, Recalculate
  <2> QED BY <1>1, <2>1
<1> QED BY <1>2, <1>3 DEF RecountStore

(* Every step of plugin, controller and API server creates one pod within the
   limit of the stored usage, deletes one, recalculates one usage, or changes
   nothing that PodQuota speaks of. *)
LEMMA NextRefines ==
  ASSUME IInv, [Next]_vars
  PROVE  [QuotaNext]_quotaVars
<1>1. ASSUME NEW p \in Pods, Review(p) \/ Request(p) \/ Plugin(p) \/ StorePod(p) \/ Leave(p)
      PROVE  [QuotaNext]_quotaVars
  <2>1. CASE Review(p) \/ Retry(p)
    BY <2>1, CheckStep DEF QuotaNext
  <2>2. CASE Submit(p)
    <3>1. UNCHANGED <<hard, used>>
      BY <2>2 DEF Submit, Reserve, Ledger!Reserve, Uncounted
    <3> QED BY <2>2, <3>1 DEF Submit, quotaVars
  <2>3. CASE Store(p)
    <3>1. home[p] \in Namespaces
      BY DEF IInv, TypeOK, QuotaTypeOK, SpecTypeOK
    <3> QED BY <2>3, <3>1, StoreStep DEF QuotaNext
  <2>4. CASE StorePod(p)
    BY <2>4 DEF StorePod
  <2>5. CASE Leave(p) \/ Request(p)
    <3>1. p \in pods
      BY <2>5 DEF Leave, Request, IInv, TypeOK
    <3>2. Delete(p) \/ UNCHANGED quotaVars
      BY <2>5, <3>1 DEF Leave, Request, Delete, quotaVars, specVars
    <3> QED BY <3>2 DEF QuotaNext
  <2> QED BY <1>1, <2>1, <2>2, <2>3, <2>4, <2>5 DEF Plugin
<1>2. CASE RecountSubmit
  <2>1. UNCHANGED <<hard, used>>
    BY <1>2 DEF RecountSubmit, Reserve, Ledger!Reserve, Uncounted
  <2> QED BY <1>2, <2>1 DEF RecountSubmit, quotaVars
<1>3. CASE RecountStore
  BY <1>3, RecountStep DEF QuotaNext
<1>4. CASE \/ \E n \in Namespaces :
                InformRQ(n) \/ InformManager(n) \/ RecountRead(n) \/ SyncEntry(n)
           \/ InformPods \/ Restart \/ UNCHANGED vars
  BY <1>4 DEF InformRQ, InformManager, RecountRead, SyncEntry, InformPods, Restart, vars
<1> QED BY <1>1, <1>2, <1>3, <1>4 DEF Next

(* Every variable keeps its type; no request is tried more often than the
   plugin does, and no sum beyond the bound is reserved. *)
THEOREM ChargeTypes == Spec => []TypeOK
<1>1. IInv => TypeOK
  BY DEF IInv
<1> QED BY <1>1, SpecInvariant, PTL

(* Plugin and controller, whose client and informer are this repository's
   adaptors, implement PodQuota: versions pass both conversions unharmed, and
   no update that was computed from an old copy is stored. *)
THEOREM ChargesImplementPodQuota == Spec => ImplementsPodQuota
<1>1. Init => QuotaInit
  BY DEF Init
<1>2. IInv /\ [Next]_vars => [QuotaNext]_quotaVars
  BY NextRefines
<1> QED BY <1>1, <1>2, SpecInvariant, PTL DEF Spec, ImplementsPodQuota, QuotaSpec

(* With the evaluator's agreement (NodeQuotaEnforced), pods of a NodeSelector
   quota are admitted within its limit, however plugin, controller, deletions
   and deliveries interleave. *)
THEOREM ChargesWithinHard ==
  ASSUME NodeScoped
  PROVE  Spec => CreatedWithinHard
<1> QED BY ChargesImplementPodQuota, NodeQuotaEnforced, PTL DEF ImplementsPodQuota
-----------------------------------------------------------------------------
(* THE LIMIT OVER ALL THE NAMESPACES *)

OneAtATime ==
  \A p, q \in Pods : Serving(p) /\ Serving(q) /\ home[p] = home[q] => p = q

(* The history variable means what it says: the cache covers the pods. *)
Backed == exact /\ covered => Covers

(* While a charge is on its way to the API server all that has been let through
   is within the limit. *)
SumChecked ==
  exact /\ covered /\ (\E p \in Pods : pc[p] = "store")
    => Cardinality(Scoped(Taken)) =< hard

ClusterInv == IInv /\ OneAtATime /\ Backed /\ SumChecked

(* Pods that are counted namespace by namespace are no more than the units that
   the ledger adds up. *)
LEMMA TotalCovers ==
  ASSUME IInv, NEW u \in [Namespaces -> 0 .. MaxUsed], NEW S \in SUBSET Pods,
         \A n \in Namespaces : Cardinality(Of(n, S)) =< u[n]
  PROVE  /\ Cardinality(S) =< Ledger!Total(u)
         /\ Cardinality(S) \in Nat /\ Ledger!Total(u) \in Nat
<1> DEFINE F == [n \in Namespaces |->
                  CHOOSE f : f \in Bijection(Of(n, S), 1 .. Cardinality(Of(n, S)))]
           g == [p \in S |-> <<home[p], F[home[p]][p]>>]
           units == Ledger!Units(u)
<1>1. /\ home \in [Pods -> Namespaces] /\ u \in [Namespaces -> 0 .. MaxUsed]
      /\ MaxUsed \in Nat
  BY MaxUsedAssumption DEF IInv, TypeOK, QuotaTypeOK, SpecTypeOK
<1>2. ASSUME NEW n \in Namespaces
      PROVE  /\ F[n] \in Bijection(Of(n, S), 1 .. Cardinality(Of(n, S)))
             /\ Cardinality(Of(n, S)) \in Nat
  <2>1. IsFiniteSet(Of(n, S)) /\ Cardinality(Of(n, S)) \in Nat
    BY PodsAssumption, FS_Subset, FS_CardinalityType DEF Of
  <2>2. /\ IsFiniteSet(1 .. Cardinality(Of(n, S)))
        /\ Cardinality(1 .. Cardinality(Of(n, S))) = Cardinality(Of(n, S))
    BY <2>1, FS_Interval
  <2>3. \E f : f \in Bijection(Of(n, S), 1 .. Cardinality(Of(n, S)))
    BY <2>1, <2>2, FS_SameCardinalityBij DEF ExistsBijection
  <2> QED
    BY <2>1, <2>3
<1> HIDE DEF F
<1>3. ASSUME NEW p \in S
      PROVE  g[p] \in units
  <2>1. home[p] \in Namespaces /\ p \in Of(home[p], S)
    BY <1>1 DEF Of
  <2>2. F[home[p]][p] \in 1 .. Cardinality(Of(home[p], S))
    BY <1>2, <2>1 DEF Bijection, Injection
  <2>3. /\ u[home[p]] \in 0 .. MaxUsed /\ Cardinality(Of(home[p], S)) \in Nat
        /\ Cardinality(Of(home[p], S)) =< u[home[p]]
    BY <1>1, <1>2, <2>1
  <2>4. F[home[p]][p] \in 1 .. MaxUsed /\ F[home[p]][p] <= u[home[p]]
    BY <1>1, <2>2, <2>3
  <2> QED
    BY <2>1, <2>4 DEF Ledger!Units
<1>4. ASSUME NEW p \in S, NEW q \in S, g[p] = g[q]
      PROVE  p = q
  <2>1. home[p] = home[q] /\ F[home[p]][p] = F[home[p]][q]
    BY <1>4
  <2>2. p \in Of(home[p], S) /\ q \in Of(home[p], S) /\ home[p] \in Namespaces
    BY <1>1, <2>1 DEF Of
  <2> QED
    BY <1>2, <2>1, <2>2 DEF Bijection, Injection, IsInjective
<1>5. g \in Injection(S, units)
  BY <1>3, <1>4 DEF Injection, IsInjective
<1>6. IsFiniteSet(units)
  <2>1. IsFiniteSet(1 .. MaxUsed)
    BY <1>1, FS_Interval
  <2>2. IsFiniteSet(Namespaces \X (1 .. MaxUsed))
    BY <2>1, NamespacesAssumption, FS_Product
  <2> QED
    BY <2>2, FS_Subset DEF Ledger!Units
<1>7. Cardinality(S) =< Cardinality(units)
  BY <1>5, <1>6, FS_Injection
<1>8. Cardinality(units) = Ledger!Total(u)
  BY DEF Ledger!Total, Cardinality, Ledger!Cardinality
<1>9. Cardinality(S) \in Nat /\ Cardinality(units) \in Nat
  BY <1>6, PodsAssumption, FS_Subset, FS_CardinalityType
<1> QED
  BY <1>7, <1>8, <1>9

(* Fewer pods in the scopes count no more. *)
LEMMA ScopedCounts ==
  ASSUME NEW S \in SUBSET Pods, NEW T \in SUBSET Pods, Scoped(T) \subseteq Scoped(S), NEW n
  PROVE  /\ Counted(n, S) \in Nat /\ Counted(n, T) \in Nat
         /\ Counted(n, T) =< Counted(n, S)
<1>1. IsFiniteSet(Scoped(Of(n, S)))
  BY PodsAssumption, FS_Subset DEF Scoped, Of
<1>2. Scoped(Of(n, T)) \subseteq Scoped(Of(n, S))
  BY DEF Scoped, Of
<1> QED
  BY <1>1, <1>2, FS_Subset, FS_CardinalityType DEF Counted

LEMMA TakenType ==
  ASSUME IInv
  PROVE  /\ Taken \in SUBSET Pods /\ pods \in SUBSET Pods /\ pods \subseteq Taken
         /\ hard \in Nat
BY HardsAssumption DEF IInv, TypeOK, QuotaTypeOK, SpecTypeOK, Taken

(* A ledger that covers a set of pods, and is within the limit, bounds it. *)
LEMMA CoveredSum ==
  ASSUME IInv, NEW u \in [Namespaces -> 0 .. MaxUsed], NEW S \in SUBSET Pods,
         \A n \in Namespaces : Counted(n, S) =< u[n],
         ~ Ledger!Exceeds(Ledger!Total(u), hard)
  PROVE  Cardinality(Scoped(S)) =< hard
<1>1. Scoped(S) \in SUBSET Pods /\ hard \in Nat
  BY TakenType DEF Scoped
<1>2. \A n \in Namespaces : Cardinality(Of(n, Scoped(S))) =< u[n]
  <2>1. \A n : Of(n, Scoped(S)) = Scoped(Of(n, S))
    BY DEF Of, Scoped
  <2> QED BY <2>1 DEF Counted
<1>3. /\ Cardinality(Scoped(S)) =< Ledger!Total(u)
      /\ Cardinality(Scoped(S)) \in Nat /\ Ledger!Total(u) \in Nat
  BY <1>1, <1>2, TotalCovers
<1> QED BY <1>1, <1>3 DEF Ledger!Exceeds

LEMMA ScopedFewer ==
  ASSUME NEW S \in SUBSET Pods, NEW T \in SUBSET Pods, Scoped(T) \subseteq Scoped(S)
  PROVE  /\ Cardinality(Scoped(S)) \in Nat /\ Cardinality(Scoped(T)) \in Nat
         /\ Cardinality(Scoped(T)) =< Cardinality(Scoped(S))
<1>1. IsFiniteSet(Scoped(S))
  BY PodsAssumption, FS_Subset DEF Scoped
<1> QED BY <1>1, FS_Subset, FS_CardinalityType

(* The requests that the plugin works on. *)
LEMMA ServingStep ==
  ASSUME IInv, [Next]_vars
  PROVE  /\ UNCHANGED <<quota, hard, home, kinds>>
         /\ \A q \in Pods : Serving(q)' => Serving(q) \/ Review(q)
         /\ \A p \in Pods : Review(p) => \A q \in Pods \ {p} : pc'[q] = pc[q]
<1>1. pc \in [Pods -> {"new", "again", "update", "store", "allowed", "in", "out"}]
  BY DEF IInv, TypeOK
<1>2. UNCHANGED <<quota, hard, home, kinds>>
  BY NextRefines DEF QuotaNext, Create, ChargeLost, Delete, Recalculate, quotaVars, specVars
<1>3. ASSUME NEW p \in Pods, Review(p)
      PROVE  \A q \in Pods \ {p} : pc'[q] = pc[q]
  BY <1>1, <1>3 DEF Review, Answered, Return
<1>4. ASSUME NEW p \in Pods, Plugin(p) \/ Request(p) \/ StorePod(p) \/ Leave(p)
      PROVE  \A q \in Pods : Serving(q)' => Serving(q)
  <2>1. \A q \in Pods \ {p} : pc'[q] = pc[q]
    BY <1>1, <1>4
    DEF Plugin, Retry, Answered, Return, Submit, Store, Failed, Request, StorePod, Leave
  <2>2. Serving(p)' => Serving(p)
    <3>1. CASE Plugin(p)
      BY <3>1 DEF Plugin, Retry, Submit, Store, Serving
    <3>2. CASE Request(p) \/ StorePod(p) \/ Leave(p)
      BY <1>1, <3>2 DEF Request, StorePod, Leave, Serving
    <3> QED BY <1>4, <3>1, <3>2
  <2> QED BY <2>1, <2>2 DEF Serving
<1>5. CASE \/ \E n \in Namespaces :
                InformRQ(n) \/ InformManager(n) \/ RecountRead(n) \/ SyncEntry(n)
           \/ InformPods \/ RecountSubmit \/ RecountStore \/ UNCHANGED vars
  <2>1. pc' = pc
    BY <1>5 DEF InformRQ, InformManager, RecountRead, SyncEntry, InformPods, RecountSubmit,
                RecountStore, requestVars, vars
  <2> QED BY <1>1, <1>2, <1>3, <2>1 DEF Serving
<1>6. CASE Restart
  BY <1>1, <1>2, <1>3, <1>6, RestartServes
<1>7. ASSUME NEW p \in Pods, Review(p)
      PROVE  \A q \in Pods : Serving(q)' => Serving(q) \/ Review(q)
  BY <1>3, <1>7 DEF Serving
<1> QED BY <1>2, <1>3, <1>4, <1>5, <1>6, <1>7 DEF Next

LEMMA OneAtATimeStep ==
  ASSUME ClusterInv, [Next]_vars
  PROVE  OneAtATime'
<1>1. IInv /\ OneAtATime
  BY DEF ClusterInv
<1>2. ASSUME NEW p \in Pods, Review(p)
      PROVE  OneAtATime'
  <2>1. \A q \in Pods : Serving(q) => home[q] # home[p]
    BY <1>2 DEF Review, Busy, Serving
  <2>2. /\ home' = home
        /\ \A q \in Pods \ {p} : pc'[q] = pc[q]
    BY <1>1, <1>2, ServingStep
  <2> QED
    BY <1>1, <2>1, <2>2 DEF OneAtATime, Serving
<1>3. CASE \A p \in Pods : ~ Review(p)
  <2>1. home' = home /\ \A q \in Pods : Serving(q)' => Serving(q)
    BY <1>1, <1>3, ServingStep
  <2> QED
    BY <1>1, <2>1 DEF OneAtATime
<1> QED
  BY <1>2, <1>3

(* A step that changes no cache, and lets nothing through that counts. *)
LEMMA QuietStep ==
  ASSUME ClusterInv, IInv', UNCHANGED <<quota, hard, home, kinds, reserved, covered>>,
         exact' => exact, Scoped(Taken') \subseteq Scoped(Taken),
         \A p \in Pods : pc'[p] = "store" => \E q \in Pods : pc[q] = "store"
  PROVE  Backed' /\ SumChecked'
<1>1. \A n, S : Counted(n, S)' = Counted(n, S') /\ Scoped(S)' = Scoped(S') /\ Of(n, S)' = Of(n, S')
  BY DEF Counted, Scoped, Of, InScope
<1>2. /\ Taken \in SUBSET Pods /\ Taken' \in SUBSET Pods
  BY TakenType DEF ClusterInv, IInv, TypeOK, QuotaTypeOK, Taken
<1>3. Backed'
  <2>1. ASSUME exact', covered, NEW n \in Namespaces
        PROVE  Counted(n, Taken') =< reserved[n]
    <3>1. Counted(n, Taken) =< reserved[n]
      BY <2>1 DEF ClusterInv, Backed, Covers, Counted
    <3>2. /\ Counted(n, Taken) \in Nat /\ Counted(n, Taken') \in Nat
          /\ Counted(n, Taken') =< Counted(n, Taken)
      BY <1>2, ScopedCounts
    <3>3. reserved[n] \in Nat
      BY MaxUsedAssumption DEF ClusterInv, IInv, TypeOK
    <3> QED BY <3>1, <3>2, <3>3
  <2>2. ASSUME exact', covered' PROVE Covers'
    <3>1. \A n \in Namespaces : Cardinality(Scoped(Of(n, Taken'))) =< reserved'[n]
      BY <2>1, <2>2 DEF Counted
    <3> QED BY <1>1, <3>1 DEF Covers
  <2> QED BY <2>2 DEF Backed
<1>4. SumChecked'
  <2>1. /\ Cardinality(Scoped(Taken)) \in Nat /\ Cardinality(Scoped(Taken')) \in Nat
        /\ Cardinality(Scoped(Taken')) =< Cardinality(Scoped(Taken))
    BY <1>2, ScopedFewer
  <2>2. hard \in Nat
    BY TakenType DEF ClusterInv
  <2>3. ASSUME exact', covered', \E p \in Pods : pc'[p] = "store"
        PROVE  Cardinality(Scoped(Taken')) =< hard'
    BY <2>1, <2>2, <2>3 DEF ClusterInv, SumChecked
  <2> QED BY <1>1, <2>3 DEF SumChecked
<1> QED BY <1>3, <1>4

(* A change of the cache that is no charge: covered is looked at again. *)
LEMMA CacheStep ==
  ASSUME ClusterInv, IInv', UNCHANGED <<quota, hard, home, kinds, pods, exact>>, CoveredAfter,
         \/ pc' = pc
         \/ \A p \in Pods : pc'[p] # "store"
  PROVE  Backed' /\ SumChecked'
<1>1. Backed'
  BY DEF CoveredAfter, Backed
<1>2. ASSUME exact', covered', NEW p \in Pods, pc'[p] = "store"
      PROVE  Cardinality(Scoped(Taken))' =< hard'
  <2>1. pc' = pc /\ exact /\ covered
    BY <1>2 DEF CoveredAfter
  <2>2. Taken' = Taken /\ Scoped(Taken)' = Scoped(Taken)
    BY <2>1 DEF Taken, Scoped, InScope
  <2> QED BY <1>2, <2>1, <2>2 DEF ClusterInv, SumChecked
<1> QED BY <1>1, <1>2 DEF SumChecked

(* A charge that the webhook counts: reserved covers the pod with those that
   its namespace holds, since no other charge of the namespace is on its way. *)
LEMMA SubmitBacked ==
  ASSUME NodeScoped, ClusterInv, Covered, IInv', NEW p \in Pods, Submit(p)
  PROVE  Backed' /\ SumChecked'
<1> DEFINE n == home[p]
<1>1. /\ IInv /\ n \in Namespaces /\ Charging(p) /\ pc[p] = "update" /\ p \notin pods
      /\ pc \in [Pods -> {"new", "again", "update", "store", "allowed", "in", "out"}]
      /\ Charge(p).used = snap[p].used + 1 /\ Charge(p).version = snap[p].version
  <2>1. IInv /\ Charging(p)
    BY DEF ClusterInv, Submit, Charging
  <2> QED BY <2>1, ChargeType DEF IInv, TypeOK, Submit
<1>2. UNCHANGED <<quota, home, kinds, pods, exact>>
  BY DEF Submit
<1>3. \A m, S : Counted(m, S)' = Counted(m, S') /\ Scoped(S)' = Scoped(S')
  BY <1>2 DEF Counted, Scoped, Of, InScope
<1>4. CASE Failed(p) /\ UNCHANGED <<hard, used, reserved, covered>>
  <2>1. \A q \in Pods : pc'[q] = "store" => pc[q] = "store"
    BY <1>1, <1>4, FailedSteps
  <2>2. Scoped(Taken') \subseteq Scoped(Taken)
    BY <1>2, <2>1 DEF Taken, Scoped
  <2> QED BY <1>2, <1>4, <2>1, <2>2, QuietStep
<1>5. CASE covered' = FALSE
  BY <1>5 DEF Backed, SumChecked
<1>6. CASE /\ Current(Charge(p), n) /\ Reserve(n, Charge(p).used)
           /\ pc' = [pc EXCEPT ![p] = "store"] /\ UNCHANGED covered
  <2>1. /\ reserved' = [reserved EXCEPT ![n] = snap[p].used + 1] /\ UNCHANGED hard
        /\ ~ Ledger!Exceeds(Ledger!Total(reserved'), hard)
    BY <1>1, <1>6 DEF Reserve, Ledger!Reserve
  <2>2. snap[p].used = used[n]
    BY <1>1, <1>6 DEF Current, fromQuota, IInv, Faithful, Copy
  <2>3. Taken' = Taken \cup {p} /\ Taken' \in SUBSET Pods /\ pods \in SUBSET Pods
    BY <1>1, <1>2, <1>6, TakenType DEF Taken
  <2>4. reserved \in [Namespaces -> 0 .. MaxUsed] /\ reserved' \in [Namespaces -> 0 .. MaxUsed]
    BY <1>1 DEF IInv, TypeOK
  <2>5. ASSUME exact, covered, NEW m \in Namespaces
        PROVE  Counted(m, Taken') =< reserved'[m]
    <3>1. CASE m # n
      <4>1. Counted(m, Taken') = Counted(m, Taken)
        BY <2>3, <3>1 DEF Counted, Of
      <4>2. Counted(m, Taken) =< reserved[m]
        BY <2>5 DEF ClusterInv, Backed, Covers, Counted
      <4> QED BY <2>1, <2>4, <3>1, <4>1, <4>2
    <3>2. CASE m = n
      <4>1. Of(n, Taken') = Of(n, pods \cup {p})
        <5>1. ASSUME NEW q \in Pods, pc[q] = "store", home[q] = n
              PROVE  FALSE
          BY <1>1, <5>1 DEF ClusterInv, OneAtATime, Serving
        <5> QED BY <2>3, <5>1 DEF Taken, Of
      <4>2. Counted(n, Taken') = Counted(n, pods \cup {p})
        BY <4>1 DEF Counted
      <4>3. Counted(n, pods \cup {p}) = Counted(n, pods) + (IF n = home[p] /\ InScope(p) THEN 1 ELSE 0)
        BY <1>1, <2>3, CountOneMore
      <4>4. Counted(n, pods) \in Nat /\ Counted(n, pods) =< used[n] /\ used[n] \in Nat
        BY <1>1, <2>3, <2>5, ScopedCounts DEF Covered, QuotaTypeOK
      <4> QED BY <1>1, <2>1, <2>2, <2>4, <3>2, <4>2, <4>3, <4>4
    <3> QED BY <3>1, <3>2
  <2>6. Backed'
    <3>1. ASSUME exact, covered
          PROVE  \A m \in Namespaces : Cardinality(Scoped(Of(m, Taken)))' =< reserved'[m]
      BY <1>3, <2>5, <3>1 DEF Counted
    <3> QED BY <1>2, <1>6, <3>1 DEF Backed, Covers
  <2>7. SumChecked'
    <3>1. ASSUME exact, covered PROVE Cardinality(Scoped(Taken')) =< hard
      BY <1>1, <2>1, <2>3, <2>4, <2>5, <3>1, CoveredSum
    <3> QED BY <1>2, <1>3, <1>6, <2>1, <3>1 DEF SumChecked
  <2> QED BY <2>6, <2>7
<1> QED BY <1>4, <1>5, <1>6 DEF Submit

(* What is stored has been let through before, or its charge is given up. *)
LEMMA StoreBacked ==
  ASSUME ClusterInv, IInv', NEW p \in Pods, Store(p)
  PROVE  /\ Backed' /\ SumChecked'
         /\ pods' \subseteq Taken /\ exact' = exact /\ covered' = covered
<1>1. /\ IInv /\ pc[p] = "store"
      /\ pc \in [Pods -> {"new", "again", "update", "store", "allowed", "in", "out"}]
  BY DEF ClusterInv, IInv, TypeOK, Store
<1>2. UNCHANGED <<quota, hard, home, kinds, exact, reserved, covered>>
  BY DEF Store, specVars
<1>3. /\ pods' \subseteq pods \cup {p}
      /\ \A q \in Pods : pc'[q] = "store" => pc[q] = "store"
  BY <1>1 DEF Store, Failed, Return
<1>4. Taken' \subseteq Taken /\ pods' \subseteq Taken
  BY <1>1, <1>3 DEF Taken
<1>5. Scoped(Taken') \subseteq Scoped(Taken)
  BY <1>4 DEF Scoped
<1> QED BY <1>2, <1>3, <1>4, <1>5, QuietStep

(* A pod that is let in without a charge is in none of the scopes. *)
LEMMA CheckBacked ==
  ASSUME NodeScoped, ClusterInv, IInv', NEW p \in Pods, Review(p) \/ Retry(p)
  PROVE  /\ Backed' /\ SumChecked'
         /\ \A q \in pods' \ pods : ~ InScope(q)
<1>1. PICK answer : /\ Answered(p, answer)
                    /\ answer = "allowed" => CheckRequest(p) = "allowed"
  BY CreateAnswers DEF Review, Retry
<1>2. IInv /\ SpecTypeOK
      /\ pc \in [Pods -> {"new", "again", "update", "store", "allowed", "in", "out"}]
  BY DEF ClusterInv, IInv, TypeOK, QuotaTypeOK
<1>3. UNCHANGED <<quota, hard, home, kinds, exact, reserved, covered>>
  BY <1>1 DEF Answered, specVars
<1>4. \A q \in Pods : pc'[q] = "store" => pc[q] = "store"
  BY <1>1, <1>2 DEF Answered, Return
<1>5. \A q \in pods' \ pods : ~ InScope(q)
  <2>1. ASSUME answer = "allowed" PROVE ~ InScope(p)
    <3>1. Matches(quota, kinds[p]) = "no"
      BY <1>1, <2>1, CheckAnswers
    <3> QED BY <1>2, <3>1, MatchesIsInScope DEF Answer
  <2> QED BY <1>1, <2>1 DEF Answered
<1>6. Scoped(Taken') \subseteq Scoped(Taken)
  BY <1>4, <1>5 DEF Scoped, Taken
<1> QED BY <1>3, <1>4, <1>5, <1>6, QuietStep

LEMMA RecountSubmitBacked ==
  ASSUME ClusterInv, IInv', RecountSubmit
  PROVE  Backed' /\ SumChecked'
<1>1. UNCHANGED <<quota, home, kinds, pods, exact, pc>>
  BY DEF RecountSubmit, requestVars
<1>2. CASE UNCHANGED <<hard, reserved, covered>>
  <2>1. Scoped(Taken') \subseteq Scoped(Taken)
    BY <1>1 DEF Taken, Scoped
  <2> QED BY <1>1, <1>2, <2>1, QuietStep
<1>3. CASE UNCHANGED hard /\ CoveredAfter
  BY <1>1, <1>3, CacheStep
<1> QED BY <1>2, <1>3 DEF RecountSubmit, Reserve, Ledger!Reserve, Uncounted

LEMMA ClusterStep ==
  ASSUME NodeScoped, ClusterInv, Covered, [Next]_vars
  PROVE  ClusterInv'
<1>1. IInv /\ IInv'
  BY NextInvariant DEF ClusterInv
<1>2. ASSUME NEW p \in Pods, Request(p) \/ StorePod(p) \/ Leave(p)
      PROVE  Backed' /\ SumChecked'
  <2>1. UNCHANGED <<quota, hard, home, kinds, exact, reserved, covered>>
    BY <1>2 DEF Request, StorePod, Leave, quotaVars, specVars
  <2>2. pods' \subseteq pods /\ \A q \in Pods : pc'[q] = "store" => pc[q] = "store"
    <3>1. pc \in [Pods -> {"new", "again", "update", "store", "allowed", "in", "out"}]
      BY <1>1 DEF IInv, TypeOK
    <3> QED BY <1>2, <3>1 DEF Request, StorePod, Leave, quotaVars
  <2>3. Taken' \subseteq Taken
    BY <2>2 DEF Taken
  <2>4. Scoped(Taken') \subseteq Scoped(Taken)
    BY <2>3 DEF Scoped
  <2> QED BY <1>1, <2>1, <2>2, <2>4, QuietStep
<1>3. ASSUME \/ \E n \in Namespaces : InformRQ(n) \/ InformManager(n) \/ RecountRead(n)
             \/ InformPods \/ RecountStore \/ UNCHANGED vars
      PROVE  Backed' /\ SumChecked'
  <2>1. UNCHANGED <<quota, hard, home, kinds, pods, pc, reserved, covered>> /\ (exact' => exact)
    <3>1. CASE RecountStore
      <4>1. UNCHANGED <<quota, hard, home, kinds, pods, pc, reserved, covered>>
        BY <3>1 DEF RecountStore, specVars, requestVars
      <4>2. exact' = exact \/ exact' = (exact /\ Of(recount.ns, pods) \subseteq recount.pods)
        BY <3>1 DEF RecountStore
      <4>3. exact' => exact
        BY <4>2
      <4> QED BY <4>1, <4>3
    <3>2. CASE \E n \in Namespaces : InformRQ(n) \/ InformManager(n) \/ RecountRead(n)
      BY <3>2 DEF InformRQ, InformManager, RecountRead, quotaVars, requestVars
    <3>3. CASE InformPods \/ UNCHANGED vars
      BY <3>3 DEF InformPods, quotaVars, requestVars, vars
    <3> QED BY <1>3, <3>1, <3>2, <3>3
  <2>2. Taken' = Taken
    BY <2>1 DEF Taken
  <2>3. Scoped(Taken') \subseteq Scoped(Taken)
    BY <2>2
  <2>4. \A p \in Pods : pc'[p] = "store" => \E q \in Pods : pc[q] = "store"
    BY <2>1
  <2> QED BY <1>1, <2>1, <2>3, <2>4, QuietStep
<1>4. ASSUME Restart \/ \E n \in Namespaces : SyncEntry(n)
      PROVE  Backed' /\ SumChecked'
  <2>1. UNCHANGED <<quota, hard, home, kinds, pods, exact>> /\ CoveredAfter
    BY <1>4 DEF Restart, SyncEntry, quotaVars
  <2>2. pc' = pc \/ \A p \in Pods : pc'[p] # "store"
    BY <1>1, <1>4, RestartServes DEF SyncEntry, requestVars, Serving
  <2> QED BY <1>1, <2>1, <2>2, CacheStep
<1>5. Backed' /\ SumChecked'
  BY <1>1, <1>2, <1>3, <1>4, CheckBacked, SubmitBacked, StoreBacked, RecountSubmitBacked
  DEF Next, Plugin
<1> QED BY <1>1, <1>5, OneAtATimeStep DEF ClusterInv

LEMMA ClusterInit ==
  ASSUME NodeScoped, Init
  PROVE  ClusterInv
<1>1. IInv /\ quota \in Quotas /\ \A p \in Pods : pc[p] \in {"in", "new"}
  BY InitInvariant DEF Init, QuotaInit
<1>2. Taken = pods
  BY <1>1 DEF Taken
<1>3. ASSUME NEW n \in Namespaces
      PROVE  Cardinality(Scoped(Of(n, pods))) =< reserved[n]
  <2>1. used[n] \in UsageStats(quota, kinds, Of(n, pods)) /\ reserved = used
    BY DEF Init, QuotaInit
  <2>2. used[n] = Counted(n, pods)
    BY <1>1, <2>1, UsageIsInScope DEF Counted
  <2>3. used[n] \in Nat
    BY <1>1 DEF IInv, TypeOK, QuotaTypeOK
  <2> QED BY <2>1, <2>2, <2>3 DEF Counted
<1>4. Backed
  BY <1>2, <1>3 DEF Backed, Covers
<1>5. OneAtATime /\ SumChecked
  BY <1>1 DEF OneAtATime, Serving, SumChecked
<1> QED BY <1>1, <1>4, <1>5 DEF ClusterInv

LEMMA ClusterInvariant ==
  ASSUME NodeScoped
  PROVE  Spec => []ClusterInv
<1>1. QuotaSpec => []Covered
  BY CoveredInvariant
<1>2. Init => ClusterInv
  BY ClusterInit
<1>3. ClusterInv /\ Covered /\ [Next]_vars => ClusterInv'
  BY ClusterStep
<1> QED BY <1>1, <1>2, <1>3, ChargesImplementPodQuota, PTL DEF Spec, ImplementsPodQuota

(* The limit is one for all the namespaces: while no recalculation has missed a
   pod and the cache covers the pods, those in the scopes of a NodeSelector
   quota are within it, all the namespaces together, whenever one more is
   admitted.  The sum that the webhook of this repository checks
   (statusadmission.go:107) is what keeps charges of different namespaces, which
   no one serialises, from passing it together.  Nothing is said while the
   cache counts too little: after Sync has put an older usage back, a restart
   has emptied the cache, or an update has been let through because the cluster
   quota was not found; conflicts, retries, lost answers and failures of the API
   server do not matter. *)
THEOREM ChargesWithinClusterHard ==
  ASSUME NodeScoped
  PROVE  Spec => ClusterWithinHard
<1>1. ClusterInv /\ [Next]_vars =>
        [exact' /\ covered' => \A p \in pods' \ pods :
           InScope(p) => Cardinality(Scoped(pods')) =< hard]_vars
  <2> SUFFICES ASSUME ClusterInv, Next, exact', covered', NEW q \in pods' \ pods, InScope(q)
               PROVE  Cardinality(Scoped(pods')) =< hard
    OBVIOUS
  <2>1. IInv /\ IInv'
    BY NextInvariant DEF ClusterInv
  <2>2. ASSUME NEW p \in Pods, Store(p)
        PROVE  Cardinality(Scoped(pods')) =< hard
    <3>1. pods' \subseteq Taken /\ exact /\ covered /\ pc[p] = "store"
      BY <2>1, <2>2, StoreBacked DEF Store
    <3>2. Cardinality(Scoped(Taken)) =< hard /\ hard \in Nat
      BY <2>1, <3>1, TakenType DEF ClusterInv, SumChecked
    <3>3. Scoped(pods') \subseteq Scoped(Taken) /\ Taken \in SUBSET Pods /\ pods' \in SUBSET Pods
      BY <2>1, <3>1, TakenType DEF Scoped
    <3> QED BY <3>2, <3>3, ScopedFewer
  <2>3. ASSUME NEW p \in Pods, Review(p) \/ Retry(p)
        PROVE  FALSE
    BY <2>1, <2>3, CheckBacked
  <2>4. ASSUME NEW p \in Pods, Submit(p) \/ Request(p) \/ StorePod(p) \/ Leave(p)
        PROVE  FALSE
    BY <2>4 DEF Submit, Request, StorePod, Leave, quotaVars
  <2>5. CASE \/ \E n \in Namespaces :
                  InformRQ(n) \/ InformManager(n) \/ RecountRead(n) \/ SyncEntry(n)
             \/ InformPods \/ RecountSubmit \/ RecountStore \/ Restart
    BY <2>5 DEF InformRQ, InformManager, RecountRead, SyncEntry, InformPods, RecountSubmit,
                RecountStore, Restart, quotaVars
  <2> QED BY <2>2, <2>3, <2>4, <2>5 DEF Next, Plugin
<1> QED BY <1>1, ClusterInvariant, PTL DEF Spec, ClusterWithinHard
=============================================================================
