---------------------------- MODULE UsageTheorems ----------------------------
(***************************************************************************)
(* What holds of the sum of the namespaces' usages.  The step of every     *)
(* proof about totals is TotalUpdate: one namespace changes, and the sum   *)
(* changes by the difference (quota.Subtract and quota.Add in validate).   *)
(***************************************************************************)
EXTENDS Usage, FiniteSetTheorems, TLAPS

UsageMaps == [Namespaces -> Amounts]

(* The units of a set of namespaces are finitely many. *)
LEMMA UnitsFinite ==
  ASSUME NEW u
  PROVE  IsFiniteSet(Units(u))
<1>1. IsFiniteSet(1 .. MaxUsed)
  BY MaxUsedAssumption, FS_Interval
<1>2. IsFiniteSet(Namespaces \X (1 .. MaxUsed))
  BY <1>1, NamespacesAssumption, FS_Product
<1>3. Units(u) \in SUBSET (Namespaces \X (1 .. MaxUsed))
  BY DEF Units
<1> QED
  BY <1>2, <1>3, FS_Subset

(* The sum is a natural number. *)
LEMMA TotalType ==
  ASSUME NEW u
  PROVE  Total(u) \in Nat
BY UnitsFinite, FS_CardinalityType DEF Total

(* Nothing in use: the sum is 0. *)
LEMMA TotalOfNothing == Total([n \in Namespaces |-> 0]) = 0
<1>1. Units([n \in Namespaces |-> 0]) = {}
  BY DEF Units
<1> QED
  BY <1>1, FS_EmptySet DEF Total

(* The units that namespace n holds. *)
UnitsOf(u, n) == {n} \X (1 .. u[n])

LEMMA UnitsOfCardinality ==
  ASSUME NEW u \in UsageMaps, NEW n \in Namespaces
  PROVE  IsFiniteSet(UnitsOf(u, n)) /\ Cardinality(UnitsOf(u, n)) = u[n]
<1>1. u[n] \in Nat
  BY MaxUsedAssumption DEF UsageMaps, Amounts
<1>2. IsFiniteSet(1 .. u[n]) /\ Cardinality(1 .. u[n]) = u[n]
  <2>1. 1 \in Int /\ u[n] \in Int
    BY <1>1
  <2>2. /\ IsFiniteSet(1 .. u[n])
        /\ Cardinality(1 .. u[n]) = IF 1 > u[n] THEN 0 ELSE u[n] - 1 + 1
    BY <2>1, FS_Interval, Zenon
  <2> QED
    BY <1>1, <2>2
<1>3. IsFiniteSet({n}) /\ Cardinality({n}) = 1
  BY FS_Singleton
<1>4. /\ IsFiniteSet({n} \X (1 .. u[n]))
      /\ Cardinality({n} \X (1 .. u[n])) = Cardinality({n}) * Cardinality(1 .. u[n])
  BY <1>2, <1>3, FS_Product
<1> QED
  BY <1>1, <1>2, <1>3, <1>4 DEF UnitsOf

(* The units of the others do not depend on what n uses. *)
Others(u, n) == {x \in Units(u) : x[1] # n}

LEMMA TotalSplit ==
  ASSUME NEW u \in UsageMaps, NEW n \in Namespaces
  PROVE  /\ IsFiniteSet(Others(u, n))
         /\ Total(u) = Cardinality(Others(u, n)) + u[n]
<1>1. IsFiniteSet(Others(u, n))
  BY UnitsFinite, FS_Subset DEF Others
<1>2. Units(u) = Others(u, n) \cup UnitsOf(u, n)
  <2>1. ASSUME NEW x \in Units(u), x[1] = n
        PROVE  x \in UnitsOf(u, n)
    BY <2>1 DEF Units, UnitsOf, UsageMaps, Amounts
  <2>2. UnitsOf(u, n) \subseteq Units(u)
    BY MaxUsedAssumption DEF Units, UnitsOf, UsageMaps, Amounts
  <2> QED
    BY <2>1, <2>2 DEF Others
<1>3. Others(u, n) \cap UnitsOf(u, n) = {}
  BY DEF Others, UnitsOf
<1>4. u[n] \in Nat /\ Cardinality(Others(u, n)) \in Nat
  BY <1>1, FS_CardinalityType, MaxUsedAssumption DEF UsageMaps, Amounts
<1>5. IsFiniteSet(UnitsOf(u, n)) /\ Cardinality(UnitsOf(u, n)) = u[n]
  BY UnitsOfCardinality
<1>6. Cardinality(Units(u)) = Cardinality(Others(u, n)) + u[n] - Cardinality({})
  BY <1>1, <1>2, <1>3, <1>5, FS_Union
<1> QED
  BY <1>1, <1>4, <1>6, FS_EmptySet DEF Total

(* One namespace changes: the sum changes by the difference. *)
LEMMA TotalUpdate ==
  ASSUME NEW u \in UsageMaps, NEW n \in Namespaces, NEW a \in Amounts
  PROVE  Total([u EXCEPT ![n] = a]) = Total(u) - u[n] + a
<1> DEFINE v == [u EXCEPT ![n] = a]
<1>1. v \in UsageMaps /\ v[n] = a
  BY DEF UsageMaps
<1>2. Others(v, n) = Others(u, n)
  BY DEF Others, Units, UsageMaps
<1>3. u[n] \in Nat /\ a \in Nat /\ Cardinality(Others(u, n)) \in Nat
  BY TotalSplit, FS_CardinalityType, MaxUsedAssumption DEF UsageMaps, Amounts
<1>4. Total(u) = Cardinality(Others(u, n)) + u[n]
  BY TotalSplit
<1>5. Total(v) = Cardinality(Others(v, n)) + v[n]
  BY <1>1, TotalSplit
<1> QED
  BY <1>1, <1>2, <1>3, <1>4, <1>5
=============================================================================
