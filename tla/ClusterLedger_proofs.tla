------------------------ MODULE ClusterLedger_proofs ------------------------
(***************************************************************************)
(* Proofs about ClusterLedger, for any namespaces, limits and amounts.     *)
(***************************************************************************)
EXTENDS ClusterLedger, UsageTheorems

(* What the ledger is for: what the namespaces have reserved is together within
   the limit, in every state (statusadmission.go:107 tests each reservation). *)
LEMMA LedgerWithinHard == LedgerSpec => []ReservedWithinHard
<1>1. LedgerInit => ReservedWithinHard
  <2> SUFFICES ASSUME LedgerInit PROVE ReservedWithinHard
    OBVIOUS
  <2>1. Total(reserved) = 0
    BY TotalOfNothing DEF LedgerInit
  <2>2. hard # Unlimited => hard \in Nat
    BY LimitsAssumption DEF LedgerInit
  <2> QED BY <2>1, <2>2 DEF ReservedWithinHard, Exceeds
<1>2. ReservedWithinHard /\ [LedgerNext]_ledgerVars => ReservedWithinHard'
  <2> SUFFICES ASSUME ReservedWithinHard, [LedgerNext]_ledgerVars PROVE ReservedWithinHard'
    OBVIOUS
  <2>1. ASSUME NEW n \in Namespaces, Publish(n) PROVE ReservedWithinHard'
    BY <2>1 DEF Publish, ReservedWithinHard
  <2>2. ASSUME NEW n \in Namespaces, NEW amount \in Amounts, Reserve(n, amount)
        PROVE  ReservedWithinHard'
    BY <2>2 DEF Reserve, ReservedWithinHard
  <2>3. CASE UNCHANGED ledgerVars
    BY <2>3 DEF ledgerVars, ReservedWithinHard
  <2> QED BY <2>1, <2>2, <2>3 DEF LedgerNext
<1> QED BY <1>1, <1>2, PTL DEF LedgerSpec
=============================================================================
