---------------------------- MODULE ClusterLedger ----------------------------
(***************************************************************************)
(* What the admission of ResourceQuota status updates promises: one limit  *)
(* shared by the namespaces.  A namespace reserves a new usage in one      *)
(* atomic step that tests the sum over all the namespaces against the      *)
(* limit, and publishes it afterwards; nothing else changes what is        *)
(* reserved.                                                               *)
(***************************************************************************)
EXTENDS Usage

VARIABLES
  hard,       \* the limit that is enforced
  reserved,   \* the usage counted for each namespace
  published   \* the usage each namespace's ResourceQuota shows

ledgerVars == <<hard, reserved, published>>

LedgerTypeOK ==
  /\ hard \in Limits \cup {Unlimited}
  /\ reserved \in [Namespaces -> Amounts]
  /\ published \in [Namespaces -> Amounts]

LedgerInit ==
  /\ hard \in Limits \cup {Unlimited}
  /\ reserved = [n \in Namespaces |-> 0]
  /\ published = [n \in Namespaces |-> 0]

Reserve(n, amount) ==
  LET after == [reserved EXCEPT ![n] = amount] IN
  /\ ~ Exceeds(Total(after), hard)
  /\ reserved' = after
  /\ UNCHANGED <<hard, published>>

Publish(n) ==
  /\ published' = [published EXCEPT ![n] = reserved[n]]
  /\ UNCHANGED <<hard, reserved>>

LedgerNext ==
  \E n \in Namespaces : Publish(n) \/ \E amount \in Amounts : Reserve(n, amount)

LedgerSpec == LedgerInit /\ [][LedgerNext]_ledgerVars

(* The reserved usage of all the namespaces together never passes the limit. *)
ReservedWithinHard == ~ Exceeds(Total(reserved), hard)
=============================================================================
