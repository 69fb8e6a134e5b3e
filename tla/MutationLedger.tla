--------------------------- MODULE MutationLedger ---------------------------
(***************************************************************************)
(* What the broker promises about Studio mutations, with no connection,    *)
(* queue or receipt in sight.  A multi-edit transaction is opened by the   *)
(* dispatch of its apply phase and settled by proof of its outcome.  At    *)
(* most one transaction is ever open: while an outcome is unproven, no     *)
(* other transaction may start to change the document.                     *)
(***************************************************************************)
CONSTANT Txn        \* identities of multi-edit transactions

VARIABLES open,     \* transactions dispatched to Studio, outcome unproven
          settled   \* transactions whose outcome has been proven

ledger == <<open, settled>>

Init == open = {} /\ settled = {}

Open(t) ==
  /\ open = {}
  /\ t \notin settled
  /\ open' = {t}
  /\ UNCHANGED settled

Settle(t) ==
  /\ t \in open
  /\ open' = open \ {t}
  /\ settled' = settled \cup {t}

Next == \E t \in Txn : Open(t) \/ Settle(t)

Spec == Init /\ [][Next]_ledger
=============================================================================
