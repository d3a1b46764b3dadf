--------------------------- MODULE MCTransferForm ----------------------------
(***************************************************************************)
(* An instance of TransferForm for TLC.  The user may open account 1, and  *)
(* account 2 is another's.                                                 *)
(***************************************************************************)
EXTENDS TransferForm, TLC

CONSTANTS l1, l2, p1, p2

MCCurrency == [a \in Accounts |-> "USD"]
MCIntents == {[from |-> 1, to |-> 2, amount |-> n] : n \in {1, 2}}
MCIncoming == {[from |-> 2, key |-> 1, to |-> 1, amount |-> 1]}

Slots == Permutations({l1, l2}) \union Permutations({p1, p2})
=============================================================================
