------------------------------- MODULE Ledger -------------------------------
(***************************************************************************)
(* What the bank promises about money, with no requests, locks or database *)
(* transactions in sight: accounts are opened with a deposit, and a        *)
(* transfer moves an amount between two open accounts of one currency in a *)
(* single step, at most once for every pair of a source account and an     *)
(* idempotency key.  Transfers.tla is shown to implement this module.      *)
(***************************************************************************)
EXTENDS Integers

CONSTANTS
  Accounts,      \* the account ids that can be generated
  Currencies,
  Currency,      \* the currency of the account with a given id
  Keys,          \* idempotency keys
  MaxSafe        \* currency.MaxSafeMinorUnits

VARIABLES
  open,          \* the accounts that exist
  balance,       \* their balances, in minor units
  moved          \* the transfers made: source, key, destination, amount

ledgerVars == <<open, balance, moved>>

Movement == [from : Accounts, key : Keys, to : Accounts, amount : 1 .. MaxSafe]

LedgerInit ==
  /\ open = {}
  /\ balance = [a \in Accounts |-> 0]
  /\ moved = {}

OpenAccount(a, deposit) ==
  /\ a \notin open
  /\ open' = open \union {a}
  /\ balance' = [balance EXCEPT ![a] = deposit]
  /\ UNCHANGED moved

\* A movement is made once: its source has not yet spent its key.
Fresh(m) == \A n \in moved : <<n.from, n.key>> # <<m.from, m.key>>

Move(m) ==
  /\ m.from # m.to
  /\ {m.from, m.to} \subseteq open
  /\ Currency[m.from] = Currency[m.to]
  /\ Fresh(m)
  /\ balance[m.from] >= m.amount
  /\ balance[m.to] + m.amount <= MaxSafe
  /\ balance' = [balance EXCEPT ![m.from] = @ - m.amount, ![m.to] = @ + m.amount]
  /\ moved' = moved \union {m}
  /\ UNCHANGED open

LedgerNext ==
  \/ \E a \in Accounts, deposit \in 0 .. MaxSafe : OpenAccount(a, deposit)
  \/ \E m \in Movement : Move(m)

LedgerSpec == LedgerInit /\ [][LedgerNext]_ledgerVars
=============================================================================
