---------------------------- MODULE MCTransfers -----------------------------
(***************************************************************************)
(* Instances of Transfers for TLC.  Accounts 1 and 2 are ann's and bob's   *)
(* USD accounts, 3 is ann's EUR account, 4 is never opened by a deposit.   *)
(***************************************************************************)
EXTENDS Transfers, TLC

CONSTANTS ann, bob, k1, k2, r1, r2, r3

MCOwner == [a \in Accounts |-> IF a \in {1, 3} THEN ann ELSE bob]
MCCurrency == [a \in Accounts |-> IF a = 3 THEN "EUR" ELSE "USD"]
MCMaxPerTransfer == [c \in Currencies |-> IF c = "USD" THEN 4 ELSE 0]
MCDailyLimit == [c \in Currencies |-> IF c = "USD" THEN 3 ELSE 0]
MCOpeningLimit == [c \in Currencies |-> 4]

Send(who, f, t, n, c, k) ==
  [caller |-> who, from |-> f, to |-> t, amount |-> n, currency |-> c, key |-> k]

\* A transfer and its retry, a second transfer from the same account, and a
\* transfer in the other direction.
RaceIntents ==
  {Send(ann, 1, 2, 2, "USD", k1), Send(ann, 1, 2, 3, "USD", k2),
   Send(bob, 2, 1, 2, "USD", k1)}

\* Every way a request can be turned away, two transfers that can succeed, and
\* the key of one of them with another amount.
EdgeIntents ==
  {Send(ann, 1, 2, 2, "USD", k1), Send(ann, 1, 2, 1, "USD", k1), Send(bob, 2, 1, 4, "USD", k1),
   Send(ann, 1, 1, 2, "USD", k1), Send(bob, 1, 2, 2, "USD", k1),
   Send(ann, 3, 2, 2, "USD", k1), Send(ann, 1, 3, 2, "USD", k1),
   Send(ann, 1, 2, 5, "USD", k1), Send(ann, 3, 2, 6, "EUR", k1)}

Attempts == Permutations({r1, r2, r3})
=============================================================================
